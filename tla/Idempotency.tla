----------------------------- MODULE Idempotency -----------------------------
(***************************************************************************)
(* One idempotency key of the HTTP API (middleware/idempotency.ts) and the  *)
(* clients that send requests under it, each of which asks one question and *)
(* sends it again, a tick later, until it is answered or refused.           *)
(*                                                                         *)
(* The claim of a key is two statements: the insert, and the read of the    *)
(* row that was in its way; anything may happen between them, but a tick of *)
(* the clock, against which both are short.  Times are ages: of the row     *)
(* since its created_at, of a request since its arrival, which is the `now` *)
(* it stamps the row with.                                                  *)
(***************************************************************************)
EXTENDS Integers

CONSTANTS
  Clients,
  Asks,          \* [Clients -> [route, body]]: the question of each client
  NoClient,
  InFlight,      \* IN_FLIGHT_TIMEOUT_MS, in ticks
  Retain,        \* bound: ages stop here, where the purge begins
  SlowHandlers,  \* whether a handler may outrun InFlight
  MaxLosses      \* bound: handlers, statements and processes that fail

ASSUME IdempotencyAssumption ==
  /\ InFlight \in Nat /\ Retain \in Nat /\ InFlight < Retain
  /\ MaxLosses \in Nat /\ SlowHandlers \in BOOLEAN /\ NoClient \notin Clients

VARIABLES
  keyRow,      \* the row of idempotency_keys, or NoRow
  asked,       \* per client: where its request stands, how old it is, its answer
  losses,
  lapses       \* history: rows taken over or purged while a request was at work

idemVars == <<keyRow, asked, losses, lapses>>

NoRow == [state |-> "absent"]
Row(question, age) == [state |-> "held", question |-> question, age |-> age,
                       response |-> NoClient]
NewRequest == [at |-> "insert", age |-> 0, answer |-> NoClient]
Over(at) == [at |-> at, age |-> 0, answer |-> NoClient]

AtWork == {"insert", "read", "handler", "complete", "release"}
Final == {"answered", "refused"}

IdemInit ==
  /\ keyRow = NoRow /\ losses = 0 /\ lapses = 0
  /\ asked = [c \in Clients |-> Over("idle")]

Older(age) == IF age < Retain THEN age + 1 ELSE age
To(c, at) == asked' = [asked EXCEPT ![c].at = at]
Answered(c, by) == asked' = [asked EXCEPT ![c] = [at |-> "answered", age |-> 0, answer |-> by]]

-----------------------------------------------------------------------------
(* The two routes that spend, which require a key.  Their route strings make  *)
(* the question part of the key's contract, a challenge's with its task id.   *)
PostPrepare(c) ==
  /\ asked[c].at = "idle" /\ Asks[c].route = "prepare"
  /\ asked' = [asked EXCEPT ![c] = NewRequest]
  /\ UNCHANGED <<keyRow, losses, lapses>>

PostChallenge(c) ==
  /\ asked[c].at = "idle" /\ Asks[c].route = "challenge"
  /\ asked' = [asked EXCEPT ![c] = NewRequest]
  /\ UNCHANGED <<keyRow, losses, lapses>>

(* INSERT ... ON CONFLICT DO NOTHING, committed at once when it inserts.      *)
ClaimKey(c) ==
  /\ asked[c].at = "insert"
  /\ IF keyRow = NoRow
     THEN keyRow' = Row(Asks[c], asked[c].age) /\ To(c, "handler")
     ELSE To(c, "read") /\ UNCHANGED keyRow
  /\ UNCHANGED <<losses, lapses>>

(* Mutant: a key in flight is in flight for ever. *)
Lapsed_Never(row, request) == FALSE

(* An attempt as old as this died without answering.                          *)
Lapsed(row, request) == row.age - request.age > InFlight

(* Mutant: a key in flight keeps nobody out. *)
ReadKey_Trusting(c) ==
  /\ asked[c].at = "read"
  /\ IF keyRow # NoRow /\ keyRow.response # NoClient
     THEN Answered(c, keyRow.response)
     ELSE To(c, "handler")
  /\ UNCHANGED <<keyRow, losses, lapses>>

(* The row that was in the way, read FOR UPDATE.  It may be gone by now, and  *)
(* then the request runs without one.                                         *)
ReadKey(c) ==
  /\ asked[c].at = "read"
  /\ \/ /\ keyRow = NoRow
        /\ To(c, "handler") /\ UNCHANGED <<keyRow, lapses>>
     \/ /\ keyRow # NoRow /\ keyRow.question # Asks[c]
        /\ asked' = [asked EXCEPT ![c] = Over("refused")] /\ UNCHANGED <<keyRow, lapses>>
     \/ /\ keyRow # NoRow /\ keyRow.question = Asks[c] /\ keyRow.response # NoClient
        /\ Answered(c, keyRow.response) /\ UNCHANGED <<keyRow, lapses>>
     \/ /\ keyRow # NoRow /\ keyRow.question = Asks[c] /\ keyRow.response = NoClient
        /\ IF Lapsed(keyRow, asked[c])
           THEN /\ keyRow' = [keyRow EXCEPT !.age = asked[c].age]
                /\ To(c, "handler") /\ lapses' = 1
           ELSE /\ asked' = [asked EXCEPT ![c] = Over("waiting")]  \* 409, in flight
                /\ UNCHANGED <<keyRow, lapses>>
  /\ UNCHANGED losses

HandlerReturns(c) ==
  /\ asked[c].at = "handler" /\ To(c, "complete")
  /\ UNCHANGED <<keyRow, losses, lapses>>

(* UPDATE ... WHERE key: whoever's row it is by now, and none if it is gone.  *)
CompleteKey(c) ==
  /\ asked[c].at = "complete"
  /\ keyRow' = IF keyRow = NoRow THEN NoRow ELSE [keyRow EXCEPT !.response = c]
  /\ Answered(c, c)
  /\ UNCHANGED <<losses, lapses>>

(* The handler throws, or the statement that stores its answer does.          *)
HandlerThrows(c) ==
  /\ asked[c].at \in {"handler", "complete"} /\ losses < MaxLosses
  /\ To(c, "release") /\ losses' = losses + 1
  /\ UNCHANGED <<keyRow, lapses>>

(* A failed handler releases the key, whoever holds it, unless it is answered.*)
ReleaseKey(c) ==
  /\ asked[c].at = "release"
  /\ keyRow' = IF keyRow # NoRow /\ keyRow.response = NoClient THEN NoRow ELSE keyRow
  /\ asked' = [asked EXCEPT ![c] = Over("waiting")]
  /\ UNCHANGED <<losses, lapses>>

(* The release itself throws, and that is swallowed; or the process dies.     *)
ReleaseLost(c) ==
  /\ asked[c].at = "release" /\ losses < MaxLosses
  /\ asked' = [asked EXCEPT ![c] = Over("waiting")] /\ losses' = losses + 1
  /\ UNCHANGED <<keyRow, lapses>>

ApiDies ==
  /\ losses < MaxLosses /\ losses' = losses + 1
  /\ asked' = [c \in Clients |-> IF asked[c].at \in AtWork THEN Over("waiting") ELSE asked[c]]
  /\ UNCHANGED <<keyRow, lapses>>

(* Rows past the retention are deleted, answered or not.                      *)
PurgeKeys ==
  /\ keyRow # NoRow /\ keyRow.age = Retain
  /\ keyRow' = NoRow /\ lapses' = 1
  /\ UNCHANGED <<asked, losses>>

TimePasses ==
  /\ \/ keyRow # NoRow /\ keyRow.age < Retain
     \/ \E c \in Clients : asked[c].at = "waiting"
     \/ \E c \in Clients : asked[c].at \in AtWork /\ asked[c].age < Retain
  /\ \A c \in Clients : asked[c].at \notin {"insert", "read"}
  /\ SlowHandlers \/ \A c \in Clients : asked[c].at \in AtWork => asked[c].age < InFlight
  /\ keyRow' = IF keyRow = NoRow THEN NoRow ELSE [keyRow EXCEPT !.age = Older(@)]
  /\ asked' = [c \in Clients |->
                 CASE asked[c].at \in AtWork -> [asked[c] EXCEPT !.age = Older(@)]
                   [] asked[c].at = "waiting" -> Over("idle")
                   [] OTHER -> asked[c]]
  /\ UNCHANGED <<losses, lapses>>

(* withIdempotency: a request's own steps, which its promise always reaches.  *)
WithIdempotency(c) ==
  \/ PostPrepare(c) \/ PostChallenge(c) \/ ClaimKey(c) \/ ReadKey(c) \/ HandlerReturns(c)
  \/ CompleteKey(c) \/ ReleaseKey(c)

IdemNext ==
  \/ \E c \in Clients : WithIdempotency(c) \/ HandlerThrows(c) \/ ReleaseLost(c)
  \/ ApiDies \/ PurgeKeys \/ TimePasses

IdemSpec == IdemInit /\ [][IdemNext]_idemVars

-----------------------------------------------------------------------------
(* "The same key with the same body replays the stored response": as long as  *)
(* nothing failed and no attempt lapsed, everyone who asked one question      *)
(* under the key holds the answer of one and the same run of the handler.     *)
OneAnswerUnlessLost ==
  (losses = 0 /\ lapses = 0) =>
     \A c, d \in Clients :
        (asked[c].at = "answered" /\ asked[d].at = "answered") =>
           asked[c].answer = asked[d].answer

(* A key is never wedged: through crashes, releases and lapses, a client that *)
(* keeps sending its question is answered, or told that the key is another's. *)
EveryClientHears == \A c \in Clients : asked[c].at # "idle" ~> asked[c].at \in Final

(* "Serving the first answer to a second question is worse than an error":    *)
(* what a client is answered is the answer of a run of its own question.      *)
AnswersTheQuestion ==
  \A c \in Clients :
    asked[c].at = "answered" => Asks[asked[c].answer] = Asks[c]
=============================================================================

---------------------------- MODULE AccessProofs ----------------------------
(***************************************************************************)
(* Theorems about the way into the API: the idempotency keys of its writes *)
(* (Idempotency), the start and stop of its process (Server), its sessions *)
(* (SignIn), the tasks it pays for (Sponsor) and the tool that hands out   *)
(* its keys (Roles).                                                       *)
(***************************************************************************)
EXTENDS Services, Idempotency, Server, Roles, FiniteSetTheorems, SequenceTheorems, TLAPS

-----------------------------------------------------------------------------
(***************************************************************************)
(* The idempotency keys, for any number of clients and any questions:      *)
(* while nothing fails and no row is taken over or purged, whoever is      *)
(* answered under a key is answered by one and the same run.               *)
(***************************************************************************)

Questions == {Asks[c] : c \in Clients}
Replies == Clients \cup {NoClient}

(* The row, when there is one. *)
HeldRow == [state : {"held"}, question : Questions, age : Nat, response : Replies]

AskedRecord == [at : AtWork \cup Final \cup {"idle", "waiting"}, age : Nat, answer : Replies]

IdemTypeOK ==
  /\ keyRow \in HeldRow \cup {NoRow}
  /\ asked \in [Clients -> AskedRecord]
  /\ losses \in Nat /\ lapses \in {0, 1}

Untroubled == losses = 0 /\ lapses = 0

RunsFor(c) == asked[c].at \in {"handler", "complete"}

(* Without a row nobody is past the insert, and nobody releases one. *)
RowFirst ==
  /\ \A c \in Clients : asked[c].at # "release"
  /\ keyRow = NoRow =>
       \A c \in Clients : ~RunsFor(c) /\ asked[c].at \notin {"read", "answered"}

(* A row without an answer has one run at most, and nobody is answered yet. *)
OneRun ==
  (keyRow # NoRow /\ keyRow.response = NoClient) =>
     /\ \A c \in Clients : asked[c].at # "answered"
     /\ \A c, d \in Clients : RunsFor(c) /\ RunsFor(d) => c = d

(* A row with an answer ends all runs, and its answer is everybody's. *)
OneAnswer ==
  (keyRow # NoRow /\ keyRow.response # NoClient) =>
     \A c \in Clients :
        /\ ~RunsFor(c)
        /\ asked[c].at = "answered" => asked[c].answer = keyRow.response

KeyInv == Untroubled => RowFirst /\ OneRun /\ OneAnswer

IdemInv == IdemTypeOK /\ KeyInv

USE DEF Row, NewRequest, Over, NoRow, To, Answered, HeldRow, AskedRecord, Questions, Replies,
        AtWork, Final

LEMMA TypeStep == IdemTypeOK /\ [IdemNext]_idemVars => IdemTypeOK'
<1> SUFFICES ASSUME IdemTypeOK, [IdemNext]_idemVars PROVE IdemTypeOK'
  OBVIOUS
<1> USE IdempotencyAssumption DEF IdemTypeOK
<1>older. ASSUME NEW n \in Nat PROVE Older(n) \in Nat
  BY <1>older DEF Older
<1>1. ASSUME NEW c \in Clients, WithIdempotency(c) PROVE IdemTypeOK'
  <2>1. CASE PostPrepare(c) BY <2>1 DEF PostPrepare
  <2>2. CASE PostChallenge(c) BY <2>2 DEF PostChallenge
  <2>3. CASE ClaimKey(c) BY <2>3 DEF ClaimKey
  <2>4. CASE ReadKey(c) BY <2>4 DEF ReadKey
  <2>5. CASE HandlerReturns(c) BY <2>5 DEF HandlerReturns
  <2>6. CASE CompleteKey(c) BY <2>6 DEF CompleteKey
  <2>7. CASE ReleaseKey(c) BY <2>7 DEF ReleaseKey
  <2> QED BY <1>1, <2>1, <2>2, <2>3, <2>4, <2>5, <2>6, <2>7 DEF WithIdempotency
<1>2. ASSUME NEW c \in Clients, HandlerThrows(c) \/ ReleaseLost(c) PROVE IdemTypeOK'
  BY <1>2 DEF HandlerThrows, ReleaseLost
<1>3. CASE ApiDies BY <1>3 DEF ApiDies
<1>4. CASE PurgeKeys BY <1>4 DEF PurgeKeys
<1>5. CASE TimePasses
  <2>1. keyRow' \in HeldRow \cup {NoRow} BY <1>5, <1>older DEF TimePasses
  <2>2. asked' \in [Clients -> AskedRecord]
    BY <1>5, <1>older DEF TimePasses, AtWork
  <2> QED BY <1>5, <2>1, <2>2 DEF TimePasses
<1>6. CASE UNCHANGED idemVars BY <1>6 DEF idemVars
<1> QED BY <1>1, <1>2, <1>3, <1>4, <1>5, <1>6 DEF IdemNext

LEMMA KeyStep == IdemInv /\ [IdemNext]_idemVars => KeyInv'
<1> SUFFICES ASSUME IdemInv, [IdemNext]_idemVars, Untroubled'
             PROVE RowFirst' /\ OneRun' /\ OneAnswer'
  BY DEF KeyInv
<1> USE IdempotencyAssumption DEF RowFirst, OneRun, OneAnswer, RunsFor
<1>type. IdemTypeOK BY DEF IdemInv
\* A loss or a lapse is never forgotten.
<1>before. Untroubled
  BY <1>type DEF IdemTypeOK, Untroubled, IdemNext, WithIdempotency, idemVars, PostPrepare,
     PostChallenge, ClaimKey, ReadKey, HandlerReturns, CompleteKey, ReleaseKey,
     HandlerThrows, ReleaseLost, ApiDies, PurgeKeys, TimePasses
<1>inv. RowFirst /\ OneRun /\ OneAnswer BY <1>before DEF IdemInv, KeyInv
<1> USE DEF IdemTypeOK
<1>1. ASSUME NEW c \in Clients, WithIdempotency(c) PROVE RowFirst' /\ OneRun' /\ OneAnswer'
  <2>1. CASE PostPrepare(c) BY <2>1, <1>type, <1>inv DEF PostPrepare
  <2>2. CASE PostChallenge(c) BY <2>2, <1>type, <1>inv DEF PostChallenge
  <2>3. CASE ClaimKey(c) BY <2>3, <1>type, <1>inv DEF ClaimKey
  <2>4. CASE ReadKey(c) BY <2>4, <1>type, <1>inv, <1>before DEF ReadKey, Untroubled
  <2>5. CASE HandlerReturns(c) BY <2>5, <1>type, <1>inv DEF HandlerReturns
  <2>6. CASE CompleteKey(c) BY <2>6, <1>type, <1>inv DEF CompleteKey
  <2>7. CASE ReleaseKey(c) BY <2>7, <1>inv DEF ReleaseKey
  <2> QED BY <1>1, <2>1, <2>2, <2>3, <2>4, <2>5, <2>6, <2>7 DEF WithIdempotency
<1>2. ASSUME NEW c \in Clients PROVE ~HandlerThrows(c) /\ ~ReleaseLost(c)
  BY <1>type, <1>before DEF HandlerThrows, ReleaseLost, Untroubled
<1>3. ~ApiDies /\ ~PurgeKeys BY <1>type, <1>before DEF ApiDies, PurgeKeys, Untroubled
<1>4. CASE TimePasses
  <2>1. /\ keyRow' = NoRow <=> keyRow = NoRow
        /\ keyRow # NoRow => keyRow'.response = keyRow.response
    BY <1>4, <1>type DEF TimePasses
  <2>2. ASSUME NEW c \in Clients
        PROVE /\ asked'[c].at \in {asked[c].at, "idle"}
              /\ asked'[c].at = "answered" => asked'[c].answer = asked[c].answer
    BY <1>4, <1>type DEF TimePasses, AtWork
  <2> QED BY <2>1, <2>2, <1>inv
<1>5. CASE UNCHANGED idemVars BY <1>5, <1>inv DEF idemVars
<1> QED BY <1>1, <1>2, <1>3, <1>4, <1>5 DEF IdemNext

(* "The same key with the same body replays the stored response": one run      *)
(* answers everyone, as long as nothing fails and no attempt lapses.           *)
THEOREM Replayed == IdemSpec => []OneAnswerUnlessLost
<1>1. IdemInit => IdemInv
  BY IdempotencyAssumption
     DEF IdemInit, IdemInv, IdemTypeOK, KeyInv, RowFirst, OneRun, OneAnswer, RunsFor
<1>2. IdemInv /\ [IdemNext]_idemVars => IdemInv'
  BY TypeStep, KeyStep DEF IdemInv
<1>3. IdemInv => OneAnswerUnlessLost
  BY DEF IdemInv, KeyInv, IdemTypeOK, Untroubled, RowFirst, OneRun, OneAnswer,
     OneAnswerUnlessLost
<1> QED BY <1>1, <1>2, <1>3, PTL DEF IdemSpec

HIDE DEF Row, NewRequest, Over, NoRow, To, Answered, HeldRow, AskedRecord, Questions, Replies,
        AtWork, Final

-----------------------------------------------------------------------------
(***************************************************************************)
(* The server, for any number of connections and passes: when the pool of  *)
(* database clients is ending, no loop uses it, will use it again, or is   *)
(* cut short, and no request is being served.                              *)
(***************************************************************************)

Processes ==
  {"boot", "failed", "starting", "up", "closing", "stopping", "ending", "exited"}

ServerShape ==
  /\ process \in Processes
  /\ loop \in [Loops -> [armed : BOOLEAN, pass : BOOLEAN, stopping : BOOLEAN]]
  /\ request \in [Requests -> {"none", "open", "refused", "answered", "probing", "counting"}]

(* After the listener nothing is served, and no timer is set or set again.   *)
ListenerInv ==
  process \in {"stopping", "ending", "exited"} =>
    /\ Served = {}
    /\ \A l \in Loops : loop[l].stopping /\ ~loop[l].armed

(* After the loops none is in a pass, and so nothing is left to cut.         *)
LoopsInv == process \in {"ending", "exited"} => \A l \in Loops : ~loop[l].pass

DownInv == ServerShape /\ ListenerInv /\ LoopsInv /\ cut = {}

USE DEF Processes, Off, InPass, Served, Running

(* The process's own steps take it down in order. *)
LEMMA ProcessSteps ==
  ASSUME DownInv,
         \/ RefuseConfig \/ StartLoops \/ Listen \/ DieAtBoot
         \/ Signal \/ ListenerClosed \/ LoopsStopped \/ PoolEnded
  PROVE  DownInv'
<1> USE DEF DownInv
<1>1. CASE RefuseConfig \/ Listen \/ DieAtBoot \/ Signal
  BY <1>1 DEF RefuseConfig, Listen, DieAtBoot, Signal, ServerShape, ListenerInv, LoopsInv
<1>2. CASE StartLoops
  <2>1. PICK enabled \in SUBSET {"indexer", "orchestrator"} :
          loop' = [l \in Loops |->
            [Off EXCEPT !.armed = \/ l = "artifactSync" \/ l \in enabled
                                  \/ l = "keeper" /\ "orchestrator" \in enabled]]
    BY <1>2 DEF StartLoops
  <2> DEFINE Armed(l) ==
        \/ l = "artifactSync" \/ l \in enabled
        \/ l = "keeper" /\ "orchestrator" \in enabled
  <2>2. \A l \in Loops : Armed(l) \in BOOLEAN
    OBVIOUS
  <2>3. loop' = [l \in Loops |-> [Off EXCEPT !.armed = Armed(l)]]
    BY <2>1
  <2> HIDE DEF Armed
  <2>4. loop' \in [Loops -> [armed : BOOLEAN, pass : BOOLEAN, stopping : BOOLEAN]]
    BY <2>3, <2>2
  <2> QED BY <1>2, <2>4 DEF StartLoops, ServerShape, ListenerInv, LoopsInv
<1>3. CASE ListenerClosed
  BY <1>3 DEF ListenerClosed, ServerShape, ListenerInv, LoopsInv
<1>4. CASE LoopsStopped
  BY <1>4 DEF LoopsStopped, Stopped, ServerShape, ListenerInv, LoopsInv
<1>5. CASE PoolEnded
  BY <1>5 DEF PoolEnded, ServerShape, ListenerInv, LoopsInv
<1> QED BY <1>1, <1>2, <1>3, <1>4, <1>5

(* A pass ends without setting a timer that was cleared. *)
LEMMA LoopSteps ==
  ASSUME DownInv, NEW l \in Loops, PassBegins(l) \/ PassEnds(l)
  PROVE  DownInv'
<1> USE DEF DownInv
<1>1. ServerShape'
  <2>1. CASE PassBegins(l)
    <3>1. (l \notin Rearmed) \in BOOLEAN
      OBVIOUS
    <3> QED BY <2>1, <3>1 DEF ServerShape, PassBegins
  <2>2. CASE PassEnds(l)
    <3>1. (IF l \in Rearmed THEN ~loop[l].stopping ELSE loop[l].armed) \in BOOLEAN
      BY DEF ServerShape
    <3> QED BY <2>2, <3>1 DEF ServerShape, PassEnds
  <2> QED BY <2>1, <2>2
<1>2. ListenerInv' BY DEF ServerShape, ListenerInv, PassBegins, PassEnds
<1>3. LoopsInv' BY DEF ServerShape, ListenerInv, LoopsInv, PassBegins, PassEnds
<1> QED BY <1>1, <1>2, <1>3 DEF PassBegins, PassEnds

(* A connection is served only if it arrived while the server was up. *)
LEMMA RequestSteps ==
  ASSUME DownInv, NEW r \in Requests,
         \/ Arrive(r) \/ AnswerRequest(r) \/ ProbeHealth(r) \/ Probed(r)
         \/ ProbesOver(r) \/ AnswerHealth(r) \/ HangUp(r)
  PROVE  DownInv'
<1> USE DEF DownInv, Arrive, AnswerRequest, ProbeHealth, Probed, ProbesOver, AnswerHealth,
            HangUp
<1>1. UNCHANGED <<process, loop, cut>>
  OBVIOUS
<1>2. ServerShape' BY DEF ServerShape
<1>3. ListenerInv' BY <1>1 DEF ListenerInv, ServerShape
<1> QED BY <1>1, <1>2, <1>3 DEF LoopsInv

(* "The listener closes first so nothing new arrives, then the loops are       *)
(* allowed to finish the transaction each is holding" (server.ts).             *)
THEOREM NothingIsCut == ServerSpec => []NothingAfterPoolEnd
<1>1. ServerInit => DownInv
  BY DEF ServerInit, DownInv, ServerShape, ListenerInv, LoopsInv
<1>2. DownInv /\ [ServerNext]_serverVars => DownInv'
  <2> SUFFICES ASSUME DownInv, [ServerNext]_serverVars PROVE DownInv'
    OBVIOUS
  <2>1. CASE UNCHANGED serverVars
    BY <2>1 DEF serverVars, DownInv, ServerShape, ListenerInv, LoopsInv
  <2>2. CASE Housekeeping \/ PurgeEnds
    BY <2>2 DEF Housekeeping, PurgeEnds, DownInv, ServerShape, ListenerInv, LoopsInv
  <2> QED BY <2>1, <2>2, ProcessSteps, LoopSteps, RequestSteps DEF ServerNext
<1>3. DownInv => NothingAfterPoolEnd
  BY DEF DownInv, ListenerInv, LoopsInv, NothingAfterPoolEnd
<1> QED BY <1>1, <1>2, <1>3, PTL DEF ServerSpec

HIDE DEF Processes, Off, InPass, Served, Running

-----------------------------------------------------------------------------
(***************************************************************************)
(* Signing in, for any wallets, requests under way and lifetimes: a        *)
(* challenge gives one session, to the wallet that was challenged, and no  *)
(* page acts as another wallet than the connected one.                     *)
(***************************************************************************)

(* A nonce that will issue no session any more. *)
Spent(n) == n \in 0..browser.issued /\ (n \in DOMAIN nonces => nonces[n].consumed)

NoncesOK ==
  /\ DOMAIN nonces \subseteq 1..browser.issued
  /\ nonces = [n \in DOMAIN nonces |-> [owner |-> nonces[n].owner, consumed |-> nonces[n].consumed,
                                        expires |-> nonces[n].expires]]

SessionsOK ==
  \A t \in DOMAIN sessions :
    /\ t[1] = sessions[t].nonce /\ t[1] # 0 /\ Spent(t[1])
    /\ sessions[t] = [nonce |-> sessions[t].nonce, owner |-> sessions[t].owner,
                      revoked |-> sessions[t].revoked, expires |-> sessions[t].expires]

FlowOK ==
  /\ browser.issued \in Nat
  /\ browser = [wallet |-> browser.wallet, stored |-> browser.stored, flow |-> browser.flow,
                issued |-> browser.issued]
  /\ browser.flow.at \in {"challenged", "signed", "verifying"} =>
       /\ browser.flow = [at |-> browser.flow.at, account |-> browser.flow.account,
                          nonce |-> browser.flow.nonce]
       /\ browser.flow.nonce \in 1..browser.issued

(* A token that a request carries is spent, and of the wallet it was read for. *)
RequestOK(r) ==
  /\ r.kind \in {"none", "verify", "logout", "call"}
  /\ r.kind = "verify" =>
       /\ r = [kind |-> "verify", at |-> r.at, nonce |-> r.nonce, address |-> r.address,
               now |-> r.now, token |-> r.token]
       /\ r.nonce \in 1..browser.issued
       /\ r.at = "consume" /\ r.nonce \in DOMAIN nonces => nonces[r.nonce].owner = r.address
  /\ r.kind = "logout" => r = [kind |-> "logout", at |-> r.at, token |-> r.token]
  /\ r.kind = "call" =>
       /\ r = [kind |-> "call", at |-> r.at, token |-> r.token, body |-> r.body,
               now |-> r.now, acts |-> r.acts]
       /\ r.at \in {"resolve", "done"} /\ (r.at = "done" => r.acts = r.body)
       /\ Spent(r.token[1])
       /\ r.token \in DOMAIN sessions => sessions[r.token].owner = r.body

RequestsOK == \A q \in ChallengeSlots : RequestOK(inFlight[q])

SignInInv ==
  /\ NoncesOK /\ SessionsOK /\ FlowOK /\ RequestsOK
  /\ inFlight = [q \in ChallengeSlots |-> inFlight[q]]
  /\ OneSessionPerNonce

LEMMA SignInInitOK == SignInInit => SignInInv
<1> SUFFICES ASSUME SignInInit PROVE SignInInv
  OBVIOUS
<1>1. DOMAIN nonces = {} /\ DOMAIN sessions = {}
  BY DEF SignInInit
<1>2. NoncesOK /\ SessionsOK /\ FlowOK
  BY <1>1 DEF SignInInit, NoncesOK, SessionsOK, FlowOK, NoFlow
<1>3. RequestsOK
  BY DEF SignInInit, RequestsOK, RequestOK, Free
<1> QED
  BY <1>1, <1>2, <1>3 DEF SignInInv, SignInInit, OneSessionPerNonce

(* A spent nonce stays so, and what is known of a token that is spent.       *)
LEMMA Elsewhere ==
  ASSUME SignInInv, browser'.issued \in Nat, browser.issued <= browser'.issued,
         \A n \in 1..browser.issued : n \in DOMAIN nonces' =>
            /\ n \in DOMAIN nonces /\ nonces'[n].owner = nonces[n].owner
            /\ nonces[n].consumed => nonces'[n].consumed,
         \A t \in DOMAIN sessions' :
            \/ t \in DOMAIN sessions /\ sessions'[t].owner = sessions[t].owner
            \/ ~Spent(t[1]),
         DOMAIN nonces' \subseteq 1..browser'.issued
  PROVE  /\ \A n : Spent(n) => Spent(n)'
         /\ (\A q \in ChallengeSlots : inFlight'[q] # inFlight[q] => RequestOK(inFlight'[q]))
               => RequestsOK'
<1>1. \A n : Spent(n) => Spent(n)'
  BY DEF SignInInv, NoncesOK, FlowOK, Spent
<1>2. ASSUME NEW r, RequestOK(r) PROVE RequestOK(r)'
  <2>1. r.kind = "verify" => (r.nonce \in 1..browser'.issued /\
           (r.at = "consume" /\ r.nonce \in DOMAIN nonces' => nonces'[r.nonce].owner = r.address))
    BY <1>2 DEF RequestOK, SignInInv, FlowOK
  <2>2. r.kind = "call" => (Spent(r.token[1])' /\
          (r.token \in DOMAIN sessions' => sessions'[r.token].owner = r.body))
    BY <1>1, <1>2 DEF RequestOK
  <2> QED
    BY <1>2, <2>1, <2>2 DEF RequestOK
<1>3. ASSUME \A q \in ChallengeSlots : inFlight'[q] # inFlight[q] => RequestOK(inFlight'[q])
      PROVE  RequestsOK'
  <2>1. ASSUME NEW q \in ChallengeSlots PROVE RequestOK(inFlight[q])'
    <3>1. PICK r : r = inFlight'[q]
      OBVIOUS
    <3>2. RequestOK(r)
      <4>1. CASE inFlight'[q] = inFlight[q]
        BY <3>1, <4>1 DEF SignInInv, RequestsOK
      <4>2. CASE inFlight'[q] # inFlight[q]
        BY <1>3, <3>1, <4>2
      <4> QED
        BY <4>1, <4>2
    <3>3. RequestOK(r)'
      BY <1>2, <3>2
    <3> QED
      BY <3>1, <3>3 DEF RequestOK, Spent
  <2> QED
    BY <2>1 DEF RequestsOK
<1> QED
  BY <1>1, <1>3

(* What the browser remembers of the sign-in under way.                      *)
LEMMA FlowStands ==
  ASSUME FlowOK, NEW wallet, NEW stored, NEW flow,
         browser' = [wallet |-> wallet, stored |-> stored, flow |-> flow, issued |-> browser.issued],
         \/ flow = browser.flow
         \/ flow.at \in {"idle", "leaving"}
         \/ /\ browser.flow.at \in {"challenged", "signed", "verifying"}
            /\ flow.at \in {"signed", "verifying"} /\ flow = [browser.flow EXCEPT !.at = flow.at]
  PROVE  FlowOK' /\ browser'.issued = browser.issued
<1>1. /\ browser'.issued = browser.issued /\ browser'.flow = flow
      /\ browser' = [wallet |-> browser'.wallet, stored |-> browser'.stored, flow |-> browser'.flow,
                     issued |-> browser'.issued]
  OBVIOUS
<1>2. flow.at \in {"challenged", "signed", "verifying"} =>
        /\ flow = [at |-> flow.at, account |-> flow.account, nonce |-> flow.nonce]
        /\ flow.nonce \in 1..browser.issued
  <2>1. CASE flow = browser.flow
    BY <2>1 DEF FlowOK
  <2>2. CASE /\ browser.flow.at \in {"challenged", "signed", "verifying"}
             /\ flow = [browser.flow EXCEPT !.at = flow.at]
    BY <2>2 DEF FlowOK
  <2> QED
    BY <2>1, <2>2
<1> QED
  BY <1>1, <1>2 DEF FlowOK

(* The steps of the browser and of time leave the tables alone.               *)
LEMMA TablesStand ==
  ASSUME SignInInv, UNCHANGED <<nonces, sessions>>, browser'.issued = browser.issued, FlowOK',
         inFlight' = [q \in ChallengeSlots |-> inFlight'[q]],
         \A q \in ChallengeSlots : inFlight'[q] # inFlight[q] => RequestOK(inFlight'[q])
  PROVE  SignInInv'
<1>1. RequestsOK'
  BY Elsewhere DEF SignInInv, FlowOK, NoncesOK
<1>2. NoncesOK' /\ SessionsOK'
  BY DEF SignInInv, NoncesOK, SessionsOK, Spent
<1> QED
  BY <1>1, <1>2 DEF SignInInv, OneSessionPerNonce

(* A token is read for the wallet that signed for it.                        *)
LEMMA TokenIsTheirs ==
  ASSUME SignInInv, NEW wallet
  PROVE  LET token == TokenFor(wallet)
         IN  Spent(token[1]) /\ (token \in DOMAIN sessions => sessions[token].owner = wallet)
<1>1. NoToken \notin DOMAIN sessions /\ Spent(NoToken[1])
  BY DEF SignInInv, SessionsOK, NoToken, Spent, NoncesOK, FlowOK
<1>2. CASE TokenFor(wallet) = NoToken
  BY <1>1, <1>2
<1>3. CASE TokenFor(wallet) # NoToken
  <2>1. TokenFor(wallet) = ReadSession /\ OwnerOf(ReadSession) = wallet /\ wallet # NoWallet
    BY <1>3 DEF TokenFor
  <2>2. ReadSession \in DOMAIN sessions /\ sessions[ReadSession].owner = wallet
    BY <2>1 DEF OwnerOf
  <2> QED
    BY <2>1, <2>2 DEF SignInInv, SessionsOK
<1> QED
  BY <1>2, <1>3

LEMMA BrowserSteps ==
  ASSUME SignInInv,
         \/ \E wallet \in Wallets \cup {NoWallet} : SwitchAccount(wallet)
         \/ SignChallenge \/ DeclineChallenge \/ AuthTime
  PROVE  SignInInv'
<1>1. UNCHANGED <<nonces, sessions, inFlight>>
  BY DEF SwitchAccount, SignChallenge, DeclineChallenge, AuthTime
<1>2. FlowOK' /\ browser'.issued = browser.issued
  <2>1. FlowOK
    BY DEF SignInInv
  <2>2. PICK b : b = browser
    OBVIOUS
  <2>3. b = [wallet |-> b.wallet, stored |-> b.stored, flow |-> b.flow, issued |-> b.issued]
    BY <2>1, <2>2 DEF FlowOK
  <2>4. CASE \E wallet \in Wallets \cup {NoWallet} : SwitchAccount(wallet)
    <3>1. PICK wallet, stored : browser' = [b EXCEPT !.wallet = wallet, !.stored = stored]
      BY <2>2, <2>4 DEF SwitchAccount
    <3>2. browser' = [wallet |-> wallet, stored |-> stored, flow |-> b.flow, issued |-> b.issued]
      BY <2>3, <3>1
    <3> QED
      BY <2>1, <2>2, <3>2, FlowStands
  <2>5. CASE SignChallenge
    <3>1. PICK flow : flow = [b.flow EXCEPT !.at = "signed"]
      OBVIOUS
    <3>2. browser' = [wallet |-> b.wallet, stored |-> b.stored, flow |-> flow, issued |-> b.issued]
      BY <2>2, <2>3, <2>5, <3>1 DEF SignChallenge
    <3>3. b.flow.at = "challenged" /\ flow.at = "signed"
      BY <2>1, <2>2, <2>5, <3>1 DEF SignChallenge, FlowOK
    <3> QED
      BY <2>1, <2>2, <3>1, <3>2, <3>3, FlowStands
  <2>6. CASE DeclineChallenge
    <3>1. browser' = [wallet |-> b.wallet, stored |-> b.stored, flow |-> NoFlow, issued |-> b.issued]
      BY <2>2, <2>3, <2>6 DEF DeclineChallenge
    <3> QED
      BY <2>1, <2>2, <3>1, FlowStands DEF NoFlow
  <2>7. CASE AuthTime
    BY <2>1, <2>7 DEF AuthTime, FlowOK
  <2> QED
    BY <2>4, <2>5, <2>6, <2>7
<1> QED
  BY <1>1, <1>2, TablesStand DEF SignInInv

LEMMA CreateStep == ASSUME SignInInv, CreateChallenge PROVE SignInInv'
<1> DEFINE n == browser.issued + 1
<1>1. /\ nonces' = With(nonces, n, [owner |-> browser.wallet, consumed |-> FALSE,
                                    expires |-> authClock + NonceTtl])
      /\ browser' = [browser EXCEPT !.issued = n,
                       !.flow = [at |-> "challenged", account |-> browser.wallet, nonce |-> n]]
      /\ UNCHANGED <<sessions, inFlight>> /\ browser.issued \in Nat
  BY DEF CreateChallenge, SignInInv, FlowOK
<1>2. browser'.issued = n /\ FlowOK' /\ n \in Nat /\ n \notin 1..browser.issued
  <2>1. PICK b : b = browser
    OBVIOUS
  <2>2. b = [wallet |-> b.wallet, stored |-> b.stored, flow |-> b.flow, issued |-> b.issued]
    BY <2>1 DEF SignInInv, FlowOK
  <2>3. PICK flow : flow = [at |-> "challenged", account |-> b.wallet, nonce |-> n]
    OBVIOUS
  <2>4. browser' = [wallet |-> b.wallet, stored |-> b.stored, flow |-> flow, issued |-> n]
    BY <1>1, <2>1, <2>2, <2>3
  <2>5. n \in Nat /\ n \notin 1..browser.issued /\ n \in 1..n
    BY <1>1
  <2>6. flow = [at |-> flow.at, account |-> flow.account, nonce |-> flow.nonce] /\ flow.nonce = n
    BY <2>3
  <2> HIDE DEF n
  <2>7. browser'.issued = n /\ browser'.flow = flow
        /\ browser' = [wallet |-> browser'.wallet, stored |-> browser'.stored, flow |-> browser'.flow,
                       issued |-> browser'.issued]
    BY <2>4
  <2> QED
    BY <2>5, <2>6, <2>7 DEF FlowOK
<1>3. /\ DOMAIN nonces' = DOMAIN nonces \cup {n}
      /\ \A m \in DOMAIN nonces : m # n /\ nonces'[m] = nonces[m]
      /\ nonces'[n] = [owner |-> browser.wallet, consumed |-> FALSE, expires |-> authClock + NonceTtl]
  BY <1>1, <1>2 DEF With, SignInInv, NoncesOK
<1>4. NoncesOK'
  <2>1. DOMAIN nonces' \subseteq 1..browser'.issued
    BY <1>2, <1>3 DEF SignInInv, NoncesOK, FlowOK
  <2>2. \A m \in DOMAIN nonces : nonces[m] = [owner |-> nonces[m].owner, consumed |-> nonces[m].consumed,
                                              expires |-> nonces[m].expires]
    BY DEF SignInInv, NoncesOK
  <2>3. nonces' = [m \in DOMAIN nonces' |-> nonces'[m]]
    BY <1>1 DEF With
  <2> QED
    BY <1>3, <2>1, <2>2, <2>3 DEF NoncesOK
<1>5. (\A m : Spent(m) => Spent(m)') /\ RequestsOK'
  <2>1. browser.issued <= browser'.issued /\ browser'.issued \in Nat
    BY <1>1, <1>2
  <2>2. \A m \in 1..browser.issued : m \in DOMAIN nonces' =>
            /\ m \in DOMAIN nonces /\ nonces'[m].owner = nonces[m].owner
            /\ nonces[m].consumed => nonces'[m].consumed
    BY <1>2, <1>3
  <2> QED
    BY <1>1, <1>4, <2>1, <2>2, Elsewhere DEF NoncesOK
<1>6. SessionsOK'
  BY <1>1, <1>5 DEF SignInInv, SessionsOK
<1>8. \A s \in DOMAIN sessions : sessions[s].nonce \in DOMAIN nonces' =>
        nonces'[sessions[s].nonce].owner = sessions[s].owner
  <2>1. \A s \in DOMAIN sessions : sessions[s].nonce \in 0..browser.issued /\ sessions[s].nonce # n
    BY <1>1 DEF SignInInv, SessionsOK, Spent
  <2> QED
    BY <1>3, <2>1 DEF SignInInv, OneSessionPerNonce
<1> QED
  BY <1>1, <1>2, <1>4, <1>5, <1>6, <1>8 DEF SignInInv, OneSessionPerNonce

LEMMA SendSteps ==
  ASSUME SignInInv, NEW q \in ChallengeSlots, SendVerify(q) \/ SendLogout(q) \/ SendCall(q)
  PROVE  SignInInv'
<1>1. UNCHANGED <<nonces, sessions>>
  BY DEF SendVerify, SendLogout, SendCall
<1>2. FlowOK' /\ browser'.issued = browser.issued
  <2>1. FlowOK
    BY DEF SignInInv
  <2>2. PICK b : b = browser
    OBVIOUS
  <2>3. b = [wallet |-> b.wallet, stored |-> b.stored, flow |-> b.flow, issued |-> b.issued]
    BY <2>1, <2>2 DEF FlowOK
  <2>4. CASE SendVerify(q)
    <3>1. PICK flow : flow = [b.flow EXCEPT !.at = "verifying"]
      OBVIOUS
    <3>2. browser' = [wallet |-> b.wallet, stored |-> b.stored, flow |-> flow, issued |-> b.issued]
      BY <2>2, <2>3, <2>4, <3>1 DEF SendVerify
    <3>3. b.flow.at \in {"signed", "verifying"} /\ flow.at = "verifying"
      BY <2>1, <2>2, <2>4, <3>1 DEF SendVerify, FlowOK
    <3> QED
      BY <2>1, <2>2, <3>1, <3>2, <3>3, FlowStands
  <2>5. CASE SendLogout(q)
    <3>1. browser' = [wallet |-> b.wallet, stored |-> b.stored, flow |-> [at |-> "leaving"], issued |-> b.issued]
      BY <2>2, <2>3, <2>5 DEF SendLogout
    <3>2. PICK flow : flow = [at |-> "leaving"]
      OBVIOUS
    <3>3. flow.at = "leaving"
      BY <3>2
    <3> QED
      BY <2>1, <2>2, <3>1, <3>2, <3>3, FlowStands
  <2>6. CASE SendCall(q)
    BY <2>1, <2>6 DEF SendCall, FlowOK
  <2> QED
    BY <2>4, <2>5, <2>6
<1>3. PICK r : inFlight' = [inFlight EXCEPT ![q] = r] /\ RequestOK(r)
  <2>1. CASE SendVerify(q)
    <3>1. PICK r : r = [kind |-> "verify", at |-> "read", nonce |-> browser.flow.nonce,
                        address |-> browser.flow.account, now |-> authClock, token |-> NoToken]
      OBVIOUS
    <3>2. RequestOK(r)
      BY <2>1, <3>1 DEF SendVerify, RequestOK, SignInInv, FlowOK
    <3> QED
      BY <2>1, <3>1, <3>2 DEF SendVerify, Put
  <2>2. CASE SendLogout(q)
    <3>1. PICK r : r = [kind |-> "logout", at |-> "revoke", token |-> TokenFor(browser.wallet)]
      OBVIOUS
    <3>2. RequestOK(r)
      BY <3>1 DEF RequestOK
    <3> QED
      BY <2>2, <3>1, <3>2 DEF SendLogout, Put
  <2>3. CASE SendCall(q)
    <3>1. PICK r : r = [kind |-> "call", at |-> "resolve", token |-> TokenFor(browser.wallet),
                        body |-> browser.wallet, now |-> authClock, acts |-> NoWallet]
      OBVIOUS
    <3>2. RequestOK(r)
      BY <3>1, TokenIsTheirs DEF RequestOK
    <3> QED
      BY <2>3, <3>1, <3>2 DEF SendCall, Put
  <2> QED
    BY <2>1, <2>2, <2>3
<1>4. inFlight' = [p \in ChallengeSlots |-> inFlight'[p]]
      /\ \A p \in ChallengeSlots : inFlight'[p] # inFlight[p] => inFlight'[p] = r
  BY <1>3 DEF SignInInv
<1> QED
  BY <1>1, <1>2, <1>3, <1>4, TablesStand

LEMMA ServeSteps ==
  ASSUME SignInInv, NEW q \in ChallengeSlots, CheckChallenge(q) \/ ServeCall(q)
  PROVE  SignInInv'
<1>1. UNCHANGED <<nonces, sessions, browser>>
  BY DEF CheckChallenge, ServeCall
<1>2. FlowOK'
  BY <1>1 DEF SignInInv, FlowOK
<1>3. PICK old : old = inFlight[q] /\ RequestOK(old)
  BY DEF SignInInv, RequestsOK
<1>4. PICK r : inFlight' = [inFlight EXCEPT ![q] = r] /\ RequestOK(r)
  <2>1. CASE CheckChallenge(q)
    <3>1. PICK at : /\ at \in {"consume", "rejected"}
                    /\ at = "consume" => Acceptable(old.nonce, old.address, old.now)
                    /\ inFlight' = [inFlight EXCEPT ![q] = [old EXCEPT !.at = at]]
      BY <1>3, <2>1 DEF CheckChallenge, Put
    <3>2. PICK r : r = [old EXCEPT !.at = at]
      OBVIOUS
    <3>3. old.kind = "verify"
      BY <1>3, <2>1 DEF CheckChallenge
    <3>4. r = [kind |-> "verify", at |-> at, nonce |-> old.nonce, address |-> old.address,
               now |-> old.now, token |-> old.token]
      BY <1>3, <3>2, <3>3 DEF RequestOK
    <3>5. RequestOK(r)
      BY <1>3, <3>1, <3>3, <3>4 DEF RequestOK, Acceptable
    <3> QED
      BY <3>1, <3>2, <3>5
  <2>2. CASE ServeCall(q)
    <3>1. PICK acts : /\ acts = ActingAddress(ResolveSession(old.token, old.now), old.body)
                      /\ inFlight' = [inFlight EXCEPT ![q] = [old EXCEPT !.at = "done", !.acts = acts]]
      BY <1>3, <2>2 DEF ServeCall, Put
    <3>2. PICK r : r = [old EXCEPT !.at = "done", !.acts = acts]
      OBVIOUS
    <3>3. old.kind = "call"
      BY <1>3, <2>2 DEF ServeCall
    <3>4. r = [kind |-> "call", at |-> "done", token |-> old.token, body |-> old.body,
               now |-> old.now, acts |-> acts]
      BY <1>3, <3>2, <3>3 DEF RequestOK
    <3>5. acts = old.body
      BY <1>3, <3>1, <3>3 DEF RequestOK, ResolveSession, ActingAddress
    <3>6. RequestOK(r)
      BY <1>3, <3>3, <3>4, <3>5 DEF RequestOK
    <3> QED
      BY <3>1, <3>2, <3>6
  <2> QED
    BY <2>1, <2>2
<1>5. inFlight' = [p \in ChallengeSlots |-> inFlight'[p]]
      /\ \A p \in ChallengeSlots : inFlight'[p] # inFlight[p] => inFlight'[p] = r
  BY <1>4 DEF SignInInv
<1> QED
  BY <1>1, <1>2, <1>4, <1>5, TablesStand

LEMMA HearSteps ==
  ASSUME SignInInv, NEW q \in ChallengeSlots, HearVerify(q) \/ HearOther(q) \/ LoseRequest(q)
  PROVE  SignInInv'
<1>1. UNCHANGED <<nonces, sessions>> /\ inFlight' = [inFlight EXCEPT ![q] = Free]
  BY DEF HearVerify, HearOther, LoseRequest, Put
<1>2. PICK b : b = browser
  OBVIOUS
<1>3. \E token : browser' \in {b, [b EXCEPT !.flow = NoFlow],
                               [b EXCEPT !.flow = NoFlow, !.stored = token]}
  <2>1. CASE HearVerify(q)
    BY <1>2, <2>1 DEF HearVerify
  <2>2. CASE HearOther(q)
    BY <1>2, <2>2 DEF HearOther
  <2>3. CASE LoseRequest(q)
    BY <1>2, <2>3 DEF LoseRequest
  <2> QED
    BY <2>1, <2>2, <2>3
<1>4. PICK stored, flow : /\ flow \in {b.flow, NoFlow}
                          /\ browser' = [wallet |-> b.wallet, stored |-> stored, flow |-> flow, issued |-> b.issued]
  <2>1. b = [wallet |-> b.wallet, stored |-> b.stored, flow |-> b.flow, issued |-> b.issued]
    BY <1>2 DEF SignInInv, FlowOK
  <2>2. CASE browser' = b
    BY <2>1, <2>2
  <2>3. CASE browser' = [b EXCEPT !.flow = NoFlow]
    BY <2>1, <2>3
  <2>4. ASSUME NEW token, browser' = [b EXCEPT !.flow = NoFlow, !.stored = token]
        PROVE  browser' = [wallet |-> b.wallet, stored |-> token, flow |-> NoFlow, issued |-> b.issued]
    BY <2>1, <2>4
  <2> QED
    BY <1>3, <2>2, <2>3, <2>4
<1>5. FlowOK' /\ browser'.issued = browser.issued
  BY <1>2, <1>4, FlowStands DEF SignInInv, NoFlow
<1>6. RequestOK(Free)
  BY DEF RequestOK, Free
<1>7. inFlight' = [p \in ChallengeSlots |-> inFlight'[p]]
      /\ \A p \in ChallengeSlots : inFlight'[p] # inFlight[p] => inFlight'[p] = Free
  BY <1>1 DEF SignInInv
<1> QED
  BY <1>1, <1>5, <1>6, <1>7, TablesStand

(* The one step that issues a session spends its nonce.                      *)
LEMMA VerifyStep ==
  ASSUME SignInInv, NEW q \in ChallengeSlots, VerifyChallenge(q)
  PROVE  SignInInv'
<1>1. PICK old : old = inFlight[q] /\ RequestOK(old)
  BY DEF SignInInv, RequestsOK
<1>2. /\ old.kind = "verify" /\ old.at = "consume" /\ UNCHANGED browser
      /\ old.nonce \in 1..browser.issued
      /\ old.nonce \in DOMAIN nonces => nonces[old.nonce].owner = old.address
      /\ old = [kind |-> "verify", at |-> old.at, nonce |-> old.nonce, address |-> old.address,
                now |-> old.now, token |-> old.token]
  BY <1>1 DEF VerifyChallenge, RequestOK
<1>3. FlowOK' /\ browser'.issued = browser.issued /\ browser.issued \in Nat
  BY <1>2 DEF SignInInv, FlowOK
<1>4. CASE ~Unspent(old.nonce)
  <2>1. PICK r : r = [old EXCEPT !.at = "rejected"]
    OBVIOUS
  <2>2. inFlight' = [inFlight EXCEPT ![q] = r] /\ UNCHANGED <<nonces, sessions>>
    BY <1>1, <1>4, <2>1 DEF VerifyChallenge, Put
  <2>3. RequestOK(r)
    BY <1>2, <2>1 DEF RequestOK
  <2>4. inFlight' = [p \in ChallengeSlots |-> inFlight'[p]]
        /\ \A p \in ChallengeSlots : inFlight'[p] # inFlight[p] => inFlight'[p] = r
    BY <2>2 DEF SignInInv
  <2> QED
    BY <1>3, <2>2, <2>3, <2>4, TablesStand
<1>5. CASE Unspent(old.nonce)
  <2>1. PICK token : token = <<old.nonce, Cardinality(DOMAIN sessions)>>
    OBVIOUS
  <2>2. PICK n : n = old.nonce
    OBVIOUS
  <2>3. PICK ticket : ticket = [nonce |-> n, owner |-> old.address, revoked |-> FALSE,
                                  expires |-> old.now + SessionTtl]
    OBVIOUS
  <2>4. PICK r : r = [old EXCEPT !.at = "issued", !.token = token]
    OBVIOUS
  <2>5. /\ nonces' = [nonces EXCEPT ![n].consumed = TRUE]
        /\ sessions' = With(sessions, token, ticket)
        /\ inFlight' = [inFlight EXCEPT ![q] = r]
    BY <1>1, <1>5, <2>1, <2>2, <2>3, <2>4 DEF VerifyChallenge, Put
  <2>6. /\ n \in DOMAIN nonces /\ ~nonces[n].consumed /\ ~Spent(n) /\ token[1] = n
        /\ n \in 1..browser.issued /\ nonces[n].owner = old.address
    BY <1>2, <1>5, <2>1, <2>2 DEF Unspent, Spent
  <2>7. token \notin DOMAIN sessions /\ \A t \in DOMAIN sessions : sessions[t].nonce # n /\ t[1] # n
    BY <2>6 DEF SignInInv, SessionsOK
  <2>8. PICK line : line = [nonces[n] EXCEPT !.consumed = TRUE]
    OBVIOUS
  <2>9. /\ nonces' = [nonces EXCEPT ![n] = line] /\ line.owner = nonces[n].owner /\ line.consumed
        /\ line = [owner |-> line.owner, consumed |-> line.consumed, expires |-> line.expires]
    <3>1. nonces[n] = [owner |-> nonces[n].owner, consumed |-> nonces[n].consumed, expires |-> nonces[n].expires]
      BY <2>6 DEF SignInInv, NoncesOK
    <3> QED
      BY <2>5, <2>8, <3>1
  <2>10. /\ DOMAIN nonces' = DOMAIN nonces /\ nonces'[n] = line /\ nonces' = [m \in DOMAIN nonces |-> nonces'[m]]
         /\ \A m \in DOMAIN nonces : m # n => nonces'[m] = nonces[m]
    BY <2>6, <2>9 DEF SignInInv, NoncesOK
  <2>11. NoncesOK'
    <3>1. \A m \in DOMAIN nonces : nonces[m] = [owner |-> nonces[m].owner, consumed |-> nonces[m].consumed,
                                                expires |-> nonces[m].expires]
      BY DEF SignInInv, NoncesOK
    <3>3. \A m \in DOMAIN nonces' : nonces'[m] = [owner |-> nonces'[m].owner, consumed |-> nonces'[m].consumed,
                                                expires |-> nonces'[m].expires]
      BY <2>9, <2>10, <3>1
    <3>4. DOMAIN nonces' \subseteq 1..browser'.issued
      BY <1>3, <2>10 DEF SignInInv, NoncesOK
    <3> QED
      BY <2>10, <3>3, <3>4 DEF NoncesOK
  <2>12. /\ DOMAIN sessions' = DOMAIN sessions \cup {token} /\ sessions'[token] = ticket
         /\ \A t \in DOMAIN sessions : sessions'[t] = sessions[t]
    BY <2>5, <2>7 DEF With
  <2>13. /\ line.owner = nonces[n].owner /\ line.consumed /\ ticket.nonce = n /\ ticket.owner = old.address
         /\ ticket = [nonce |-> ticket.nonce, owner |-> ticket.owner, revoked |-> ticket.revoked,
                       expires |-> ticket.expires]
    BY <2>3, <2>9
  <2>14. RequestOK(r)
    BY <1>2, <2>4 DEF RequestOK
  <2>15. (\A m : Spent(m) => Spent(m)') /\ RequestsOK'
    <3>1. \A p \in ChallengeSlots : inFlight'[p] # inFlight[p] => RequestOK(inFlight'[p])
      <4>1. \A p \in ChallengeSlots : inFlight'[p] # inFlight[p] => inFlight'[p] = r
        BY <2>5 DEF SignInInv
      <4> QED
        BY <2>14, <4>1
    <3>2. browser'.issued \in Nat /\ browser.issued <= browser'.issued
      BY <1>3
    <3>3. \A m \in 1..browser.issued : m \in DOMAIN nonces' =>
            /\ m \in DOMAIN nonces /\ nonces'[m].owner = nonces[m].owner
            /\ nonces[m].consumed => nonces'[m].consumed
      BY <2>10, <2>13
    <3>4. \A t \in DOMAIN sessions' :
            (t \in DOMAIN sessions /\ sessions'[t].owner = sessions[t].owner) \/ ~Spent(t[1])
      BY <2>6, <2>12
    <3>5. DOMAIN nonces' \subseteq 1..browser'.issued
      BY <2>11 DEF NoncesOK
    <3> QED
      BY <3>1, <3>2, <3>3, <3>4, <3>5, Elsewhere
  <2>16. Spent(n)'
    BY <1>3, <2>6, <2>10, <2>13 DEF Spent
  <2>17. SessionsOK'
    <3>1. \A t \in DOMAIN sessions :
            /\ t[1] = sessions[t].nonce /\ t[1] # 0 /\ Spent(t[1])'
            /\ sessions[t] = [nonce |-> sessions[t].nonce, owner |-> sessions[t].owner,
                              revoked |-> sessions[t].revoked, expires |-> sessions[t].expires]
      BY <2>15 DEF SignInInv, SessionsOK
    <3>2. token[1] = ticket.nonce /\ token[1] # 0 /\ Spent(token[1])'
      BY <2>6, <2>13, <2>16
    <3> QED
      BY <2>12, <2>13, <3>1, <3>2 DEF SessionsOK
  <2>18. OneSessionPerNonce'
    <3>1. \A s, t \in DOMAIN sessions' : sessions'[s].nonce = sessions'[t].nonce => s = t
      BY <2>7, <2>12, <2>13 DEF SignInInv, OneSessionPerNonce
    <3>2. \A s \in DOMAIN sessions' : sessions'[s].nonce \in DOMAIN nonces' =>
            nonces'[sessions'[s].nonce].owner = sessions'[s].owner
      BY <2>6, <2>7, <2>10, <2>12, <2>13 DEF SignInInv, OneSessionPerNonce
    <3> QED
      BY <3>1, <3>2 DEF OneSessionPerNonce
  <2>19. inFlight' = [p \in ChallengeSlots |-> inFlight'[p]]
    BY <2>5 DEF SignInInv
  <2> QED
    BY <1>3, <2>11, <2>15, <2>17, <2>18, <2>19 DEF SignInInv
<1> QED
  BY <1>4, <1>5

(* A session that is revoked stays whose it is, and a row that is purged is no *)
(* other's.                                                                  *)
LEMMA RowsGoSteps ==
  ASSUME SignInInv, NoncesOK', UNCHANGED browser, DOMAIN nonces' \subseteq DOMAIN nonces,
         \A n \in DOMAIN nonces' : nonces'[n] = nonces[n],
         DOMAIN sessions' \subseteq DOMAIN sessions,
         \A t \in DOMAIN sessions' :
           /\ sessions'[t].nonce = sessions[t].nonce /\ sessions'[t].owner = sessions[t].owner
           /\ sessions'[t] = [nonce |-> sessions'[t].nonce, owner |-> sessions'[t].owner,
                              revoked |-> sessions'[t].revoked, expires |-> sessions'[t].expires],
         inFlight' = [q \in ChallengeSlots |-> inFlight'[q]],
         \A q \in ChallengeSlots : inFlight'[q] # inFlight[q] => RequestOK(inFlight'[q])
  PROVE  SignInInv'
<1>1. FlowOK' /\ browser'.issued = browser.issued /\ browser.issued \in Nat
  BY DEF SignInInv, FlowOK
<1>2. (\A n : Spent(n) => Spent(n)') /\ RequestsOK'
  BY <1>1, Elsewhere DEF NoncesOK
<1>3. SessionsOK'
  BY <1>2 DEF SignInInv, SessionsOK
<1>4. OneSessionPerNonce'
  BY DEF SignInInv, OneSessionPerNonce
<1> QED
  BY <1>1, <1>2, <1>3, <1>4 DEF SignInInv

LEMMA RevokeStep ==
  ASSUME SignInInv, NEW q \in ChallengeSlots, RevokeSession(q)
  PROVE  SignInInv'
<1>1. PICK old : old = inFlight[q] /\ RequestOK(old) /\ old.kind = "logout"
  BY DEF SignInInv, RequestsOK, RevokeSession
<1>2. PICK r : r = [old EXCEPT !.at = "done"]
  OBVIOUS
<1>3. RequestOK(r)
  BY <1>1, <1>2 DEF RequestOK
<1>4. inFlight' = [inFlight EXCEPT ![q] = r] /\ UNCHANGED <<nonces, browser>>
  BY <1>1, <1>2 DEF RevokeSession, Put
<1>5. /\ DOMAIN sessions' = DOMAIN sessions
      /\ \A t \in DOMAIN sessions : sessions'[t] \in {sessions[t], [sessions[t] EXCEPT !.revoked = TRUE]}
  BY DEF RevokeSession
<1>6. ASSUME NEW t \in DOMAIN sessions'
      PROVE  /\ sessions'[t].nonce = sessions[t].nonce /\ sessions'[t].owner = sessions[t].owner
             /\ sessions'[t] = [nonce |-> sessions'[t].nonce, owner |-> sessions'[t].owner,
                                revoked |-> sessions'[t].revoked, expires |-> sessions'[t].expires]
  <2>1. PICK ticket : ticket = sessions[t]
    OBVIOUS
  <2>2. ticket = [nonce |-> ticket.nonce, owner |-> ticket.owner,
                   revoked |-> ticket.revoked, expires |-> ticket.expires]
    BY <1>5, <2>1 DEF SignInInv, SessionsOK
  <2>3. CASE sessions'[t] = ticket
    BY <2>1, <2>2, <2>3
  <2>4. CASE sessions'[t] = [ticket EXCEPT !.revoked = TRUE]
    BY <2>1, <2>2, <2>4
  <2> QED
    BY <1>5, <2>1, <2>3, <2>4
<1>7. inFlight' = [p \in ChallengeSlots |-> inFlight'[p]]
      /\ \A p \in ChallengeSlots : inFlight'[p] # inFlight[p] => RequestOK(inFlight'[p])
  <2>1. \A p \in ChallengeSlots : inFlight'[p] # inFlight[p] => inFlight'[p] = r
    BY <1>4 DEF SignInInv
  <2> QED
    BY <1>3, <1>4, <2>1 DEF SignInInv
<1>8. NoncesOK'
  BY <1>4 DEF SignInInv, NoncesOK
<1> QED
  BY <1>4, <1>5, <1>6, <1>7, <1>8, RowsGoSteps

LEMMA PurgeStep == ASSUME SignInInv, PurgeExpiredAuth PROVE SignInInv'
<1>1. UNCHANGED <<browser, inFlight>>
  BY DEF PurgeExpiredAuth
<1>2. \E S, T : nonces' = Without(nonces, S) /\ sessions' = Without(sessions, T)
  BY DEF PurgeExpiredAuth
<1>3. /\ DOMAIN nonces' \subseteq DOMAIN nonces /\ \A n \in DOMAIN nonces' : nonces'[n] = nonces[n]
      /\ nonces' = [n \in DOMAIN nonces' |-> nonces'[n]]
      /\ DOMAIN sessions' \subseteq DOMAIN sessions /\ \A t \in DOMAIN sessions' : sessions'[t] = sessions[t]
  BY <1>2 DEF Without
<1>4. NoncesOK'
  <2>1. \A n \in DOMAIN nonces : nonces[n] = [owner |-> nonces[n].owner, consumed |-> nonces[n].consumed,
                                              expires |-> nonces[n].expires]
    BY DEF SignInInv, NoncesOK
  <2>2. \A n \in DOMAIN nonces' : nonces'[n] = [owner |-> nonces'[n].owner, consumed |-> nonces'[n].consumed,
                                              expires |-> nonces'[n].expires]
    BY <1>3, <2>1
  <2> QED
    BY <1>1, <1>3, <2>2 DEF SignInInv, NoncesOK
<1>5. \A t \in DOMAIN sessions :
        sessions[t] = [nonce |-> sessions[t].nonce, owner |-> sessions[t].owner,
                       revoked |-> sessions[t].revoked, expires |-> sessions[t].expires]
  BY DEF SignInInv, SessionsOK
<1>6. inFlight' = [q \in ChallengeSlots |-> inFlight'[q]]
  BY <1>1 DEF SignInInv
<1> QED
  BY <1>1, <1>3, <1>4, <1>5, <1>6, RowsGoSteps

LEMMA SignInStepOK == SignInInv /\ [SignInNext]_signVars => SignInInv'
<1>1. ASSUME SignInInv, UNCHANGED signVars PROVE SignInInv'
  BY <1>1, TablesStand DEF signVars, SignInInv, FlowOK
<1> QED
  BY <1>1, BrowserSteps, CreateStep, SendSteps, ServeSteps, HearSteps, VerifyStep, RevokeStep, PurgeStep
     DEF SignInNext

LEMMA SignInInvariant == SignInSpec => []SignInInv
  BY SignInInitOK, SignInStepOK, PTL DEF SignInSpec

(* A challenge issues one ticket, of the wallet that was challenged.        *)
THEOREM OneSession == SignInSpec => []OneSessionPerNonce
<1>1. SignInInv => OneSessionPerNonce
  BY DEF SignInInv
<1> QED
  BY <1>1, SignInInvariant, PTL

(* A request acts for the wallet that was connected when it was sent.         *)
THEOREM AsConnected == SignInSpec => []ActsAsConnected
<1>1. SignInInv => ActsAsConnected
  BY DEF SignInInv, RequestsOK, RequestOK, ActsAsConnected
<1> QED
  BY <1>1, SignInInvariant, PTL

-----------------------------------------------------------------------------
(***************************************************************************)
(* Sponsorships, for any requests and quotas: what the sponsor pays for    *)
(* stays within both quotas, but for slots given back with a transaction   *)
(* out, and a granted row names the task that holds the request's          *)
(* manifest.                                                               *)
(***************************************************************************)

OfWallet(S, g) == {h \in S : Beneficiary[h] = Beneficiary[g]}
HasSlot == {"prepare", "send", "receipt", "check", "settle", "failed"}
Unsent == {"asked", "reserve", "prepare", "send"}

SponsorTypes ==
  /\ sponsorships = [g \in Grants |-> [status |-> sponsorships[g].status, task |-> sponsorships[g].task,
                                       stale |-> sponsorships[g].stale]]
  /\ grant = [g \in Grants |-> [at |-> grant[g].at, predicted |-> grant[g].predicted]]
  /\ sent \in Seq(Grants) /\ created \in Seq(Grants)

(* Who is at work on a task has a slot, and a transaction comes after it.     *)
SlotFirst(g) ==
  /\ grant[g].at \in {"asked", "reserve"} => sponsorships[g].status = "none" /\ g \notin given_back
  /\ grant[g].at \in HasSlot => sponsorships[g].status = "RESERVED"
  /\ grant[g].at \in Unsent => ~Out(g)
  /\ sponsorships[g].stale => g \in given_back

(* The slots nobody gave back. *)
Firm == Counted \ given_back

SponsorInv ==
  /\ SponsorTypes
  /\ \A g \in Grants : SlotFirst(g)
  /\ \A g \in Grants : Out(g) => g \in Counted \cup given_back
  /\ Cardinality(Firm) <= maxTotal
  /\ \A g \in Grants : Cardinality(OfWallet(Firm, g)) <= maxPerAddress
  /\ \A g \in Grants : grant[g].at = "settle" =>
        grant[g].predicted \in DOMAIN created /\ created[grant[g].predicted] = g
  /\ GrantedIsTheirs

LEMMA SponsorInitOK == SponsorInit => SponsorInv
<1> SUFFICES ASSUME SponsorInit PROVE SponsorInv
  OBVIOUS
<1>1. sent = <<>> /\ created = <<>> /\ DOMAIN sent = {} /\ DOMAIN created = {}
  BY DEF SponsorInit
<1>2. Firm = {} /\ \A g \in Grants : OfWallet(Firm, g) = {}
  BY DEF SponsorInit, Firm, Counted, NoSponsorship, OfWallet
<1>3. Cardinality({}) = 0
  BY FS_EmptySet
<1>4. \A g \in Grants : ~Out(g)
  BY <1>1 DEF Out, Mined
<1>5. SponsorTypes
  BY <1>1 DEF SponsorInit, SponsorTypes, NoSponsorship
<1>6. \A g \in Grants : /\ grant[g].at = "asked" /\ sponsorships[g].status = "none"
                         /\ ~sponsorships[g].stale /\ g \notin given_back
  BY DEF SponsorInit, NoSponsorship
<1>7. \A g \in Grants : SlotFirst(g)
  BY <1>4, <1>6 DEF SlotFirst, HasSlot
<1>8. GrantedIsTheirs
  BY <1>6 DEF GrantedIsTheirs
<1>9. Cardinality(Firm) <= maxTotal /\ \A g \in Grants : Cardinality(OfWallet(Firm, g)) <= maxPerAddress
  BY <1>2, <1>3, SponsorAssumption
<1> QED
  BY <1>4, <1>5, <1>6, <1>7, <1>8, <1>9 DEF SponsorInv

LEMMA SlotsAreFinite ==
  ASSUME NEW S \in SUBSET Grants
  PROVE  /\ IsFiniteSet(S) /\ Cardinality(S) \in Nat
         /\ \A T \in SUBSET S : Cardinality(T) \in Nat /\ Cardinality(T) <= Cardinality(S)
  BY SponsorAssumption, FS_Subset, FS_CardinalityType

(* A step of one request that takes no slot and mines nothing.                *)
LEMMA OneMoves ==
  ASSUME SponsorInv, NEW g \in Grants, SponsorTypes',
         \A h \in Grants : h # g => sponsorships'[h] = sponsorships[h] /\ grant'[h] = grant[h],
         \A h \in Grants : h # g => (Out(h)' <=> Out(h)),
         UNCHANGED created, Firm' \subseteq Firm,
         given_back \subseteq given_back', given_back' \subseteq given_back \cup {g},
         SlotFirst(g)',
         Out(g)' => g \in Counted' \cup given_back',
         grant'[g].at = "settle" => grant'[g].predicted \in DOMAIN created /\ created[grant'[g].predicted] = g,
         sponsorships'[g].status = "GRANTED" =>
           sponsorships'[g].task \in DOMAIN created /\ created[sponsorships'[g].task] = g
  PROVE  SponsorInv'
<1>1. \A h \in Grants : SlotFirst(h)'
  BY DEF SponsorInv, SlotFirst
<1>2. \A h \in Grants : h # g => (h \in Counted' <=> h \in Counted)
  BY DEF Counted
<1>3. \A h \in Grants : Out(h)' => h \in Counted' \cup given_back'
  BY <1>2 DEF SponsorInv
<1>4. Firm \in SUBSET Grants
  BY DEF Firm, Counted
<1>5. Cardinality(Firm') <= maxTotal
  BY <1>4, SlotsAreFinite, SponsorAssumption DEF SponsorInv
<1>6. \A h \in Grants : Cardinality(OfWallet(Firm', h)) <= maxPerAddress
  <2>1. \A h \in Grants : OfWallet(Firm', h) \subseteq OfWallet(Firm, h) /\ OfWallet(Firm, h) \in SUBSET Grants
    BY <1>4 DEF OfWallet
  <2>2. \A h \in Grants : /\ Cardinality(OfWallet(Firm', h)) \in Nat /\ Cardinality(OfWallet(Firm, h)) \in Nat
                          /\ Cardinality(OfWallet(Firm', h)) <= Cardinality(OfWallet(Firm, h))
    BY <2>1, SlotsAreFinite
  <2> QED
    BY <2>2, SponsorAssumption DEF SponsorInv
<1>7. \A h \in Grants : OfWallet(Firm, h)' = OfWallet(Firm', h)
  BY DEF OfWallet
<1>8. \A h \in Grants : grant'[h].at = "settle" =>
        grant'[h].predicted \in DOMAIN created' /\ created'[grant'[h].predicted] = h
  BY DEF SponsorInv
<1>9. GrantedIsTheirs'
  BY DEF SponsorInv, GrantedIsTheirs
<1> QED
  BY <1>1, <1>3, <1>5, <1>6, <1>7, <1>8, <1>9 DEF SponsorInv

(* A request goes on, and its slot is as it was.                              *)
LEMMA GoesOn ==
  ASSUME SponsorInv, NEW g \in Grants, NEW at, NEW predicted,
         grant' = [grant EXCEPT ![g] = [at |-> at, predicted |-> predicted]],
         UNCHANGED <<sponsorships, created, given_back>>, sent' \in Seq(Grants),
         \A h \in Grants : h # g => (Out(h)' <=> Out(h)),
         at \in {"asked", "reserve"} => grant[g].at \in {"asked", "reserve"},
         at \in HasSlot => grant[g].at \in HasSlot,
         at \in Unsent => ~Out(g)',
         Out(g)' => Out(g) \/ at = "receipt",
         at = "settle" => predicted \in DOMAIN created /\ created[predicted] = g,
         at = "receipt" => at \in HasSlot
  PROVE  SponsorInv'
<1>1. /\ grant'[g] = [at |-> at, predicted |-> predicted] /\ grant'[g].at = at /\ grant'[g].predicted = predicted
      /\ \A h \in Grants : h # g => grant'[h] = grant[h]
      /\ grant' = [h \in Grants |-> grant'[h]]
  BY DEF SponsorInv, SponsorTypes
<1>2. SponsorTypes'
  BY <1>1 DEF SponsorInv, SponsorTypes
<1>3. Counted' = Counted /\ Firm' = Firm
  BY DEF Counted, Firm
<1>4. SlotFirst(g)'
  BY <1>1 DEF SponsorInv, SlotFirst, HasSlot, Unsent
<1>5. Out(g)' => g \in Counted' \cup given_back'
  <2>1. at = "receipt" => g \in Counted \cup given_back
    BY DEF SponsorInv, SlotFirst, HasSlot, Counted
  <2> QED
    BY <1>3, <2>1 DEF SponsorInv
<1>6. sponsorships'[g].status = "GRANTED" =>
           sponsorships'[g].task \in DOMAIN created /\ created[sponsorships'[g].task] = g
  BY DEF SponsorInv, GrantedIsTheirs
<1> QED
  BY <1>1, <1>2, <1>3, <1>4, <1>5, <1>6, OneMoves

LEMMA Statements ==
  ASSUME SponsorInv, NEW g \in Grants,
         AssertCanSponsor(g) \/ Serialize(g) \/ Receipt(g) \/ CheckTask(g) \/ GrantFails(g)
  PROVE  SponsorInv'
<1>1. UNCHANGED <<sponsorships, sent, created, given_back>>
  BY DEF AssertCanSponsor, Serialize, Receipt, CheckTask, GrantFails
<1>2. \A h \in Grants : Out(h)' <=> Out(h)
  BY <1>1 DEF Out, Mined
<1>3. PICK old : old = grant[g]
  OBVIOUS
<1>4. old = [at |-> old.at, predicted |-> old.predicted]
  BY <1>3 DEF SponsorInv, SponsorTypes
<1>5. \E at, predicted :
        /\ grant' = [grant EXCEPT ![g] = [at |-> at, predicted |-> predicted]]
        /\ at \in {"over", "failed"} \/ (at = "reserve" /\ old.at = "asked") \/ (at = "send" /\ old.at = "prepare")
           \/ (at = "check" /\ old.at = "receipt")
           \/ (at = "settle" /\ old.at = "check" /\ predicted \in DOMAIN created /\ created[predicted] = g)
        /\ at = "failed" => old.at \in HasSlot
  <2>1. CASE AssertCanSponsor(g)
    <3>1. PICK at \in {"over", "reserve"} : grant' = [grant EXCEPT ![g] = [old EXCEPT !.at = at]]
      BY <1>3, <2>1 DEF AssertCanSponsor, Goes
    <3>2. [old EXCEPT !.at = at] = [at |-> at, predicted |-> old.predicted] /\ old.at = "asked"
      BY <1>3, <1>4, <2>1 DEF AssertCanSponsor
    <3> QED
      BY <3>1, <3>2
  <2>2. CASE Serialize(g)
    <3>1. PICK at : at = "send"
      OBVIOUS
    <3>2. PICK predicted : predicted = Len(created) + 1
      OBVIOUS
    <3>3. grant' = [grant EXCEPT ![g] = [at |-> at, predicted |-> predicted]] /\ old.at = "prepare"
      BY <1>3, <2>2, <3>1, <3>2 DEF Serialize
    <3> WITNESS at, predicted
    <3> QED
      BY <3>1, <3>3
  <2>3. CASE Receipt(g)
    <3>1. PICK at \in {"check", "failed"} : grant' = [grant EXCEPT ![g] = [old EXCEPT !.at = at]]
      BY <1>3, <2>3 DEF Receipt, Goes
    <3>2. [old EXCEPT !.at = at] = [at |-> at, predicted |-> old.predicted] /\ old.at = "receipt"
      BY <1>3, <1>4, <2>3 DEF Receipt
    <3> QED
      BY <3>1, <3>2 DEF HasSlot
  <2>4. CASE CheckTask(g)
    <3>1. PICK at \in {"settle", "failed"} :
             /\ grant' = [grant EXCEPT ![g] = [old EXCEPT !.at = at]]
             /\ at = "settle" => old.predicted \in DOMAIN created /\ created[old.predicted] = g
      BY <1>3, <2>4 DEF CheckTask, Goes
    <3>2. [old EXCEPT !.at = at] = [at |-> at, predicted |-> old.predicted] /\ old.at = "check"
      BY <1>3, <1>4, <2>4 DEF CheckTask
    <3> QED
      BY <3>1, <3>2 DEF HasSlot
  <2>5. CASE GrantFails(g)
    <3>1. PICK at \in {"over", "failed"} : grant' = [grant EXCEPT ![g] = [old EXCEPT !.at = at]]
      BY <1>3, <2>5 DEF GrantFails, Goes
    <3>2. [old EXCEPT !.at = at] = [at |-> at, predicted |-> old.predicted] /\ old.at \in HasSlot
      BY <1>3, <1>4, <2>5 DEF GrantFails, HasSlot
    <3> QED
      BY <3>1, <3>2
  <2> QED
    BY <2>1, <2>2, <2>3, <2>4, <2>5
<1>6. PICK at, predicted :
        /\ grant' = [grant EXCEPT ![g] = [at |-> at, predicted |-> predicted]]
        /\ at \in {"over", "failed"} \/ (at = "reserve" /\ old.at = "asked") \/ (at = "send" /\ old.at = "prepare")
           \/ (at = "check" /\ old.at = "receipt")
           \/ (at = "settle" /\ old.at = "check" /\ predicted \in DOMAIN created /\ created[predicted] = g)
        /\ at = "failed" => old.at \in HasSlot
  BY <1>5
<1>7. at \in {"asked", "reserve"} => grant[g].at \in {"asked", "reserve"}
  BY <1>3, <1>6
<1>8. at \in HasSlot => grant[g].at \in HasSlot
  BY <1>3, <1>6 DEF HasSlot
<1>9. at \in Unsent => ~Out(g)'
  BY <1>2, <1>3, <1>6 DEF SponsorInv, SlotFirst, Unsent
<1>10. at = "settle" => predicted \in DOMAIN created /\ created[predicted] = g
  BY <1>6
<1>11. at # "receipt" /\ sent' \in Seq(Grants)
  BY <1>1, <1>6 DEF SponsorInv, SponsorTypes
<1> QED
  BY <1>1, <1>2, <1>6, <1>7, <1>8, <1>9, <1>10, <1>11, GoesOn

LEMMA BroadcastStep == ASSUME SponsorInv, NEW g \in Grants, Broadcast(g) PROVE SponsorInv'
<1>1. PICK old : old = grant[g]
  OBVIOUS
<1>2. old = [at |-> old.at, predicted |-> old.predicted] /\ old.at = "send"
  BY <1>1 DEF SponsorInv, SponsorTypes, Broadcast
<1>3. grant' = [grant EXCEPT ![g] = [at |-> "receipt", predicted |-> old.predicted]]
  <2>1. PICK at : at = "receipt"
    OBVIOUS
  <2>2. grant' = [grant EXCEPT ![g] = [old EXCEPT !.at = at]]
    BY <1>1, <2>1 DEF Broadcast, Goes
  <2>3. [old EXCEPT !.at = at] = [at |-> at, predicted |-> old.predicted]
    BY <1>2
  <2> QED
    BY <2>1, <2>2, <2>3
<1>4. sent' = Append(sent, g) /\ sent \in Seq(Grants) /\ UNCHANGED <<sponsorships, created, given_back>>
  BY DEF Broadcast, SponsorInv, SponsorTypes
<1>5. /\ sent' \in Seq(Grants) /\ Len(sent) \in Nat
      /\ DOMAIN sent' = 1..(Len(sent) + 1) /\ DOMAIN sent = 1..Len(sent) /\ sent'[Len(sent) + 1] = g
      /\ \A i \in 1..Len(sent) : sent'[i] = sent[i]
  BY <1>4, AppendProperties, LenProperties
<1>6. \A h \in Grants : h # g => (Out(h)' <=> Out(h))
  BY <1>4, <1>5 DEF Out, Mined
<1> QED
  BY <1>1, <1>2, <1>3, <1>4, <1>5, <1>6, GoesOn DEF HasSlot, Unsent

(* A slot is given up, or settled.                                           *)
LEMMA SettleSteps ==
  ASSUME SponsorInv, NEW g \in Grants, SettleGranted(g) \/ SettleFailed(g) \/ ReservationLapses(g)
  PROVE  SponsorInv'
<1>1. UNCHANGED <<sent, created>> /\ given_back \subseteq given_back'
      /\ given_back' \subseteq given_back \cup {g}
  BY DEF SettleGranted, SettleFailed, ReservationLapses
<1>2. \A h \in Grants : Out(h)' <=> Out(h)
  BY <1>1 DEF Out, Mined
<1>3. PICK old : old = grant[g]
  OBVIOUS
<1>4. old = [at |-> old.at, predicted |-> old.predicted]
  BY <1>3 DEF SponsorInv, SponsorTypes
<1>5. PICK line : line = sponsorships[g]
  OBVIOUS
<1>6. line = [status |-> line.status, task |-> line.task, stale |-> line.stale]
  BY <1>5 DEF SponsorInv, SponsorTypes
<1>7. \E new : /\ sponsorships' = [sponsorships EXCEPT ![g] = new]
               /\ new = [status |-> new.status, task |-> new.task, stale |-> new.stale]
               /\ \/ /\ new.status = "GRANTED" /\ line.status = "RESERVED" /\ new.stale = line.stale
                     /\ new.task \in DOMAIN created /\ created[new.task] = g /\ given_back' = given_back
                  \/ /\ new.status = "FAILED" \/ (new.status = "RESERVED" /\ new.stale)
                     /\ g \in given_back'
  <2>1. CASE SettleGranted(g)
    <3>1. PICK new : new = [[line EXCEPT !.status = "GRANTED"] EXCEPT !.task = old.predicted]
      OBVIOUS
    <3>2. /\ sponsorships' = [sponsorships EXCEPT ![g] = new]
          /\ new = [status |-> new.status, task |-> new.task, stale |-> new.stale]
          /\ new.status = "GRANTED" /\ new.task = old.predicted /\ new.stale = line.stale
      BY <1>3, <1>5, <1>6, <2>1, <3>1 DEF SettleGranted, SponsorInv, SponsorTypes
    <3>3. /\ line.status = "RESERVED"
          /\ old.predicted \in DOMAIN created /\ created[old.predicted] = g
      BY <1>3, <1>5, <2>1 DEF SettleGranted, SponsorInv, SlotFirst, HasSlot
    <3> QED
      BY <2>1, <3>2, <3>3 DEF SettleGranted
  <2>2. CASE SettleFailed(g)
    <3>1. PICK new : new = [[line EXCEPT !.status = "FAILED"] EXCEPT !.task = 0]
      OBVIOUS
    <3>2. /\ sponsorships' = [sponsorships EXCEPT ![g] = new]
          /\ new = [status |-> new.status, task |-> new.task, stale |-> new.stale]
          /\ new.status = "FAILED"
      BY <1>5, <1>6, <2>2, <3>1 DEF SettleFailed, SponsorInv, SponsorTypes
    <3> QED
      BY <2>2, <3>2 DEF SettleFailed
  <2>3. CASE ReservationLapses(g)
    <3>1. PICK new : new = [line EXCEPT !.stale = TRUE]
      OBVIOUS
    <3>2. /\ sponsorships' = [sponsorships EXCEPT ![g] = new]
          /\ new = [status |-> new.status, task |-> new.task, stale |-> new.stale]
          /\ new.status = "RESERVED" /\ new.stale
      BY <1>5, <1>6, <2>3, <3>1 DEF ReservationLapses, SponsorInv, SponsorTypes
    <3> QED
      BY <2>3, <3>2 DEF ReservationLapses
  <2> QED
    BY <2>1, <2>2, <2>3
<1>8. PICK new : /\ sponsorships' = [sponsorships EXCEPT ![g] = new]
               /\ new = [status |-> new.status, task |-> new.task, stale |-> new.stale]
               /\ \/ /\ new.status = "GRANTED" /\ line.status = "RESERVED" /\ new.stale = line.stale
                     /\ new.task \in DOMAIN created /\ created[new.task] = g /\ given_back' = given_back
                  \/ /\ new.status = "FAILED" \/ (new.status = "RESERVED" /\ new.stale)
                     /\ g \in given_back'
  BY <1>7
<1>9. /\ sponsorships'[g] = new /\ \A h \in Grants : h # g => sponsorships'[h] = sponsorships[h]
      /\ sponsorships' = [h \in Grants |-> sponsorships'[h]]
  BY <1>8 DEF SponsorInv, SponsorTypes
<1>10. /\ \A h \in Grants : h # g => grant'[h] = grant[h]
       /\ grant'[g].at = "over" \/ (grant'[g] = grant[g] /\ line.status = "RESERVED" /\ new.status = "RESERVED")
       /\ grant'[g] = [at |-> grant'[g].at, predicted |-> grant'[g].predicted]
       /\ grant' = [h \in Grants |-> grant'[h]]
  <2>1. CASE SettleGranted(g) \/ SettleFailed(g)
    <3>1. grant' = [grant EXCEPT ![g] = [old EXCEPT !.at = "over"]]
      BY <1>3, <2>1 DEF SettleGranted, SettleFailed, Goes
    <3>2. [old EXCEPT !.at = "over"] = [at |-> "over", predicted |-> old.predicted]
      BY <1>4
    <3> QED
      BY <3>1, <3>2 DEF SponsorInv, SponsorTypes
  <2>2. CASE ReservationLapses(g)
    <3>1. grant' = grant /\ line.status = "RESERVED"
      BY <1>5, <2>2 DEF ReservationLapses
    <3>2. new.status = "RESERVED"
      BY <1>5, <1>6, <1>9, <2>2 DEF ReservationLapses, SponsorInv, SponsorTypes
    <3> QED
      BY <1>3, <1>4, <3>1, <3>2 DEF SponsorInv, SponsorTypes
  <2> QED
    BY <2>1, <2>2
<1>11. SponsorTypes'
  <2>1. \A h \in Grants : sponsorships'[h] = [status |-> sponsorships'[h].status, task |-> sponsorships'[h].task,
                                              stale |-> sponsorships'[h].stale]
    BY <1>8, <1>9 DEF SponsorInv, SponsorTypes
  <2>2. \A h \in Grants : grant'[h] = [at |-> grant'[h].at, predicted |-> grant'[h].predicted]
    BY <1>10 DEF SponsorInv, SponsorTypes
  <2>3. sponsorships' = [h \in Grants |-> [status |-> sponsorships'[h].status, task |-> sponsorships'[h].task,
                                           stale |-> sponsorships'[h].stale]]
    BY <1>9, <2>1
  <2>4. grant' = [h \in Grants |-> [at |-> grant'[h].at, predicted |-> grant'[h].predicted]]
    BY <1>10, <2>2
  <2> QED
    BY <1>1, <2>3, <2>4 DEF SponsorInv, SponsorTypes
<1>12. Firm' \subseteq Firm /\ (new.status = "GRANTED" => g \in Counted')
  <2>1. line.stale => g \in given_back
    BY <1>5 DEF SponsorInv, SlotFirst
  <2> QED
    BY <1>1, <1>5, <1>8, <1>9, <2>1 DEF Counted, Firm
<1>13. SlotFirst(g)'
  <2>1. new.stale => g \in given_back'
    BY <1>1, <1>5, <1>8 DEF SponsorInv, SlotFirst
  <2>2. CASE grant'[g].at = "over"
    BY <1>9, <2>1, <2>2 DEF SlotFirst, HasSlot, Unsent
  <2>3. CASE grant'[g] = grant[g] /\ line.status = "RESERVED" /\ new.status = "RESERVED"
    <3>1. grant[g].at \notin {"asked", "reserve"}
      BY <1>5, <2>3 DEF SponsorInv, SlotFirst
    <3> QED
      BY <1>2, <1>9, <2>1, <2>3, <3>1 DEF SponsorInv, SlotFirst
  <2> QED
    BY <1>10, <2>2, <2>3
<1>14. Out(g)' => g \in Counted' \cup given_back'
  BY <1>2, <1>8, <1>12
<1>15. grant'[g].at = "settle" =>
          grant'[g].predicted \in DOMAIN created /\ created[grant'[g].predicted] = g
  BY <1>10 DEF SponsorInv
<1> QED
  BY <1>1, <1>2, <1>8, <1>9, <1>10, <1>11, <1>12, <1>13, <1>14, <1>15, OneMoves

(* A slot is taken while there is one, for this wallet and at all.            *)
LEMMA ReserveStep == ASSUME SponsorInv, NEW g \in Grants, Reserve(g) PROVE SponsorInv'
<1> DEFINE mine == OfWallet(Counted, g)
<1>1. UNCHANGED <<sending, sent, created, paused, faults, given_back>> /\ grant[g].at = "reserve"
  BY DEF Reserve
<1>2. \A h \in Grants : Out(h)' <=> Out(h)
  BY <1>1 DEF Out, Mined
<1>3. PICK old : old = grant[g]
  OBVIOUS
<1>4. old = [at |-> old.at, predicted |-> old.predicted]
  BY <1>3 DEF SponsorInv, SponsorTypes
<1>5. CASE Cardinality(Counted) >= maxTotal \/ Cardinality(mine) >= maxPerAddress
  <2>1. grant' = [grant EXCEPT ![g] = [at |-> "over", predicted |-> old.predicted]] /\ UNCHANGED sponsorships
    BY <1>3, <1>4, <1>5 DEF Reserve, Goes, OfWallet
  <2>2. sent' \in Seq(Grants)
    BY <1>1 DEF SponsorInv, SponsorTypes
  <2>3. "over" \notin HasSlot /\ "over" \notin Unsent
    BY DEF HasSlot, Unsent
  <2> QED
    BY <1>1, <1>2, <2>1, <2>2, <2>3, GoesOn
<1>6. CASE ~(Cardinality(Counted) >= maxTotal \/ Cardinality(mine) >= maxPerAddress)
  <2>1. grant' = [grant EXCEPT ![g] = [at |-> "prepare", predicted |-> old.predicted]]
    BY <1>3, <1>4, <1>6 DEF Reserve, Goes, OfWallet
  <2>2. PICK line : line = [sponsorships[g] EXCEPT !.status = "RESERVED"]
    OBVIOUS
  <2>3. sponsorships' = [sponsorships EXCEPT ![g] = line]
    BY <1>6, <2>2 DEF Reserve, OfWallet, SponsorInv, SponsorTypes
  <2>4. /\ line.status = "RESERVED" /\ line = [status |-> line.status, task |-> line.task, stale |-> line.stale]
        /\ ~line.stale /\ g \notin given_back
    <3>1. sponsorships[g] = [status |-> sponsorships[g].status, task |-> sponsorships[g].task,
                             stale |-> sponsorships[g].stale]
      BY DEF SponsorInv, SponsorTypes
    <3>2. ~sponsorships[g].stale /\ g \notin given_back
      BY <1>1 DEF SponsorInv, SlotFirst
    <3> QED
      BY <2>2, <3>1, <3>2
  <2>5. /\ sponsorships'[g] = line /\ \A h \in Grants : h # g => sponsorships'[h] = sponsorships[h]
        /\ sponsorships' = [h \in Grants |-> sponsorships'[h]]
        /\ grant'[g] = [at |-> "prepare", predicted |-> old.predicted] /\ grant'[g].at = "prepare"
        /\ \A h \in Grants : h # g => grant'[h] = grant[h]
        /\ grant' = [h \in Grants |-> grant'[h]]
    BY <2>1, <2>3 DEF SponsorInv, SponsorTypes
  <2>6. SponsorTypes'
    BY <1>1, <2>4, <2>5 DEF SponsorInv, SponsorTypes
  <2>7. /\ Counted' = Counted \cup {g} /\ Firm' = Firm \cup {g} /\ g \notin Firm
        /\ Firm \subseteq Counted /\ Counted \in SUBSET Grants /\ Firm \in SUBSET Grants
    <3>1. g \notin Counted
      BY <1>1 DEF SponsorInv, SlotFirst, Counted
    <3>2. Counted' = Counted \cup {g}
      BY <2>4, <2>5 DEF Counted
    <3> QED
      BY <1>1, <2>4, <3>1, <3>2 DEF Counted, Firm
  <2>8. /\ Cardinality(Firm) \in Nat /\ Cardinality(Firm') = Cardinality(Firm) + 1
        /\ Cardinality(Counted) \in Nat /\ Cardinality(Firm) <= Cardinality(Counted)
    BY <2>7, SlotsAreFinite, FS_AddElement
  <2>9. Cardinality(Firm') <= maxTotal
    BY <1>6, <2>8, SponsorAssumption
  <2>10. ASSUME NEW h \in Grants
         PROVE  Cardinality(OfWallet(Firm', h)) <= maxPerAddress
    <3>1. OfWallet(Firm, h) \in SUBSET Grants /\ g \notin OfWallet(Firm, h)
      BY <2>7 DEF OfWallet
    <3>2. IsFiniteSet(OfWallet(Firm, h)) /\ Cardinality(OfWallet(Firm, h)) \in Nat
          /\ Cardinality(OfWallet(Firm, h)) <= maxPerAddress
      BY <3>1, SlotsAreFinite DEF SponsorInv
    <3>3. CASE Beneficiary[h] # Beneficiary[g]
      <4>1. OfWallet(Firm', h) = OfWallet(Firm, h)
        BY <2>7, <3>3 DEF OfWallet
      <4> QED
        BY <3>2, <4>1
    <3>4. CASE Beneficiary[h] = Beneficiary[g]
      <4>1. OfWallet(Firm', h) = OfWallet(Firm, h) \cup {g} /\ OfWallet(Firm, h) \subseteq mine
            /\ mine \in SUBSET Grants
        BY <2>7, <3>4 DEF OfWallet
      <4>2. Cardinality(OfWallet(Firm', h)) = Cardinality(OfWallet(Firm, h)) + 1
        BY <3>1, <3>2, <4>1, FS_AddElement
      <4>3. Cardinality(mine) \in Nat /\ Cardinality(OfWallet(Firm, h)) <= Cardinality(mine)
        BY <4>1, SlotsAreFinite
      <4> QED
        BY <1>6, <3>2, <4>2, <4>3, SponsorAssumption
    <3> QED
      BY <3>3, <3>4
  <2>11. \A h \in Grants : SlotFirst(h)'
    <3>1. ~Out(g)
      BY <1>1 DEF SponsorInv, SlotFirst, Unsent
    <3> QED
      BY <1>1, <1>2, <2>4, <2>5, <3>1 DEF SponsorInv, SlotFirst, HasSlot
  <2>12. \A h \in Grants : Out(h)' => h \in Counted' \cup given_back'
    BY <1>1, <1>2, <2>7 DEF SponsorInv
  <2>13. \A h \in Grants : grant'[h].at = "settle" =>
           grant'[h].predicted \in DOMAIN created' /\ created'[grant'[h].predicted] = h
    BY <1>1, <2>5 DEF SponsorInv
  <2>14. GrantedIsTheirs'
    BY <1>1, <2>4, <2>5 DEF SponsorInv, GrantedIsTheirs
  <2>15. \A h \in Grants : OfWallet(Firm, h)' = OfWallet(Firm', h)
    BY DEF OfWallet
  <2> QED
    BY <2>6, <2>9, <2>10, <2>11, <2>12, <2>13, <2>14, <2>15 DEF SponsorInv
<1> QED
  BY <1>5, <1>6

LEMMA MineSponsoredStep == ASSUME SponsorInv, MineSponsored PROVE SponsorInv'
<1>1. UNCHANGED <<sponsorships, grant, given_back>> /\ sent # <<>> /\ sent' = Tail(sent)
      /\ created' \in {created, Append(created, Head(sent))}
      /\ sent \in Seq(Grants) /\ created \in Seq(Grants)
  BY DEF MineSponsored, SponsorInv, SponsorTypes
<1>2. /\ sent' \in Seq(Grants) /\ Head(sent) \in Grants /\ Head(sent) = sent[1]
      /\ Len(sent) \in Nat \ {0} /\ DOMAIN sent = 1..Len(sent) /\ DOMAIN sent' = 1..(Len(sent) - 1)
      /\ \A i \in DOMAIN sent' : sent'[i] = sent[i + 1]
  BY <1>1, HeadTailProperties, LenProperties, EmptySeq
<1>3. /\ created' \in Seq(Grants) /\ DOMAIN created \subseteq DOMAIN created'
      /\ \A i \in DOMAIN created : created'[i] = created[i]
      /\ \A i \in DOMAIN created' : i \in DOMAIN created \/ created'[i] = Head(sent)
  <2>1. CASE created' = created
    BY <1>1, <2>1
  <2>2. CASE created' = Append(created, Head(sent))
    <3>1. /\ Len(created) \in Nat /\ DOMAIN created = 1..Len(created) /\ DOMAIN created' = 1..(Len(created) + 1)
          /\ created' \in Seq(Grants) /\ created'[Len(created) + 1] = Head(sent)
          /\ \A i \in 1..Len(created) : created'[i] = created[i]
      BY <1>1, <1>2, <2>2, AppendProperties, LenProperties
    <3> QED
      BY <3>1
  <2> QED
    BY <1>1, <2>1, <2>2
<1>4. ASSUME NEW h \in Grants, Out(h)' PROVE Out(h)
  <2>1. CASE \E i \in DOMAIN created' : created'[i] = h
    <3>1. 1 \in DOMAIN sent
      BY <1>2
    <3> QED
      BY <1>2, <1>3, <2>1, <3>1 DEF Out, Mined
  <2>2. CASE \E i \in DOMAIN sent' : sent'[i] = h
    <3>1. PICK i \in DOMAIN sent' : sent'[i] = h
      BY <2>2
    <3>2. i + 1 \in DOMAIN sent
      BY <1>2
    <3> QED
      BY <1>2, <3>1, <3>2 DEF Out
  <2> QED
    BY <1>4, <2>1, <2>2 DEF Out, Mined
<1>5. Counted' = Counted /\ Firm' = Firm
  BY <1>1 DEF Counted, Firm
<1>6. SponsorTypes' /\ \A h \in Grants : SlotFirst(h)'
  BY <1>1, <1>2, <1>3, <1>4 DEF SponsorInv, SponsorTypes, SlotFirst
<1>7. \A h \in Grants : Out(h)' => h \in Counted' \cup given_back'
  BY <1>1, <1>4, <1>5 DEF SponsorInv
<1>8. \A h \in Grants : OfWallet(Firm, h)' = OfWallet(Firm, h)
  BY <1>5 DEF OfWallet
<1>9. \A h \in Grants : grant'[h].at = "settle" =>
         grant'[h].predicted \in DOMAIN created' /\ created'[grant'[h].predicted] = h
  BY <1>1, <1>3 DEF SponsorInv
<1>10. GrantedIsTheirs'
  BY <1>1, <1>3 DEF SponsorInv, GrantedIsTheirs
<1> QED
  BY <1>5, <1>6, <1>7, <1>8, <1>9, <1>10 DEF SponsorInv

LEMMA SponsorStepOK == SponsorInv /\ [SponsorNext]_sponsorVars => SponsorInv'
<1>1. ASSUME SponsorInv, PauseContract \/ UNCHANGED sponsorVars PROVE SponsorInv'
  <2>1. UNCHANGED <<sponsorships, grant, sent, created, given_back>>
    BY <1>1 DEF PauseContract, sponsorVars
  <2>2. /\ Counted' = Counted /\ Firm' = Firm /\ \A g \in Grants : (Out(g)' <=> Out(g)) /\ OfWallet(Firm, g)' = OfWallet(Firm, g)
    BY <2>1 DEF Counted, Firm, Out, Mined, OfWallet
  <2> QED
    BY <1>1, <2>1, <2>2 DEF SponsorInv, SponsorTypes, SlotFirst, GrantedIsTheirs
<1> QED
  BY <1>1, Statements, BroadcastStep, SettleSteps, ReserveStep, MineSponsoredStep DEF SponsorNext

LEMMA SponsorInvariant == SponsorSpec => []SponsorInv
  BY SponsorInitOK, SponsorStepOK, PTL DEF SponsorSpec

(* The tasks of the requests whose slot was not given back stay within both   *)
(* quotas, at every moment and whatever lapses or fails meanwhile.           *)
THEOREM QuotaKept == SponsorSpec => []WithinQuota
<1>1. ASSUME SponsorInv PROVE WithinQuota
  <2> DEFINE paid == {g \in Grants : Out(g)} \ given_back
  <2>1. paid \subseteq Firm /\ Firm \in SUBSET Grants
    BY <1>1 DEF SponsorInv, Counted, Firm
  <2>2. Cardinality(paid) <= maxTotal
    BY <1>1, <2>1, SlotsAreFinite, SponsorAssumption DEF SponsorInv
  <2>3. ASSUME NEW g \in Grants PROVE Cardinality({h \in paid : Beneficiary[h] = Beneficiary[g]}) <= maxPerAddress
    <3>1. {h \in paid : Beneficiary[h] = Beneficiary[g]} \subseteq OfWallet(Firm, g)
          /\ OfWallet(Firm, g) \in SUBSET Grants
      BY <2>1 DEF OfWallet
    <3> HIDE DEF paid
    <3>2. /\ Cardinality({h \in paid : Beneficiary[h] = Beneficiary[g]}) \in Nat
          /\ Cardinality(OfWallet(Firm, g)) \in Nat
          /\ Cardinality({h \in paid : Beneficiary[h] = Beneficiary[g]}) <= Cardinality(OfWallet(Firm, g))
      BY <3>1, SlotsAreFinite
    <3> QED
      BY <1>1, <3>2, SponsorAssumption DEF SponsorInv
  <2> QED
    BY <2>2, <2>3 DEF WithinQuota, QuotaOver
<1> QED
  BY <1>1, SponsorInvariant, PTL

(* A granted row names the task that has the request's manifest.              *)
THEOREM GrantedTheirs == SponsorSpec => []GrantedIsTheirs
<1>1. SponsorInv => GrantedIsTheirs
  BY DEF SponsorInv
<1> QED
  BY <1>1, SponsorInvariant, PTL

-----------------------------------------------------------------------------
(***************************************************************************)
(* Both of them, side by side.                                             *)
(***************************************************************************)

(* Whatever the two do meanwhile, what is granted is granted once and to     *)
(* whom it belongs.                                                          *)
THEOREM GrantedOnce == SignInSpec /\ SponsorSpec => []GrantedToItsOwner
<1>1. OneSessionPerNonce /\ ActsAsConnected /\ WithinQuota /\ GrantedIsTheirs => GrantedToItsOwner
  BY DEF GrantedToItsOwner
<1> QED
  BY <1>1, OneSession, AsConnected, QuotaKept, GrantedTheirs, PTL


-----------------------------------------------------------------------------
(***************************************************************************)
(* The key tool, for any keys and any edits of the files by hand: the plan *)
(* of an `apply` grants before it revokes and revokes no address that it   *)
(* was to give a role to, so whatever it is stopped at, a role it has an   *)
(* address for is not left without a holder.                               *)
(***************************************************************************)

(* A finite set put in a sequence, each element once.                      *)
LEMMA SetToSeqIs ==
  ASSUME NEW S, IsFiniteSet(S)
  PROVE  /\ SetToSeq(S) \in Seq(S)
         /\ \A x \in S : \E i \in 1..Len(SetToSeq(S)) : SetToSeq(S)[i] = x
<1> DEFINE n == Cardinality(S)
<1> DEFINE s == SetToSeq(S)
<1>1. n \in Nat /\ ExistsBijection(1..n, S)
  BY FS_CardinalityType
<1>2. \E f \in [1..n -> S] : IsInjective(f)
  BY <1>1 DEF ExistsBijection, Bijection, Injection, IsInjective
<1>3. s \in [1..n -> S] /\ IsInjective(s)
  BY <1>2 DEF SetToSeq
<1> HIDE DEF s
<1>4. s \in Injection(1..n, S)
  BY <1>3 DEF Injection, IsInjective
<1>5. IsFiniteSet(1..n) /\ Cardinality(1..n) = n
  BY <1>1, FS_Interval
<1>6. s \in Surjection(1..n, S)
  BY <1>4, <1>5, FS_Injection
<1>7. Len(s) = n /\ s \in Seq(S)
  BY <1>1, <1>3
<1>8. \A x \in S : \E i \in 1..Len(s) : s[i] = x
  BY <1>6, <1>7 DEF Surjection
<1> QED
  BY <1>7, <1>8 DEF s

GrantCalls == {[call |-> "grantRole", role |-> s, account |-> Address(s)] : s \in Pending}

RevokeCalls(signer) ==
  {[call |-> "revokeRole", role |-> h[1], account |-> h[2]] : h \in Revocations(signer)}

LEMMA KeySlotsAreFinite == IsFiniteSet(Slots)
<1> DEFINE f == [i \in 1..5 |-> SlotOrder[i]]
<1>1. DOMAIN SlotOrder = 1..5
  BY DEF SlotOrder
<1>2. Slots = {SlotOrder[i] : i \in 1..5}
  BY <1>1 DEF Slots, Range
<1>3. f \in Surjection(1..5, Slots)
  BY <1>2 DEF Surjection
<1>4. IsFiniteSet(1..5)
  <2>1. 1 \in Int /\ 5 \in Int
    OBVIOUS
  <2> QED
    BY <2>1, FS_Interval
<1> QED
  BY <1>3, <1>4, FS_Surjection

LEMMA GrantsAreFinite == IsFiniteSet(GrantCalls)
<1> DEFINE f == [s \in Pending |-> [call |-> "grantRole", role |-> s, account |-> Address(s)]]
<1>1. Pending \subseteq Slots
  BY DEF Pending, ContractRoles
<1>2. IsFiniteSet(Pending)
  BY <1>1, KeySlotsAreFinite, FS_Subset
<1>3. f \in Surjection(Pending, GrantCalls)
  BY DEF Surjection, GrantCalls
<1> QED
  BY <1>2, <1>3, FS_Surjection

LEMMA RevokesAreFinite ==
  ASSUME IsFiniteSet(holders), NEW signer
  PROVE  IsFiniteSet(RevokeCalls(signer))
<1> DEFINE R == Revocations(signer)
<1> DEFINE f == [h \in R |-> [call |-> "revokeRole", role |-> h[1], account |-> h[2]]]
<1>1. R \subseteq holders
  BY DEF Revocations, Stale
<1>2. IsFiniteSet(R)
  BY <1>1, FS_Subset
<1>3. f \in Surjection(R, RevokeCalls(signer))
  BY DEF Surjection, RevokeCalls
<1> QED
  BY <1>2, <1>3, FS_Surjection

(* What is left of a run: the grants first, no address of the run revoked,  *)
(* and a grant for every role whose address does not hold it.               *)
Orderly(todo, address) ==
  /\ Len(todo) \in Nat /\ Len(todo) > 0
  /\ \A i, j \in 1..Len(todo) :
       i < j /\ todo[j].call = "grantRole" => todo[i].call = "grantRole"
  /\ \A i \in 1..Len(todo) :
       /\ todo[i].role \in ContractRoles
       /\ todo[i].call # "grantRole" => todo[i].account # address[todo[i].role]

Provided(held, todo, address) ==
  \A r \in ContractRoles : address[r] # NoKey =>
    \/ <<r, address[r]>> \in held
    \/ \E i \in 1..Len(todo) :
         todo[i].call = "grantRole" /\ todo[i].role = r /\ todo[i].account = address[r]

RunInv ==
  /\ IsFiniteSet(holders) /\ \A h \in holders : h[1] \in ContractRoles
  /\ run # NoRun =>
       /\ \E s, a, t : run = [signer |-> s, address |-> a, todo |-> t]
       /\ \E T : run.todo \in Seq(T)
       /\ Orderly(run.todo, run.address) /\ Provided(holders, run.todo, run.address)

LEMMA PlanIs ==
  ASSUME IsFiniteSet(holders), \A h \in holders : h[1] \in ContractRoles,
         NEW signer, Plan(signer) # <<>>,
         NEW address, address = [s \in Slots |-> Address(s)]
  PROVE  /\ \E T : Plan(signer) \in Seq(T)
         /\ Orderly(Plan(signer), address) /\ Provided(holders, Plan(signer), address)
<1> DEFINE G == GrantCalls
<1> DEFINE R == RevokeCalls(signer)
<1> DEFINE g == SetToSeq(G)
<1> DEFINE q == SetToSeq(R)
<1> DEFINE p == Plan(signer)
<1>1. g \in Seq(G) /\ \A x \in G : \E i \in 1..Len(g) : g[i] = x
  BY SetToSeqIs, GrantsAreFinite
<1>2. q \in Seq(R)
  BY SetToSeqIs, RevokesAreFinite
<1>3. p = g \o q
  BY DEF Plan, GrantCalls, RevokeCalls
<1>4. \A x \in G : x.call = "grantRole" /\ x.role \in ContractRoles
  <2> SUFFICES ASSUME NEW s \in Pending,
                      NEW x, x = [call |-> "grantRole", role |-> s, account |-> Address(s)]
               PROVE  x.call = "grantRole" /\ x.role \in ContractRoles
    BY DEF GrantCalls
  <2>1. s \in ContractRoles
    BY DEF Pending
  <2> QED
    BY <2>1
<1>5. \A x \in R : /\ x.call # "grantRole" /\ x.role \in ContractRoles
                  /\ x.account # address[x.role]
  <2> SUFFICES ASSUME NEW h \in Revocations(signer),
                      NEW x, x = [call |-> "revokeRole", role |-> h[1], account |-> h[2]]
               PROVE  /\ x.call # "grantRole" /\ x.role \in ContractRoles
                      /\ x.account # address[x.role]
    BY DEF RevokeCalls
  <2>1. x.call = "revokeRole" /\ x.role = h[1] /\ x.account = h[2]
    OBVIOUS
  <2>2. h[2] # Address(h[1]) /\ h[1] \in ContractRoles
    BY DEF Revocations, Stale
  <2>3. address[h[1]] = Address(h[1])
    BY <2>2 DEF ContractRoles
  <2> QED
    BY <2>1, <2>2, <2>3
<1> HIDE DEF G, R, g, q, p
<1>6. Len(g) \in Nat /\ Len(q) \in Nat /\ Len(p) = Len(g) + Len(q)
      /\ (\A i \in 1..Len(g) : p[i] = g[i] /\ g[i] \in G)
      /\ (\A i \in 1..Len(q) : p[Len(g) + i] = q[i] /\ q[i] \in R)
  BY <1>1, <1>2, <1>3
<1>7. \A i \in 1..Len(p) :
        \/ i \in 1..Len(g) /\ p[i] \in G
        \/ i > Len(g) /\ p[i] \in R
  <2> SUFFICES ASSUME NEW i \in 1..Len(p), i \notin 1..Len(g) PROVE i > Len(g) /\ p[i] \in R
    BY <1>6
  <2>1. i - Len(g) \in 1..Len(q) /\ i = Len(g) + (i - Len(g)) /\ i > Len(g)
    BY <1>6
  <2> QED
    BY <1>6, <2>1
<1>8. Orderly(p, address)
  <2>1. Len(p) # 0
    BY <1>3, <1>6, <1>1, <1>2 DEF p
  <2>2. Len(p) \in Nat /\ Len(p) > 0
    BY <1>6, <2>1
  <2> QED
    BY <1>4, <1>5, <1>6, <1>7, <2>2 DEF Orderly
<1>9. Provided(holders, p, address)
  <2> SUFFICES ASSUME NEW r \in ContractRoles, address[r] # NoKey,
                      <<r, address[r]>> \notin holders
               PROVE  \E i \in 1..Len(p) :
                        p[i].call = "grantRole" /\ p[i].role = r /\ p[i].account = address[r]
    BY DEF Provided
  <2>1. address[r] = Address(r) /\ r \in Pending
    BY DEF Pending, ContractRoles
  <2>2. PICK x : x = [call |-> "grantRole", role |-> r, account |-> Address(r)]
    OBVIOUS
  <2>3. x \in G
    BY <2>1, <2>2 DEF G, GrantCalls
  <2>4. PICK i \in 1..Len(g) : g[i] = x
    BY <1>1, <2>3
  <2>5. i \in 1..Len(p) /\ p[i] = x
    BY <1>6, <2>4
  <2>6. x.call = "grantRole" /\ x.role = r /\ x.account = Address(r)
    BY <2>2
  <2> QED
    BY <2>1, <2>5, <2>6
<1>10. p \in Seq(G \cup R)
  <2>1. g \in Seq(G \cup R) /\ q \in Seq(G \cup R)
    BY <1>1, <1>2
  <2> QED
    BY <1>3, <2>1
<1> QED
  BY <1>8, <1>9, <1>10 DEF p

(* One transaction: the roles it has an address for keep a holder.          *)
LEMMA TransactionKeeps ==
  ASSUME RunInv, SendNext
  PROVE  /\ RunInv'
         /\ \A r \in ContractRoles : run.address[r] # NoKey /\ Held(r) => Held(r)'
<1>1. PICK todo, address, signer :
        todo = run.todo /\ address = run.address /\ signer = run.signer
  OBVIOUS
<1>2. run # NoRun /\ IsFiniteSet(holders) /\ Orderly(todo, address) /\ Provided(holders, todo, address)
      /\ run = [signer |-> signer, address |-> address, todo |-> todo]
  BY <1>1 DEF RunInv, SendNext
<1>3. PICK T : todo \in Seq(T)
  BY <1>1 DEF RunInv, SendNext
<1>4. PICK tx : tx = Head(todo)
  OBVIOUS
<1>5. tx = todo[1] /\ Len(todo) \in Nat /\ 1 \in 1..Len(todo)
  BY <1>2, <1>3, <1>4 DEF Orderly
<1>6. \/ holders' = holders
      \/ tx.call = "grantRole" /\ holders' = holders \cup {<<tx.role, tx.account>>}
      \/ tx.call # "grantRole" /\ holders' = holders \ {<<tx.role, tx.account>>}
  BY <1>1, <1>4 DEF SendNext
<1>7. IsFiniteSet(holders') /\ \A h \in holders' : h[1] \in ContractRoles
  <2>1. IsFiniteSet(holders')
    BY <1>2, <1>6, FS_AddElement, FS_RemoveElement
  <2>2. <<tx.role, tx.account>>[1] \in ContractRoles
    BY <1>2, <1>5 DEF Orderly
  <2>3. \A h \in holders : h[1] \in ContractRoles
    BY DEF RunInv
  <2> QED
    BY <1>6, <2>1, <2>2, <2>3
<1>8. ASSUME tx.call # "grantRole"
      PROVE  \A r \in ContractRoles : address[r] # NoKey =>
               <<r, address[r]>> \in holders /\ <<r, address[r]>> \in holders'
  <2> SUFFICES ASSUME NEW r \in ContractRoles, address[r] # NoKey
               PROVE  <<r, address[r]>> \in holders /\ <<r, address[r]>> \in holders'
    OBVIOUS
  <2>1. \A i \in 1..Len(todo) : todo[i].call # "grantRole"
    BY <1>2, <1>5, <1>8 DEF Orderly
  <2>2. <<r, address[r]>> \in holders
    BY <1>2, <2>1 DEF Provided
  <2>3. tx.account # address[tx.role]
    BY <1>2, <1>5, <1>8 DEF Orderly
  <2>4. <<tx.role, tx.account>> # <<r, address[r]>>
    BY <2>3
  <2> QED
    BY <1>6, <1>8, <2>2, <2>4
<1>9. ASSUME NEW r \in ContractRoles, run.address[r] # NoKey, Held(r) PROVE Held(r)'
  <2>1. CASE tx.call = "grantRole"
    BY <1>6, <1>9, <2>1 DEF Held
  <2>2. CASE tx.call # "grantRole"
    <3>1. <<r, address[r]>> \in holders'
      BY <1>1, <1>8, <1>9, <2>2
    <3>2. <<r, address[r]>>[1] = r
      OBVIOUS
    <3> QED
      BY <3>1, <3>2 DEF Held
  <2> QED
    BY <2>1, <2>2
<1>10. ASSUME run' # NoRun
       PROVE  /\ Len(todo) > 1 /\ run' = [run EXCEPT !.todo = Tail(@)]
              /\ tx.call = "grantRole" => holders' = holders \cup {<<tx.role, tx.account>>}
  BY <1>1, <1>4, <1>10 DEF SendNext
<1>11. ASSUME run' # NoRun
       PROVE  /\ \E s, a, t : run' = [signer |-> s, address |-> a, todo |-> t]
              /\ \E U : run'.todo \in Seq(U)
              /\ Orderly(run'.todo, run'.address) /\ Provided(holders', run'.todo, run'.address)
  <2>1. Len(todo) > 1 /\ run' = [signer |-> signer, address |-> address, todo |-> Tail(todo)]
    BY <1>2, <1>10, <1>11
  <2>2. PICK rest : rest = Tail(todo)
    OBVIOUS
  <2>3. /\ rest \in Seq(T) /\ Len(rest) = Len(todo) - 1
        /\ \A i \in 1..Len(rest) : i + 1 \in 1..Len(todo) /\ rest[i] = todo[i + 1]
    BY <1>3, <2>1, <2>2
  <2>4. run'.todo = rest /\ run'.address = address
    BY <2>1, <2>2
  <2>5. Orderly(rest, address)
    <3>1. Len(rest) \in Nat /\ Len(rest) > 0
      BY <1>5, <2>1, <2>3
    <3>2. \A i, j \in 1..Len(rest) :
            i < j /\ rest[j].call = "grantRole" => rest[i].call = "grantRole"
      <4> SUFFICES ASSUME NEW i \in 1..Len(rest), NEW j \in 1..Len(rest), i < j,
                          rest[j].call = "grantRole"
                   PROVE  rest[i].call = "grantRole"
        OBVIOUS
      <4>1. /\ i + 1 \in 1..Len(todo) /\ j + 1 \in 1..Len(todo) /\ i + 1 < j + 1
            /\ rest[i] = todo[i + 1] /\ rest[j] = todo[j + 1]
        BY <2>3, <3>1
      <4> QED
        BY <1>2, <4>1 DEF Orderly
    <3>3. \A i \in 1..Len(rest) :
            /\ rest[i].role \in ContractRoles
            /\ rest[i].call # "grantRole" => rest[i].account # address[rest[i].role]
      BY <1>2, <2>3 DEF Orderly
    <3> QED
      BY <3>1, <3>2, <3>3 DEF Orderly
  <2>6. \A r \in ContractRoles : address[r] # NoKey =>
          \/ <<r, address[r]>> \in holders'
          \/ \E i \in 1..Len(rest) :
               rest[i].call = "grantRole" /\ rest[i].role = r /\ rest[i].account = address[r]
    <3> SUFFICES ASSUME NEW r \in ContractRoles, address[r] # NoKey,
                        <<r, address[r]>> \notin holders'
                 PROVE  \E i \in 1..Len(rest) :
                          rest[i].call = "grantRole" /\ rest[i].role = r /\ rest[i].account = address[r]
      OBVIOUS
    <3>1. tx.call = "grantRole" /\ holders' = holders \cup {<<tx.role, tx.account>>}
      BY <1>8, <1>10, <1>11
    <3>2. PICK i \in 1..Len(todo) :
            todo[i].call = "grantRole" /\ todo[i].role = r /\ todo[i].account = address[r]
      BY <1>2, <3>1 DEF Provided
    <3>3. i # 1
      BY <1>5, <3>1, <3>2
    <3>4. i - 1 \in 1..Len(rest) /\ (i - 1) + 1 = i
      BY <1>5, <2>3, <3>3
    <3>5. rest[i - 1] = todo[i]
      BY <2>3, <3>4
    <3> QED
      BY <3>2, <3>4, <3>5
  <2>7. Provided(holders', run'.todo, run'.address)
    BY <2>4, <2>6 DEF Provided
  <2> QED
    BY <2>1, <2>3, <2>4, <2>5, <2>7
<1>12. RunInv'
  BY <1>7, <1>11 DEF RunInv, Orderly, Provided
<1> QED
  BY <1>9, <1>12

LEMMA RolesStep ==
  ASSUME RunInv, [RolesNext]_rolesVars
  PROVE  /\ RunInv'
         /\ \A r \in ContractRoles :
              (run # NoRun /\ run.address[r] # NoKey /\ Held(r)) => Held(r)'
<1>1. ASSUME holders' = holders, run' = run \/ run' = NoRun
      PROVE  /\ RunInv'
             /\ \A r \in ContractRoles : Held(r) => Held(r)'
  BY <1>1 DEF RunInv, Orderly, Provided, Held
<1>2. ASSUME NEW p \in Places, NEW s \in Slots, NEW k, EditByHand(p, s, k)
      PROVE  holders' = holders /\ run' = run
  BY <1>2 DEF EditByHand
<1>3. ASSUME Separate PROVE holders' = holders /\ run' = run
  BY <1>3 DEF Separate
<1>4. ASSUME ApplyStops PROVE holders' = holders /\ run' = NoRun
  BY <1>4 DEF ApplyStops
<1>5. ASSUME UNCHANGED rolesVars PROVE holders' = holders /\ run' = run
  BY <1>5 DEF rolesVars
<1>6. ASSUME Apply PROVE RunInv' /\ \A r \in ContractRoles : Held(r) => Held(r)'
  <2>1. PICK signer : signer = Loaded(keyVar, "ADMIN")
    OBVIOUS
  <2>2. PICK address : address = [s \in Slots |-> Address(s)]
    OBVIOUS
  <2>3. PICK plan : plan = Plan(signer)
    OBVIOUS
  <2>4. /\ plan # <<>> /\ holders' = holders
        /\ run' = [signer |-> signer, address |-> address, todo |-> plan]
    BY <1>6, <2>1, <2>2, <2>3 DEF Apply
  <2>5. (\E T : plan \in Seq(T)) /\ Orderly(plan, address) /\ Provided(holders, plan, address)
    BY <2>2, <2>3, <2>4, PlanIs DEF RunInv
  <2>6. run'.todo = plan /\ run'.address = address
    BY <2>4
  <2>7. Provided(holders', run'.todo, run'.address)
    BY <2>4, <2>5, <2>6 DEF Provided
  <2>8. RunInv'
    BY <2>4, <2>5, <2>6, <2>7 DEF RunInv, Orderly, Provided
  <2> QED
    BY <2>4, <2>8 DEF Held
<1>7. ASSUME SendNext PROVE run # NoRun
  BY <1>7 DEF SendNext
<1> QED
  BY <1>1, <1>2, <1>3, <1>4, <1>5, <1>6, <1>7, TransactionKeeps DEF RolesNext

(* Whatever edits, separations and half-finished runs came before it, an    *)
(* `apply` takes no role from its last holder when it has an address to     *)
(* give that role to.                                                       *)
THEOREM NoRoleLeftEmpty == RolesSpec => RolesStayHeld
<1>1. RolesInit => RunInv
  <2> SUFFICES ASSUME RolesInit PROVE RunInv
    OBVIOUS
  <2> DEFINE f == [r \in ContractRoles |-> <<r, FirstKey>>]
  <2>1. IsFiniteSet(ContractRoles)
    BY KeySlotsAreFinite, FS_Subset DEF ContractRoles
  <2>2. f \in Surjection(ContractRoles, holders)
    BY DEF Surjection, RolesInit
  <2>3. \A h \in holders : h[1] \in ContractRoles
    BY DEF RolesInit
  <2> QED
    BY <2>1, <2>2, <2>3, FS_Surjection DEF RolesInit, RunInv
<1>2. RunInv /\ [RolesNext]_rolesVars => RunInv'
  BY RolesStep
<1>3. RunInv /\ [RolesNext]_rolesVars =>
        [\A r \in ContractRoles :
           (run # NoRun /\ run.address[r] # NoKey /\ Held(r)) => Held(r)']_rolesVars
  BY RolesStep
<1> QED
  BY <1>1, <1>2, <1>3, PTL DEF RolesSpec, RolesStayHeld
=============================================================================

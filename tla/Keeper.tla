------------------------------- MODULE Keeper -------------------------------
(***************************************************************************)
(* The keeper's fallback passes over all tasks: tick and runFallbacks of     *)
(* apps/api/src/orchestrator/keeper.ts, which close what nobody closed.      *)
(* (How the keeper settles one task through its jobs is Settlement's.)       *)
(*                                                                         *)
(* A pass takes, per kind of fallback, the rows that are due, oldest first   *)
(* and as many as it has transactions left, and asks the chain about each.   *)
(* One call that throws ends the pass.                                       *)
(***************************************************************************)
EXTENDS Integers, Sequences, FiniteSets

CONSTANTS
  Overdue,          \* numbers of tasks that reach a stage with a deadline
  StageOf,          \* the stage each is in
  DueAt,            \* its deadline
  Classified,       \* tasks with a consensus artifact, or a job that makes one
  Grace,            \* keeperGracePeriod
  MaxTxPerTick,
  MaxTime,          \* bound: the clock
  MaxThrows         \* bound: calls that throw, sums below the floor, host clocks that run fast

ActionKinds == <<"Consensus", "Revealing", "Disputed">>

ASSUME KeeperAssumption ==
  /\ Overdue \subseteq Nat /\ Classified \subseteq Overdue
  /\ \A t \in Overdue : DueAt[t] \in Nat /\ \E k \in 1..3 : StageOf[t] = ActionKinds[k]
  /\ {Grace, MaxTxPerTick, MaxTime, MaxThrows} \subseteq Nat

VARIABLES
  time,         \* the chain's
  onchain,      \* the task's status on the chain
  row,          \* and in its row
  keeper,
  throws

keeperVars == <<time, onchain, row, keeper, throws>>

Waits == [at |-> "idle"]
Opens(t) == DueAt[t] + (IF StageOf[t] = "Revealing" THEN Grace ELSE 0)

(* Without a key the keeper only says so.                                     *)
KeeperInit ==
  /\ time = 0 /\ onchain = StageOf /\ row = StageOf /\ throws = 0
  /\ keeper \in {Waits, [at |-> "disabled"]}

-----------------------------------------------------------------------------
(* Mutant: rows of tasks that are closed still take a place. *)
Candidate_Closed(kind, t) ==
  /\ StageOf[t] = kind /\ DueAt[t] < time
  /\ kind = "Revealing" => t \notin Classified

Candidate(kind, t) ==
  /\ row[t] = kind /\ DueAt[t] < time
  /\ kind = "Revealing" => t \notin Classified

OlderCandidate(t, u) == DueAt[t] < DueAt[u] \/ (DueAt[t] = DueAt[u] /\ t < u)

(* ORDER BY the deadline LIMIT what is left of the budget.                    *)
Candidates(kind, limit) ==
  LET all == {t \in Overdue : Candidate(kind, t)}
  IN {t \in all : Cardinality({u \in all : OlderCandidate(u, t)}) < limit}

Phase(k, left, now) ==
  [at |-> "pass", phase |-> k, left |-> left, now |-> now, rest |-> Candidates(ActionKinds[k], left)]

Throws == throws < MaxThrows /\ throws' = throws + 1

Tick ==
  /\ keeper.at = "idle" /\ keeper' = Phase(1, MaxTxPerTick, time)
  /\ UNCHANGED <<time, onchain, row, throws>>

(* chainNowSec falls back on the host's clock, which may be ahead.            *)
TickOnHostClock ==
  /\ keeper.at = "idle" /\ Throws /\ keeper' = Phase(1, MaxTxPerTick, time + 1)
  /\ UNCHANGED <<time, onchain, row>>

Oldest(t) == t \in keeper.rest /\ \A u \in keeper.rest \ {t} : OlderCandidate(t, u)
Closes(t) == onchain' = [onchain EXCEPT ![t] = "closed"]

(* The chain has moved on, or is not there yet: on to the next candidate.     *)
PassOver(t) == onchain[t] # StageOf[t] \/ keeper.now <= Opens(t)

Consider(t) ==
  /\ keeper.at = "pass" /\ keeper.left > 0 /\ Oldest(t)
  /\ IF PassOver(t)
     THEN keeper' = [keeper EXCEPT !.rest = @ \ {t}] /\ UNCHANGED onchain
     ELSE IF time > Opens(t)
     THEN keeper' = [keeper EXCEPT !.rest = @ \ {t}, !.left = @ - 1] /\ Closes(t)
     ELSE keeper' = Waits /\ UNCHANGED onchain    \* the contract refuses: submit throws
  /\ UNCHANGED <<time, row, throws>>

ConsiderThrows(t, landed) ==
  /\ keeper.at = "pass" /\ keeper.left > 0 /\ Oldest(t) /\ Throws
  /\ IF landed /\ ~PassOver(t) /\ time > Opens(t) THEN Closes(t) ELSE UNCHANGED onchain
  /\ keeper' = Waits /\ UNCHANGED <<time, row>>

NextPhase ==
  /\ keeper.at = "pass" /\ (keeper.rest = {} \/ keeper.left = 0)
  /\ keeper' = IF keeper.phase = 3 THEN Waits
               ELSE Phase(keeper.phase + 1, keeper.left, keeper.now)
  /\ UNCHANGED <<time, onchain, row, throws>>

-----------------------------------------------------------------------------
(* Everybody may call what the keeper calls.                                  *)
SomebodyCloses(t) ==
  /\ onchain[t] = StageOf[t] /\ Closes(t) /\ UNCHANGED <<time, row, keeper, throws>>

IndexRow(t) ==
  /\ row[t] # onchain[t] /\ row' = [row EXCEPT ![t] = onchain[t]]
  /\ UNCHANGED <<time, onchain, keeper, throws>>

Minute == time < MaxTime /\ time' = time + 1 /\ UNCHANGED <<onchain, row, keeper, throws>>

KeeperPasses == Tick \/ NextPhase \/ \E t \in Overdue : Consider(t)

KeeperNext ==
  \/ KeeperPasses \/ TickOnHostClock \/ Minute
  \/ \E t \in Overdue : \/ SomebodyCloses(t) \/ IndexRow(t)
                        \/ \E landed \in BOOLEAN : ConsiderThrows(t, landed)

(* The interval goes on ticking and the indexer and the chain go on.          *)
KeeperSpec ==
  /\ KeeperInit /\ [][KeeperNext]_keeperVars
  /\ WF_keeperVars(KeeperPasses) /\ WF_keeperVars(Minute)
  /\ \A t \in Overdue : WF_keeperVars(IndexRow(t))

-----------------------------------------------------------------------------
(* A keeper with a key leaves no task behind that is its to close: however    *)
(* small its budget of transactions, whichever calls throw in the middle of   *)
(* a pass and whoever else closes tasks under it, every task past its         *)
(* deadline is closed in the end.                                            *)
NobodyLeftBehind ==
  keeper.at # "disabled" =>
    \A t \in Overdue \ {u \in Classified : StageOf[u] = "Revealing"} : <>(onchain[t] = "closed")
=============================================================================

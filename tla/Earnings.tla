------------------------------ MODULE Earnings ------------------------------
(***************************************************************************)
(* A verifier worker's registration and its money: what start, findWork and *)
(* collect of workers/verifier/src/worker.ts do to bring the rewards that    *)
(* the contract allocates to the verifier's wallet.                          *)
(*                                                                         *)
(* The tasks are those the verifier revealed a report on and is paid for.    *)
(* A provisional allocation is not claimable before the dispute window has   *)
(* passed, and an upheld dispute takes it back.  Reporting itself is         *)
(* VerifierWorker's.                                                         *)
(***************************************************************************)
EXTENDS Integers, FiniteSets, FiniteSetsExt

CONSTANTS
  Jobs,             \* numbers of tasks
  Reward,           \* what each pays the verifier
  Floor,            \* minCollectWei
  Lookback,         \* lookbackBlocks
  DisputeWindow,    \* in blocks
  MaxHead,          \* bound: blocks
  MaxFailures       \* bound: calls that fail for no reason of the contract's

ASSUME EarningsAssumption ==
  /\ Jobs \subseteq Nat /\ Reward \in Nat \ {0}
  /\ {Floor, Lookback, DisputeWindow, MaxHead, MaxFailures} \subseteq Nat

VARIABLES
  head,
  stage,        \* per task: "unborn", "live", "consensus", "disputed", "final"
  since,        \* per task: the block it was created in, then the one of its consensus
  allocation,   \* allocationOf(task, verifier)
  owed,         \* pendingWithdrawals(verifier)
  collected,    \* what reached the wallet
  kept,         \* tasks whose record is still in the journal
  registered,
  earner,       \* the worker: off, idle, or somewhere in a pass
  failures

chain == <<head, stage, since, allocation, owed, collected, registered>>
earnVars == <<chain, kept, earner, failures>>

Resting == [at |-> "idle"]

EarnInit ==
  /\ head = 1 /\ stage = [t \in Jobs |-> "unborn"]
  /\ since = [t \in Jobs |-> [created |-> 0, agreed |-> 0]]
  /\ allocation = [t \in Jobs |-> 0] /\ owed = 0 /\ collected = 0
  /\ kept = {} /\ registered = FALSE /\ earner = [at |-> "off"] /\ failures = 0

-----------------------------------------------------------------------------
(* The chain.                                                                *)

NewBlock ==
  /\ head < MaxHead /\ head' = head + 1
  /\ UNCHANGED <<stage, since, allocation, owed, collected, registered, kept, earner, failures>>

Stages(t, to) ==
  stage' = [stage EXCEPT ![t] = to] /\ UNCHANGED <<head, owed, collected, registered, earner, failures>>

TaskAppears(t) ==
  /\ stage[t] = "unborn" /\ Stages(t, "live")
  /\ since' = [since EXCEPT ![t].created = head] /\ UNCHANGED <<allocation, kept>>

(* The record of a reveal whose receipt was never seen stays in the journal.  *)
ReachesConsensus(t, record) ==
  /\ stage[t] = "live" /\ registered /\ Stages(t, "consensus")
  /\ since' = [since EXCEPT ![t].agreed = head]
  /\ allocation' = [allocation EXCEPT ![t] = Reward]
  /\ kept' = IF record THEN kept \cup {t} ELSE kept

WindowOver(t) == head > since[t].agreed + DisputeWindow

Challenged(t) ==
  /\ stage[t] = "consensus" /\ ~WindowOver(t) /\ Stages(t, "disputed")
  /\ UNCHANGED <<since, allocation, kept>>

Decided(t, upheld) ==
  /\ stage[t] = "disputed" /\ Stages(t, "final")
  /\ allocation' = IF upheld THEN [allocation EXCEPT ![t] = 0] ELSE allocation
  /\ UNCHANGED <<since, kept>>

(* _claim finalizes an undisputed task on its way.                            *)
Claimable(t) ==
  /\ allocation[t] > 0
  /\ \/ stage[t] = "final"
     \/ stage[t] = "consensus" /\ WindowOver(t)

-----------------------------------------------------------------------------
(* The worker.                                                               *)

(* A call that fails, before its effect or after.                             *)
Falters == failures < MaxFailures /\ failures' = failures + 1

EnsureRegistered(lands) ==
  /\ registered' = (registered \/ lands)
  /\ UNCHANGED <<head, stage, since, allocation, owed, collected, kept>>

(* start: a registration that fails is logged, and the loop begins.           *)
StartEarner ==
  /\ earner.at = "off" /\ EnsureRegistered(TRUE)
  /\ earner' = Resting /\ UNCHANGED failures

StartFalters(lands) ==
  /\ earner.at = "off" /\ Falters /\ EnsureRegistered(lands) /\ earner' = Resting

InView(t) == stage[t] # "unborn" /\ (head - since[t].created <= Lookback \/ t \in kept)

(* findWork: the settled ones of the tasks in view; their records go.         *)
FindSettled ==
  /\ earner.at = "idle"
  /\ LET settled == {t \in Jobs : InView(t) /\ stage[t] # "live"}
     IN /\ settled # {}
        /\ earner' = [at |-> "pricing", settled |-> settled]
        /\ kept' = kept \ settled
  /\ UNCHANGED <<chain, failures>>

Worth(tasks) == MapThenSumSet(LAMBDA t : allocation[t], tasks) + owed

(* collect: nothing moves below the floor.                                    *)
Price ==
  /\ earner.at = "pricing"
  /\ LET claims == {t \in earner.settled : allocation[t] > 0}
     IN earner' = IF Worth(claims) = 0 \/ Worth(claims) < Floor THEN Resting
                  ELSE [at |-> "claiming", rest |-> claims]
  /\ UNCHANGED <<chain, kept, failures>>

Credit(t) ==
  IF Claimable(t)
  THEN /\ stage' = [stage EXCEPT ![t] = "final"]
       /\ allocation' = [allocation EXCEPT ![t] = 0] /\ owed' = owed + allocation[t]
  ELSE UNCHANGED <<stage, allocation, owed>>

(* Mutant: the first claim that fails ends the pass. *)
AfterClaim_Aborts(t, ok) ==
  IF ok THEN [earner EXCEPT !.rest = @ \ {t}] ELSE Resting

(* One claim's failure does not end the others.                               *)
AfterClaim(t, ok) == [earner EXCEPT !.rest = @ \ {t}]

ClaimReward ==
  /\ earner.at = "claiming" /\ earner.rest # {}
  /\ LET t == Min(earner.rest)
     IN Credit(t) /\ earner' = AfterClaim(t, Claimable(t))
  /\ UNCHANGED <<head, since, collected, registered, kept, failures>>

ClaimFalters(lands) ==
  /\ earner.at = "claiming" /\ earner.rest # {} /\ Falters
  /\ LET t == Min(earner.rest)
     IN /\ IF lands THEN Credit(t) ELSE UNCHANGED <<stage, allocation, owed>>
        /\ earner' = AfterClaim(t, FALSE)
  /\ UNCHANGED <<head, since, collected, registered, kept>>

WithdrawEarnings ==
  /\ earner.at = "claiming" /\ earner.rest = {}
  /\ collected' = collected + owed /\ owed' = 0 /\ earner' = Resting
  /\ UNCHANGED <<head, stage, since, allocation, registered, kept, failures>>

(* Any other call of a pass fails: the pass is over.                          *)
PassFalters ==
  /\ earner.at \in {"pricing", "claiming"} /\ Falters /\ earner' = Resting
  /\ UNCHANGED <<chain, kept>>

EarnerDies ==
  /\ earner.at # "off" /\ Falters /\ earner' = [at |-> "off"] /\ UNCHANGED <<chain, kept>>

EarnerWorks == StartEarner \/ FindSettled \/ Price \/ ClaimReward \/ WithdrawEarnings

EarnNext ==
  \/ NewBlock \/ EarnerWorks \/ PassFalters \/ EarnerDies
  \/ \E lands \in BOOLEAN : StartFalters(lands) \/ ClaimFalters(lands)
  \/ \E t \in Jobs :
       \/ TaskAppears(t) \/ Challenged(t)
       \/ \E yes \in BOOLEAN : ReachesConsensus(t, yes) \/ Decided(t, yes)

(* The loop re-arms itself after every pass, and a supervisor restarts the    *)
(* process.                                                                  *)
EarnSpec == EarnInit /\ [][EarnNext]_earnVars /\ WF_earnVars(EarnerWorks)

-----------------------------------------------------------------------------
Seen == {t \in Jobs : InView(t) /\ stage[t] \notin {"unborn", "live"}}

(* Earnings that are in view and worth the gas are claimed and withdrawn:     *)
(* no reward the contract would pay stays unclaimed for ever, whatever        *)
(* becomes of the other tasks of the pass and whichever calls of it fail.     *)
RewardsAreCollected ==
  \A t \in Jobs : []<>~(Claimable(t) /\ InView(t) /\ Worth(Seen) >= Floor)

(* worker.ts, of settled tasks: they "used to be dropped here [...] which is  *)
(* where a verifier's earnings went to die".                                  *)
NoEarningsDie ==
  \A t \in Jobs : []<>~(Claimable(t) /\ Worth({u \in Jobs : Claimable(u)}) >= Floor)

(* worker.ts: "could not register on startup; will retry on the next tick".   *)
RegistersInTheEnd == <>registered
=============================================================================

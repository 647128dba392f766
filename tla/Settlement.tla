----------------------------- MODULE Settlement -----------------------------
(***************************************************************************)
(* How the API settles one task once its commit phase is over: the indexer  *)
(* (apps/api/src/indexer/projections.ts) copies the chain's reveals into    *)
(* the read model, the orchestrator (orchestrator.ts) evaluates them into   *)
(* a consensus artifact, and the keeper (keeper.ts) submits what the        *)
(* artifact implies, or expires a task nobody classified.                   *)
(*                                                                         *)
(* Three loops of one process interleave at every await, against a chain    *)
(* that moves on its own.  A job's handler is therefore a sequence of       *)
(* actions, one per statement, fetch or RPC, and keeps what it read in orch *)
(* until it uses it.  The jobs table is JobTable's.                         *)
(*                                                                         *)
(* Abstracted: an artifact is the set of reports it covers, which fixes its *)
(* hash (evaluatedAt is made deterministic for that); the rule's verdict on *)
(* two or more reports is one of two, by whether it names someone to pay    *)
(* when it must.  What the contract does after classifying is ProofRelay's. *)
(***************************************************************************)
EXTENDS JobTable, Sequences

CONSTANTS
  Verifiers,       \* the slots of the task, all committed
  RevealDeadline,
  Grace,           \* keeperGracePeriod
  MaxTime,         \* bound: the last instant of either clock
  MaxOutages,      \* bound: crashes, and failed calls of the keeper's own loop
  NodesLag,        \* whether a node may answer the indexer from an older block
  Api,             \* the orchestrator's worker id
  Absent           \* what was never written or never read

ASSUME SettlementAssumption ==
  /\ IsFiniteSet(Verifiers) /\ Verifiers # {}
  /\ "settled" \notin Verifiers /\ \A S \in SUBSET Verifiers : Absent # S
  /\ RevealDeadline \in Nat /\ Grace \in Nat
  /\ MaxTime \in Nat /\ MaxOutages \in Nat
  /\ NodesLag \in BOOLEAN
  /\ Keys = {"evaluate", "finalize"} /\ Workers = {Api}

VARIABLES
  chain,       \* the task's struct, and history: what classified it
  chainTime, hostTime,
  mempool,     \* transactions broadcast and not mined
  logs,        \* the task's logs the indexer has not projected
  row,         \* the task's row of the read model
  reports,     \* verifiers whose report row says REVEALED
  artifact,    \* consensus_results: the reports the artifact covers
  jobs,
  batch,       \* jobs the pass under way has claimed and not started
  orch,        \* the handler that is running, and what it has read
  keeper,      \* the keeper's tick
  rewards,     \* whether an agreement of this task's reports names anyone to pay
  outages

chainVars == <<chain, chainTime, hostTime, mempool>>
readModel == <<logs, row, reports>>
vars == <<chainVars, readModel, artifact, jobs, batch, orch, keeper, rewards, outages>>

Live == {"Committing", "Revealing"}
OrchIdle == [at |-> "idle", count |-> 0, evidence |-> {}, task |-> Absent, now |-> Absent]
KeeperIdle == [at |-> "idle", now |-> Absent]

Init ==
  /\ chain = [status |-> "Committing", revealed |-> {}, evidence |-> Absent, read |-> Absent]
  /\ chainTime = 0 /\ hostTime = 0
  /\ mempool = {} /\ logs = <<>>
  /\ row = [status |-> "Committing", count |-> 0]
  /\ reports = {} /\ artifact = Absent
  /\ jobs = [key \in Keys |-> NoJob] /\ batch = {}
  /\ orch = OrchIdle /\ keeper = KeeperIdle
  /\ rewards \in BOOLEAN
  /\ outages = 0

-----------------------------------------------------------------------------
(* The chain and the clocks.  The host's clock runs ahead of the last block  *)
(* by at most one instant.                                                   *)

BlockTime ==
  /\ chainTime < hostTime
  /\ chainTime' = chainTime + 1
  /\ UNCHANGED <<chain, hostTime, mempool, readModel, artifact, jobs, batch, orch,
                 keeper, rewards, outages>>

HostTime ==
  /\ hostTime < MaxTime /\ hostTime = chainTime
  /\ hostTime' = hostTime + 1
  /\ UNCHANGED <<chain, chainTime, mempool, readModel, artifact, jobs, batch, orch,
                 keeper, rewards, outages>>

Reveal(v) ==
  /\ chain.status \in Live /\ v \notin chain.revealed
  /\ chainTime <= RevealDeadline
  /\ chain' = [chain EXCEPT !.revealed = @ \cup {v}, !.status = "Revealing"]
  /\ logs' = Append(logs, v)
  /\ UNCHANGED <<chainTime, hostTime, mempool, row, reports, artifact, jobs, batch,
                 orch, keeper, rewards, outages>>

Finalize(evidence, read) == [kind |-> "finalize", evidence |-> evidence, read |-> read]
Expire == [kind |-> "expire", evidence |-> Absent, read |-> Absent]

(* What finalizeConsensus and expireTask require of the task. *)
Accepts(tx) ==
  IF tx.kind = "finalize"
  THEN /\ chain.status = "Revealing"
       /\ chain.revealed = Verifiers \/ chainTime > RevealDeadline
  ELSE chain.status \in Live /\ chainTime > RevealDeadline + Grace

Settles(tx) ==
  /\ chain' = [chain EXCEPT !.status = IF tx.kind = "finalize" THEN "Settled" ELSE "Expired",
                            !.evidence = tx.evidence, !.read = tx.read]
  /\ logs' = Append(logs, "settled")

(* A receipt reaches the loop that still waits for it. *)
Mine(sent) ==
  /\ sent \in mempool
  /\ mempool' = mempool \ {sent}
  /\ IF Accepts(sent.tx) THEN Settles(sent.tx) ELSE UNCHANGED <<chain, logs>>
  /\ IF sent.watched /\ sent.tx.kind = "finalize"
     THEN orch' = [orch EXCEPT !.at = IF Accepts(sent.tx) THEN "done" ELSE "reverted"]
     ELSE UNCHANGED orch
  /\ IF sent.watched /\ sent.tx.kind = "expire"
     THEN keeper' = KeeperIdle ELSE UNCHANGED keeper
  /\ UNCHANGED <<chainTime, hostTime, row, reports, artifact, jobs, batch, rewards, outages>>

(* expireTask needs no role. *)
AnyoneExpires ==
  /\ Accepts(Expire) /\ Settles(Expire)
  /\ UNCHANGED <<chainTime, hostTime, mempool, row, reports, artifact, jobs, batch,
                 orch, keeper, rewards, outages>>

Broadcast(tx) == mempool' = mempool \cup {[tx |-> tx, watched |-> TRUE]}

(* The sender stops waiting; the transaction stays where it is. *)
Unwatched(kind) ==
  {[sent EXCEPT !.watched = IF sent.tx.kind = kind THEN FALSE ELSE @] : sent \in mempool}

-----------------------------------------------------------------------------
(* The indexer: each log re-reads the structs as they are now, or as a node  *)
(* that lags has them.  A pass over several logs is several of these.        *)

Answers(v) ==
  {[status |-> chain.status, revealed |-> chain.revealed]} \cup
  (IF NodesLag /\ chain.revealed # {}
   THEN {[status |-> IF chain.revealed = {v} THEN "Committing" ELSE "Revealing",
          revealed |-> chain.revealed \ {v}]}
   ELSE {})

ProjectReveal(v) ==
  /\ logs # <<>> /\ Head(logs) = v
  /\ \E task \in Answers(v), report \in BOOLEAN :
        /\ report \/ NodesLag
        /\ row' = [status |-> task.status, count |-> Cardinality(task.revealed)]
        /\ reports' = IF report THEN reports \cup {v} ELSE reports
        /\ jobs' = IF task.revealed = Verifiers /\ task.status = "Revealing"
                   THEN Enqueued(jobs, "evaluate") ELSE jobs
  /\ logs' = Tail(logs)
  /\ UNCHANGED <<chainVars, artifact, batch, orch, keeper, rewards, outages>>

ProjectSettled ==
  /\ logs # <<>> /\ Head(logs) = "settled"
  /\ row' = [status |-> chain.status, count |-> Cardinality(chain.revealed)]
  /\ logs' = Tail(logs)
  /\ UNCHANGED <<chainVars, reports, artifact, jobs, batch, orch, keeper, rewards, outages>>

-----------------------------------------------------------------------------
(* The orchestrator's pass: sweep, reap, claim, run.                         *)

AtPassStart == orch.at = "idle" /\ batch = {}

SweepUnevaluated ==
  /\ AtPassStart
  /\ row.status = "Revealing" /\ row.count > 0 /\ RevealDeadline < hostTime
  /\ artifact = Absent
  /\ jobs["evaluate"].status = "None"
  /\ jobs' = Enqueued(jobs, "evaluate")
  /\ UNCHANGED <<chainVars, readModel, artifact, batch, orch, keeper, rewards, outages>>

ReapStaleLeases ==
  /\ AtPassStart
  /\ jobs' = Reaped(jobs)
  /\ UNCHANGED <<chainVars, readModel, artifact, batch, orch, keeper, rewards, outages>>

Claim(S) ==
  /\ AtPassStart
  /\ S # {} /\ S \subseteq Due(jobs)
  /\ jobs' = Claimed(jobs, S, Api)
  /\ batch' = S
  /\ UNCHANGED <<chainVars, readModel, artifact, orch, keeper, rewards, outages>>

RunJob(key) ==
  /\ orch.at = "idle" /\ key \in batch
  /\ batch' = batch \ {key}
  /\ orch' = [orch EXCEPT !.at = IF key = "evaluate" THEN "read task" ELSE "read artifact"]
  /\ UNCHANGED <<chainVars, readModel, artifact, jobs, keeper, rewards, outages>>

Evaluating == {"read task", "read reports", "fetch", "persist", "enqueue", "evaluated"}
Finalizing == {"read artifact", "read chain", "send", "await", "reverted", "done"}
Running == IF orch.at \in Evaluating THEN {"evaluate"}
           ELSE IF orch.at \in Finalizing THEN {"finalize"} ELSE {}

Fails(retryable) ==
  /\ \E key \in Running : jobs' = Failed(jobs, key, retryable)
  /\ orch' = OrchIdle

(* The statement, fetch or RPC at hand throws: retryable, except a body that *)
(* does not hash to what the chain recorded.                                 *)
JobErrs(retryable) ==
  /\ orch.at \notin {"await", "reverted"}
  /\ retryable \/ orch.at = "fetch"
  /\ Fails(retryable)
  /\ UNCHANGED <<chainVars, readModel, artifact, batch, keeper, rewards, outages>>

(* The process dies: leases are left behind, broadcasts go on. *)
Crash ==
  /\ outages < MaxOutages
  /\ outages' = outages + 1
  /\ batch' = {} /\ orch' = OrchIdle /\ keeper' = KeeperIdle
  /\ mempool' = {[sent EXCEPT !.watched = FALSE] : sent \in mempool}
  /\ UNCHANGED <<chain, chainTime, hostTime, readModel, artifact, jobs, rewards>>

(* Only a lease nobody serves matters: with one orchestrator, a pass reaps   *)
(* before it claims.                                                         *)
LeaseRunsOut(key) ==
  /\ jobs[key].status = "RUNNING" /\ ~jobs[key].stale
  /\ key \notin batch \cup Running
  /\ jobs' = [jobs EXCEPT ![key].stale = TRUE]
  /\ UNCHANGED <<chainVars, readModel, artifact, batch, orch, keeper, rewards, outages>>

-----------------------------------------------------------------------------
(* CONSENSUS_EVALUATION: evaluateTask, persistResult, and the enqueue.       *)

ReadTaskRow ==
  /\ orch.at = "read task"
  /\ orch' = [orch EXCEPT !.at = "read reports", !.count = row.count]
  /\ UNCHANGED <<chainVars, readModel, artifact, jobs, batch, keeper, rewards, outages>>

(* None is a dead end; fewer than the task row counted is worth a retry. *)
ReadReports ==
  /\ orch.at = "read reports"
  /\ IF reports = {} THEN Fails(FALSE)
     ELSE IF Cardinality(reports) < orch.count THEN Fails(TRUE)
     ELSE /\ orch' = [orch EXCEPT !.at = "fetch", !.evidence = reports]
          /\ UNCHANGED jobs
  /\ UNCHANGED <<chainVars, readModel, artifact, batch, keeper, rewards, outages>>

FetchAndUpload ==
  /\ orch.at = "fetch"
  /\ orch' = [orch EXCEPT !.at = "persist"]
  /\ UNCHANGED <<chainVars, readModel, artifact, jobs, batch, keeper, rewards, outages>>

PersistResult ==
  /\ orch.at = "persist"
  /\ artifact' = orch.evidence
  /\ orch' = [orch EXCEPT !.at = "enqueue"]
  /\ UNCHANGED <<chainVars, readModel, jobs, batch, keeper, rewards, outages>>

EnqueueFinalization ==
  /\ orch.at = "enqueue"
  /\ jobs' = Enqueued(jobs, "finalize")
  /\ orch' = [orch EXCEPT !.at = "evaluated"]
  /\ UNCHANGED <<chainVars, readModel, artifact, batch, keeper, rewards, outages>>

(* The handler returned. *)
CompleteJob ==
  /\ orch.at \in {"evaluated", "done"}
  /\ \E key \in Running : jobs' = Completed(jobs, key, Api)
  /\ orch' = OrchIdle
  /\ UNCHANGED <<chainVars, readModel, artifact, batch, keeper, rewards, outages>>

-----------------------------------------------------------------------------
(* FINALIZATION: finalizeConsensusFor, and finalizationHandler around it.    *)

ReadArtifact ==
  /\ orch.at = "read artifact"
  /\ IF artifact = Absent THEN Fails(FALSE)
     ELSE /\ orch' = [orch EXCEPT !.at = "read chain", !.evidence = artifact]
          /\ UNCHANGED jobs
  /\ UNCHANGED <<chainVars, readModel, artifact, batch, keeper, rewards, outages>>

(* getTask and chainNowSec run side by side, each against its own block;     *)
(* the second falls back to the host's clock when its node does not answer.  *)
ReadChainTask ==
  /\ orch.at = "read chain" /\ orch.task = Absent
  /\ orch' = [orch EXCEPT !.task = [status |-> chain.status, revealed |-> chain.revealed]]
  /\ UNCHANGED <<chainVars, readModel, artifact, jobs, batch, keeper, rewards, outages>>

ReadChainClock ==
  /\ orch.at = "read chain" /\ orch.now = Absent
  /\ \E now \in {chainTime, hostTime} : orch' = [orch EXCEPT !.now = now]
  /\ UNCHANGED <<chainVars, readModel, artifact, jobs, batch, keeper, rewards, outages>>

(* Mutant: the artifact is not counted against the chain's reveals. *)
CheckFailures_NoCount(task, now, evidence) ==
  LET closed == task.revealed = Verifiers \/ now > RevealDeadline
  IN {f \in {"STATUS_NOT_REVEALING", "REVEAL_NOT_CLOSED", "BENEFICIARIES_EMPTY"} :
        CASE f = "STATUS_NOT_REVEALING" -> task.status # "Revealing"
          [] f = "REVEAL_NOT_CLOSED" -> ~closed
          [] f = "BENEFICIARIES_EMPTY" -> Cardinality(evidence) > 1 /\ ~rewards}

(* checkFinalizeConsensus, without the checks an artifact this orchestrator  *)
(* wrote always passes.                                                      *)
CheckFailures(task, now, evidence) ==
  LET closed == task.revealed = Verifiers \/ now > RevealDeadline
      holds == [STATUS_NOT_REVEALING |-> task.status # "Revealing",
                REVEAL_NOT_CLOSED |-> ~closed,
                ARTIFACT_INCOMPLETE |->
                  closed /\ Cardinality(evidence) # Cardinality(task.revealed),
                BENEFICIARIES_EMPTY |-> Cardinality(evidence) > 1 /\ ~rewards]
  IN {f \in DOMAIN holds : holds[f]}

CheckFinalizeConsensus ==
  /\ orch.at = "read chain" /\ orch.task # Absent /\ orch.now # Absent
  /\ LET failures == CheckFailures(orch.task, orch.now, orch.evidence)
     IN IF failures = {}
        THEN orch' = [orch EXCEPT !.at = "send"] /\ UNCHANGED jobs
        ELSE Fails(failures \subseteq {"REVEAL_NOT_CLOSED", "ARTIFACT_INCOMPLETE"})
  /\ UNCHANGED <<chainVars, readModel, artifact, batch, keeper, rewards, outages>>

(* send simulates first, and a revert there is final. *)
SendFinalize ==
  /\ orch.at = "send"
  /\ LET tx == Finalize(orch.evidence, orch.task.revealed)
     IN IF Accepts(tx)
        THEN /\ Broadcast(tx)
             /\ orch' = [orch EXCEPT !.at = "await"]
             /\ UNCHANGED jobs
        ELSE Fails(FALSE) /\ UNCHANGED mempool
  /\ UNCHANGED <<chain, chainTime, hostTime, readModel, artifact, batch, keeper,
                 rewards, outages>>

RevertedOnchain ==
  /\ orch.at = "reverted"
  /\ Fails(FALSE)
  /\ UNCHANGED <<chainVars, readModel, artifact, batch, keeper, rewards, outages>>

(* Mutant: no receipt in time is taken for success. *)
ReceiptTimesOut_AsDone ==
  /\ orch.at = "await"
  /\ mempool' = Unwatched("finalize")
  /\ orch' = [orch EXCEPT !.at = "done"]
  /\ UNCHANGED <<chain, chainTime, hostTime, readModel, artifact, jobs, batch, keeper,
                 rewards, outages>>

ReceiptTimesOut ==
  /\ orch.at = "await"
  /\ Fails(TRUE)
  /\ mempool' = Unwatched("finalize")
  /\ UNCHANGED <<chain, chainTime, hostTime, readModel, artifact, batch, keeper,
                 rewards, outages>>

-----------------------------------------------------------------------------
(* The keeper's own tick, as far as expireTask goes: the clock, the rows     *)
(* that look expired, then the task itself.                                  *)

KeeperReadsClock ==
  /\ keeper.at = "idle"
  /\ \E now \in {chainTime, hostTime} : keeper' = [at |-> "candidates", now |-> now]
  /\ UNCHANGED <<chainVars, readModel, artifact, jobs, batch, orch, rewards, outages>>

(* Mutant: a dead evaluation keeps the task out, like a live one. *)
ExpireCandidate_NoJobAtAll ==
  /\ row.status \in Live /\ RevealDeadline < hostTime
  /\ artifact = Absent
  /\ jobs["evaluate"].status = "None"

ExpireCandidate ==
  /\ row.status \in Live /\ RevealDeadline < hostTime
  /\ artifact = Absent
  /\ jobs["evaluate"].status \in {"None", "FAILED_FINAL"}

KeeperPicks ==
  /\ keeper.at = "candidates"
  /\ keeper' = IF ExpireCandidate THEN [keeper EXCEPT !.at = "expire"] ELSE KeeperIdle
  /\ UNCHANGED <<chainVars, readModel, artifact, jobs, batch, orch, rewards, outages>>

(* The fresh status, the clock read before, and send's simulation. *)
KeeperExpires ==
  /\ keeper.at = "expire"
  /\ IF chain.status \in Live /\ keeper.now > RevealDeadline + Grace /\ Accepts(Expire)
     THEN Broadcast(Expire) /\ keeper' = [keeper EXCEPT !.at = "await"]
     ELSE keeper' = KeeperIdle /\ UNCHANGED mempool
  /\ UNCHANGED <<chain, chainTime, hostTime, readModel, artifact, jobs, batch, orch,
                 rewards, outages>>

KeeperErrs ==
  /\ keeper.at # "idle" /\ outages < MaxOutages
  /\ outages' = outages + 1
  /\ keeper' = KeeperIdle
  /\ mempool' = Unwatched("expire")
  /\ UNCHANGED <<chain, chainTime, hostTime, readModel, artifact, jobs, batch, orch, rewards>>

-----------------------------------------------------------------------------
Orchestrates ==
  \/ ReadTaskRow \/ ReadReports \/ FetchAndUpload \/ PersistResult
  \/ EnqueueFinalization \/ CompleteJob
  \/ ReadArtifact \/ ReadChainTask \/ ReadChainClock \/ CheckFinalizeConsensus
  \/ SendFinalize \/ RevertedOnchain

Keeps == KeeperReadsClock \/ KeeperPicks \/ KeeperExpires

Next ==
  \/ BlockTime \/ HostTime \/ AnyoneExpires
  \/ \E v \in Verifiers : Reveal(v) \/ ProjectReveal(v)
  \/ \E sent \in mempool : Mine(sent)
  \/ ProjectSettled
  \/ SweepUnevaluated \/ ReapStaleLeases \/ Crash
  \/ \E S \in SUBSET Keys : Claim(S)
  \/ \E key \in Keys : RunJob(key) \/ LeaseRunsOut(key)
  \/ \E retryable \in BOOLEAN : JobErrs(retryable)
  \/ Orchestrates \/ ReceiptTimesOut
  \/ Keeps \/ KeeperErrs

Spec == Init /\ [][Next]_vars

(* Blocks come, broadcasts are mined, and the three timers keep firing.      *)
Fairness ==
  /\ WF_vars(BlockTime) /\ WF_vars(HostTime)
  /\ WF_vars(\E sent \in mempool : Mine(sent))
  /\ WF_vars(ProjectSettled \/ \E v \in Verifiers : ProjectReveal(v))
  /\ WF_vars(SweepUnevaluated)
  /\ WF_vars(ReapStaleLeases)
  /\ \A key \in Keys :
        /\ WF_vars(LeaseRunsOut(key))
        /\ SF_vars(\E S \in SUBSET Keys : key \in S /\ Claim(S))
        /\ WF_vars(RunJob(key))
  /\ WF_vars(Orchestrates)
  /\ WF_vars(KeeperReadsClock) /\ WF_vars(KeeperPicks) /\ WF_vars(KeeperExpires)

FairSpec == Spec /\ Fairness

-----------------------------------------------------------------------------
Classified == chain.status \notin Live

TypeOK ==
  /\ chain.status \in Live \cup {"Settled", "Expired"} /\ chain.revealed \subseteq Verifiers
  /\ reports \subseteq Verifiers /\ row.count \in 0..Cardinality(Verifiers)
  /\ artifact \in (SUBSET Verifiers) \cup {Absent}
  /\ \A key \in Keys : /\ jobs[key].status \in JobStatuses
                       /\ jobs[key].attempts \in 0..MAX_ATTEMPTS
  /\ batch \subseteq Keys /\ Running \cap batch = {}

(* keeper.ts, of ARTIFACT_INCOMPLETE: "The chain's count is the authority".  *)
(* However late the indexer, the sweep and the retries run, a settlement     *)
(* leaves out no reveal that stood on the chain when the keeper read the     *)
(* task.  (A reveal mined between that read and the next may be left out.)   *)
NothingReadIsIgnored ==
  chain.status = "Settled" => chain.evidence = chain.read

(* RESULT_MISSING stops a FINALIZATION job for good, so wherever the         *)
(* evaluation fails or the process dies, the job exists only once the        *)
(* artifact does.                                                            *)
FinalizationHasArtifact == jobs["finalize"].status # "None" => artifact # Absent

(* A FINALIZATION job that says DONE has settled its task: a timeout is not  *)
(* taken for a receipt, nor somebody else's expiry for its own transaction.  *)
DoneMeansSettled == jobs["finalize"].status = "DONE" => chain.status = "Settled"

(* Both: what the jobs say is backed by what was written and settled.         *)
JobsAreBacked == TypeOK /\ FinalizationHasArtifact /\ DoneMeansSettled

(* The one way a task is left to outsiders: an artifact was written, which   *)
(* shuts the keeper's fallback, and no job is alive to submit it.            *)
Stranded ==
  /\ artifact # Absent
  /\ \A key \in Keys : jobs[key].status \in Finished \cup {"None"}

(* "This is a fallback for a task nobody classified": through lag, failed    *)
(* storage and crashes, the service classifies every task by itself, unless  *)
(* it wrote an artifact it could not submit.                                 *)
ClassifiedOrStranded == <>(Classified \/ Stranded)

(* keeper.ts of ARTIFACT_INCOMPLETE: "an artifact that covers fewer reports  *)
(* than the chain records is recomputed on the next pass with the reveals it *)
(* missed".                                                                  *)
RefusedIncomplete ==
  /\ orch.at = "read chain" /\ orch.task # Absent /\ orch.now # Absent
  /\ "ARTIFACT_INCOMPLETE" \in CheckFailures(orch.task, orch.now, orch.evidence)

IncompleteIsRecomputed ==
  RefusedIncomplete ~> (artifact = chain.revealed \/ Classified)
=============================================================================

-------------------------- MODULE SettlementProofs --------------------------
(***************************************************************************)
(* The settlement path for any number of verifiers, any deadlines and any   *)
(* number of crashes: a settlement covers every reveal its keeper read, and *)
(* what the jobs table says of evaluation and finalization is backed by an  *)
(* artifact and by the chain.                                               *)
(***************************************************************************)
EXTENDS Settlement, FiniteSetTheorems, SequenceTheorems, TLAPS

Statuses == Live \cup {"Settled", "Expired"}
Stages == {"idle"} \cup Evaluating \cup Finalizing
BeforeChain == {"idle", "read artifact"} \cup Evaluating

TaskRead == [status : Statuses, revealed : SUBSET Verifiers]
Transaction ==
  [kind : {"finalize"}, evidence : SUBSET Verifiers, read : SUBSET Verifiers]
    \cup {Expire}
JobRow == [status : JobStatuses, attempts : 0..MAX_ATTEMPTS,
           lockedBy : Workers \cup {NoWorker}, stale : BOOLEAN]

ChainOK ==
  /\ chain \in [status : Statuses, revealed : SUBSET Verifiers,
                evidence : (SUBSET Verifiers) \cup {Absent},
                read : (SUBSET Verifiers) \cup {Absent}]
  /\ chain.status = "Settled" => chain.evidence = chain.read

(* What the service holds of the reveals, it has from the chain. *)
ReadModelOK ==
  /\ logs \in Seq(chain.revealed \cup {"settled"})
  /\ reports \subseteq chain.revealed
  /\ artifact \in (SUBSET chain.revealed) \cup {Absent}
  /\ row.count \in 0..Cardinality(Verifiers)

(* The keeper reads the artifact before it reads the task, so a count that   *)
(* agrees is a set that agrees.                                              *)
OrchOK ==
  /\ orch \in [at : Stages, count : Nat, evidence : SUBSET chain.revealed,
               task : TaskRead \cup {Absent}, now : Nat \cup {Absent}]
  /\ orch.at = "idle" => orch = OrchIdle
  /\ orch.at \in BeforeChain => orch.task = Absent
  /\ orch.task # Absent => orch.task \in TaskRead /\ orch.evidence \subseteq orch.task.revealed
  /\ orch.at = "send" => orch.task # Absent /\ orch.evidence = orch.task.revealed
  /\ orch.at \in {"enqueue", "evaluated"} => artifact # Absent
  /\ orch.at = "done" => chain.status = "Settled"

Awaited(sent) == sent.watched /\ sent.tx.kind = "finalize"

MempoolOK ==
  /\ mempool \subseteq [tx : Transaction, watched : BOOLEAN]
  /\ \A sent \in mempool : sent.tx.kind = "finalize" => sent.tx.evidence = sent.tx.read
  /\ \A sent \in mempool : Awaited(sent) => orch.at = "await"
  /\ \A sent, other \in mempool : Awaited(sent) /\ Awaited(other) => sent = other

JobsOK ==
  /\ jobs \in [Keys -> JobRow]
  /\ \A key \in Keys : jobs[key].status \notin Finished => jobs[key].attempts < MAX_ATTEMPTS
  /\ batch \subseteq Keys /\ Running \cap batch = {}
  /\ \A key \in batch \cup Running : jobs[key].status = "RUNNING"
  /\ FinalizationHasArtifact
  /\ DoneMeansSettled

ClocksOK == chainTime \in Nat /\ hostTime \in Nat

IInv == ChainOK /\ ReadModelOK /\ OrchOK /\ MempoolOK /\ JobsOK /\ ClocksOK

-----------------------------------------------------------------------------
(* The jobs table, statement by statement.                                   *)

LEMMA RowTypes ==
  ASSUME NEW job \in JobRow
  PROVE  /\ job.status \in JobStatuses /\ job.attempts \in Nat
         /\ job.attempts <= MAX_ATTEMPTS /\ MAX_ATTEMPTS \in Nat
  BY JobTableAssumption DEF JobRow

LEMMA RetriedRow ==
  ASSUME NEW job \in JobRow, job.attempts < MAX_ATTEMPTS, NEW retryable \in BOOLEAN
  PROVE  /\ Retried(job, retryable) \in JobRow
         /\ Retried(job, retryable).status \in {"FAILED_RETRYABLE", "FAILED_FINAL"}
         /\ Retried(job, retryable).status = "FAILED_RETRYABLE" =>
              Retried(job, retryable).attempts < MAX_ATTEMPTS
<1>1. job.attempts + 1 \in 0..MAX_ATTEMPTS
  BY RowTypes
<1>2. CASE retryable /\ job.attempts + 1 < MAX_ATTEMPTS
  <2>1. Retried(job, retryable) = Released(job, "FAILED_RETRYABLE", job.attempts + 1)
    BY <1>2 DEF Retried
  <2>2. Released(job, "FAILED_RETRYABLE", job.attempts + 1) \in JobRow
    BY <1>1 DEF Released, JobRow, JobStatuses
  <2>3. /\ Released(job, "FAILED_RETRYABLE", job.attempts + 1).status = "FAILED_RETRYABLE"
        /\ Released(job, "FAILED_RETRYABLE", job.attempts + 1).attempts = job.attempts + 1
    BY DEF Released, JobRow
  <2> QED
    BY <1>2, <2>1, <2>2, <2>3
<1>3. CASE ~(retryable /\ job.attempts + 1 < MAX_ATTEMPTS)
  <2>1. Retried(job, retryable) = Released(job, "FAILED_FINAL", job.attempts + 1)
    BY <1>3 DEF Retried
  <2>2. Released(job, "FAILED_FINAL", job.attempts + 1) \in JobRow
    BY <1>1 DEF Released, JobRow, JobStatuses
  <2>3. Released(job, "FAILED_FINAL", job.attempts + 1).status = "FAILED_FINAL"
    BY DEF Released, JobRow
  <2> QED
    BY <2>1, <2>2, <2>3
<1> QED
  BY <1>2, <1>3

(* A failed job leaves the table as sound as it was. *)
LEMMA FailedJobs ==
  ASSUME JobsOK, NEW retryable \in BOOLEAN, Fails(retryable),
         UNCHANGED <<batch, artifact>>, chain.status = "Settled" => chain'.status = "Settled"
  PROVE  JobsOK'
<1>1. PICK key \in Running : jobs' = [jobs EXCEPT ![key] = Retried(jobs[key], retryable)]
  BY DEF Fails, Failed
<1>2. Running' = {}
  BY DEF Fails, Running, OrchIdle, Evaluating, Finalizing
<1>3. jobs \in [Keys -> JobRow] /\ key \in Keys /\ jobs[key].status = "RUNNING"
  BY SettlementAssumption DEF JobsOK, Running
<1>4. jobs[key].attempts < MAX_ATTEMPTS
  BY <1>3 DEF JobsOK, Finished
<1>5. /\ jobs' \in [Keys -> JobRow]
      /\ jobs'[key].status \in {"FAILED_RETRYABLE", "FAILED_FINAL"}
      /\ jobs'[key].status = "FAILED_RETRYABLE" => jobs'[key].attempts < MAX_ATTEMPTS
      /\ \A other \in Keys : other # key => jobs'[other] = jobs[other]
  BY <1>1, <1>3, <1>4, RetriedRow
<1>6. \A other \in Keys :
        jobs'[other].status \notin Finished => jobs'[other].attempts < MAX_ATTEMPTS
  BY <1>5 DEF JobsOK, Finished
<1>7. batch' \subseteq Keys /\ Running' \cap batch' = {}
  BY <1>2 DEF JobsOK
<1>8. \A other \in batch' \cup Running' : jobs'[other].status = "RUNNING"
  BY <1>1, <1>2, <1>5 DEF JobsOK
<1>9. FinalizationHasArtifact'
  BY <1>3, <1>5, SettlementAssumption DEF JobsOK, FinalizationHasArtifact
<1>10. DoneMeansSettled'
  BY <1>5, SettlementAssumption DEF JobsOK, DoneMeansSettled
<1> QED
  BY <1>5, <1>6, <1>7, <1>8, <1>9, <1>10 DEF JobsOK

(* ON CONFLICT DO NOTHING: an enqueue only ever adds a pending row. *)
LEMMA EnqueuedJobs ==
  ASSUME JobsOK, NEW key \in Keys, jobs' = Enqueued(jobs, key),
         UNCHANGED <<batch, artifact>>, chain' = chain, 
         Running' = Running, key = "finalize" => artifact # Absent
  PROVE  JobsOK'
<1>1. CASE jobs[key].status # "None"
  BY <1>1 DEF Enqueued, JobsOK, FinalizationHasArtifact, DoneMeansSettled
<1>2. CASE jobs[key].status = "None"
  <2>1. jobs' = [jobs EXCEPT ![key].status = "PENDING"]
    BY <1>2 DEF Enqueued
  <2>2. jobs \in [Keys -> JobRow]
    BY DEF JobsOK
  <2>3. jobs[key].attempts < MAX_ATTEMPTS
    BY <1>2 DEF JobsOK, Finished
  <2>4. /\ [jobs[key] EXCEPT !.status = "PENDING"] \in JobRow
        /\ [jobs[key] EXCEPT !.status = "PENDING"].status = "PENDING"
        /\ [jobs[key] EXCEPT !.status = "PENDING"].attempts = jobs[key].attempts
    BY <2>2 DEF JobRow, JobStatuses
  <2>5. /\ jobs' \in [Keys -> JobRow]
        /\ jobs'[key].status = "PENDING" /\ jobs'[key].attempts < MAX_ATTEMPTS
        /\ \A other \in Keys : other # key => jobs'[other] = jobs[other]
    BY <2>1, <2>2, <2>3, <2>4
  <2>6. \A other \in Keys :
          jobs'[other].status \notin Finished => jobs'[other].attempts < MAX_ATTEMPTS
    BY <2>5 DEF JobsOK
  <2>7. key \notin batch \cup Running
    BY <1>2 DEF JobsOK
  <2>8. /\ batch' \subseteq Keys /\ Running' \cap batch' = {}
        /\ \A other \in batch' \cup Running' : jobs'[other].status = "RUNNING"
    BY <2>5, <2>7, SettlementAssumption DEF JobsOK, Running
  <2>9. FinalizationHasArtifact' /\ DoneMeansSettled'
    BY <2>5, SettlementAssumption DEF JobsOK, FinalizationHasArtifact, DoneMeansSettled
  <2> QED
    BY <2>5, <2>6, <2>8, <2>9 DEF JobsOK
<1> QED
  BY <1>1, <1>2

(* Nothing is written to the table, and what is claimed is at most started.  *)
LEMMA SameJobs ==
  ASSUME JobsOK, jobs' = jobs, batch' \subseteq batch, Running' \cap batch' = {},
         Running' \subseteq batch \cup Running,
         artifact # Absent => artifact' # Absent,
         chain.status = "Settled" => chain'.status = "Settled"
  PROVE  JobsOK'
  BY DEF JobsOK, FinalizationHasArtifact, DoneMeansSettled

LEMMA ReapedJobs ==
  ASSUME JobsOK, jobs' = Reaped(jobs), batch = {}, Running = {}, Running' = {},
         UNCHANGED <<batch, artifact, chain>>
  PROVE  JobsOK'
<1>1. jobs' = [key \in Keys |-> IF Reapable(jobs[key]) THEN Retried(jobs[key], TRUE)
                                ELSE jobs[key]]
  BY DEF Reaped
<1>2. ASSUME NEW key \in Keys
      PROVE  /\ jobs'[key] \in JobRow
             /\ jobs'[key].status \notin Finished => jobs'[key].attempts < MAX_ATTEMPTS
             /\ jobs[key].status = "None" => jobs'[key] = jobs[key]
             /\ jobs'[key].status = "DONE" => jobs'[key] = jobs[key]
  <2>1. jobs[key] \in JobRow
    BY DEF JobsOK
  <2>2. CASE Reapable(jobs[key])
    <3>1. jobs[key].attempts < MAX_ATTEMPTS /\ jobs[key].status = "RUNNING"
      BY <2>2 DEF JobsOK, Reapable, Finished
    <3>2. jobs'[key] = Retried(jobs[key], TRUE)
      BY <1>1, <2>2
    <3> QED
      BY <2>1, <3>1, <3>2, RetriedRow DEF Finished
  <2>3. CASE ~Reapable(jobs[key])
    BY <1>1, <2>1, <2>3 DEF JobsOK
  <2> QED
    BY <2>2, <2>3
<1>3. jobs' \in [Keys -> JobRow]
  BY <1>1, <1>2
<1>4. FinalizationHasArtifact' /\ DoneMeansSettled'
  BY <1>2, SettlementAssumption DEF JobsOK, FinalizationHasArtifact, DoneMeansSettled
<1> QED
  BY <1>2, <1>3, <1>4 DEF JobsOK

LEMMA ClaimedJobs ==
  ASSUME JobsOK, NEW S \in SUBSET Keys, S \subseteq Due(jobs), jobs' = Claimed(jobs, S, Api),
         batch' = S, Running' = {}, UNCHANGED <<artifact, chain>>
  PROVE  JobsOK'
<1>1. jobs' = [key \in Keys |->
                 IF key \in S THEN [jobs[key] EXCEPT !.status = "RUNNING", !.lockedBy = Api]
                 ELSE jobs[key]]
  BY DEF Claimed
<1>2. ASSUME NEW key \in Keys
      PROVE  /\ jobs'[key] \in JobRow
             /\ jobs'[key].status \notin Finished => jobs'[key].attempts < MAX_ATTEMPTS
             /\ key \in S => jobs'[key].status = "RUNNING" /\ jobs[key].status # "None"
             /\ key \notin S => jobs'[key] = jobs[key]
  <2>1. jobs[key] \in JobRow
    BY DEF JobsOK
  <2>2. CASE key \in S
    <3>1. jobs[key].status \in {"PENDING", "FAILED_RETRYABLE"}
      BY <2>2 DEF Due
    <3>2. jobs[key].attempts < MAX_ATTEMPTS
      BY <3>1 DEF JobsOK, Finished
    <3>3. jobs'[key] = [jobs[key] EXCEPT !.status = "RUNNING", !.lockedBy = Api]
      BY <1>1, <2>2
    <3>4. /\ jobs'[key] \in JobRow
          /\ jobs'[key].status = "RUNNING" /\ jobs'[key].attempts = jobs[key].attempts
      BY <2>1, <3>3, SettlementAssumption DEF JobRow, JobStatuses
    <3> QED
      BY <2>2, <3>1, <3>2, <3>4
  <2>3. CASE key \notin S
    BY <1>1, <2>1, <2>3 DEF JobsOK
  <2> QED
    BY <2>2, <2>3
<1>3. jobs' \in [Keys -> JobRow]
  BY <1>1, <1>2
<1>4. FinalizationHasArtifact' /\ DoneMeansSettled'
  BY <1>2, SettlementAssumption DEF JobsOK, FinalizationHasArtifact, DoneMeansSettled
<1> QED
  BY <1>2, <1>3, <1>4 DEF JobsOK

(* The lease may have been fenced off meanwhile: the row then stays as it is. *)
LEMMA CompletedJobs ==
  ASSUME JobsOK, NEW key \in Running, jobs' = Completed(jobs, key, Api),
         orch' = OrchIdle, UNCHANGED <<batch, artifact, chain>>,
         key = "finalize" => chain.status = "Settled"
  PROVE  JobsOK'
<1>1. Running' = {}
  BY DEF Running, OrchIdle, Evaluating, Finalizing
<1>2. key \in Keys /\ jobs[key] \in JobRow /\ jobs[key].status = "RUNNING"
  BY SettlementAssumption DEF JobsOK, Running
<1>3. CASE jobs' = jobs
  BY <1>1, <1>3, SameJobs
<1>4. CASE jobs' = [jobs EXCEPT ![key] = Released(@, "DONE", @.attempts)]
  <2>1. /\ Released(jobs[key], "DONE", jobs[key].attempts) \in JobRow
        /\ Released(jobs[key], "DONE", jobs[key].attempts).status = "DONE"
    BY <1>2 DEF Released, JobRow, JobStatuses
  <2>2. /\ jobs' \in [Keys -> JobRow] /\ jobs'[key].status = "DONE"
        /\ \A other \in Keys : other # key => jobs'[other] = jobs[other]
    BY <1>2, <1>4, <2>1 DEF JobsOK
  <2>3. \A other \in Keys :
          jobs'[other].status \notin Finished => jobs'[other].attempts < MAX_ATTEMPTS
    BY <2>2 DEF JobsOK, Finished
  <2>4. /\ batch' \subseteq Keys /\ Running' \cap batch' = {}
        /\ \A other \in batch' \cup Running' : jobs'[other].status = "RUNNING"
    BY <1>1, <2>2 DEF JobsOK
  <2>5. FinalizationHasArtifact' /\ DoneMeansSettled'
    BY <1>2, <2>2, SettlementAssumption DEF JobsOK, FinalizationHasArtifact, DoneMeansSettled
  <2> QED
    BY <2>2, <2>3, <2>4, <2>5 DEF JobsOK
<1> QED
  BY <1>3, <1>4 DEF Completed

LEMMA StaleJobs ==
  ASSUME JobsOK, NEW key \in Keys, jobs' = [jobs EXCEPT ![key].stale = TRUE],
         Running' = Running, UNCHANGED <<batch, artifact, chain>>
  PROVE  JobsOK'
<1>1. jobs[key] \in JobRow
  BY DEF JobsOK
<1>2. /\ [jobs[key] EXCEPT !.stale = TRUE] \in JobRow
      /\ [jobs[key] EXCEPT !.stale = TRUE].status = jobs[key].status
      /\ [jobs[key] EXCEPT !.stale = TRUE].attempts = jobs[key].attempts
  BY <1>1 DEF JobRow
<1>3. /\ jobs' \in [Keys -> JobRow]
      /\ \A other \in Keys : /\ jobs'[other].status = jobs[other].status
                             /\ jobs'[other].attempts = jobs[other].attempts
  BY <1>2 DEF JobsOK
<1>4. FinalizationHasArtifact' /\ DoneMeansSettled'
  BY <1>3, SettlementAssumption DEF JobsOK, FinalizationHasArtifact, DoneMeansSettled
<1> QED
  BY <1>3, <1>4, SettlementAssumption DEF JobsOK, Running

-----------------------------------------------------------------------------
(* The transactions in flight.                                               *)

LEMMA UnwatchedShape ==
  ASSUME NEW sent \in [tx : Transaction, watched : BOOLEAN], NEW kind,
         NEW other,
         other = [sent EXCEPT !.watched = IF sent.tx.kind = kind THEN FALSE ELSE @]
  PROVE  /\ other \in [tx : Transaction, watched : BOOLEAN]
         /\ other.tx = sent.tx
         /\ sent.tx.kind = kind => ~other.watched
         /\ sent.tx.kind # kind => other = sent
<1>1. CASE sent.tx.kind = kind
  BY <1>1
<1>2. CASE sent.tx.kind # kind
  BY <1>2
<1> QED
  BY <1>1, <1>2

LEMMA Unwatch ==
  ASSUME MempoolOK, NEW kind, NEW other \in Unwatched(kind)
  PROVE  /\ other \in [tx : Transaction, watched : BOOLEAN]
         /\ \E sent \in mempool : other.tx = sent.tx
         /\ other.tx.kind = kind => ~other.watched
         /\ other.tx.kind # kind => other \in mempool
<1>1. PICK sent \in mempool :
        other = [sent EXCEPT !.watched = IF sent.tx.kind = kind THEN FALSE ELSE @]
  BY DEF Unwatched
<1>2. sent \in [tx : Transaction, watched : BOOLEAN]
  BY DEF MempoolOK
<1> QED
  BY <1>1, <1>2, UnwatchedShape

(* No one waits for a finalization any more: the loop moved on.              *)
LEMMA NobodyAwaits ==
  ASSUME MempoolOK, mempool' = Unwatched("finalize")
  PROVE  MempoolOK'
  BY Unwatch DEF MempoolOK, Awaited

(* Nor after a crash. *)
LEMMA NobodyIsLeft ==
  ASSUME MempoolOK, mempool' = {[sent EXCEPT !.watched = FALSE] : sent \in mempool}
  PROVE  MempoolOK'
<1>1. ASSUME NEW other \in mempool'
      PROVE  /\ other \in [tx : Transaction, watched : BOOLEAN] /\ ~other.watched
             /\ \E sent \in mempool : other.tx = sent.tx
  <2>1. PICK sent \in mempool : other = [sent EXCEPT !.watched = FALSE]
    OBVIOUS
  <2>2. sent \in [tx : Transaction, watched : BOOLEAN]
    BY DEF MempoolOK
  <2> QED
    BY <2>1, <2>2
<1> QED
  BY <1>1 DEF MempoolOK, Awaited

(* The keeper's loop lets go of its own transaction only.                    *)
LEMMA KeeperLetsGo ==
  ASSUME MempoolOK, mempool' = Unwatched("expire"), orch' = orch
  PROVE  MempoolOK'
  BY Unwatch DEF MempoolOK, Awaited

(* A transaction leaves the pool, or an expiry joins it.                     *)
LEMMA LessMempool ==
  ASSUME MempoolOK, mempool' \subseteq mempool,
         \A sent \in mempool' : Awaited(sent) => orch'.at = "await"
  PROVE  MempoolOK'
  BY DEF MempoolOK, Awaited

LEMMA ExpiryJoins ==
  ASSUME MempoolOK, Broadcast(Expire), orch' = orch
  PROVE  MempoolOK'
<1> DEFINE joined == [tx |-> Expire, watched |-> TRUE]
<1>1. joined \in [tx : Transaction, watched : BOOLEAN]
  BY DEF Transaction
<1>2. joined.tx.kind # "finalize"
  BY DEF Expire
<1>3. mempool' = mempool \cup {joined}
  BY DEF Broadcast
<1> HIDE DEF joined
<1> QED
  BY <1>1, <1>2, <1>3 DEF MempoolOK, Awaited

(* The one finalization the loop waits for joins the pool.                   *)
LEMMA FinalizationJoins ==
  ASSUME MempoolOK, NEW evidence \in SUBSET Verifiers,
         Broadcast(Finalize(evidence, evidence)), orch.at # "await", orch'.at = "await"
  PROVE  MempoolOK'
<1> DEFINE joined == [tx |-> Finalize(evidence, evidence), watched |-> TRUE]
<1>1. joined \in [tx : Transaction, watched : BOOLEAN]
  BY DEF Transaction, Finalize
<1>2. joined.tx.evidence = joined.tx.read
  BY DEF Finalize
<1>3. mempool' = mempool \cup {joined}
  BY DEF Broadcast
<1> HIDE DEF joined
<1> QED
  BY <1>1, <1>2, <1>3 DEF MempoolOK, Awaited

-----------------------------------------------------------------------------
(* The handler, and what it has read.                                        *)

LEMMA SameOrch ==
  ASSUME OrchOK, orch' = orch, chain.revealed \subseteq chain'.revealed,
         chain.status = "Settled" => chain'.status = "Settled",
         artifact # Absent => artifact' # Absent
  PROVE  OrchOK'
  BY DEF OrchOK

LEMMA IdleOrch ==
  ASSUME orch' = OrchIdle
  PROVE  OrchOK' /\ Running' = {}
<1>1. OrchIdle \in [at : Stages, count : Nat, evidence : SUBSET (chain.revealed'),
                    task : TaskRead \cup {Absent}, now : Nat \cup {Absent}]
  BY DEF OrchIdle, Stages
<1>2. /\ OrchIdle.at = "idle" /\ OrchIdle.task = Absent
  BY DEF OrchIdle
<1> QED
  BY <1>1, <1>2 DEF OrchOK, Running, Evaluating, Finalizing

(* A statement of the handler moves it on, and may fill one of its fields.   *)
LEMMA Moves ==
  ASSUME OrchOK, NEW at \in Stages, orch' = [orch EXCEPT !.at = at],
         at # "idle", at # "done", at # "send",
         at \in BeforeChain => orch.at \in BeforeChain,
         at \in {"enqueue", "evaluated"} => artifact' # Absent,
         chain' = chain
  PROVE  OrchOK'
<1>1. orch' \in [at : Stages, count : Nat, evidence : SUBSET chain.revealed,
                 task : TaskRead \cup {Absent}, now : Nat \cup {Absent}]
  BY DEF OrchOK
<1>2. /\ orch'.at = at /\ orch'.task = orch.task /\ orch'.evidence = orch.evidence
  BY DEF OrchOK
<1> QED
  BY <1>1, <1>2 DEF OrchOK

LEMMA SameReadModel ==
  ASSUME ReadModelOK, UNCHANGED <<readModel, artifact>>, chain.revealed \subseteq chain'.revealed
  PROVE  ReadModelOK'
<1>1. \A S, T : S \subseteq T => Seq(S) \subseteq Seq(T)
  OBVIOUS
<1>2. chain.revealed \cup {"settled"} \subseteq chain.revealed' \cup {"settled"}
  OBVIOUS
<1>3. Seq(chain.revealed \cup {"settled"}) \subseteq Seq(chain.revealed' \cup {"settled"})
  BY <1>1, <1>2
<1> QED
  BY <1>3 DEF ReadModelOK, readModel

-----------------------------------------------------------------------------
LEMMA InitOK == Init => IInv
<1> SUFFICES ASSUME Init PROVE IInv
  OBVIOUS
<1>1. ChainOK
  <2>1. chain = [status |-> "Committing", revealed |-> {}, evidence |-> Absent, read |-> Absent]
    BY DEF Init
  <2>2. "Committing" \in Statuses /\ Absent \in (SUBSET Verifiers) \cup {Absent}
    BY DEF Statuses, Live
  <2> QED
    BY <2>1, <2>2 DEF ChainOK
<1>2. ReadModelOK
  <2>1. Cardinality(Verifiers) \in Nat
    BY SettlementAssumption, FS_CardinalityType
  <2>2. chain.revealed = {} /\ logs = <<>> /\ reports = {} /\ artifact = Absent /\ row.count = 0
    BY DEF Init
  <2>3. logs \in Seq(chain.revealed \cup {"settled"})
    BY <2>2
  <2> QED
    BY <2>1, <2>2, <2>3 DEF ReadModelOK
<1>3. OrchOK
  BY DEF Init, OrchOK, OrchIdle, Stages
<1>4. MempoolOK
  BY DEF Init, MempoolOK
<1>5. JobsOK
  <2>1. NoJob \in JobRow /\ NoJob.status = "None" /\ NoJob.attempts < MAX_ATTEMPTS
    BY JobTableAssumption DEF NoJob, JobRow, JobStatuses
  <2>2. Running = {}
    BY DEF Init, Running, OrchIdle, Evaluating, Finalizing
  <2> HIDE DEF NoJob
  <2>3. jobs \in [Keys -> JobRow] /\ \A key \in Keys : jobs[key] = NoJob
    BY <2>1 DEF Init
  <2>4. FinalizationHasArtifact /\ DoneMeansSettled
    BY <2>1, <2>3, SettlementAssumption DEF FinalizationHasArtifact, DoneMeansSettled
  <2> QED
    BY <2>1, <2>2, <2>3, <2>4 DEF JobsOK, Init
<1>6. ClocksOK
  BY DEF Init, ClocksOK
<1> QED
  BY <1>1, <1>2, <1>3, <1>4, <1>5, <1>6 DEF IInv

(* The chain, the clocks and the receipts.                                   *)

LEMMA ClocksStep ==
  ASSUME IInv, BlockTime \/ HostTime
  PROVE  IInv'
<1>1. UNCHANGED <<chain, mempool, readModel, artifact, jobs, batch, orch>>
  BY DEF BlockTime, HostTime
<1>2. ChainOK' /\ ReadModelOK'
  BY <1>1 DEF IInv, ChainOK, ReadModelOK, readModel
<1>3. OrchOK' /\ Running' = Running
  BY <1>1 DEF IInv, OrchOK, Running
<1>4. MempoolOK' /\ JobsOK'
  BY <1>1, <1>3, SameJobs DEF IInv, MempoolOK, JobsOK
<1>5. ClocksOK'
  BY DEF IInv, ClocksOK, BlockTime, HostTime
<1> QED
  BY <1>2, <1>3, <1>4, <1>5 DEF IInv

(* The reveals grow and the log tells of them.                               *)
LEMMA RevealStep ==
  ASSUME IInv, NEW v \in Verifiers, Reveal(v)
  PROVE  IInv'
<1>1. /\ chain.status \in Live
      /\ chain' = [chain EXCEPT !.revealed = @ \cup {v}, !.status = "Revealing"]
      /\ logs' = Append(logs, v)
      /\ UNCHANGED <<chainTime, hostTime, mempool, row, reports, artifact, jobs, batch, orch>>
  BY DEF Reveal
<1>2. /\ chain'.revealed = chain.revealed \cup {v} /\ chain'.status = "Revealing"
      /\ ChainOK'
  BY <1>1 DEF IInv, ChainOK, Statuses, Live
<1>3. ReadModelOK'
  <2>1. logs' \in Seq(chain.revealed' \cup {"settled"})
    <3>1. \A S, T : S \subseteq T => Seq(S) \subseteq Seq(T)
      OBVIOUS
    <3>2. logs \in Seq(chain.revealed' \cup {"settled"})
      BY <1>2, <3>1 DEF IInv, ReadModelOK
    <3> QED
      BY <1>1, <1>2, <3>2
  <2> QED
    BY <1>1, <1>2, <2>1 DEF IInv, ReadModelOK
<1>4. OrchOK' /\ Running' = Running
  BY <1>1, <1>2, SameOrch DEF IInv, Running, Live
<1>5. MempoolOK' /\ ClocksOK'
  BY <1>1 DEF IInv, MempoolOK, ClocksOK
<1>6. JobsOK'
  BY <1>1, <1>4, SameJobs DEF IInv, JobsOK, Live
<1> QED
  BY <1>2, <1>3, <1>4, <1>5, <1>6 DEF IInv

(* Whatever classifies the task is told in the log, and a finalization       *)
(* classifies it by what its sender read.                                    *)
LEMMA Classifies ==
  ASSUME IInv, NEW tx \in Transaction, tx.kind = "finalize" => tx.evidence = tx.read,
         Accepts(tx), Settles(tx), UNCHANGED <<row, reports, artifact>>
  PROVE  /\ ChainOK' /\ ReadModelOK'
         /\ chain'.revealed = chain.revealed /\ chain.status # "Settled"
         /\ tx.kind = "finalize" => chain'.status = "Settled"
<1>1. chain.status \in Live
  BY DEF Accepts, Live
<1>2. /\ tx.kind \in {"finalize", "expire"}
      /\ tx.evidence \in (SUBSET Verifiers) \cup {Absent}
      /\ tx.read \in (SUBSET Verifiers) \cup {Absent}
      /\ tx.evidence = tx.read
  <2>1. CASE tx = Expire
    BY <2>1 DEF Expire
  <2>2. CASE tx # Expire
    BY <2>2 DEF Transaction
  <2> QED
    BY <2>1, <2>2
<1>3. chain' = [chain EXCEPT !.status = IF tx.kind = "finalize" THEN "Settled" ELSE "Expired",
                             !.evidence = tx.evidence, !.read = tx.read]
  BY DEF Settles
<1>4. /\ chain'.status = IF tx.kind = "finalize" THEN "Settled" ELSE "Expired"
      /\ chain'.evidence = tx.evidence /\ chain'.read = tx.read
      /\ chain'.revealed = chain.revealed
  BY <1>3 DEF IInv, ChainOK
<1>5. ChainOK'
  <2>1. chain' \in [status : Statuses, revealed : SUBSET Verifiers,
                    evidence : (SUBSET Verifiers) \cup {Absent},
                    read : (SUBSET Verifiers) \cup {Absent}]
    BY <1>2, <1>3 DEF IInv, ChainOK, Statuses
  <2> QED
    BY <1>2, <1>4, <2>1 DEF ChainOK
<1>6. ReadModelOK'
  <2>1. logs' \in Seq(chain.revealed \cup {"settled"})
    BY DEF Settles, IInv, ReadModelOK
  <2> QED
    BY <1>4, <2>1 DEF IInv, ReadModelOK
<1> QED
  BY <1>1, <1>4, <1>5, <1>6 DEF Live

LEMMA MineStep ==
  ASSUME IInv, NEW sent \in mempool, Mine(sent)
  PROVE  IInv'
<1>1. /\ mempool' = mempool \ {sent}
      /\ sent \in [tx : Transaction, watched : BOOLEAN]
      /\ sent.tx.kind = "finalize" => sent.tx.evidence = sent.tx.read
      /\ UNCHANGED <<chainTime, hostTime, row, reports, artifact, jobs, batch>>
  BY DEF Mine, IInv, MempoolOK
<1>2. /\ ChainOK' /\ ReadModelOK' /\ chain'.revealed = chain.revealed
      /\ chain.status = "Settled" => chain'.status = "Settled"
      /\ Accepts(sent.tx) /\ sent.tx.kind = "finalize" => chain'.status = "Settled"
  <2>1. CASE Accepts(sent.tx)
    BY <1>1, <2>1, Classifies DEF Mine
  <2>2. CASE ~Accepts(sent.tx)
    <3>1. chain' = chain /\ UNCHANGED <<readModel, artifact>>
      BY <1>1, <2>2 DEF Mine, readModel
    <3> QED
      BY <2>2, <3>1, SameReadModel DEF IInv, ChainOK
  <2> QED
    BY <2>1, <2>2
<1>3. OrchOK' /\ MempoolOK' /\ Running' = Running
  <2>1. CASE Awaited(sent)
    <3>1. orch.at = "await"
      BY <2>1 DEF IInv, MempoolOK
    <3>2. orch' = [orch EXCEPT !.at = IF Accepts(sent.tx) THEN "done" ELSE "reverted"]
      BY <2>1 DEF Mine, Awaited
    <3>3. /\ orch'.at = IF Accepts(sent.tx) THEN "done" ELSE "reverted"
          /\ orch'.task = orch.task /\ orch'.evidence = orch.evidence
          /\ orch' \in [at : Stages, count : Nat, evidence : SUBSET chain.revealed,
                        task : TaskRead \cup {Absent}, now : Nat \cup {Absent}]
      BY <3>2 DEF IInv, OrchOK, Stages, Finalizing
    <3>4. OrchOK'
      BY <1>2, <2>1, <3>1, <3>3 DEF IInv, OrchOK, BeforeChain, Evaluating, Awaited
    <3>5. Running' = Running
      BY <3>1, <3>3 DEF Running, Evaluating, Finalizing
    <3>6. \A other \in mempool' : ~Awaited(other)
      BY <1>1, <2>1 DEF IInv, MempoolOK
    <3> QED
      BY <1>1, <3>4, <3>5, <3>6, LessMempool DEF IInv
  <2>2. CASE ~Awaited(sent)
    <3>1. orch' = orch
      BY <2>2 DEF Mine, Awaited
    <3>2. \A other \in mempool' : Awaited(other) => orch'.at = "await"
      BY <1>1, <3>1 DEF IInv, MempoolOK
    <3> QED
      BY <1>1, <1>2, <3>1, <3>2, SameOrch, LessMempool DEF IInv, Running
  <2> QED
    BY <2>1, <2>2
<1>4. JobsOK'
  BY <1>1, <1>2, <1>3, SameJobs DEF IInv, JobsOK
<1> QED
  BY <1>1, <1>2, <1>3, <1>4 DEF IInv, ClocksOK

LEMMA AnyoneExpiresStep ==
  ASSUME IInv, AnyoneExpires
  PROVE  IInv'
<1>1. UNCHANGED <<chainTime, hostTime, mempool, row, reports, artifact, jobs, batch, orch>>
  BY DEF AnyoneExpires
<1>2. Expire \in Transaction /\ Expire.kind # "finalize"
  BY DEF Transaction, Expire
<1>3. ChainOK' /\ ReadModelOK' /\ chain'.revealed = chain.revealed /\ chain.status # "Settled"
  BY <1>1, <1>2, Classifies DEF AnyoneExpires
<1>4. OrchOK' /\ Running' = Running
  BY <1>1, <1>3, SameOrch DEF IInv, Running
<1>5. MempoolOK' /\ ClocksOK'
  BY <1>1 DEF IInv, MempoolOK, ClocksOK
<1>6. JobsOK'
  BY <1>1, <1>3, <1>4, SameJobs DEF IInv, JobsOK
<1> QED
  BY <1>3, <1>4, <1>5, <1>6 DEF IInv

-----------------------------------------------------------------------------
(* The indexer.                                                              *)

LEMMA ProjectRevealStep ==
  ASSUME IInv, NEW v \in Verifiers, ProjectReveal(v)
  PROVE  IInv'
<1>1. PICK task \in Answers(v), report \in BOOLEAN :
        /\ row' = [status |-> task.status, count |-> Cardinality(task.revealed)]
        /\ reports' = IF report THEN reports \cup {v} ELSE reports
        /\ jobs' = IF task.revealed = Verifiers /\ task.status = "Revealing"
                   THEN Enqueued(jobs, "evaluate") ELSE jobs
  BY DEF ProjectReveal
<1>2. /\ logs # <<>> /\ Head(logs) = v /\ logs' = Tail(logs)
      /\ UNCHANGED <<chain, chainTime, hostTime, mempool, artifact, batch, orch>>
  BY DEF ProjectReveal, chainVars
<1>3. v \in chain.revealed /\ logs' \in Seq(chain.revealed \cup {"settled"})
  <2>1. logs \in Seq(chain.revealed \cup {"settled"})
    BY DEF IInv, ReadModelOK
  <2>2. Head(logs) \in chain.revealed \cup {"settled"}
    BY <1>2, <2>1
  <2>3. Tail(logs) \in Seq(chain.revealed \cup {"settled"})
    BY <1>2, <2>1
  <2> QED
    BY <1>2, <2>2, <2>3, SettlementAssumption
<1>4. row'.count \in 0..Cardinality(Verifiers)
  <2>1. task.revealed \subseteq Verifiers
    BY DEF Answers, IInv, ChainOK
  <2>2. /\ Cardinality(task.revealed) \in Nat /\ Cardinality(Verifiers) \in Nat
        /\ Cardinality(task.revealed) <= Cardinality(Verifiers)
    BY <2>1, SettlementAssumption, FS_Subset, FS_CardinalityType
  <2> QED
    BY <1>1, <2>2
<1>5. ReadModelOK'
  BY <1>1, <1>2, <1>3, <1>4 DEF IInv, ReadModelOK
<1>6. OrchOK' /\ Running' = Running
  BY <1>2 DEF IInv, OrchOK, Running
<1>7. ChainOK' /\ MempoolOK' /\ ClocksOK'
  BY <1>2 DEF IInv, ChainOK, MempoolOK, ClocksOK
<1>8. JobsOK'
  <2>1. CASE jobs' = jobs
    BY <1>2, <1>6, <2>1, SameJobs DEF IInv, JobsOK
  <2>2. CASE jobs' = Enqueued(jobs, "evaluate")
    BY <1>2, <1>6, <2>2, EnqueuedJobs, SettlementAssumption DEF IInv
  <2> QED
    BY <1>1, <2>1, <2>2
<1> QED
  BY <1>5, <1>6, <1>7, <1>8 DEF IInv

LEMMA ProjectSettledStep ==
  ASSUME IInv, ProjectSettled
  PROVE  IInv'
<1>1. /\ logs # <<>> /\ logs' = Tail(logs)
      /\ row' = [status |-> chain.status, count |-> Cardinality(chain.revealed)]
      /\ UNCHANGED <<chain, chainTime, hostTime, mempool, reports, artifact, jobs, batch, orch>>
  BY DEF ProjectSettled, chainVars
<1>2. logs' \in Seq(chain.revealed \cup {"settled"})
  BY <1>1 DEF IInv, ReadModelOK
<1>3. row'.count \in 0..Cardinality(Verifiers)
  <2>1. /\ Cardinality(chain.revealed) \in Nat /\ Cardinality(Verifiers) \in Nat
        /\ Cardinality(chain.revealed) <= Cardinality(Verifiers)
    BY SettlementAssumption, FS_Subset, FS_CardinalityType DEF IInv, ChainOK
  <2> QED
    BY <1>1, <2>1
<1>4. ReadModelOK'
  BY <1>1, <1>2, <1>3 DEF IInv, ReadModelOK
<1>5. OrchOK' /\ Running' = Running
  BY <1>1 DEF IInv, OrchOK, Running
<1>6. ChainOK' /\ MempoolOK' /\ ClocksOK' /\ JobsOK'
  BY <1>1, <1>5, SameJobs DEF IInv, ChainOK, MempoolOK, ClocksOK, JobsOK
<1> QED
  BY <1>4, <1>5, <1>6 DEF IInv

-----------------------------------------------------------------------------
(* The orchestrator's pass.                                                  *)

(* The chain and the read model rest.                                        *)
LEMMA Within ==
  ASSUME IInv, UNCHANGED <<chainVars, readModel, artifact>>, OrchOK', JobsOK',
         orch.at = "await" => orch'.at = "await"
  PROVE  IInv'
<1>1. UNCHANGED <<chain, chainTime, hostTime, mempool>>
  BY DEF chainVars
<1> QED
  BY <1>1, SameReadModel DEF IInv, ChainOK, MempoolOK, ClocksOK

(* A job that fails gives up what its handler had read. *)
LEMMA FailsStep ==
  ASSUME IInv, NEW retryable \in BOOLEAN, Fails(retryable),
         UNCHANGED <<batch, artifact, chain>>
  PROVE  OrchOK' /\ JobsOK' /\ orch'.at = "idle"
<1>1. orch' = OrchIdle
  BY DEF Fails
<1> QED
  BY <1>1, IdleOrch, FailedJobs DEF IInv, OrchIdle

LEMMA PassSteps ==
  ASSUME IInv,
         \/ SweepUnevaluated \/ ReapStaleLeases
         \/ \E S \in SUBSET Keys : Claim(S)
         \/ \E key \in Keys : RunJob(key) \/ LeaseRunsOut(key)
  PROVE  IInv'
<1>1. UNCHANGED <<chainVars, readModel, artifact, chain>>
  BY DEF SweepUnevaluated, ReapStaleLeases, Claim, RunJob, LeaseRunsOut, chainVars
<1>2. orch' = orch => OrchOK' /\ Running' = Running
  BY <1>1, SameOrch DEF IInv, Running
<1>3. orch.at = "idle" => Running = {}
  BY DEF Running, Evaluating, Finalizing
<1>4. CASE SweepUnevaluated
  <2>1. jobs' = Enqueued(jobs, "evaluate") /\ UNCHANGED <<batch, orch>>
    BY <1>4 DEF SweepUnevaluated
  <2>2. JobsOK'
    BY <1>1, <1>2, <2>1, EnqueuedJobs, SettlementAssumption DEF IInv
  <2> QED
    BY <1>1, <1>2, <2>1, <2>2, Within
<1>5. CASE ReapStaleLeases
  <2>1. /\ jobs' = Reaped(jobs) /\ UNCHANGED <<batch, orch>>
        /\ batch = {} /\ orch.at = "idle"
    BY <1>5 DEF ReapStaleLeases, AtPassStart
  <2>2. JobsOK'
    BY <1>1, <1>2, <1>3, <2>1, ReapedJobs DEF IInv
  <2> QED
    BY <1>1, <1>2, <2>1, <2>2, Within
<1>6. CASE \E S \in SUBSET Keys : Claim(S)
  <2>1. PICK S \in SUBSET Keys : Claim(S)
    BY <1>6
  <2>2. /\ S \subseteq Due(jobs) /\ jobs' = Claimed(jobs, S, Api) /\ batch' = S /\ orch' = orch
        /\ orch.at = "idle"
    BY <2>1 DEF Claim, AtPassStart
  <2>3. JobsOK'
    BY <1>1, <1>2, <1>3, <2>2, ClaimedJobs DEF IInv
  <2> QED
    BY <1>1, <1>2, <2>2, <2>3, Within
<1>7. ASSUME NEW key \in Keys, RunJob(key)
      PROVE  IInv'
  <2> DEFINE at == IF key = "evaluate" THEN "read task" ELSE "read artifact"
  <2>1. /\ orch.at = "idle" /\ key \in batch /\ batch' = batch \ {key} /\ jobs' = jobs
        /\ orch' = [orch EXCEPT !.at = at]
    BY <1>7 DEF RunJob
  <2>2. /\ at \in Stages /\ at \in BeforeChain /\ orch.at \in BeforeChain
        /\ at \notin {"idle", "done", "send", "enqueue", "evaluated"}
    BY <2>1 DEF Stages, BeforeChain, Evaluating, Finalizing
  <2> HIDE DEF at
  <2>3. OrchOK'
    BY <1>1, <2>1, <2>2, Moves DEF IInv
  <2>4. orch'.at = at
    BY <2>1 DEF IInv, OrchOK
  <2>5. Running' = {key}
    BY <2>4, SettlementAssumption DEF at, Running, Evaluating, Finalizing
  <2>6. JobsOK'
    BY <1>1, <2>1, <2>5, SameJobs DEF IInv
  <2> QED
    BY <1>1, <2>1, <2>3, <2>6, Within
<1>8. ASSUME NEW key \in Keys, LeaseRunsOut(key)
      PROVE  IInv'
  <2>1. jobs' = [jobs EXCEPT ![key].stale = TRUE] /\ UNCHANGED <<batch, orch>>
    BY <1>8 DEF LeaseRunsOut
  <2>2. JobsOK'
    BY <1>1, <1>2, <2>1, StaleJobs DEF IInv
  <2> QED
    BY <1>1, <1>2, <2>1, <2>2, Within
<1> QED
  BY <1>4, <1>5, <1>6, <1>7, <1>8

LEMMA CrashStep ==
  ASSUME IInv, Crash
  PROVE  IInv'
<1>1. /\ orch' = OrchIdle /\ batch' = {}
      /\ mempool' = {[sent EXCEPT !.watched = FALSE] : sent \in mempool}
      /\ UNCHANGED <<chain, chainTime, hostTime, readModel, artifact, jobs>>
  BY DEF Crash
<1>2. OrchOK' /\ Running' = {}
  BY <1>1, IdleOrch
<1>3. JobsOK' /\ MempoolOK'
  BY <1>1, <1>2, SameJobs, NobodyIsLeft DEF IInv
<1>4. ChainOK' /\ ReadModelOK' /\ ClocksOK'
  BY <1>1, SameReadModel DEF IInv, ChainOK, ClocksOK
<1> QED
  BY <1>2, <1>3, <1>4 DEF IInv

LEMMA JobErrsStep ==
  ASSUME IInv, NEW retryable \in BOOLEAN, JobErrs(retryable)
  PROVE  IInv'
<1>1. /\ Fails(retryable) /\ orch.at # "await"
      /\ UNCHANGED <<chainVars, readModel, artifact, batch, chain>>
  BY DEF JobErrs, chainVars
<1> QED
  BY <1>1, FailsStep, Within

LEMMA TimeoutStep ==
  ASSUME IInv, ReceiptTimesOut
  PROVE  IInv'
<1>1. /\ Fails(TRUE) /\ mempool' = Unwatched("finalize")
      /\ UNCHANGED <<chain, chainTime, hostTime, readModel, artifact, batch>>
  BY DEF ReceiptTimesOut
<1>2. OrchOK' /\ JobsOK'
  BY <1>1, FailsStep
<1>3. MempoolOK'
  BY <1>1, NobodyAwaits DEF IInv
<1>4. ChainOK' /\ ReadModelOK' /\ ClocksOK'
  BY <1>1, SameReadModel DEF IInv, ChainOK, ClocksOK
<1> QED
  BY <1>2, <1>3, <1>4 DEF IInv

(* The keeper's tick touches nothing of the settlement but the pool.         *)
LEMMA KeeperSteps ==
  ASSUME IInv, Keeps \/ KeeperErrs
  PROVE  IInv'
<1>1. UNCHANGED <<chain, chainTime, hostTime, readModel, artifact, jobs, batch, orch>>
  BY DEF Keeps, KeeperErrs, KeeperReadsClock, KeeperPicks, KeeperExpires, chainVars
<1>2. \/ mempool' = mempool \/ Broadcast(Expire) \/ mempool' = Unwatched("expire")
  BY DEF Keeps, KeeperErrs, KeeperReadsClock, KeeperPicks, KeeperExpires, chainVars
<1>3. MempoolOK'
  BY <1>1, <1>2, ExpiryJoins, KeeperLetsGo DEF IInv, MempoolOK
<1>4. OrchOK' /\ Running' = Running
  BY <1>1, SameOrch DEF IInv, Running
<1>5. ChainOK' /\ ReadModelOK' /\ ClocksOK' /\ JobsOK'
  BY <1>1, <1>4, SameReadModel, SameJobs DEF IInv, ChainOK, ClocksOK, JobsOK
<1> QED
  BY <1>3, <1>4, <1>5 DEF IInv

-----------------------------------------------------------------------------
(* The handlers, statement by statement.                                     *)

(* A step inside the handler leaves the job running.                         *)
LEMMA StillRunning ==
  ASSUME IInv, UNCHANGED <<chainVars, readModel, jobs, batch, chain>>, OrchOK',
         Running' = Running, orch.at = "await" => orch'.at = "await",
         artifact # Absent => artifact' # Absent, artifact' = artifact
  PROVE  IInv'
<1>1. JobsOK'
  BY SameJobs DEF IInv, JobsOK
<1> QED
  BY <1>1, Within

LEMMA EvaluationSteps ==
  ASSUME IInv,
         ReadTaskRow \/ ReadReports \/ FetchAndUpload \/ PersistResult \/ EnqueueFinalization
  PROVE  IInv'
<1>1. UNCHANGED <<chainVars, readModel, batch, chain>>
  BY DEF ReadTaskRow, ReadReports, FetchAndUpload, PersistResult, EnqueueFinalization, chainVars
<1>2. orch \in [at : Stages, count : Nat, evidence : SUBSET chain.revealed,
                task : TaskRead \cup {Absent}, now : Nat \cup {Absent}]
  BY DEF IInv, OrchOK
<1>3. CASE ReadTaskRow
  <2>1. /\ orch.at = "read task" /\ UNCHANGED <<artifact, jobs>>
        /\ orch' = [orch EXCEPT !.at = "read reports", !.count = row.count]
    BY <1>3 DEF ReadTaskRow
  <2>2. row.count \in Nat
    BY SettlementAssumption, FS_CardinalityType DEF IInv, ReadModelOK
  <2>3. /\ orch' \in [at : Stages, count : Nat, evidence : SUBSET chain.revealed,
                      task : TaskRead \cup {Absent}, now : Nat \cup {Absent}]
        /\ orch'.at = "read reports" /\ orch'.task = orch.task
    BY <1>2, <2>1, <2>2 DEF Stages, Evaluating
  <2>4. orch.task = Absent
    BY <2>1 DEF IInv, OrchOK, BeforeChain, Evaluating
  <2>5. OrchOK'
    BY <1>1, <2>3, <2>4 DEF OrchOK
  <2>6. Running' = Running
    BY <2>1, <2>3 DEF Running, Evaluating
  <2> QED
    BY <1>1, <2>1, <2>5, <2>6, StillRunning
<1>4. CASE ReadReports
  <2>1. CASE \E retryable \in BOOLEAN : Fails(retryable)
    <3>1. orch.at # "await" /\ artifact' = artifact
      BY <1>4 DEF ReadReports
    <3> QED
      BY <1>1, <2>1, <3>1, FailsStep, Within
  <2>2. CASE ~(\E retryable \in BOOLEAN : Fails(retryable))
    <3>1. /\ orch.at = "read reports" /\ UNCHANGED <<artifact, jobs>>
          /\ orch' = [orch EXCEPT !.at = "fetch", !.evidence = reports]
      BY <1>4, <2>2 DEF ReadReports
    <3>2. /\ orch' \in [at : Stages, count : Nat, evidence : SUBSET chain.revealed,
                        task : TaskRead \cup {Absent}, now : Nat \cup {Absent}]
          /\ orch'.at = "fetch" /\ orch'.task = orch.task
      BY <1>2, <3>1 DEF Stages, Evaluating, IInv, ReadModelOK
    <3>3. orch.task = Absent
      BY <3>1 DEF IInv, OrchOK, BeforeChain, Evaluating
    <3>4. OrchOK'
      BY <1>1, <3>2, <3>3 DEF OrchOK
    <3>5. Running' = Running
      BY <3>1, <3>2 DEF Running, Evaluating
    <3> QED
      BY <1>1, <3>1, <3>4, <3>5, StillRunning
  <2> QED
    BY <2>1, <2>2
<1>5. CASE FetchAndUpload
  <2>1. /\ orch.at = "fetch" /\ UNCHANGED <<artifact, jobs>>
        /\ orch' = [orch EXCEPT !.at = "persist"]
    BY <1>5 DEF FetchAndUpload
  <2>2. "persist" \in Stages /\ orch.at \in BeforeChain
    BY <2>1 DEF Stages, Evaluating, BeforeChain
  <2>3. OrchOK'
    BY <1>1, <2>1, <2>2, Moves DEF IInv
  <2>4. orch'.at = "persist"
    BY <1>2, <2>1
  <2>5. Running' = Running
    BY <2>1, <2>4 DEF Running, Evaluating
  <2> QED
    BY <1>1, <2>1, <2>3, <2>5, StillRunning
<1>6. CASE PersistResult
  <2>1. /\ orch.at = "persist" /\ jobs' = jobs /\ artifact' = orch.evidence
        /\ orch' = [orch EXCEPT !.at = "enqueue"]
    BY <1>6 DEF PersistResult
  <2>2. "enqueue" \in Stages /\ orch.at \in BeforeChain
    BY <2>1 DEF Stages, Evaluating, BeforeChain
  <2>3. artifact' \in SUBSET chain.revealed /\ artifact' # Absent
    BY <1>2, <2>1, SettlementAssumption DEF IInv, ChainOK
  <2>4. OrchOK'
    BY <1>1, <2>1, <2>2, <2>3, Moves DEF IInv
  <2>5. orch'.at = "enqueue"
    BY <1>2, <2>1
  <2>6. Running' = Running
    BY <2>1, <2>5 DEF Running, Evaluating
  <2>7. JobsOK'
    BY <1>1, <2>1, <2>3, <2>6, SameJobs DEF IInv, JobsOK
  <2>8. ReadModelOK'
    BY <1>1, <2>3 DEF IInv, ReadModelOK, readModel
  <2>9. ChainOK' /\ MempoolOK' /\ ClocksOK'
    BY <1>1, <2>1 DEF IInv, ChainOK, MempoolOK, ClocksOK, chainVars
  <2> QED
    BY <2>4, <2>7, <2>8, <2>9 DEF IInv
<1>7. CASE EnqueueFinalization
  <2>1. /\ orch.at = "enqueue" /\ artifact' = artifact /\ jobs' = Enqueued(jobs, "finalize")
        /\ orch' = [orch EXCEPT !.at = "evaluated"]
    BY <1>7 DEF EnqueueFinalization
  <2>2. "evaluated" \in Stages /\ orch.at \in BeforeChain /\ artifact # Absent
    BY <2>1 DEF Stages, Evaluating, BeforeChain, IInv, OrchOK
  <2>3. OrchOK'
    BY <1>1, <2>1, <2>2, Moves DEF IInv
  <2>4. orch'.at = "evaluated"
    BY <1>2, <2>1
  <2>5. Running' = Running
    BY <2>1, <2>4 DEF Running, Evaluating
  <2>6. JobsOK'
    BY <1>1, <2>1, <2>2, <2>5, EnqueuedJobs, SettlementAssumption DEF IInv
  <2> QED
    BY <1>1, <2>1, <2>3, <2>6, Within
<1> QED
  BY <1>3, <1>4, <1>5, <1>6, <1>7

LEMMA CompleteStep ==
  ASSUME IInv, CompleteJob
  PROVE  IInv'
<1>1. /\ orch.at \in {"evaluated", "done"} /\ orch' = OrchIdle
      /\ UNCHANGED <<chainVars, readModel, artifact, batch, chain>>
  BY DEF CompleteJob, chainVars
<1>2. PICK key \in Running : jobs' = Completed(jobs, key, Api)
  BY DEF CompleteJob
<1>3. key = "finalize" => chain.status = "Settled"
  BY <1>1, <1>2 DEF Running, Evaluating, IInv, OrchOK
<1>4. OrchOK' /\ JobsOK'
  BY <1>1, <1>2, <1>3, IdleOrch, CompletedJobs DEF IInv
<1> QED
  BY <1>1, <1>4, Within

(* A check without failures has counted the artifact against the reveals.    *)
LEMMA NoFailures ==
  ASSUME NEW task, NEW now, NEW evidence, CheckFailures(task, now, evidence) = {}
  PROVE  Cardinality(evidence) = Cardinality(task.revealed)
<1> DEFINE closed == task.revealed = Verifiers \/ now > RevealDeadline
           incomplete == closed /\ Cardinality(evidence) # Cardinality(task.revealed)
           holds == [STATUS_NOT_REVEALING |-> task.status # "Revealing",
                     REVEAL_NOT_CLOSED |-> ~closed,
                     ARTIFACT_INCOMPLETE |-> incomplete,
                     BENEFICIARIES_EMPTY |-> Cardinality(evidence) > 1 /\ ~rewards]
<1>1. \A f \in DOMAIN holds : ~holds[f]
  BY Zenon DEF CheckFailures
<1>2. "REVEAL_NOT_CLOSED" \in DOMAIN holds /\ "ARTIFACT_INCOMPLETE" \in DOMAIN holds
  OBVIOUS
<1>3. ~holds["REVEAL_NOT_CLOSED"] /\ ~holds["ARTIFACT_INCOMPLETE"]
  BY <1>1, <1>2, Zenon
<1>4. ~~closed /\ ~incomplete
  BY <1>3
<1> QED
  BY <1>4

LEMMA ReadSteps ==
  ASSUME IInv, ReadArtifact \/ ReadChainTask \/ ReadChainClock
  PROVE  IInv'
<1>1. UNCHANGED <<chainVars, readModel, artifact, batch, chain>>
  BY DEF ReadArtifact, ReadChainTask, ReadChainClock, chainVars
<1>2. orch \in [at : Stages, count : Nat, evidence : SUBSET chain.revealed,
                task : TaskRead \cup {Absent}, now : Nat \cup {Absent}]
  BY DEF IInv, OrchOK
<1>3. CASE ReadArtifact
  <2>1. CASE artifact = Absent
    <3>1. Fails(FALSE) /\ orch.at # "await"
      BY <1>3, <2>1 DEF ReadArtifact
    <3> QED
      BY <1>1, <3>1, FailsStep, Within
  <2>2. CASE artifact # Absent
    <3>1. /\ orch.at = "read artifact" /\ jobs' = jobs
          /\ orch' = [orch EXCEPT !.at = "read chain", !.evidence = artifact]
      BY <1>3, <2>2 DEF ReadArtifact
    <3>2. artifact \in SUBSET chain.revealed
      BY <2>2 DEF IInv, ReadModelOK
    <3>3. /\ orch' \in [at : Stages, count : Nat, evidence : SUBSET chain.revealed,
                        task : TaskRead \cup {Absent}, now : Nat \cup {Absent}]
          /\ orch'.at = "read chain" /\ orch'.task = orch.task
      BY <1>2, <3>1, <3>2 DEF Stages, Finalizing
    <3>4. orch.task = Absent
      BY <3>1 DEF IInv, OrchOK, BeforeChain
    <3>5. OrchOK'
      BY <1>1, <3>3, <3>4 DEF OrchOK
    <3>6. Running' = Running
      BY <3>1, <3>3 DEF Running, Evaluating, Finalizing
    <3> QED
      BY <1>1, <3>1, <3>5, <3>6, StillRunning
  <2> QED
    BY <2>1, <2>2
<1>4. CASE ReadChainTask
  <2> DEFINE task == [status |-> chain.status, revealed |-> chain.revealed]
  <2>1. /\ orch.at = "read chain" /\ jobs' = jobs /\ orch' = [orch EXCEPT !.task = task]
    BY <1>4 DEF ReadChainTask
  <2>2. task \in TaskRead /\ task.revealed = chain.revealed
    BY DEF TaskRead, IInv, ChainOK
  <2> HIDE DEF task
  <2>3. /\ orch' \in [at : Stages, count : Nat, evidence : SUBSET chain.revealed,
                      task : TaskRead \cup {Absent}, now : Nat \cup {Absent}]
        /\ orch'.at = "read chain" /\ orch'.task = task /\ orch'.evidence = orch.evidence
    BY <1>2, <2>1, <2>2
  <2>4. OrchOK'
    BY <1>1, <1>2, <2>2, <2>3 DEF OrchOK, BeforeChain, Evaluating
  <2>5. Running' = Running
    BY <2>1, <2>3 DEF Running
  <2> QED
    BY <1>1, <2>1, <2>4, <2>5, StillRunning
<1>5. CASE ReadChainClock
  <2>1. PICK now \in {chainTime, hostTime} : orch' = [orch EXCEPT !.now = now]
    BY <1>5 DEF ReadChainClock
  <2>2. orch.at = "read chain" /\ jobs' = jobs /\ now \in Nat
    BY <1>5 DEF ReadChainClock, IInv, ClocksOK
  <2>3. /\ orch' \in [at : Stages, count : Nat, evidence : SUBSET chain.revealed,
                      task : TaskRead \cup {Absent}, now : Nat \cup {Absent}]
        /\ orch'.at = "read chain" /\ orch'.task = orch.task /\ orch'.evidence = orch.evidence
    BY <1>2, <2>1, <2>2
  <2>4. OrchOK'
    BY <1>1, <2>2, <2>3 DEF IInv, OrchOK
  <2>5. Running' = Running
    BY <2>2, <2>3 DEF Running
  <2> QED
    BY <1>1, <2>2, <2>4, <2>5, StillRunning
<1> QED
  BY <1>3, <1>4, <1>5

(* Equal counts of a set and a subset of it make them one.                   *)
LEMMA CheckStep ==
  ASSUME IInv, CheckFinalizeConsensus
  PROVE  IInv'
<1> DEFINE failures == CheckFailures(orch.task, orch.now, orch.evidence)
<1>1. /\ orch.at = "read chain" /\ orch.task # Absent
      /\ UNCHANGED <<chainVars, readModel, artifact, batch, chain>>
  BY DEF CheckFinalizeConsensus, chainVars
<1>2. CASE failures = {}
  <2>1. orch' = [orch EXCEPT !.at = "send"] /\ jobs' = jobs
    BY <1>2 DEF CheckFinalizeConsensus
  <2>2. orch.task \in TaskRead /\ orch.evidence \subseteq orch.task.revealed
    BY <1>1 DEF IInv, OrchOK
  <2>3. Cardinality(orch.evidence) = Cardinality(orch.task.revealed)
    BY <1>2, NoFailures
  <2>4. IsFiniteSet(orch.task.revealed)
    BY <2>2, SettlementAssumption, FS_Subset DEF TaskRead
  <2>5. orch.evidence = orch.task.revealed
    BY <2>2, <2>3, <2>4, FS_Subset
  <2>6. /\ orch' \in [at : Stages, count : Nat, evidence : SUBSET chain.revealed,
                      task : TaskRead \cup {Absent}, now : Nat \cup {Absent}]
        /\ orch'.at = "send" /\ orch'.task = orch.task /\ orch'.evidence = orch.evidence
    BY <2>1 DEF IInv, OrchOK, Stages, Finalizing
  <2>7. OrchOK'
    BY <1>1, <2>2, <2>5, <2>6 DEF OrchOK, BeforeChain, Evaluating
  <2>8. Running' = Running
    BY <1>1, <2>6 DEF Running, Evaluating, Finalizing
  <2> QED
    BY <1>1, <2>1, <2>7, <2>8, StillRunning
<1>3. CASE failures # {}
  <2>1. Fails(failures \subseteq {"REVEAL_NOT_CLOSED", "ARTIFACT_INCOMPLETE"})
    BY <1>3 DEF CheckFinalizeConsensus
  <2>2. PICK retryable \in BOOLEAN : Fails(retryable)
    BY <2>1, Zenon
  <2> QED
    BY <1>1, <2>2, FailsStep, Within
<1> QED
  BY <1>2, <1>3

(* What is sent covers what was read of the chain.                           *)
LEMMA SendStep ==
  ASSUME IInv, SendFinalize
  PROVE  IInv'
<1> DEFINE tx == Finalize(orch.evidence, orch.task.revealed)
<1>1. /\ orch.at = "send"
      /\ UNCHANGED <<chain, chainTime, hostTime, readModel, artifact, batch>>
  BY DEF SendFinalize
<1>2. CASE Accepts(tx)
  <2>1. Broadcast(tx) /\ orch' = [orch EXCEPT !.at = "await"] /\ jobs' = jobs
    BY <1>2 DEF SendFinalize
  <2>2. orch.evidence = orch.task.revealed /\ orch.evidence \in SUBSET Verifiers
    BY <1>1 DEF IInv, OrchOK, ChainOK
  <2>3. /\ orch'.at = "await" /\ "await" \in Stages
        /\ "await" \notin BeforeChain
    BY <2>1 DEF IInv, OrchOK, Stages, Finalizing, BeforeChain, Evaluating
  <2>4. MempoolOK'
    BY <1>1, <2>1, <2>2, <2>3, FinalizationJoins DEF IInv
  <2>5. OrchOK'
    BY <1>1, <2>1, <2>3, Moves DEF IInv
  <2>6. Running' = Running
    BY <1>1, <2>3 DEF Running, Evaluating, Finalizing
  <2>7. JobsOK'
    BY <1>1, <2>1, <2>6, SameJobs DEF IInv, JobsOK
  <2> QED
    BY <1>1, <2>4, <2>5, <2>7, SameReadModel DEF IInv, ChainOK, ClocksOK
<1>3. CASE ~Accepts(tx)
  <2>1. Fails(FALSE) /\ UNCHANGED chainVars
    BY <1>1, <1>3 DEF SendFinalize, chainVars
  <2> QED
    BY <1>1, <2>1, FailsStep, Within
<1> QED
  BY <1>2, <1>3

LEMMA RevertedStep ==
  ASSUME IInv, RevertedOnchain
  PROVE  IInv'
<1>1. /\ Fails(FALSE) /\ orch.at # "await"
      /\ UNCHANGED <<chainVars, readModel, artifact, batch, chain>>
  BY DEF RevertedOnchain, chainVars
<1> QED
  BY <1>1, FailsStep, Within

-----------------------------------------------------------------------------
LEMMA StepOK ==
  ASSUME IInv, [Next]_vars
  PROVE  IInv'
<1>1. CASE Orchestrates
  BY <1>1, EvaluationSteps, CompleteStep, ReadSteps, CheckStep, SendStep, RevertedStep
     DEF Orchestrates
<1>2. CASE UNCHANGED vars
  <2>1. UNCHANGED <<chainVars, readModel, artifact, jobs, batch, orch, chain>>
    BY <1>2 DEF vars, chainVars
  <2>2. OrchOK' /\ Running' = Running
    BY <2>1, SameOrch DEF IInv, Running
  <2> QED
    BY <2>1, <2>2, StillRunning
<1> QED
  BY <1>1, <1>2, ClocksStep, RevealStep, MineStep, AnyoneExpiresStep, ProjectRevealStep,
     ProjectSettledStep, PassSteps, CrashStep, JobErrsStep, TimeoutStep, KeeperSteps
     DEF Next

LEMMA Invariant == Spec => []IInv
  BY InitOK, StepOK, PTL DEF Spec

(* However late the indexer, and through every crash and retry, the keeper   *)
(* settles a task by an artifact that covers every reveal it read.           *)
THEOREM ReadsAreSettled == Spec => []NothingReadIsIgnored
<1>1. IInv => NothingReadIsIgnored
  BY DEF IInv, ChainOK, NothingReadIsIgnored
<1> QED
  BY Invariant, <1>1, PTL

(* A finalization job exists only once its artifact does, and a finalization *)
(* that says DONE has settled its task.                                      *)
THEOREM JobsBacked == Spec => []JobsAreBacked
<1>1. IInv => JobsAreBacked
  <2>1. ASSUME IInv
        PROVE  TypeOK
    BY <2>1, JobTableAssumption
       DEF IInv, ChainOK, ReadModelOK, JobsOK, JobRow, TypeOK, Statuses
  <2> QED
    BY <2>1 DEF IInv, JobsOK, JobsAreBacked
<1> QED
  BY Invariant, <1>1, PTL
=============================================================================

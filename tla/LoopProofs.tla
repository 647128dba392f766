----------------------------- MODULE LoopProofs -----------------------------
(***************************************************************************)
(* Theorems about the background loops and what they work from: the job    *)
(* queue (JobQueue), the verifier worker and its journal (VerifierWorker), *)
(* and the directory of verifiers that the indexer projects (Directory).   *)
(***************************************************************************)
EXTENDS JobQueue, VerifierWorker, Directory, FiniteSetTheorems, SequenceTheorems, TLAPS

-----------------------------------------------------------------------------
(***************************************************************************)
(* The job queue for any number of workers and jobs: type correctness, the *)
(* lease of every running job, and the bound on how often a job is handed  *)
(* to a worker.                                                            *)
(***************************************************************************)

(* Every claim of a job was paid for by an attempt its row counts, but for   *)
(* the last one; and a job that may be claimed has attempts left.            *)
ClaimsPaid(key) ==
  LET row == jobs[key] IN
  /\ row.status \in {"None", "PENDING", "FAILED_RETRYABLE"} =>
       handedOut[key] <= row.attempts /\ row.attempts < MAX_ATTEMPTS
  /\ handedOut[key] <= row.attempts + 1
  /\ handedOut[key] <= MAX_ATTEMPTS

QueueInv ==
  /\ TypeOK
  /\ RunningIsLeased
  /\ \A key \in Keys : ClaimsPaid(key)

(* What one row looks like when its part of QueueInv holds. *)
RowOK(row, claims) ==
  /\ row \in RowType
  /\ row.status = "RUNNING" <=> row.lockedBy # NoWorker
  /\ claims \in Nat
  /\ row.status \in {"None", "PENDING", "FAILED_RETRYABLE"} =>
       claims <= row.attempts /\ row.attempts < MAX_ATTEMPTS
  /\ claims <= row.attempts + 1
  /\ claims <= MAX_ATTEMPTS

LEMMA RowsOK ==
  QueueInv <=> /\ jobs = [key \in Keys |-> jobs[key]]
           /\ handedOut = [key \in Keys |-> handedOut[key]]
           /\ batch \in [Workers -> SUBSET Keys]
           /\ \A key \in Keys : RowOK(jobs[key], handedOut[key])
  BY DEF QueueInv, TypeOK, RunningIsLeased, ClaimsPaid, RowOK

-----------------------------------------------------------------------------
(* The statements, row by row. *)

(* A row no holder holds is sound when its attempts cover its claims. *)
LEMMA FreeRowOK ==
  ASSUME NEW r \in RowType, r.status # "RUNNING", r.lockedBy = NoWorker,
         NEW claims \in Nat, claims <= MAX_ATTEMPTS, claims <= r.attempts + 1,
         r.status \in {"None", "PENDING", "FAILED_RETRYABLE"} =>
           claims <= r.attempts /\ r.attempts < MAX_ATTEMPTS
  PROVE  RowOK(r, claims)
  BY DEF RowOK

LEMMA RetriedOK ==
  ASSUME NEW row, NEW claims, RowOK(row, claims), NEW retryable \in BOOLEAN
  PROVE  RowOK(Retried(row, retryable), claims)
<1>1. row \in RowType /\ row.attempts \in Nat /\ claims \in Nat /\ MAX_ATTEMPTS \in Nat
  BY JobTableAssumption DEF RowOK, RowType
<1>2. claims <= row.attempts + 1 /\ claims <= MAX_ATTEMPTS
  BY DEF RowOK
<1>3. row.attempts + 1 \in Nat
  BY <1>1
<1>4. CASE retryable /\ row.attempts + 1 < MAX_ATTEMPTS
  <2>1. Retried(row, retryable) = Released(row, "FAILED_RETRYABLE", row.attempts + 1)
    BY <1>4 DEF Retried
  <2>2. /\ Retried(row, retryable) \in RowType
        /\ Retried(row, retryable).status = "FAILED_RETRYABLE"
        /\ Retried(row, retryable).attempts = row.attempts + 1
        /\ Retried(row, retryable).lockedBy = NoWorker
    BY <1>1, <1>3, <2>1 DEF Released, RowType, JobStatuses
  <2>3. claims <= row.attempts + 1 + 1
    BY <1>1, <1>2
  <2> QED
    BY <1>1, <1>2, <1>4, <2>2, <2>3, FreeRowOK
<1>5. CASE ~(retryable /\ row.attempts + 1 < MAX_ATTEMPTS)
  <2>1. Retried(row, retryable) = Released(row, "FAILED_FINAL", row.attempts + 1)
    BY <1>5 DEF Retried
  <2>2. /\ Retried(row, retryable) \in RowType
        /\ Retried(row, retryable).status = "FAILED_FINAL"
        /\ Retried(row, retryable).attempts = row.attempts + 1
        /\ Retried(row, retryable).lockedBy = NoWorker
    BY <1>1, <1>3, <2>1 DEF Released, RowType, JobStatuses
  <2>3. claims <= row.attempts + 1 + 1
    BY <1>1, <1>2
  <2> QED
    BY <1>1, <1>2, <2>2, <2>3, FreeRowOK
<1> QED
  BY <1>4, <1>5

LEMMA ClaimedOK ==
  ASSUME NEW row, NEW claims, RowOK(row, claims),
         row.status \in {"PENDING", "FAILED_RETRYABLE"}, NEW holder \in Workers
  PROVE  RowOK([row EXCEPT !.status = "RUNNING", !.lockedBy = holder], claims + 1)
<1> DEFINE r == [row EXCEPT !.status = "RUNNING", !.lockedBy = holder]
<1>1. row \in RowType /\ row.attempts \in Nat /\ claims \in Nat /\ MAX_ATTEMPTS \in Nat
  BY JobTableAssumption DEF RowOK, RowType
<1>2. /\ r \in RowType /\ r.status = "RUNNING" /\ r.lockedBy = holder
      /\ r.attempts = row.attempts
  BY <1>1 DEF RowType, JobStatuses
<1>3. claims <= row.attempts /\ row.attempts < MAX_ATTEMPTS
  BY DEF RowOK
<1>4. holder # NoWorker
  BY JobTableAssumption
<1>5. claims + 1 <= MAX_ATTEMPTS /\ claims + 1 <= row.attempts + 1 /\ claims + 1 \in Nat
  BY <1>1, <1>3
<1> HIDE DEF r
<1>6. RowOK(r, claims + 1)
  BY <1>2, <1>4, <1>5 DEF RowOK
<1> QED
  BY <1>6 DEF r

-----------------------------------------------------------------------------
LEMMA QueueInitOK == Init => QueueInv
<1> SUFFICES ASSUME Init PROVE QueueInv
  OBVIOUS
<1>1. NoJob \in RowType
  BY DEF NoJob, RowType, JobStatuses
<1>2. RowOK(NoJob, 0)
  BY <1>1, JobTableAssumption DEF RowOK, NoJob
<1>3. /\ jobs = [key \in Keys |-> NoJob]
      /\ batch = [holder \in Workers |-> {}]
      /\ handedOut = [key \in Keys |-> 0]
  BY DEF Init
<1> QED
  BY <1>2, <1>3, RowsOK

LEMMA QueueStepOK ==
  ASSUME QueueInv, [Next]_queueVars
  PROVE  QueueInv'
<1>1. /\ jobs = [key \in Keys |-> jobs[key]]
      /\ handedOut = [key \in Keys |-> handedOut[key]]
      /\ batch \in [Workers -> SUBSET Keys]
      /\ \A key \in Keys : RowOK(jobs[key], handedOut[key])
  BY RowsOK
<1> DEFINE Goal ==
      /\ jobs' = [key \in Keys |-> jobs'[key]]
      /\ handedOut' = [key \in Keys |-> handedOut'[key]]
      /\ batch' \in [Workers -> SUBSET Keys]
      /\ \A key \in Keys : RowOK(jobs'[key], handedOut'[key])
<1>2. SUFFICES Goal
  <2>1. Goal => QueueInv'
    BY DEF QueueInv, TypeOK, RunningIsLeased, ClaimsPaid, RowOK
  <2> QED
    BY <2>1
<1>3. ASSUME NEW key \in Keys, Enqueue(key)
      PROVE  Goal
  <2>1. CASE jobs[key].status = "None"
    <3>1. /\ jobs' = [jobs EXCEPT ![key].status = "PENDING"]
          /\ batch' = batch /\ handedOut' = handedOut
      BY <1>3, <2>1 DEF Enqueue, Enqueued
    <3>2. RowOK([jobs[key] EXCEPT !.status = "PENDING"], handedOut[key])
      BY <1>1, <2>1 DEF RowOK, RowType, JobStatuses
    <3> QED
      BY <1>1, <3>1, <3>2
  <2>2. CASE jobs[key].status # "None"
    BY <1>1, <1>3, <2>2 DEF Enqueue, Enqueued
  <2> QED
    BY <2>1, <2>2
<1>4. ASSUME NEW key \in Keys, LeaseRunsOut(key)
      PROVE  Goal
  <2>1. /\ jobs' = [jobs EXCEPT ![key].stale = TRUE]
        /\ batch' = batch /\ handedOut' = handedOut
    BY <1>4 DEF LeaseRunsOut
  <2>2. RowOK([jobs[key] EXCEPT !.stale = TRUE], handedOut[key])
    BY <1>1 DEF RowOK, RowType
  <2> QED
    BY <1>1, <2>1, <2>2
<1>5. ASSUME NEW holder \in Workers, Reap(holder)
      PROVE  Goal
  <2>1. /\ jobs' = [key \in Keys |-> IF Reapable(jobs[key]) THEN Retried(jobs[key], TRUE)
                                     ELSE jobs[key]]
        /\ batch' = batch /\ handedOut' = handedOut
    BY <1>5 DEF Reap, Reaped
  <2> QED
    BY <1>1, <2>1, RetriedOK
<1>6. ASSUME NEW holder \in Workers, Abandon(holder)
      PROVE  Goal
  BY <1>1, <1>6 DEF Abandon
<1>7. ASSUME NEW holder \in Workers, NEW S \in SUBSET Keys, Claim(holder, S)
      PROVE  Goal
  <2>1. /\ \A key \in S : jobs[key].status \in {"PENDING", "FAILED_RETRYABLE"}
        /\ jobs' = [key \in Keys |->
                      IF key \in S
                      THEN [jobs[key] EXCEPT !.status = "RUNNING", !.lockedBy = holder]
                      ELSE jobs[key]]
        /\ batch' = [batch EXCEPT ![holder] = S]
        /\ handedOut' = [key \in Keys |-> handedOut[key] + (IF key \in S THEN 1 ELSE 0)]
    BY <1>7 DEF Claim, Claimed, Due
  <2>2. ASSUME NEW key \in Keys
        PROVE  RowOK(jobs'[key], handedOut'[key])
    <3>1. CASE key \in S
      BY <1>1, <2>1, <3>1, ClaimedOK
    <3>2. CASE key \notin S
      <4>1. jobs'[key] = jobs[key] /\ handedOut'[key] = handedOut[key] + 0
        BY <2>1, <3>2
      <4>2. handedOut[key] + 0 = handedOut[key]
        BY <1>1 DEF RowOK
      <4> QED
        BY <1>1, <4>1, <4>2
    <3> QED
      BY <3>1, <3>2
  <2> QED
    BY <1>1, <2>1, <2>2
<1>8. ASSUME NEW holder \in Workers, NEW key \in Keys, Complete(holder, key)
      PROVE  Goal
  <2>1. /\ jobs' = jobs \/ jobs' = [jobs EXCEPT ![key] =
                                      Released(jobs[key], "DONE", jobs[key].attempts)]
        /\ batch' \in [Workers -> SUBSET Keys]
        /\ handedOut' = handedOut
    BY <1>1, <1>8 DEF Complete, Completed, Reports
  <2>2. RowOK(Released(jobs[key], "DONE", jobs[key].attempts), handedOut[key])
    <3>1. jobs[key] \in RowType /\ jobs[key].attempts \in Nat
      BY <1>1 DEF RowOK, RowType
    <3>2. /\ handedOut[key] \in Nat /\ handedOut[key] <= MAX_ATTEMPTS
          /\ handedOut[key] <= jobs[key].attempts + 1
      BY <1>1 DEF RowOK
    <3>3. /\ Released(jobs[key], "DONE", jobs[key].attempts) \in RowType
          /\ Released(jobs[key], "DONE", jobs[key].attempts).status = "DONE"
          /\ Released(jobs[key], "DONE", jobs[key].attempts).attempts = jobs[key].attempts
          /\ Released(jobs[key], "DONE", jobs[key].attempts).lockedBy = NoWorker
      BY <3>1 DEF Released, RowType, JobStatuses
    <3> QED
      BY <3>2, <3>3, FreeRowOK
  <2> QED
    BY <1>1, <2>1, <2>2
<1>9. ASSUME NEW holder \in Workers, NEW key \in Keys, NEW retryable \in BOOLEAN,
             Fail(holder, key, retryable)
      PROVE  Goal
  <2>1. /\ jobs' = [jobs EXCEPT ![key] = Retried(jobs[key], retryable)]
        /\ batch' \in [Workers -> SUBSET Keys]
        /\ handedOut' = handedOut
    BY <1>1, <1>9 DEF Fail, Failed, Reports
  <2> QED
    BY <1>1, <2>1, RetriedOK
<1>10. CASE UNCHANGED queueVars
  BY <1>1, <1>10 DEF queueVars
<1> QED
  BY <1>3, <1>4, <1>5, <1>6, <1>7, <1>8, <1>9, <1>10 DEF Next

-----------------------------------------------------------------------------
(* The rows, the batches and the counts keep their types. *)
THEOREM QueueTypeCorrect == Spec => []TypeOK
<1>1. QueueInv => TypeOK
  BY DEF QueueInv
<1> QED
  BY QueueInitOK, QueueStepOK, <1>1, PTL DEF Spec

(* However many workers share the table, and whichever of them crash, stall  *)
(* or report late, no job is handed out more than MAX_ATTEMPTS times.        *)
THEOREM ClaimsBounded == Spec => []HandedOutBounded
<1>1. QueueInv => HandedOutBounded
  BY DEF QueueInv, ClaimsPaid, HandedOutBounded
<1> QED
  BY QueueInitOK, QueueStepOK, <1>1, PTL DEF Spec

(* No job is ever running out of the reaper's sight. *)
THEOREM RunningLeased == Spec => []RunningIsLeased
<1>1. QueueInv => RunningIsLeased
  BY DEF QueueInv
<1> QED
  BY QueueInitOK, QueueStepOK, <1>1, PTL DEF Spec

(* The queue's safety as the runs check it. *)
THEOREM QueueIsSound == Spec => []QueueSound
<1>1. QueueInv => QueueSound
  BY DEF QueueInv, ClaimsPaid, HandedOutBounded, QueueSound
<1> QED
  BY QueueInitOK, QueueStepOK, <1>1, PTL DEF Spec

-----------------------------------------------------------------------------
(***************************************************************************)
(* The verifier worker, for any windows, any skew of the clocks and any    *)
(* number of crashes and failed calls: on a disk that does not fail the    *)
(* salt of a commitment that can be revealed is in the journal, and one    *)
(* commitment at most is ever broadcast.                                   *)
(***************************************************************************)

Stages == {"idle", "getReport", "advance", "send", "await", "sent"}
Kinds == TxKinds \cup {"none"}
Numbers == 0..builds

WorkerFlags ==
  live \in BOOLEAN /\ approved \in BOOLEAN /\ revealed \in BOOLEAN /\ loaded \in BOOLEAN
WorkerRecords ==
  [at : Stages, kind : Kinds, record : Numbers, commitment : Numbers, revealed : BOOLEAN]
WorkerShape == worker \in WorkerRecords
SentBuilds == everSent \subseteq 1..builds

(* Where a transaction is under way there is one.                           *)
HasSend == worker.at \in {"send", "await", "sent"}

(* The map in memory is the file's, from the first read of it on; and what   *)
(* is being sent is what the file has.                                      *)
JournalInv ==
  /\ cache = IF loaded THEN disk ELSE None
  /\ worker.at # "idle" => loaded
  /\ HasSend => worker.kind \in TxKinds /\ worker.record = disk /\ disk # None

(* What is on the chain was sent, and what the tick has read is no news.     *)
ChainInv ==
  /\ \A tx \in mempool : tx.kind = "commitReport" => tx.build \in everSent
  /\ commitment # None => commitment \in everSent
  /\ revealed => commitment # None
  /\ worker.commitment # None => worker.commitment = commitment
  /\ worker.revealed => revealed
  /\ worker.at = "sent" /\ worker.kind = "revealReport" => revealed
  /\ ~live /\ commitment # None => revealed \/ ~InTime

(* While the task lives, only what the file holds was ever sent; without a   *)
(* record something was sent only if it is on the chain, and a tick that     *)
(* read nothing there has nothing sent.                                     *)
SentInv ==
  /\ \A x, y \in everSent : x = y
  /\ live /\ disk # None => everSent \subseteq {disk}
  /\ live /\ disk = None => everSent = {} \/ commitment # None
  /\ live /\ disk = None /\ worker.at = "advance" /\ worker.commitment = None
       => everSent = {}

KeptInv ==
  /\ WorkerTypeOK /\ WorkerFlags /\ WorkerShape /\ SentBuilds
  /\ JournalInv /\ ChainInv /\ SentInv /\ SaltSurvives

USE DEF None, AtRest, TxKinds, Stages, Kinds, Numbers, HasSend,
        WorkerRecords

LEMMA KeptInit == WorkerInit => KeptInv
<1> SUFFICES ASSUME WorkerInit PROVE KeptInv
  OBVIOUS
<1> USE WorkerAssumption DEF WorkerInit
<1>1. WorkerTypeOK /\ WorkerShape BY DEF WorkerTypeOK, WorkerShape
<1>2. WorkerFlags /\ SentBuilds BY DEF WorkerFlags, SentBuilds
<1>3. JournalInv BY DEF JournalInv
<1>4. ChainInv BY DEF ChainInv
<1>5. SentInv /\ SaltSurvives BY DEF SentInv, SaltSurvives
<1> QED BY <1>1, <1>2, <1>3, <1>4, <1>5 DEF KeptInv

(* At rest the tick has read nothing. *)
LEMMA RestInShape == WorkerTypeOK => AtRest \in WorkerRecords
  BY DEF WorkerTypeOK, WorkerRecords

(* The steps of the chain and of the other verifiers. *)
LEMMA MineKeeps ==
  ASSUME KeptInv, NEW tx \in mempool, Mine(tx)
  PROVE  KeptInv'
<1> USE DEF Mine, KeptInv, journal
<1>tx. tx \in [kind : TxKinds, build : 1..builds] BY DEF WorkerTypeOK
<1>inTime. InTime' <=> InTime BY DEF InTime
<1>same. UNCHANGED <<chainTime, live, approved, slots, inLookback, disk, cache, loaded,
                     builds, everSent, outages>>
  OBVIOUS
\* An accepted commitment is the one in the file.
<1>commit. ASSUME Accepts(tx), tx.kind = "commitReport"
           PROVE  tx.build = disk /\ commitment = None
  BY <1>commit, <1>tx DEF Accepts, ChainInv, SentInv
<1>reveal. ASSUME Accepts(tx), tx.kind = "revealReport"
           PROVE  commitment = tx.build /\ commitment # None
  BY <1>reveal, <1>tx DEF Accepts
<1>live. Accepts(tx) => live BY DEF Accepts
<1>kept. commitment # None => commitment' = commitment
  BY <1>commit
<1>worker. /\ worker' \in WorkerRecords
           /\ worker'.kind = worker.kind /\ worker'.record = worker.record
           /\ worker'.commitment = worker.commitment /\ worker'.revealed = worker.revealed
           /\ worker'.at = worker.at \/ (worker.at = "await" /\ worker'.at \in {"sent", "idle"})
  BY DEF WorkerFlags, WorkerShape, SentBuilds
<1>1. WorkerTypeOK' BY <1>tx, <1>worker, <1>same DEF WorkerTypeOK, WorkerFlags, WorkerShape, SentBuilds
<1>2. WorkerFlags' /\ WorkerShape' /\ SentBuilds' BY <1>worker, <1>same DEF WorkerFlags, WorkerShape, SentBuilds
<1>3. JournalInv' BY <1>worker, <1>same DEF JournalInv
<1>4. ChainInv'
  <2>1. \A t \in mempool' : t.kind = "commitReport" => t.build \in everSent'
    BY <1>same DEF ChainInv
  <2>2. commitment' # None => commitment' \in everSent'
    BY <1>same DEF ChainInv
  <2>3. revealed' => commitment' # None
    BY <1>reveal, <1>kept, <1>tx DEF ChainInv, WorkerFlags
  <2>4. worker'.commitment # None => worker'.commitment = commitment'
    BY <1>worker, <1>kept DEF ChainInv
  <2>5. worker'.revealed => revealed'
    BY <1>worker DEF ChainInv
  <2>6. worker'.at = "sent" /\ worker'.kind = "revealReport" => revealed'
    BY <1>worker DEF ChainInv, WorkerFlags, WorkerShape, SentBuilds
  <2>7. ~live' /\ commitment' # None => revealed' \/ ~InTime'
    <3> SUFFICES ASSUME ~live, commitment' # None PROVE revealed' \/ ~InTime'
      BY <1>same
    <3>1. commitment' = commitment BY <1>live
    <3>2. revealed \/ ~InTime BY <3>1 DEF ChainInv
    <3> QED BY <3>2, <1>inTime
  <2> QED BY <2>1, <2>2, <2>3, <2>4, <2>5, <2>6, <2>7 DEF ChainInv
<1>5. SentInv' BY <1>worker, <1>same, <1>kept DEF SentInv
<1>6. SaltSurvives' BY <1>same, <1>commit, <1>kept DEF SaltSurvives, InTime
<1> QED BY <1>1, <1>2, <1>3, <1>4, <1>5, <1>6

LEMMA TimeKeeps == KeptInv /\ BlockTime => KeptInv'
<1> SUFFICES ASSUME KeptInv, BlockTime PROVE KeptInv'
  OBVIOUS
<1> USE WorkerAssumption DEF KeptInv, BlockTime, journal
<1>1. WorkerTypeOK' BY DEF WorkerTypeOK, WorkerShape, WorkerFlags, JournalInv
<1>2. WorkerFlags' BY DEF WorkerFlags
<1>3. WorkerShape' BY RestInShape DEF WorkerShape, WorkerFlags, WorkerTypeOK, JournalInv
<1>4. SentBuilds' BY DEF SentBuilds
<1>5. JournalInv' BY DEF JournalInv, WorkerShape
<1>6. ChainInv' BY DEF ChainInv, JournalInv, WorkerTypeOK, WorkerFlags, WorkerShape, InTime
<1>7. SentInv' BY DEF SentInv, ChainInv, JournalInv, WorkerShape
<1>8. SaltSurvives' BY DEF SaltSurvives, ChainInv, JournalInv, WorkerTypeOK, WorkerShape, InTime
<1> QED BY <1>1, <1>2, <1>3, <1>4, <1>5, <1>6, <1>7, <1>8

LEMMA OthersKeep == KeptInv /\ (OthersCommit \/ ApprovalChanges \/ FallsBehindLookback) => KeptInv'
<1> SUFFICES ASSUME KeptInv, OthersCommit \/ ApprovalChanges \/ FallsBehindLookback PROVE KeptInv'
  OBVIOUS
<1> USE DEF KeptInv, OthersCommit, ApprovalChanges, FallsBehindLookback, journal
<1>1. WorkerTypeOK' BY DEF WorkerTypeOK, WorkerShape, WorkerFlags, JournalInv
<1>2. WorkerFlags' BY DEF WorkerFlags
<1>3. WorkerShape' BY RestInShape DEF WorkerShape, WorkerFlags, WorkerTypeOK, JournalInv
<1>4. SentBuilds' BY DEF SentBuilds
<1>5. JournalInv' BY DEF JournalInv, WorkerShape
<1>6. ChainInv' BY DEF ChainInv, JournalInv, WorkerTypeOK, WorkerFlags, WorkerShape, InTime
<1>7. SentInv' BY DEF SentInv, ChainInv, JournalInv, WorkerShape
<1>8. SaltSurvives' BY DEF SaltSurvives, ChainInv, JournalInv, WorkerTypeOK, WorkerShape, InTime
<1> QED BY <1>1, <1>2, <1>3, <1>4, <1>5, <1>6, <1>7, <1>8

LEMMA LeavesKeeps == KeptInv /\ LeavesLive => KeptInv'
<1> SUFFICES ASSUME KeptInv, LeavesLive PROVE KeptInv'
  OBVIOUS
<1> USE WorkerAssumption DEF KeptInv, LeavesLive, journal
<1>1. WorkerTypeOK' BY DEF WorkerTypeOK, WorkerShape, WorkerFlags, JournalInv
<1>2. WorkerFlags' BY DEF WorkerFlags
<1>3. WorkerShape' BY RestInShape DEF WorkerShape, WorkerFlags, WorkerTypeOK, JournalInv
<1>4. SentBuilds' BY DEF SentBuilds
<1>5. JournalInv' BY DEF JournalInv, WorkerShape
<1>6. ChainInv' BY DEF ChainInv, JournalInv, WorkerTypeOK, WorkerFlags, WorkerShape, InTime
<1>7. SentInv' BY DEF SentInv, ChainInv, JournalInv, WorkerShape
<1>8. SaltSurvives' BY DEF SaltSurvives, ChainInv, JournalInv, WorkerTypeOK, WorkerShape, InTime
<1> QED BY <1>1, <1>2, <1>3, <1>4, <1>5, <1>6, <1>7, <1>8

-----------------------------------------------------------------------------
(* The steps of the tick that write no file. *)
LEMMA GetReportKeeps == KeptInv /\ GetReport => KeptInv'
<1> SUFFICES ASSUME KeptInv, GetReport PROVE KeptInv'
  OBVIOUS
<1> USE DEF KeptInv, GetReport, journal, chainVars
<1>1. WorkerTypeOK' BY DEF WorkerTypeOK, WorkerShape, WorkerFlags, JournalInv
<1>2. WorkerFlags' BY DEF WorkerFlags
<1>3. WorkerShape' BY RestInShape DEF WorkerShape, WorkerFlags, WorkerTypeOK, JournalInv
<1>4. SentBuilds' BY DEF SentBuilds
<1>5. JournalInv' BY DEF JournalInv, WorkerShape
<1>6. ChainInv' BY DEF ChainInv, JournalInv, WorkerTypeOK, WorkerFlags, WorkerShape, InTime
<1>7. SentInv' BY DEF SentInv, ChainInv, JournalInv, WorkerShape
<1>8. SaltSurvives' BY DEF SaltSurvives, ChainInv, JournalInv, WorkerTypeOK, WorkerShape, InTime
<1> QED BY <1>1, <1>2, <1>3, <1>4, <1>5, <1>6, <1>7, <1>8

LEMMA SkipKeeps == KeptInv /\ (SkipClosedCommit \/ SkipInactive) => KeptInv'
<1> SUFFICES ASSUME KeptInv, SkipClosedCommit \/ SkipInactive PROVE KeptInv'
  OBVIOUS
<1> USE DEF KeptInv, SkipClosedCommit, SkipInactive, journal, chainVars
<1>1. WorkerTypeOK' BY DEF WorkerTypeOK, WorkerShape, WorkerFlags, JournalInv
<1>2. WorkerFlags' BY DEF WorkerFlags
<1>3. WorkerShape' BY RestInShape DEF WorkerShape, WorkerFlags, WorkerTypeOK, JournalInv
<1>4. SentBuilds' BY DEF SentBuilds
<1>5. JournalInv' BY DEF JournalInv, WorkerShape
<1>6. ChainInv' BY DEF ChainInv, JournalInv, WorkerTypeOK, WorkerFlags, WorkerShape, InTime
<1>7. SentInv' BY DEF SentInv, ChainInv, JournalInv, WorkerShape
<1>8. SaltSurvives' BY DEF SaltSurvives, ChainInv, JournalInv, WorkerTypeOK, WorkerShape, InTime
<1> QED BY <1>1, <1>2, <1>3, <1>4, <1>5, <1>6, <1>7, <1>8

LEMMA ResendKeeps == KeptInv /\ Resend => KeptInv'
<1> SUFFICES ASSUME KeptInv, Resend PROVE KeptInv'
  OBVIOUS
<1> USE DEF KeptInv, Resend, Sending, journal, chainVars
<1>1. WorkerTypeOK' BY DEF WorkerTypeOK, WorkerShape, WorkerFlags, JournalInv
<1>2. WorkerFlags' BY DEF WorkerFlags
<1>3. WorkerShape' BY RestInShape DEF WorkerShape, WorkerFlags, WorkerTypeOK, JournalInv
<1>4. SentBuilds' BY DEF SentBuilds
<1>5. JournalInv' BY DEF JournalInv, WorkerShape
<1>6. ChainInv' BY DEF ChainInv, JournalInv, WorkerTypeOK, WorkerFlags, WorkerShape, InTime
<1>7. SentInv' BY DEF SentInv, ChainInv, JournalInv, WorkerShape
<1>8. SaltSurvives' BY DEF SaltSurvives, ChainInv, JournalInv, WorkerTypeOK, WorkerShape, InTime
<1> QED BY <1>1, <1>2, <1>3, <1>4, <1>5, <1>6, <1>7, <1>8

LEMMA RevealKeeps == KeptInv /\ Reveal => KeptInv'
<1> SUFFICES ASSUME KeptInv, Reveal PROVE KeptInv'
  OBVIOUS
<1> USE DEF KeptInv, Reveal, Sending, journal, chainVars
<1>1. WorkerTypeOK' BY DEF WorkerTypeOK, WorkerShape, WorkerFlags, JournalInv
<1>2. WorkerFlags' BY DEF WorkerFlags
<1>3. WorkerShape' BY RestInShape DEF WorkerShape, WorkerFlags, WorkerTypeOK, JournalInv
<1>4. SentBuilds' BY DEF SentBuilds
<1>5. JournalInv' BY DEF JournalInv, WorkerShape
<1>6. ChainInv' BY DEF ChainInv, JournalInv, WorkerTypeOK, WorkerFlags, WorkerShape, InTime
<1>7. SentInv' BY DEF SentInv, ChainInv, JournalInv, WorkerShape
<1>8. SaltSurvives' BY DEF SaltSurvives, ChainInv, JournalInv, WorkerTypeOK, WorkerShape, InTime
<1> QED BY <1>1, <1>2, <1>3, <1>4, <1>5, <1>6, <1>7, <1>8

LEMMA SendKeeps == KeptInv /\ Send => KeptInv'
<1> SUFFICES ASSUME KeptInv, Send PROVE KeptInv'
  OBVIOUS
<1> USE DEF KeptInv, Send, journal, chainVars
<1> DEFINE tx == [kind |-> worker.kind, build |-> worker.record]
<1>record. worker.record = disk /\ disk \in 1..builds /\ worker.kind \in TxKinds
  BY DEF JournalInv, WorkerTypeOK, WorkerFlags, WorkerShape, SentBuilds
<1>1. CASE ~Accepts(tx)
  <2>1. /\ worker' = AtRest
        /\ UNCHANGED <<chainVars, mempool, journal, builds, everSent>>
    BY <1>1
  <2>2. WorkerTypeOK' /\ WorkerFlags' /\ SentBuilds'
    BY <2>1 DEF WorkerTypeOK, WorkerFlags, SentBuilds
  <2>3. WorkerShape' BY <2>1, RestInShape DEF WorkerShape
  <2>4. JournalInv' BY <2>1 DEF JournalInv
  <2>5. ChainInv' BY <2>1 DEF ChainInv, InTime
  <2>6. SentInv' /\ SaltSurvives' BY <2>1 DEF SentInv, SaltSurvives, InTime
  <2> QED BY <2>2, <2>3, <2>4, <2>5, <2>6
<1>2. CASE Accepts(tx)
  <2>1. live BY <1>2 DEF Accepts
  <2>2. everSent \subseteq {disk} BY <2>1, <1>record DEF SentInv
  <2>3. everSent' \subseteq {disk} /\ everSent \subseteq everSent'
    BY <1>2, <2>2, <1>record
  <2>4. mempool' = mempool \cup {tx} /\ tx \in [kind : TxKinds, build : 1..builds]
    BY <1>2, <1>record
  <2>5. worker' = [worker EXCEPT !.at = "await"] BY <1>2
  <2>6. WorkerTypeOK' BY <2>4, <2>5 DEF WorkerTypeOK, WorkerFlags, WorkerShape, SentBuilds
  <2>7. WorkerFlags' /\ WorkerShape' /\ SentBuilds'
    BY <1>2, <2>3, <2>5, <1>record DEF WorkerFlags, WorkerShape, SentBuilds
  <2>8. JournalInv' BY <2>5, <1>record DEF JournalInv, WorkerFlags, WorkerShape, SentBuilds
  <2>9. ChainInv'
    <3>1. \A t \in mempool' : t.kind = "commitReport" => t.build \in everSent'
      BY <2>3, <2>4, <1>2 DEF ChainInv
    <3> QED BY <3>1, <2>3, <2>5 DEF ChainInv, WorkerFlags, WorkerShape, SentBuilds, InTime
  <2>10. SentInv' BY <2>3, <2>5, <1>record DEF SentInv, WorkerFlags, WorkerShape, SentBuilds
  <2>11. SaltSurvives' BY <1>2 DEF SaltSurvives, InTime
  <2> QED BY <2>6, <2>7, <2>8, <2>9, <2>10, <2>11
<1> QED BY <1>1, <1>2

LEMMA TickFailsKeeps == KeptInv /\ TickFails => KeptInv'
<1> SUFFICES ASSUME KeptInv, TickFails PROVE KeptInv'
  OBVIOUS
<1> USE DEF KeptInv, TickFails, journal, chainVars
<1>1. WorkerTypeOK' BY DEF WorkerTypeOK, WorkerShape, WorkerFlags, JournalInv
<1>2. WorkerFlags' BY DEF WorkerFlags
<1>3. WorkerShape' BY RestInShape DEF WorkerShape, WorkerFlags, WorkerTypeOK, JournalInv
<1>4. SentBuilds' BY DEF SentBuilds
<1>5. JournalInv' BY DEF JournalInv, WorkerShape
<1>6. ChainInv' BY DEF ChainInv, JournalInv, WorkerTypeOK, WorkerFlags, WorkerShape, InTime
<1>7. SentInv' BY DEF SentInv, ChainInv, JournalInv, WorkerShape
<1>8. SaltSurvives' BY DEF SaltSurvives, ChainInv, JournalInv, WorkerTypeOK, WorkerShape, InTime
<1> QED BY <1>1, <1>2, <1>3, <1>4, <1>5, <1>6, <1>7, <1>8

LEMMA CrashKeeps == KeptInv /\ Crash => KeptInv'
<1> SUFFICES ASSUME KeptInv, Crash PROVE KeptInv'
  OBVIOUS
<1> USE DEF KeptInv, Crash, chainVars
<1>1. WorkerTypeOK' BY DEF WorkerTypeOK, WorkerShape, WorkerFlags, JournalInv
<1>2. WorkerFlags' BY DEF WorkerFlags
<1>3. WorkerShape' BY RestInShape DEF WorkerShape, WorkerFlags, WorkerTypeOK, JournalInv
<1>4. SentBuilds' BY DEF SentBuilds
<1>5. JournalInv' BY DEF JournalInv, WorkerShape
<1>6. ChainInv' BY DEF ChainInv, JournalInv, WorkerTypeOK, WorkerFlags, WorkerShape, InTime
<1>7. SentInv' BY DEF SentInv, ChainInv, JournalInv, WorkerShape
<1>8. SaltSurvives' BY DEF SaltSurvives, ChainInv, JournalInv, WorkerTypeOK, WorkerShape, InTime
<1> QED BY <1>1, <1>2, <1>3, <1>4, <1>5, <1>6, <1>7, <1>8

-----------------------------------------------------------------------------
(* The steps that write the file. *)
LEMMA FindKeeps == ~DiskFails /\ KeptInv /\ FindWork => KeptInv'
<1> SUFFICES ASSUME KeptInv, ~DiskFails, FindWork PROVE KeptInv'
  OBVIOUS
<1> USE DEF KeptInv, FindWork, Load, Flush, journal, chainVars
<1>1. WorkerTypeOK' BY DEF WorkerTypeOK, WorkerShape, WorkerFlags, JournalInv
<1>2. WorkerFlags' BY DEF WorkerFlags
<1>3. WorkerShape' BY RestInShape DEF WorkerShape, WorkerFlags, WorkerTypeOK, JournalInv
<1>4. SentBuilds' BY DEF SentBuilds
<1>5. JournalInv' BY DEF JournalInv, WorkerShape
<1>6. ChainInv' BY DEF ChainInv, JournalInv, WorkerTypeOK, WorkerFlags, WorkerShape, InTime
<1>7. SentInv' BY DEF SentInv, ChainInv, JournalInv, WorkerShape
<1>8. SaltSurvives' BY DEF SaltSurvives, ChainInv, JournalInv, WorkerTypeOK, WorkerShape, InTime
<1> QED BY <1>1, <1>2, <1>3, <1>4, <1>5, <1>6, <1>7, <1>8

LEMMA CommitKeeps == ~DiskFails /\ KeptInv /\ Commit => KeptInv'
<1> SUFFICES ASSUME ~DiskFails, KeptInv, Commit PROVE KeptInv'
  OBVIOUS
<1> USE DEF KeptInv, Commit, Flush, Sending, chainVars
<1>1. disk = None BY DEF JournalInv
<1>2. /\ builds' = builds + 1 /\ builds \in Nat
      /\ disk' = builds' /\ cache' = builds' /\ loaded'
      /\ worker' = [worker EXCEPT !.at = "send", !.kind = "commitReport", !.record = builds']
      /\ UNCHANGED <<chainTime, live, approved, slots, commitment, revealed, inLookback,
                     mempool, everSent>>
  BY DEF WorkerTypeOK
<1>more. 0..builds \subseteq 0..builds' /\ 1..builds \subseteq 1..builds' /\ builds' \in 1..builds'
  BY <1>2
<1>3. WorkerTypeOK'
  <2>1. {commitment', disk', cache', worker'.record, worker'.commitment} \subseteq 0..builds'
    BY <1>2, <1>more DEF WorkerTypeOK, WorkerShape
  <2>2. mempool' \subseteq [kind : TxKinds, build : 1..builds']
    BY <1>2, <1>more DEF WorkerTypeOK
  <2>3. builds' \in 0..MaxBuilds BY WorkerAssumption, <1>2 DEF WorkerTypeOK
  <2> QED BY <1>2, <2>1, <2>2, <2>3 DEF WorkerTypeOK
<1>4. WorkerFlags' /\ WorkerShape' /\ SentBuilds'
  <2>1. WorkerFlags' /\ SentBuilds' BY <1>2 DEF WorkerFlags, SentBuilds
  <2>2. WorkerShape'
    <3>1. worker \in [at : Stages, kind : Kinds, record : 0..builds', commitment : 0..builds',
                     revealed : BOOLEAN]
      BY <1>more DEF WorkerShape
    <3>2. "send" \in Stages /\ "commitReport" \in Kinds /\ builds' \in 0..builds'
      BY <1>2, <1>more
    <3> HIDE DEF Stages, Kinds
    <3> QED BY <1>2, <3>1, <3>2 DEF WorkerShape
  <2> QED BY <2>1, <2>2
<1>5. JournalInv' BY <1>2 DEF JournalInv, WorkerFlags, WorkerShape, SentBuilds
<1>6. ChainInv' BY <1>2 DEF ChainInv, WorkerFlags, WorkerShape, SentBuilds, InTime
<1>7. SentInv' BY <1>1, <1>2 DEF SentInv, WorkerFlags, WorkerShape, SentBuilds
<1>8. SaltSurvives' BY <1>1, <1>2 DEF SaltSurvives, InTime
<1> QED BY <1>3, <1>4, <1>5, <1>6, <1>7, <1>8

LEMMA ForgetKeeps == ~DiskFails /\ KeptInv /\ Forget => KeptInv'
<1> SUFFICES ASSUME KeptInv, ~DiskFails, Forget PROVE KeptInv'
  OBVIOUS
<1> USE WorkerAssumption DEF KeptInv, Forget, Flush, Now, chainVars
<1>1. WorkerTypeOK' BY DEF WorkerTypeOK, WorkerShape, WorkerFlags, JournalInv
<1>2. WorkerFlags' BY DEF WorkerFlags
<1>3. WorkerShape' BY RestInShape DEF WorkerShape, WorkerFlags, WorkerTypeOK, JournalInv
<1>4. SentBuilds' BY DEF SentBuilds
<1>5. JournalInv' BY DEF JournalInv, WorkerShape
<1>6. ChainInv' BY DEF ChainInv, JournalInv, WorkerTypeOK, WorkerFlags, WorkerShape, InTime
<1>7. SentInv' BY DEF SentInv, ChainInv, JournalInv, WorkerShape
<1>8. SaltSurvives' BY DEF SaltSurvives, ChainInv, JournalInv, WorkerTypeOK, WorkerShape, InTime
<1> QED BY <1>1, <1>2, <1>3, <1>4, <1>5, <1>6, <1>7, <1>8

LEMMA CommittedKeeps == ~DiskFails /\ KeptInv /\ Committed => KeptInv'
<1> SUFFICES ASSUME KeptInv, ~DiskFails, Committed PROVE KeptInv'
  OBVIOUS
<1> USE DEF KeptInv, Committed, Flush, chainVars
<1>1. WorkerTypeOK' BY DEF WorkerTypeOK, WorkerShape, WorkerFlags, JournalInv
<1>2. WorkerFlags' BY DEF WorkerFlags
<1>3. WorkerShape' BY RestInShape DEF WorkerShape, WorkerFlags, WorkerTypeOK, JournalInv
<1>4. SentBuilds' BY DEF SentBuilds
<1>5. JournalInv' BY DEF JournalInv, WorkerShape
<1>6. ChainInv' BY DEF ChainInv, JournalInv, WorkerTypeOK, WorkerFlags, WorkerShape, InTime
<1>7. SentInv' BY DEF SentInv, ChainInv, JournalInv, WorkerShape
<1>8. SaltSurvives' BY DEF SaltSurvives, ChainInv, JournalInv, WorkerTypeOK, WorkerShape, InTime
<1> QED BY <1>1, <1>2, <1>3, <1>4, <1>5, <1>6, <1>7, <1>8

LEMMA RevealedKeeps == ~DiskFails /\ KeptInv /\ Revealed => KeptInv'
<1> SUFFICES ASSUME KeptInv, ~DiskFails, Revealed PROVE KeptInv'
  OBVIOUS
<1> USE DEF KeptInv, Revealed, Flush, chainVars
<1>1. WorkerTypeOK' BY DEF WorkerTypeOK, WorkerShape, WorkerFlags, JournalInv
<1>2. WorkerFlags' BY DEF WorkerFlags
<1>3. WorkerShape' BY RestInShape DEF WorkerShape, WorkerFlags, WorkerTypeOK, JournalInv
<1>4. SentBuilds' BY DEF SentBuilds
<1>5. JournalInv' BY DEF JournalInv, WorkerShape
<1>6. ChainInv' BY DEF ChainInv, JournalInv, WorkerTypeOK, WorkerFlags, WorkerShape, InTime
<1>7. SentInv' BY DEF SentInv, ChainInv, JournalInv, WorkerShape
<1>8. SaltSurvives' BY DEF SaltSurvives, ChainInv, JournalInv, WorkerTypeOK, WorkerShape, InTime
<1> QED BY <1>1, <1>2, <1>3, <1>4, <1>5, <1>6, <1>7, <1>8

(* "Journalled before the transaction", so that "the salt is not recoverable" *)
(* never matters, and "a journalled commitment is never rebuilt": of the       *)
(* worker and its journal over any crashes, on a disk that does not fail.      *)
THEOREM Kept ==
  ASSUME ~DiskFails
  PROVE  WorkerSpec => []CommitmentIsKept
<1>1. WorkerInit => KeptInv BY KeptInit
<1>2. KeptInv /\ [WorkerNext]_workerVars => KeptInv'
  <2> SUFFICES ASSUME KeptInv, [WorkerNext]_workerVars PROVE KeptInv'
    OBVIOUS
  <2>1. CASE WorksOn
    BY <2>1, FindKeeps, GetReportKeeps, SkipKeeps, ResendKeeps, RevealKeeps, CommitKeeps,
       ForgetKeeps, SendKeeps, CommittedKeeps, RevealedKeeps
       DEF WorksOn
  <2>2. CASE TickFails \/ Crash BY <2>2, TickFailsKeeps, CrashKeeps
  <2>3. CASE \E tx \in mempool : Mine(tx) BY <2>3, MineKeeps
  <2>4. CASE BlockTime BY <2>4, TimeKeeps
  <2>5. CASE OthersCommit \/ ApprovalChanges \/ FallsBehindLookback BY <2>5, OthersKeep
  <2>6. CASE LeavesLive BY <2>6, LeavesKeeps
  <2>7. CASE UNCHANGED workerVars
    BY <2>7 DEF KeptInv, WorkerTypeOK, WorkerFlags, WorkerShape, SentBuilds, JournalInv, ChainInv,
                SentInv, SaltSurvives, InTime, workerVars, chainVars, journal
  <2> QED BY <2>1, <2>2, <2>3, <2>4, <2>5, <2>6, <2>7 DEF WorkerNext
<1>3. KeptInv => CommitmentIsKept
  <2> SUFFICES ASSUME KeptInv PROVE OneCommitment
    BY DEF KeptInv, CommitmentIsKept
  <2>1. CASE everSent = {} BY <2>1, FS_EmptySet DEF OneCommitment
  <2>2. CASE everSent # {}
    <3>1. PICK x \in everSent : everSent = {x} BY <2>2 DEF KeptInv, SentInv
    <3> QED BY <3>1, FS_Singleton DEF OneCommitment
  <2> QED BY <2>1, <2>2
<1> QED BY <1>1, <1>2, <1>3, PTL DEF WorkerSpec

HIDE DEF None, AtRest, TxKinds, Stages, Kinds, Numbers, HasSend,
        WorkerRecords

-----------------------------------------------------------------------------
(***************************************************************************)
(* The directory of verifiers, for any set of operators: a row differs     *)
(* from the contract's record only as long as a log that will refresh it   *)
(* is still to be indexed.                                                 *)
(***************************************************************************)

VerifierRecord ==
  [registered : BOOLEAN, approved : BOOLEAN, active : BOOLEAN, stake : Nat,
   keeper : BOOLEAN, reports : Nat, pending : Nat]
Entry ==
  [listed : {TRUE}, registered : BOOLEAN, approved : BOOLEAN, active : BOOLEAN,
   stake : Nat, role : {"none", "KEEPER"}, seenAt : Nat]
Touching == {"ReportCommitted", "ReportRevealed"}
LogNames ==
  Touching \cup {"VerifierRegistered", "VerifierActiveSet", "VerifierApprovalSet",
                 "StakeWithdrawn", "RoleGranted"}
Log == [name : LogNames, of : Operators, at : Nat]

RowAgrees(v) ==
  /\ registry[v].registered \/ registry[v].approved => directory[v].listed
  /\ directory[v].listed => /\ directory[v].registered = registry[v].registered
                            /\ directory[v].approved = registry[v].approved
                            /\ directory[v].active = registry[v].active
                            /\ directory[v].stake = registry[v].stake

(* No log is left that would refresh the row of v. *)
Refreshless(v) == \A i \in 1..Len(logs) : logs[i].of = v => logs[i].name \in Touching

DirectoryTypes ==
  /\ registry \in [Operators -> VerifierRecord]
  /\ directory \in [Operators -> Entry \cup {NoEntry}]
  /\ logs \in Seq(Log) /\ block \in Nat

(* Every row is the contract's record, but for those a log will refresh; and *)
(* a report, whose logs refresh nothing, is of a registered address.         *)
DirectoryInv ==
  /\ DirectoryTypes
  /\ \A v \in Operators : Refreshless(v) => RowAgrees(v)
  /\ \A i \in 1..Len(logs) : logs[i].name \in Touching => registry[logs[i].of].registered
  /\ \A v \in Operators : registry[v].reports # 0 => registry[v].registered

LEMMA DirectoryInitOK == DirectoryInit => DirectoryInv
<1> SUFFICES ASSUME DirectoryInit PROVE DirectoryInv
  OBVIOUS
<1>1. /\ Stranger \in VerifierRecord /\ ~Stranger.registered /\ ~Stranger.approved
      /\ Stranger.reports = 0 /\ ~NoEntry.listed
  BY DEF Stranger, VerifierRecord, NoEntry
<1>2. DirectoryTypes
  BY <1>1 DEF DirectoryInit, DirectoryTypes
<1>3. ASSUME NEW v \in Operators PROVE RowAgrees(v)
  BY <1>1 DEF DirectoryInit, RowAgrees
<1>4. Len(logs) = 0 /\ \A v \in Operators : registry[v].reports = 0
  BY <1>1 DEF DirectoryInit
<1> QED
  BY <1>2, <1>3, <1>4 DEF DirectoryInv

(* A transaction changes the record of one address, and what the directory   *)
(* shows of it only with a log that will refresh the row.                    *)
LEMMA Transacts ==
  ASSUME DirectoryInv, NEW v \in Operators, NEW record \in VerifierRecord, Mined,
         registry' = [registry EXCEPT ![v] = record],
         registry[v].registered \/ record.reports # 0 => record.registered,
         NEW log \in Log, log.of = v,
         log.name \in Touching => record.registered,
         logs' = Append(logs, log) \/ logs' = logs,
         \/ logs' = Append(logs, log) /\ log.name \notin Touching
         \/ /\ record.registered = registry[v].registered
            /\ record.approved = registry[v].approved
            /\ record.active = registry[v].active /\ record.stake = registry[v].stake
  PROVE  DirectoryInv'
<1>1. /\ registry \in [Operators -> VerifierRecord] /\ logs \in Seq(Log) /\ block \in Nat
      /\ directory \in [Operators -> Entry \cup {NoEntry}] /\ Len(logs) \in Nat
  BY DEF DirectoryInv, DirectoryTypes
<1>2. directory' = directory /\ block' \in Nat
  BY <1>1 DEF Mined
<1>3. DirectoryTypes'
  BY <1>1, <1>2 DEF DirectoryTypes
<1>4. /\ \A i \in 1..Len(logs) : i \in 1..Len(logs') /\ logs'[i] = logs[i]
      /\ \A i \in 1..Len(logs') : i \in 1..Len(logs) \/ logs'[i] = log
      /\ logs' = Append(logs, log) => \E i \in 1..Len(logs') : logs'[i] = log
  BY <1>1
<1>5. ASSUME NEW u \in Operators, Refreshless(u)'
      PROVE  RowAgrees(u)'
  <2>1. Refreshless(u)
    BY <1>4, <1>5 DEF Refreshless
  <2>2. RowAgrees(u)
    BY <2>1 DEF DirectoryInv
  <2>3. CASE u = v
    <3>1. ~(logs' = Append(logs, log) /\ log.name \notin Touching)
      BY <1>4, <1>5, <2>3 DEF Refreshless
    <3> QED
      BY <1>1, <1>2, <2>2, <2>3, <3>1 DEF RowAgrees
  <2>4. CASE u # v
    BY <1>1, <1>2, <2>2, <2>4 DEF RowAgrees
  <2> QED
    BY <2>3, <2>4
<1>6. ASSUME NEW i \in 1..Len(logs'), logs'[i].name \in Touching
      PROVE  registry'[logs'[i].of].registered
  <2>1. CASE i \in 1..Len(logs)
    <3>0. logs[i] \in Log
      BY <1>1, <2>1, ElementOfSeq
    <3>1. logs'[i] = logs[i] /\ logs[i].of \in Operators
      BY <1>4, <2>1, <3>0 DEF Log
    <3>2. registry[logs[i].of].registered
      BY <1>6, <2>1, <3>1 DEF DirectoryInv
    <3> QED
      BY <1>1, <3>1, <3>2
  <2>2. CASE logs'[i] = log
    BY <1>1, <1>6, <2>2
  <2> QED
    BY <1>4, <2>1, <2>2
<1>7. \A u \in Operators : registry'[u].reports # 0 => registry'[u].registered
  BY <1>1 DEF DirectoryInv
<1> QED
  BY <1>3, <1>5, <1>6, <1>7 DEF DirectoryInv

(* The log a transaction of v emits. *)
LEMMA EmittedLog ==
  ASSUME NEW v \in Operators, NEW name \in LogNames, block' \in Nat, Emits(name, v)
  PROVE  \E log \in Log : log.of = v /\ log.name = name /\ logs' = Append(logs, log)
<1>1. [name |-> name, of |-> v, at |-> block'] \in Log
  BY DEF Log
<1> QED
  BY <1>1 DEF Emits

(* A record and whatever log, for the transactions that may be silent.       *)
LEMMA ContractSteps ==
  ASSUME DirectoryInv, NEW v \in Operators,
         \/ \E value \in 0..MinStake : RegisterVerifier(v, value)
         \/ \E on \in BOOLEAN : SetVerifierActive(v, on) \/ SetVerifierApproval(v, on)
         \/ \E amount \in 1..MinStake : WithdrawStake(v, amount)
         \/ GrantRole(v) \/ RevokeRole(v) \/ CommitReport(v) \/ RevealReport(v)
  PROVE  DirectoryInv'
<1>1. registry \in [Operators -> VerifierRecord] /\ registry[v] \in VerifierRecord
  BY DEF DirectoryInv, DirectoryTypes
<1>2. Mined /\ block' \in Nat /\ (registry[v].reports # 0 => registry[v].registered)
  <2>1. Mined
    BY DEF RegisterVerifier, SetVerifierActive, SetVerifierApproval, WithdrawStake, GrantRole,
           RevokeRole, CommitReport, RevealReport
  <2> QED
    BY <2>1 DEF Mined, DirectoryInv, DirectoryTypes
<1>3. ASSUME NEW value \in 0..MinStake, RegisterVerifier(v, value)
      PROVE  DirectoryInv'
  <2> DEFINE active == registry[v].active \/ ~registry[v].registered
             record == [registry[v] EXCEPT !.registered = TRUE, !.stake = @ + value,
                                           !.active = active]
  <2>1. active \in BOOLEAN /\ value \in Nat
    BY DirectoryAssumption
  <2>2. registry' = [registry EXCEPT ![v] = record]
    BY <1>1, <1>3 DEF RegisterVerifier
  <2> HIDE DEF active
  <2>3. registry[v].stake + value \in Nat
    BY <1>1, <2>1 DEF VerifierRecord
  <2>4. PICK stake \in Nat, on \in BOOLEAN : stake = registry[v].stake + value /\ on = active
    BY <2>1, <2>3
  <2>5. record = [registry[v] EXCEPT !.registered = TRUE, !.stake = stake, !.active = on]
    BY <2>4
  <2>6. record \in VerifierRecord /\ record.registered
    BY <1>1, <2>5 DEF VerifierRecord
  <2>7. PICK new \in VerifierRecord : new = record
    BY <2>6
  <2>8. PICK log \in Log : /\ log.of = v /\ log.name = "VerifierRegistered"
                           /\ logs' = Append(logs, log)
    BY <1>2, <1>3, EmittedLog DEF RegisterVerifier, LogNames
  <2> HIDE DEF record
  <2> QED
    BY <1>2, <2>2, <2>6, <2>7, <2>8, Transacts DEF Touching
<1>4. ASSUME NEW on \in BOOLEAN, SetVerifierActive(v, on)
      PROVE  DirectoryInv'
  <2>1. PICK record : record = [registry[v] EXCEPT !.active = on]
    OBVIOUS
  <2>2. /\ record \in VerifierRecord /\ record.registered = registry[v].registered
        /\ record.reports = registry[v].reports
    BY <1>1, <2>1 DEF VerifierRecord
  <2>3. registry' = [registry EXCEPT ![v] = record]
    BY <1>1, <1>4, <2>1 DEF SetVerifierActive
  <2>4. PICK log \in Log : /\ log.of = v /\ log.name = "VerifierActiveSet"
                           /\ logs' = Append(logs, log)
    BY <1>2, <1>4, EmittedLog DEF SetVerifierActive, LogNames
  <2> QED
    BY <1>2, <2>2, <2>3, <2>4, Transacts DEF Touching
<1>5. ASSUME NEW on \in BOOLEAN, SetVerifierApproval(v, on)
      PROVE  DirectoryInv'
  <2>1. PICK record : record = [registry[v] EXCEPT !.approved = on]
    OBVIOUS
  <2>2. /\ record \in VerifierRecord /\ record.registered = registry[v].registered
        /\ record.reports = registry[v].reports
    BY <1>1, <2>1 DEF VerifierRecord
  <2>3. registry' = [registry EXCEPT ![v] = record]
    BY <1>1, <1>5, <2>1 DEF SetVerifierApproval
  <2>4. PICK log \in Log : /\ log.of = v /\ log.name = "VerifierApprovalSet"
                           /\ logs' = Append(logs, log)
    BY <1>2, <1>5, EmittedLog DEF SetVerifierApproval, LogNames
  <2> QED
    BY <1>2, <2>2, <2>3, <2>4, Transacts DEF Touching
<1>6. ASSUME NEW amount \in 1..MinStake, WithdrawStake(v, amount)
      PROVE  DirectoryInv'
  <2>1. PICK record : record = [registry[v] EXCEPT !.stake = @ - amount, !.pending = @ + amount]
    OBVIOUS
  <2>2. amount <= registry[v].stake /\ amount \in Nat
    BY <1>6, DirectoryAssumption DEF WithdrawStake
  <2>3. registry[v].stake - amount \in Nat /\ registry[v].pending + amount \in Nat
    BY <1>1, <2>2 DEF VerifierRecord
  <2>4. /\ record \in VerifierRecord /\ record.registered = registry[v].registered
        /\ record.reports = registry[v].reports
    BY <1>1, <2>1, <2>3 DEF VerifierRecord
  <2>5. registry' = [registry EXCEPT ![v] = record]
    BY <1>1, <1>6, <2>1 DEF WithdrawStake
  <2>6. PICK log \in Log : /\ log.of = v /\ log.name = "StakeWithdrawn"
                           /\ logs' = Append(logs, log)
    BY <1>2, <1>6, EmittedLog DEF WithdrawStake, LogNames
  <2> QED
    BY <1>2, <2>4, <2>5, <2>6, Transacts DEF Touching
<1>7. CASE GrantRole(v) \/ RevokeRole(v)
  <2>1. PICK keeper \in BOOLEAN : registry' = [registry EXCEPT ![v].keeper = keeper]
    BY <1>7 DEF GrantRole, RevokeRole
  <2>2. PICK record : record = [registry[v] EXCEPT !.keeper = keeper]
    OBVIOUS
  <2>3. /\ record \in VerifierRecord /\ record.registered = registry[v].registered
        /\ record.approved = registry[v].approved
        /\ record.active = registry[v].active /\ record.stake = registry[v].stake
        /\ record.reports = registry[v].reports
    BY <1>1, <2>2 DEF VerifierRecord
  <2>4. registry' = [registry EXCEPT ![v] = record]
    BY <1>1, <2>1, <2>2
  <2>5. PICK log \in Log : /\ log.of = v /\ log.name = "RoleGranted"
                           /\ logs' = Append(logs, log) \/ logs' = logs
    <3>1. CASE logs' = logs
      <4>1. [name |-> "RoleGranted", of |-> v, at |-> block'] \in Log
        BY <1>2 DEF Log, LogNames
      <4> QED
        BY <3>1, <4>1
    <3>2. CASE Emits("RoleGranted", v)
      BY <1>2, <3>2, EmittedLog DEF LogNames
    <3> QED
      BY <1>7, <3>1, <3>2 DEF GrantRole, RevokeRole
  <2> QED
    BY <1>2, <2>3, <2>4, <2>5, Transacts DEF Touching
<1>8. CASE CommitReport(v) \/ RevealReport(v)
  <2>1. PICK reports \in {1, 2} : registry' = [registry EXCEPT ![v].reports = reports]
    BY <1>8 DEF CommitReport, RevealReport
  <2>2. PICK record : record = [registry[v] EXCEPT !.reports = reports]
    OBVIOUS
  <2>3. /\ record \in VerifierRecord /\ record.registered = registry[v].registered
        /\ record.approved = registry[v].approved
        /\ record.active = registry[v].active /\ record.stake = registry[v].stake
    BY <1>1, <2>2 DEF VerifierRecord
  <2>4. registry' = [registry EXCEPT ![v] = record]
    BY <1>1, <2>1, <2>2
  <2>5. PICK log \in Log : log.of = v /\ logs' = Append(logs, log)
    BY <1>2, <1>8, EmittedLog DEF CommitReport, RevealReport, LogNames, Touching
  <2>6. record.registered
    BY <1>2, <1>8, <2>3 DEF CommitReport, RevealReport
  <2> QED
    BY <1>2, <2>3, <2>4, <2>5, <2>6, Transacts
<1> QED
  BY <1>3, <1>4, <1>5, <1>6, <1>7, <1>8

LEMMA ProjectionStep ==
  ASSUME DirectoryInv, ProjectLog
  PROVE  DirectoryInv'
<1>1. /\ registry \in [Operators -> VerifierRecord] /\ logs \in Seq(Log) /\ block \in Nat
      /\ directory \in [Operators -> Entry \cup {NoEntry}] /\ Len(logs) \in Nat
  BY DEF DirectoryInv, DirectoryTypes
<1>2. PICK log \in Log : log = Head(logs)
  BY <1>1 DEF ProjectLog
<1>3. PICK v \in Operators : v = log.of
  BY DEF Log
<1>4. PICK row : row = Projected(log)
  OBVIOUS
<1>5. /\ logs # <<>> /\ logs' = Tail(logs) /\ UNCHANGED <<registry, block>>
      /\ directory' = [directory EXCEPT ![v] = row]
  BY <1>2, <1>3, <1>4 DEF ProjectLog
<1>6. /\ Len(logs) > 0 /\ Len(logs') = Len(logs) - 1 /\ log = logs[1]
      /\ \A i \in 1..Len(logs') : i + 1 \in 1..Len(logs) /\ logs'[i] = logs[i + 1]
      /\ logs' \in Seq(Log)
  BY <1>1, <1>2, <1>5
<1>7. \A i \in 1..Len(logs) : i = 1 \/ \E j \in 1..Len(logs') : logs'[j] = logs[i]
  <2>1. ASSUME NEW i \in 1..Len(logs), i # 1
        PROVE  \E j \in 1..Len(logs') : logs'[j] = logs[i]
    <3>1. i - 1 \in 1..Len(logs') /\ (i - 1) + 1 = i
      BY <1>1, <1>6, <2>1
    <3> QED
      BY <1>6, <3>1
  <2> QED
    BY <2>1
<1>8. DirectoryRow(v) \in Entry /\ (directory[v].listed => DirectoryRow(v) = directory[v])
  <2>1. ~NoEntry.listed
    BY DEF NoEntry
  <2> QED
    BY <1>1, <2>1 DEF DirectoryRow, Entry, Never
<1>9. /\ log.name \in Touching => row = Touched(DirectoryRow(v), log.at)
      /\ log.name \notin Touching => \E old \in Entry : row = Refreshed(old, v, log.at)
  <2>1. [DirectoryRow(v) EXCEPT !.role = "KEEPER"] \in Entry
    BY <1>8 DEF Entry
  <2> QED
    BY <1>3, <1>4, <1>8, <2>1 DEF Projected, Touching
<1>10. ASSUME NEW old \in Entry
       PROVE  /\ Touched(old, log.at) \in Entry
              /\ Touched(old, log.at).registered = old.registered
              /\ Touched(old, log.at).approved = old.approved
              /\ Touched(old, log.at).active = old.active
              /\ Touched(old, log.at).stake = old.stake
  <2>1. Latest(old.seenAt, log.at) \in Nat
    BY DEF Entry, Log, Latest
  <2> QED
    BY <2>1 DEF Touched, Entry
<1>11. ASSUME NEW old \in Entry
       PROVE  /\ Refreshed(old, v, log.at) \in Entry
              /\ Refreshed(old, v, log.at).registered = registry[v].registered
              /\ Refreshed(old, v, log.at).approved = registry[v].approved
              /\ Refreshed(old, v, log.at).active = registry[v].active
              /\ Refreshed(old, v, log.at).stake = registry[v].stake
  <2>1. Latest(old.seenAt, log.at) \in Nat
    BY DEF Entry, Log, Latest
  <2>2. registry[v] \in VerifierRecord
    BY <1>1
  <2> QED
    BY <2>1, <2>2 DEF Refreshed, Entry, VerifierRecord
<1>12. row \in Entry /\ row.listed
  <2>1. row \in Entry
    BY <1>8, <1>9, <1>10, <1>11
  <2> QED
    BY <2>1 DEF Entry
<1>13. DirectoryTypes'
  BY <1>1, <1>5, <1>6, <1>12 DEF DirectoryTypes
<1>14. ASSUME NEW u \in Operators, Refreshless(u)'
       PROVE  RowAgrees(u)'
  <2>1. CASE u # v
    <3>1. Refreshless(u)
      BY <1>3, <1>6, <1>7, <1>14, <2>1 DEF Refreshless
    <3>2. RowAgrees(u)
      BY <3>1 DEF DirectoryInv
    <3> QED
      BY <1>1, <1>5, <2>1, <3>2 DEF RowAgrees
  <2>2. CASE u = v /\ log.name \notin Touching
    <3>1. /\ row.registered = registry[v].registered /\ row.approved = registry[v].approved
          /\ row.active = registry[v].active /\ row.stake = registry[v].stake
      BY <1>9, <1>11, <2>2
    <3> QED
      BY <1>1, <1>5, <1>12, <2>2, <3>1 DEF RowAgrees
  <2>3. CASE u = v /\ log.name \in Touching
    <3>1. Refreshless(v)
      BY <1>6, <1>7, <1>14, <2>3 DEF Refreshless
    <3>2. RowAgrees(v)
      BY <3>1 DEF DirectoryInv
    <3>3. registry[v].registered
      <4>1. 1 \in 1..Len(logs)
        BY <1>1, <1>6
      <4> QED
        BY <1>3, <1>6, <2>3, <4>1 DEF DirectoryInv
    <3>4. DirectoryRow(v) = directory[v]
      BY <1>8, <3>2, <3>3 DEF RowAgrees
    <3>5. /\ row.registered = registry[v].registered /\ row.approved = registry[v].approved
          /\ row.active = registry[v].active /\ row.stake = registry[v].stake
      BY <1>8, <1>9, <1>10, <2>3, <3>2, <3>3, <3>4 DEF RowAgrees
    <3> QED
      BY <1>1, <1>5, <1>12, <2>3, <3>5 DEF RowAgrees
  <2> QED
    BY <2>1, <2>2, <2>3
<1>15. /\ \A i \in 1..Len(logs') : logs'[i].name \in Touching => registry'[logs'[i].of].registered
       /\ \A u \in Operators : registry'[u].reports # 0 => registry'[u].registered
  BY <1>5, <1>6 DEF DirectoryInv
<1> QED
  BY <1>13, <1>14, <1>15 DEF DirectoryInv

LEMMA DirectoryStepOK == DirectoryInv /\ [DirectoryNext]_directoryVars => DirectoryInv'
<1> SUFFICES ASSUME DirectoryInv, [DirectoryNext]_directoryVars PROVE DirectoryInv'
  OBVIOUS
<1>1. CASE IdleBlock \/ UNCHANGED directoryVars
  <2>1. UNCHANGED <<registry, logs, directory>> /\ block' \in Nat
    BY <1>1 DEF IdleBlock, Mined, directoryVars, DirectoryInv, DirectoryTypes
  <2> QED
    BY <2>1 DEF DirectoryInv, DirectoryTypes, Refreshless, RowAgrees
<1> QED
  BY <1>1, ContractSteps, ProjectionStep DEF DirectoryNext

(* In whatever order operators register, are approved, pause, withdraw and   *)
(* work, a directory whose logs are all projected is the contract's registry.*)
THEOREM DirectoryIsTheRegistry == DirectorySpec => []DirectoryCatchesUp
<1>1. ASSUME DirectoryInv, logs = <<>>, NEW v \in Operators
      PROVE  RowAgrees(v)
  <2>1. Refreshless(v)
    BY <1>1 DEF Refreshless
  <2> QED
    BY <1>1, <2>1 DEF DirectoryInv
<1>2. DirectoryInv => DirectoryCatchesUp
  BY <1>1 DEF DirectoryCatchesUp, RowAgrees
<1> QED
  BY DirectoryInitOK, DirectoryStepOK, <1>2, PTL DEF DirectorySpec

=============================================================================

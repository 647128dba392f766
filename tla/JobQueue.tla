------------------------------ MODULE JobQueue ------------------------------
(***************************************************************************)
(* Several orchestrators (apps/api/src/orchestrator/orchestrator.ts) over   *)
(* one jobs table.  A pass of a worker reaps the leases that ran out,       *)
(* claims up to ClaimLimit due jobs and runs them one after the other: a    *)
(* lease is taken for the whole batch, is never renewed, and may run out    *)
(* while its job still waits behind the ones before it.  A worker whose     *)
(* lease was reaped is not told, and reports when its handler ends.         *)
(***************************************************************************)
EXTENDS JobTable

CONSTANT ClaimLimit
ASSUME ClaimLimitAssumption == ClaimLimit \in Nat \ {0}

VARIABLES
  jobs,
  batch,      \* what each worker claimed and has not reported on
  handedOut   \* history: how often each job was claimed

queueVars == <<jobs, batch, handedOut>>

Init ==
  /\ jobs = [key \in Keys |-> NoJob]
  /\ batch = [worker \in Workers |-> {}]
  /\ handedOut = [key \in Keys |-> 0]

Enqueue(key) ==
  /\ jobs' = Enqueued(jobs, key)
  /\ UNCHANGED <<batch, handedOut>>

Reap(worker) ==
  /\ batch[worker] = {}
  /\ jobs' = Reaped(jobs)
  /\ UNCHANGED <<batch, handedOut>>

(* Fewer than ClaimLimit where another claim holds the rows' locks. *)
Claim(worker, S) ==
  /\ batch[worker] = {}
  /\ S # {} /\ S \subseteq Due(jobs)
  /\ Cardinality(S) <= ClaimLimit
  /\ jobs' = Claimed(jobs, S, worker)
  /\ batch' = [batch EXCEPT ![worker] = S]
  /\ handedOut' = [key \in Keys |-> handedOut[key] + (IF key \in S THEN 1 ELSE 0)]

Reports(worker, key) ==
  /\ key \in batch[worker]
  /\ batch' = [batch EXCEPT ![worker] = @ \ {key}]
  /\ UNCHANGED handedOut

(* The handler returned. *)
Complete(worker, key) ==
  /\ Reports(worker, key)
  /\ jobs' = Completed(jobs, key, worker)

(* The handler threw, or the statement that records its success did. *)
Fail(worker, key, retryable) ==
  /\ Reports(worker, key)
  /\ jobs' = Failed(jobs, key, retryable)

(* The process dies, or a statement of the pass throws past the loop. *)
Abandon(worker) ==
  /\ batch[worker] # {}
  /\ batch' = [batch EXCEPT ![worker] = {}]
  /\ UNCHANGED <<jobs, handedOut>>

LeaseRunsOut(key) ==
  /\ jobs[key].lockedBy # NoWorker /\ ~jobs[key].stale
  /\ jobs' = [jobs EXCEPT ![key].stale = TRUE]
  /\ UNCHANGED <<batch, handedOut>>

Next ==
  \/ \E key \in Keys : Enqueue(key) \/ LeaseRunsOut(key)
  \/ \E worker \in Workers :
        \/ Reap(worker)
        \/ Abandon(worker)
        \/ \E S \in SUBSET Keys : Claim(worker, S)
        \/ \E key \in Keys :
              \/ Complete(worker, key)
              \/ \E retryable \in BOOLEAN : Fail(worker, key, retryable)

Spec == Init /\ [][Next]_queueVars

-----------------------------------------------------------------------------
(* The poll timer keeps starting passes, a pass takes the jobs that are due, *)
(* a handler returns, throws or dies with its process, and time passes.      *)
Fairness ==
  /\ \A key \in Keys : WF_queueVars(LeaseRunsOut(key))
  /\ \A worker \in Workers :
        /\ WF_queueVars(Reap(worker))
        /\ WF_queueVars(\E key \in Keys :
              \/ Complete(worker, key)
              \/ \E retryable \in BOOLEAN : Fail(worker, key, retryable))
  /\ \A key \in Keys :
        WF_queueVars(\E worker \in Workers, S \in SUBSET Keys :
                       key \in S /\ Claim(worker, S))

FairSpec == Spec /\ Fairness

-----------------------------------------------------------------------------
RowType == [status : JobStatuses, attempts : Nat,
            lockedBy : Workers \cup {NoWorker}, stale : BOOLEAN]

TypeOK ==
  /\ jobs \in [Keys -> RowType]
  /\ batch \in [Workers -> SUBSET Keys]
  /\ handedOut \in [Keys -> Nat]

(* "A job that reliably kills its worker must not loop forever": whatever    *)
(* reaps, stale reports and retries interleave, a job is handed to a worker  *)
(* at most MAX_ATTEMPTS times.                                               *)
HandedOutBounded == \A key \in Keys : handedOut[key] <= MAX_ATTEMPTS

(* A running job carries a lease, and only a running job does: without it    *)
(* the reaper does not see the job, whose key can never be enqueued again.   *)
RunningIsLeased ==
  \A key \in Keys : jobs[key].status = "RUNNING" <=> jobs[key].lockedBy # NoWorker

(* Both, over rows and batches of their types.                               *)
QueueSound == TypeOK /\ HandedOutBounded /\ RunningIsLeased

(* Every job that is enqueued comes to a final end: although a worker whose  *)
(* lease was reaped may still undo a DONE, it cannot do so forever.          *)
EveryJobEnds ==
  \A key \in Keys :
    jobs[key].status # "None" ~> [](jobs[key].status \in Finished)

(* queue.ts of complete: "Passing the id the worker claimed under makes a    *)
(* stale writer update zero rows".  While another worker holds the claim of a *)
(* job, one whose own lease was reclaimed changes nothing when it reports.   *)
StaleWriterChangesNothing ==
  [][\A worker \in Workers, key \in Keys :
       /\ key \in batch[worker] \ batch'[worker]
       /\ jobs[key].lockedBy \in Workers \ {worker}
       => jobs'[key] = jobs[key]]_queueVars
=============================================================================

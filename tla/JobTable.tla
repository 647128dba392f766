------------------------------ MODULE JobTable ------------------------------
(***************************************************************************)
(* The jobs table of apps/api/src/orchestrator/queue.ts: one operator per   *)
(* SQL statement, from the table before it to the table after it.           *)
(*                                                                         *)
(* A row is what the statements read and write: its status, the attempts    *)
(* counted against it, the worker its lease names, and stale, which says    *)
(* that locked_at has fallen behind LEASE_MS.  How long a back-off or a     *)
(* lease lasts is left out: a job due for a retry may be claimed at any     *)
(* later time, and a lease may run out at any time.                         *)
(*                                                                         *)
(* A definition whose comment starts with "Mutant" is a mistake the next    *)
(* definition avoids; PROJECT.json names the property that finds it.        *)
(***************************************************************************)
EXTENDS Integers, FiniteSets

CONSTANTS
  Keys,         \* idempotency keys
  Workers,      \* worker ids
  NoWorker,     \* locked_by IS NULL
  MAX_ATTEMPTS,
  Fenced        \* whether complete is given the worker's id

ASSUME JobTableAssumption ==
  /\ NoWorker \notin Workers
  /\ MAX_ATTEMPTS \in Nat \ {0}
  /\ Fenced \in BOOLEAN

JobStatuses == {"None", "PENDING", "RUNNING", "FAILED_RETRYABLE", "DONE",
                "FAILED_FINAL"}
Finished == {"DONE", "FAILED_FINAL"}

NoJob == [status |-> "None", attempts |-> 0, lockedBy |-> NoWorker, stale |-> FALSE]

(* INSERT ... ON CONFLICT DO NOTHING: a key is enqueued once, ever. *)
Enqueued(table, key) ==
  IF table[key].status = "None"
  THEN [table EXCEPT ![key].status = "PENDING"] ELSE table

Due(table) == {key \in Keys : table[key].status \in {"PENDING", "FAILED_RETRYABLE"}}

Claimed(table, S, worker) ==
  [key \in Keys |->
     IF key \in S THEN [table[key] EXCEPT !.status = "RUNNING", !.lockedBy = worker]
     ELSE table[key]]

(* A row as it leaves a worker's hands. *)
Released(row, status, attempts) ==
  [row EXCEPT !.status = status, !.attempts = attempts,
              !.lockedBy = NoWorker, !.stale = FALSE]

Completed(table, key, worker) ==
  IF Fenced => table[key].lockedBy = worker
  THEN [table EXCEPT ![key] = Released(@, "DONE", @.attempts)] ELSE table

(* Mutant: a job has one attempt too many. *)
Retried_OneMore(row, retryable) ==
  LET again == retryable /\ row.attempts + 1 <= MAX_ATTEMPTS
  IN Released(row, IF again THEN "FAILED_RETRYABLE" ELSE "FAILED_FINAL", row.attempts + 1)

(* An attempt counted against a row: it comes round again or stops. *)
Retried(row, retryable) ==
  LET again == retryable /\ row.attempts + 1 < MAX_ATTEMPTS
  IN Released(row, IF again THEN "FAILED_RETRYABLE" ELSE "FAILED_FINAL", row.attempts + 1)

Failed(table, key, retryable) == [table EXCEPT ![key] = Retried(@, retryable)]

(* Mutant: a job on its last attempt is not reaped. *)
Reapable_NotLast(row) ==
  /\ row.status = "RUNNING" /\ row.lockedBy # NoWorker /\ row.stale
  /\ row.attempts + 1 < MAX_ATTEMPTS

Reapable(row) == row.status = "RUNNING" /\ row.lockedBy # NoWorker /\ row.stale

Reaped(table) ==
  [key \in Keys |-> IF Reapable(table[key]) THEN Retried(table[key], TRUE)
                    ELSE table[key]]
=============================================================================

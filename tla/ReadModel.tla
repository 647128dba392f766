----------------------------- MODULE ReadModel -----------------------------
(***************************************************************************)
(* The read model: Postgres rows that follow the contract's logs.           *)
(*                                                                         *)
(*   indexer.ts, projections.ts   scan the logs in order and write rows      *)
(*   task-service.ts, syncTask    writes a task's row straight from the      *)
(*                                chain, before or after its logs are seen   *)
(*   artifact-sync.ts             fetches the manifest a task commits to,     *)
(*                                and marks the rows that name its hash;      *)
(*                                the other kinds of artifact go the same way *)
(*                                                                         *)
(* The chain is a sequence of blocks of one event each (chain).  A struct   *)
(* read at a height is as old as that height: of a Task only how many of its *)
(* events it reflects is kept, its version; of the allocations those of one  *)
(* beneficiary, counted in payments.  An RPC node may answer from a height    *)
(* up to NodeLag behind.  A pass of the indexer is one transaction, and one  *)
(* step; a pass that throws rolls back, and is no step.  A pass that collides *)
(* with a concurrent sync on the unique index of tasks.sequence is one of    *)
(* those: either transaction fails and is retried.                          *)
(***************************************************************************)
EXTENDS Integers, Sequences, FiniteSets, FiniteSetsExt

CONSTANTS
  Tasks,
  Settling,       \* bound: the tasks that reach consensus
  Hashes, ManifestOf,
  Nothing,
  Confirmations, BatchSize,
  NodeLag,
  maxAttempts,    \* of artifact-sync.ts
  MAX_ATTEMPTS,   \* of the reaper, in queue.ts
  MaxBlocks,      \* bound: length of the chain
  MaxDrift,       \* bound: blocks mined while a pass of the indexer runs
  MaxSyncs,       \* bound: calls of syncTask
  MaxWork         \* bound: calls of syncTask, and attempts at artifacts

ASSUME ReadModelAssumption ==
  /\ Settling \subseteq Tasks
  /\ ManifestOf \in [Tasks -> Hashes] /\ Nothing \notin Hashes
  /\ Confirmations \in Nat /\ NodeLag \in Nat /\ BatchSize \in Nat \ {0}
  /\ maxAttempts \in Nat \ {0} /\ MAX_ATTEMPTS \in Nat \ {0}
  /\ MaxBlocks \in Nat /\ MaxDrift \in Nat /\ MaxSyncs \in Nat /\ MaxWork \in Nat

VARIABLES
  chain,
  last_block,  \* indexer_state; chain_events holds the logs of chain up to here
  tasks,       \* the rows, by task id
  syncs,       \* calls of syncTask, in the order of their clock
  syncWrote,   \* history: the rows a sync wrote last
  jobs,        \* the ARTIFACT_SYNC jobs
  proven,      \* artifacts.hash_verified
  batch,       \* the jobs the artifact worker holds, and their attempts when claimed
  step         \* the artifact it is storing, and how far it got

rowVars == <<tasks, syncWrote>>
artifactVars == <<proven, batch, step>>
vars == <<chain, last_block, rowVars, syncs, jobs, artifactVars>>

Least(a, b) == IF a < b THEN a ELSE b
Greatest(a, b) == IF a < b THEN b ELSE a
head == Len(chain)

-----------------------------------------------------------------------------
(* The chain.                                                                *)

Payments == {"consensus", "rejected", "upheldPaid", "upheldUnpaid"}
Kinds == {"created", "moved", "claimed"} \cup Payments

(* A claim of a reward emits no event. *)
HasLog(i) == chain[i].kind # "claimed"

Happened(task, kinds) == \E i \in 1..head : chain[i].task = task /\ chain[i].kind \in kinds

(* Events of the task up to height h, which is what its struct reflects. *)
Version(task, h) == Cardinality({i \in 1..h : chain[i].task = task /\ HasLog(i)})

(* allocationOf at height h.  An upheld challenge reclaims what was allocated, *)
(* and may allocate anew; a claim takes everything.                            *)
Outstanding(task, h) ==
  LET at[k \in 0..h] ==
        IF k = 0 THEN 0
        ELSE IF chain[k].task # task THEN at[k - 1]
        ELSE CASE chain[k].kind \in {"consensus", "rejected"} -> at[k - 1] + 1
               [] chain[k].kind = "upheldPaid" -> 1
               [] chain[k].kind \in {"upheldUnpaid", "claimed"} -> 0
               [] OTHER -> at[k - 1]
  IN at[h]

Possible(task, kind) ==
  LET settled == {"rejected", "upheldPaid", "upheldUnpaid", "claimed"} IN
  CASE kind = "created"   -> ~Happened(task, {"created"})
    [] kind = "moved"     -> Happened(task, {"created"})
    [] kind = "consensus" -> /\ task \in Settling /\ Happened(task, {"created"})
                             /\ ~Happened(task, {"consensus"})
    [] kind = "claimed"   -> Outstanding(task, head) > 0
    [] OTHER              -> Happened(task, {"consensus"}) /\ ~Happened(task, settled)

MineBlock(task, kind) ==
  /\ head < MaxBlocks
  /\ Possible(task, kind)
  /\ chain' = Append(chain, [task |-> task, kind |-> kind])
  /\ UNCHANGED <<last_block, rowVars, syncs, jobs, artifactVars>>

(* What the bound MaxWork is on. *)
Work == Len(syncs) + MapThenSumSet(LAMBDA hash : jobs[hash].attempts, Hashes)

-----------------------------------------------------------------------------
(* Numbering the rows.  The operators take the rows and the last log that is *)
(* in chain_events.                                                          *)

RankedTasks(upTo) == {chain[i].task : i \in {j \in 1..upTo : HasLog(j)}}
FirstLog(task, upTo) == Min({i \in 1..upTo : chain[i].task = task /\ HasLog(i)})

CanonicalSequence(task, upTo) ==
  Cardinality({other \in RankedTasks(upTo) : FirstLog(other, upTo) < FirstLog(task, upTo)})

(* Mutant: a row without logs keeps the slot it has. *)
SequenceSlot_IndexedOnly(rows, task, upTo) ==
  IF task \in RankedTasks(upTo) THEN CanonicalSequence(task, upTo)
  ELSE rows[task].sequence

SequenceSlot(rows, task, upTo) ==
  IF task \in RankedTasks(upTo) THEN CanonicalSequence(task, upTo)
  ELSE Cardinality(RankedTasks(upTo))
       + Cardinality({other \in DOMAIN rows \ RankedTasks(upTo) :
                        rows[other].created_at < rows[task].created_at})

Parked(rows, upTo) ==
  [task \in DOMAIN rows |->
     LET slot == SequenceSlot(rows, task, upTo) IN
     IF rows[task].sequence = slot THEN rows[task]
     ELSE [rows[task] EXCEPT !.sequence = -1 - slot]]

Unparked(rows, upTo) ==
  [task \in DOMAIN rows |->
     IF rows[task].sequence >= 0 THEN rows[task]
     ELSE [rows[task] EXCEPT !.sequence = SequenceSlot(rows, task, upTo)]]

(* tasks_sequence_idx. *)
UniqueSequence(rows) ==
  \A t, u \in DOMAIN rows : rows[t].sequence = rows[u].sequence => t = u

NextSequence(rows) == Max({-1} \cup {rows[task].sequence : task \in DOMAIN rows}) + 1

NewRow(sequence, version, created_at) ==
  [sequence |-> sequence, version |-> version, created_at |-> created_at,
   amount |-> 0, manifest_verified |-> FALSE]

(* The upsert of one row. *)
PutRow(rows, task, row) ==
  [other \in DOMAIN rows \cup {task} |-> IF other = task THEN row ELSE rows[other]]

-----------------------------------------------------------------------------
(* Projections.  db is the transaction's view: the rows, the artifact jobs,  *)
(* and whether a statement has thrown.                                       *)

NoArtifactJob == [status |-> "None", attempts |-> 0]

EnqueueArtifactSync(db, hash) ==
  IF db.jobs[hash].status = "None"
  THEN [db EXCEPT !.jobs[hash].status = "PENDING"] ELSE db

(* refreshTaskFromChain for log i, its struct read at height h. *)
RefreshTask(db, i, h) ==
  LET task == chain[i].task
      version == Version(task, h)
      parked == Parked(db.rows, i)
      inserted == PutRow(parked, task, NewRow(CanonicalSequence(task, i), version, 0))
      unparked == Unparked(inserted, i)
  IN IF version = 0 THEN [db EXCEPT !.threw = TRUE]
     ELSE IF task \in DOMAIN db.rows THEN [db EXCEPT !.rows[task].version = version]
     ELSE [db EXCEPT !.rows = unparked,
                     !.threw = @ \/ ~UniqueSequence(inserted) \/ ~UniqueSequence(unparked)]

(* The greater of what the row has, what the chain says, what the event says. *)
ProjectRewardAllocated(amount, onChain) == Greatest(amount, Greatest(onChain, 1))

(* Mutant: an allocation that was reclaimed is kept. *)
ProjectRewardReclaimed_Kept(amount, onChain) == Greatest(amount, onChain)

(* An UPDATE: it overwrites a row that is there. *)
ProjectRewardReclaimed(amount, onChain) == IF amount = 0 THEN 0 ELSE onChain

(* The events an upheld challenge emits, in their order. *)
ProjectPayment(amount, kind, onChain) ==
  LET reclaimed == ProjectRewardReclaimed(amount, onChain) IN
  CASE kind = "upheldUnpaid" -> reclaimed
    [] kind = "upheldPaid"   -> ProjectRewardAllocated(reclaimed, onChain)
    [] OTHER                 -> ProjectRewardAllocated(amount, onChain)

ApplyEvent(db, i, h) ==
  LET task == chain[i].task
      kind == chain[i].kind
      refreshed == RefreshTask(db, i, h)
  IN IF ~HasLog(i) \/ db.threw THEN db
     ELSE IF refreshed.threw THEN refreshed
     ELSE IF kind = "created" THEN EnqueueArtifactSync(refreshed, ManifestOf[task])
     ELSE IF kind \in Payments
     THEN [refreshed EXCEPT !.rows[task].amount =
             ProjectPayment(@, kind, Outstanding(task, h))]
     ELSE refreshed

(* Mutant: the cursor goes to the safe head, whatever the batch held. *)
LastOfBatch_SafeHead(sawHead) == sawHead - Confirmations

LastOfBatch(sawHead) == Least(last_block + BatchSize, sawHead - Confirmations)

(* What the transaction of a pass may have written after it scanned up to     *)
(* scanned: every log was projected from a node as old as NodeLag behind the  *)
(* head the pass saw, or as new as the head is now.                           *)
Ingested(sawHead, scanned) ==
  LET heights == Greatest(sawHead - NodeLag, 0)..head
      views[i \in last_block..scanned] ==
        IF i = last_block THEN {[rows |-> tasks, jobs |-> jobs, threw |-> FALSE]}
        ELSE {ApplyEvent(db, i, h) : db \in views[i - 1], h \in heights}
  IN {db \in views[scanned] : ~db.threw}

(* The heads a pass may have seen when it started. *)
SeenHeads == Greatest(head - MaxDrift, 0)..head

(* runOnce. *)
Pass(sawHead) ==
  LET safeHead == sawHead - Confirmations
      scanned == Least(last_block + BatchSize, safeHead)
  IN /\ last_block < safeHead
     /\ \E db \in Ingested(sawHead, scanned) : tasks' = db.rows /\ jobs' = db.jobs
     /\ syncWrote' = syncWrote \
          {chain[i].task : i \in {j \in last_block + 1..scanned : HasLog(j)}}
     /\ last_block' = LastOfBatch(sawHead)
     /\ UNCHANGED <<chain, syncs, artifactVars>>

-----------------------------------------------------------------------------
(* POST /v1/tasks/:id/sync.                                                  *)

(* The struct is read, at height h, outside of the transaction. *)
SyncReads(task, h) ==
  /\ Len(syncs) < MaxSyncs /\ Work < MaxWork
  /\ Version(task, h) > 0
  /\ syncs' = Append(syncs, [task |-> task, height |-> h, done |-> FALSE])
  /\ UNCHANGED <<chain, last_block, rowVars, jobs, artifactVars>>

(* The allocations were read after the struct, at height a; a zero is not     *)
(* written.                                                                  *)
SyncWrites(n, a) ==
  LET task == syncs[n].task
      version == Version(task, syncs[n].height)
      row == IF task \in DOMAIN tasks THEN [tasks[task] EXCEPT !.version = version]
             ELSE NewRow(NextSequence(tasks), version, n)
      onChain == Outstanding(task, a)
      paid == IF onChain > 0 THEN [row EXCEPT !.amount = onChain] ELSE row
  IN /\ ~syncs[n].done
     /\ tasks' = PutRow(tasks, task, paid)
     /\ syncWrote' = syncWrote \cup {task}
     /\ syncs' = [syncs EXCEPT ![n] = [@ EXCEPT !.height = 0, !.done = TRUE]]
     /\ UNCHANGED <<chain, last_block, jobs, artifactVars>>

-----------------------------------------------------------------------------
(* The artifact worker.                                                      *)

Idle == [hash |-> Nothing, stored |-> FALSE]

ClaimArtifacts(S) ==
  /\ DOMAIN batch = {} /\ S # {} /\ Work < MaxWork
  /\ \A hash \in S : jobs[hash].status \in {"PENDING", "FAILED_RETRYABLE"}
  /\ jobs' = [hash \in Hashes |->
                IF hash \in S
                THEN [status |-> "RUNNING", attempts |-> jobs[hash].attempts + 1]
                ELSE jobs[hash]]
  /\ batch' = [hash \in S |-> jobs[hash].attempts + 1]
  /\ UNCHANGED <<chain, last_block, rowVars, syncs, proven, step>>

Finish(hash, status) ==
  /\ jobs' = [jobs EXCEPT ![hash].status = status]
  /\ batch' = [other \in DOMAIN batch \ {hash} |-> batch[other]]
  /\ step' = Idle

Fetching(hash) == hash \in DOMAIN batch /\ step = Idle

(* Storage fails, or a statement does: nothing is known of the body. *)
Unavailable(hash) ==
  /\ Fetching(hash) \/ step.hash = hash
  /\ Finish(hash, IF batch[hash] >= maxAttempts
                  THEN "FAILED_FINAL" ELSE "FAILED_RETRYABLE")
  /\ UNCHANGED <<chain, last_block, rowVars, syncs, proven>>

Marked(hash, verified) ==
  [task \in DOMAIN tasks |->
     IF ManifestOf[task] = hash
     THEN [tasks[task] EXCEPT !.manifest_verified = verified] ELSE tasks[task]]

(* Mutant: bytes that do not match unmark the rows, whatever was proven. *)
RecordMismatch_Always(hash) == Marked(hash, FALSE)

RecordMismatch(hash) == IF hash \in proven THEN tasks ELSE Marked(hash, FALSE)

(* The bytes served hash to something else. *)
Mismatch(hash) ==
  /\ Fetching(hash)
  /\ tasks' = RecordMismatch(hash)
  /\ Finish(hash, "FAILED_FINAL")
  /\ UNCHANGED <<chain, last_block, syncs, syncWrote, proven>>

(* The hash matches, the schema does not, as it will whenever it is tried. *)
Invalid(hash) ==
  /\ Fetching(hash) /\ hash \notin proven
  /\ proven' = proven \cup {hash}
  /\ Finish(hash, "FAILED_FINAL")
  /\ UNCHANGED <<chain, last_block, rowVars, syncs>>

(* upsertArtifact: the body is proven and stored. *)
UpsertArtifact(hash) ==
  /\ Fetching(hash)
  /\ proven' = proven \cup {hash}
  /\ step' = [hash |-> hash, stored |-> FALSE]
  /\ UNCHANGED <<chain, last_block, rowVars, syncs, jobs, batch>>

(* denormaliseManifest: the rows that name the hash, as they stand. *)
DenormaliseManifest(hash) ==
  /\ step = [hash |-> hash, stored |-> FALSE]
  /\ tasks' = Marked(hash, TRUE)
  /\ step' = [step EXCEPT !.stored = TRUE]
  /\ UNCHANGED <<chain, last_block, syncs, syncWrote, jobs, proven, batch>>

Verified(hash) ==
  /\ step = [hash |-> hash, stored |-> TRUE]
  /\ Finish(hash, "DONE")
  /\ UNCHANGED <<chain, last_block, rowVars, syncs, proven>>

(* The process dies: its passes and transactions with it.  Its syncs may not  *)
(* have written.                                                             *)
Crash ==
  /\ DOMAIN batch # {}
  /\ batch' = <<>> /\ step' = Idle
  /\ UNCHANGED <<chain, last_block, rowVars, syncs, jobs, proven>>

(* The reaper of queue.ts, of a lease that ran out: the process died, or the  *)
(* batch before this job was slow.                                           *)
ReapLease(hash) ==
  LET again == jobs[hash].attempts + 1 < MAX_ATTEMPTS IN
  /\ jobs[hash].status = "RUNNING"
  /\ jobs' = [jobs EXCEPT ![hash] =
                [status |-> IF again THEN "FAILED_RETRYABLE" ELSE "FAILED_FINAL",
                 attempts |-> @.attempts + 1]]
  /\ UNCHANGED <<chain, last_block, rowVars, syncs, artifactVars>>

-----------------------------------------------------------------------------
Init ==
  /\ chain = <<>> /\ last_block = 0
  /\ tasks = <<>> /\ syncWrote = {} /\ syncs = <<>>
  /\ jobs = [hash \in Hashes |-> NoArtifactJob]
  /\ proven = {} /\ batch = <<>> /\ step = Idle

WorksOn(hash) ==
  \/ Unavailable(hash) \/ Mismatch(hash) \/ Invalid(hash)
  \/ UpsertArtifact(hash) \/ DenormaliseManifest(hash) \/ Verified(hash)

Next ==
  \/ \E task \in Tasks, kind \in Kinds : MineBlock(task, kind)
  \/ \E sawHead \in SeenHeads : Pass(sawHead)
  \/ \E task \in Tasks, h \in Greatest(head - NodeLag, 0)..head : SyncReads(task, h)
  \/ \E n \in 1..Len(syncs) : \E a \in syncs[n].height..head : SyncWrites(n, a)
  \/ \E S \in SUBSET Hashes : ClaimArtifacts(S)
  \/ \E hash \in Hashes : WorksOn(hash) \/ ReapLease(hash)
  \/ Crash

Spec == Init /\ [][Next]_vars

-----------------------------------------------------------------------------
RowType == [sequence : Int, version : Nat, created_at : Nat, amount : Nat,
            manifest_verified : BOOLEAN]
JobStatuses == {"None", "PENDING", "RUNNING", "FAILED_RETRYABLE", "DONE", "FAILED_FINAL"}

TypeOK ==
  /\ chain \in Seq([task : Tasks, kind : Kinds])
  /\ last_block \in 0..head
  /\ DOMAIN tasks \subseteq Tasks /\ \A task \in DOMAIN tasks : tasks[task] \in RowType
  /\ syncWrote \subseteq DOMAIN tasks
  /\ syncs \in Seq([task : Tasks, height : Nat, done : BOOLEAN])
  /\ jobs \in [Hashes -> [status : JobStatuses, attempts : Nat]]
  /\ proven \subseteq Hashes
  /\ DOMAIN batch \subseteq Hashes /\ \A hash \in DOMAIN batch : batch[hash] \in Nat
  /\ step.hash \in {Nothing} \cup DOMAIN batch

(* projections.ts, SEQUENCE_SLOTS: however passes and syncs interleave, the   *)
(* numbers of the rows are 0, 1, 2, ... with no gap, no duplicate and none    *)
(* left in the negative mirror a renumbering parks them in.                   *)
NumbersAreSlots ==
  {tasks[task].sequence : task \in DOMAIN tasks} = 0..(Cardinality(DOMAIN tasks) - 1)

(* The rule of projections.ts: a row says what the chain says, no older than  *)
(* the logs that are indexed.  A task whose log was scanned has a row, and    *)
(* unless a sync wrote it last, the row is at least as new as last_block.     *)
RowsFollowLogs ==
  \A task \in RankedTasks(last_block) :
    /\ task \in DOMAIN tasks
    /\ \/ task \in syncWrote
       \/ tasks[task].version \in Version(task, last_block)..Version(task, head)

(* Both, over rows of their types.                                            *)
RowsAreSound == TypeOK /\ NumbersAreSlots /\ RowsFollowLogs

(* projectRewardAllocated and projectRewardReclaimed: what the allocations    *)
(* row shows is what the chain owed at some height from last_block on, as     *)
(* long as nothing was claimed and no sync wrote the row: an allocation that  *)
(* was reclaimed does not survive, one that stands is not lost.               *)
LedgerIsAReading ==
  \A task \in DOMAIN tasks :
    \/ Happened(task, {"claimed"})
    \/ \E n \in 1..Len(syncs) : syncs[n].task = task /\ syncs[n].done
    \/ \E h \in last_block..head : tasks[task].amount = Outstanding(task, h)

(* artifact-sync.ts: "Both sticky: a gateway serving wrong bytes today does   *)
(* not unprove bytes that hashed correctly yesterday".  A row that was shown   *)
(* verified stays so, across renumbering, syncs, crashes and re-runs of the   *)
(* job, and its hash was proven.                                             *)
VerifiedStays ==
  [][\A task \in DOMAIN tasks :
       tasks[task].manifest_verified =>
         /\ task \in DOMAIN tasks' /\ tasks'[task].manifest_verified
         /\ ManifestOf[task] \in proven']_vars

(* SEQUENCE_SLOTS says a row that could not be ranked "wedged the indexer for  *)
(* good".  Whatever syncs write before, after and between passes, while there *)
(* are confirmed blocks to scan a pass over them does not throw.              *)
NeverWedged ==
  (last_block < head - Confirmations) =>
    Ingested(head, Least(last_block + BatchSize, head - Confirmations)) # {}

(* projectRewardAllocated: "the row keeps whichever is larger: the chain's     *)
(* running total while it stands, the sum we watched being allocated once it  *)
(* is claimed".  Once all the logs of a task whose reward was claimed are      *)
(* scanned, its row holds the payments allocated on it and not reclaimed.      *)
Allocated(task) ==
  LET upheld == {i \in 1..head : chain[i].task = task
                                 /\ chain[i].kind \in {"upheldPaid", "upheldUnpaid"}}
      from == Max({0} \cup upheld)
  IN Cardinality({i \in 1..head :
                    /\ i >= from /\ chain[i].task = task
                    /\ chain[i].kind \in {"consensus", "rejected", "upheldPaid"}})

Scanned(task) == \A i \in last_block + 1..head : chain[i].task = task => ~HasLog(i)

ClaimedShowsTheSum ==
  \A task \in DOMAIN tasks :
    (Happened(task, {"claimed"}) /\ Scanned(task) /\ Len(syncs) = 0)
      => tasks[task].amount = Allocated(task)
=============================================================================

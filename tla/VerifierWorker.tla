--------------------------- MODULE VerifierWorker ---------------------------
(***************************************************************************)
(* One verifier worker (workers/verifier/src/worker.ts) on one task, from   *)
(* the commitment to the reveal, and the journal (journal.ts) that keeps    *)
(* the salt of a commitment across restarts.                                *)
(*                                                                         *)
(* A tick is a sequence of RPCs and file writes; the process may die after  *)
(* any of them, a send may fail before or after its transaction is          *)
(* broadcast, and a transaction whose sender gave up may still be mined.    *)
(* Every report is built with a fresh timestamp and salt, so a build is a   *)
(* number, and stands for the report, its salt and their commitment.        *)
(*                                                                         *)
(* Left out: scoring the claims, and collecting the rewards of a task that  *)
(* is no longer live, which writes no journal.                              *)
(***************************************************************************)
EXTENDS Integers, FiniteSets

CONSTANTS
  CommitDeadline, RevealDeadline,
  Skew,         \* how far the host's clock may run ahead of the chain's
  DiskFails,    \* whether a write of the journal file may fail
  MaxBuilds,    \* bound: reports built
  MaxOutages    \* bound: crashes, and calls that fail

ASSUME WorkerAssumption ==
  /\ CommitDeadline \in Nat /\ RevealDeadline \in Nat /\ CommitDeadline < RevealDeadline
  /\ Skew \in Nat /\ MaxBuilds \in Nat /\ MaxOutages \in Nat
  /\ DiskFails \in BOOLEAN

VARIABLES
  chainTime,
  live,         \* the task is Open, Committing or Revealing
  approved,     \* the worker's registration is approved and active
  slots,        \* what the other verifiers left: "open", "mine", "none"
  commitment,   \* of this worker, on the chain
  revealed,
  mempool,      \* its transactions that are broadcast and not mined
  inLookback,   \* TaskCreated is within lookbackBlocks of the head
  disk,         \* the task's record in the journal file
  cache,        \* the same in memory
  loaded,       \* the file has been read since the process started
  worker,       \* where the tick stands and what it has read
  builds,       \* reports built so far
  everSent,     \* history: commitments that were broadcast
  outages

chainVars == <<chainTime, live, approved, slots, commitment, revealed, inLookback>>
journal == <<disk, cache, loaded>>
workerVars == <<chainVars, mempool, journal, worker, builds, everSent, outages>>

None == 0
TxKinds == {"commitReport", "revealReport"}
AtRest == [at |-> "idle", kind |-> "none", record |-> None, commitment |-> None,
         revealed |-> FALSE]

WorkerInit ==
  /\ chainTime = 0 /\ live = TRUE /\ approved \in BOOLEAN /\ slots = "open"
  /\ commitment = None /\ revealed = FALSE /\ mempool = {}
  /\ inLookback = TRUE
  /\ disk = None /\ cache = None /\ loaded = FALSE
  /\ worker = AtRest /\ builds = 0 /\ everSent = {} /\ outages = 0

-----------------------------------------------------------------------------
(* The chain.                                                                *)

Everybody == slots = "none" \/ (slots = "mine" /\ commitment # None)

Accepts(tx) ==
  /\ live
  /\ IF tx.kind = "commitReport"
     THEN commitment = None /\ approved /\ slots # "none" /\ chainTime <= CommitDeadline
     ELSE /\ commitment = tx.build /\ ~revealed
          /\ Everybody \/ chainTime > CommitDeadline
          /\ chainTime <= RevealDeadline

Mine(tx) ==
  /\ tx \in mempool
  /\ mempool' = mempool \ {tx}
  /\ commitment' = IF Accepts(tx) /\ tx.kind = "commitReport" THEN tx.build ELSE commitment
  /\ revealed' = (revealed \/ (Accepts(tx) /\ tx.kind = "revealReport"))
  /\ worker' = IF worker.at = "await" /\ worker.kind = tx.kind
               THEN [worker EXCEPT !.at = IF Accepts(tx) THEN "sent" ELSE "idle"]
               ELSE worker
  /\ UNCHANGED <<chainTime, live, approved, slots, inLookback, journal, builds, everSent, outages>>

BlockTime ==
  /\ chainTime <= RevealDeadline
  /\ chainTime' = chainTime + 1
  /\ UNCHANGED <<live, approved, slots, commitment, revealed, inLookback, mempool, journal,
                 worker, builds, everSent, outages>>

(* The other verifiers fill every slot but this worker's, or that one too. *)
OthersCommit ==
  /\ live
  /\ slots = "open" \/ (slots = "mine" /\ commitment = None)
  /\ chainTime <= CommitDeadline
  /\ slots' \in IF commitment = None THEN {"mine", "none"} ELSE {"mine"}
  /\ UNCHANGED <<chainTime, live, approved, commitment, revealed, inLookback, mempool, journal,
                 worker, builds, everSent, outages>>

(* setVerifierApproval and deactivation, either way and at any time. *)
ApprovalChanges ==
  /\ approved' = ~approved
  /\ UNCHANGED <<chainTime, live, slots, commitment, revealed, inLookback, mempool,
                 journal, worker, builds, everSent, outages>>

(* Cancelled before anyone commits, or settled once the reveals are in. *)
LeavesLive ==
  /\ live
  /\ \/ slots = "open" /\ commitment = None
     \/ Everybody /\ (commitment # None => revealed)
     \/ chainTime > RevealDeadline
  /\ live' = FALSE
  /\ UNCHANGED <<chainTime, approved, slots, commitment, revealed, inLookback, mempool, journal,
                 worker, builds, everSent, outages>>

FallsBehindLookback ==
  /\ inLookback /\ inLookback' = FALSE
  /\ UNCHANGED <<chainTime, live, approved, slots, commitment, revealed, mempool, journal,
                 worker, builds, everSent, outages>>

-----------------------------------------------------------------------------
(* The journal.                                                              *)

Load == /\ cache' = IF loaded THEN cache ELSE disk
        /\ loaded' = TRUE

(* put and remove: the map in memory first, then the file by rename; if the  *)
(* write fails the caller gets the error and the memory keeps the change.    *)
Flush(record, then) ==
  /\ cache' = record /\ loaded' = TRUE
  /\ \/ disk' = record /\ worker' = then
     \/ DiskFails /\ UNCHANGED disk /\ worker' = AtRest

-----------------------------------------------------------------------------
(* A tick: findWork, then advance.                                           *)

Known == inLookback \/ (IF loaded THEN cache ELSE disk) # None

(* Mutant: only what the logs of the lookback name. *)
FindWork_LogsOnly ==
  /\ worker.at = "idle" /\ inLookback
  /\ IF live
     THEN Load /\ worker' = [AtRest EXCEPT !.at = "getReport"] /\ UNCHANGED disk
     ELSE Flush(None, AtRest)
  /\ UNCHANGED <<chainVars, mempool, builds, everSent, outages>>

FindWork ==
  /\ worker.at = "idle" /\ Known
  /\ IF live
     THEN Load /\ worker' = [AtRest EXCEPT !.at = "getReport"] /\ UNCHANGED disk
     ELSE Flush(None, AtRest)
  /\ UNCHANGED <<chainVars, mempool, builds, everSent, outages>>

GetReport ==
  /\ worker.at = "getReport"
  /\ worker' = [worker EXCEPT !.at = "advance", !.commitment = commitment,
                              !.revealed = revealed]
  /\ UNCHANGED <<chainVars, mempool, journal, builds, everSent, outages>>

(* nowSec: the chain's clock, or the host's when the node does not answer. *)
Now == {chainTime, chainTime + Skew}

SkipClosedCommit ==
  /\ worker.at = "advance" /\ worker.commitment = None
  /\ \E now \in Now : now >= CommitDeadline
  /\ worker' = AtRest
  /\ UNCHANGED <<chainVars, mempool, journal, builds, everSent, outages>>

(* commit: neither approved nor active, and nothing journalled. *)
SkipInactive ==
  /\ worker.at = "advance" /\ worker.commitment = None /\ cache = None
  /\ \E now \in Now : now < CommitDeadline
  /\ ~approved
  /\ worker' = AtRest
  /\ UNCHANGED <<chainVars, mempool, journal, builds, everSent, outages>>

Sending(kind, record) == [worker EXCEPT !.at = "send", !.kind = kind, !.record = record]

(* commit: a journalled commitment is sent again, never rebuilt. *)
Resend ==
  /\ worker.at = "advance" /\ worker.commitment = None /\ cache # None
  /\ \E now \in Now : now < CommitDeadline
  /\ worker' = Sending("commitReport", cache)
  /\ UNCHANGED <<chainVars, mempool, journal, builds, everSent, outages>>

(* Mutant: the record reaches the file only after the transaction. *)
Commit_Unsaved ==
  /\ worker.at = "advance" /\ worker.commitment = None /\ cache = None
  /\ \E now \in Now : now < CommitDeadline
  /\ builds < MaxBuilds /\ builds' = builds + 1
  /\ cache' = builds' /\ worker' = Sending("commitReport", builds')
  /\ UNCHANGED <<chainVars, mempool, disk, loaded, everSent, outages>>
(* Build, upload, journal, and only then send. *)
Commit ==
  /\ worker.at = "advance" /\ worker.commitment = None /\ cache = None /\ approved
  /\ \E now \in Now : now < CommitDeadline
  /\ builds < MaxBuilds /\ builds' = builds + 1
  /\ Flush(builds', Sending("commitReport", builds'))
  /\ UNCHANGED <<chainVars, mempool, everSent, outages>>

Forget ==
  /\ worker.at = "advance" /\ worker.commitment # None
  /\ worker.revealed \/ (\E now \in Now : now >= RevealDeadline)
  /\ Flush(None, AtRest)
  /\ UNCHANGED <<chainVars, mempool, builds, everSent, outages>>

(* reveal: the record must be there and be the one on the chain. *)
Reveal ==
  /\ worker.at = "advance" /\ worker.commitment # None /\ ~worker.revealed
  /\ \E now \in Now : now < RevealDeadline
  /\ worker' = IF cache = worker.commitment
               THEN Sending("revealReport", cache) ELSE AtRest
  /\ UNCHANGED <<chainVars, mempool, journal, builds, everSent, outages>>

(* send: simulated first, then broadcast and awaited. *)
Send ==
  /\ worker.at = "send"
  /\ LET tx == [kind |-> worker.kind, build |-> worker.record]
     IN IF Accepts(tx)
        THEN /\ mempool' = mempool \cup {tx}
             /\ worker' = [worker EXCEPT !.at = "await"]
             /\ everSent' = IF tx.kind = "commitReport" THEN everSent \cup {tx.build} ELSE everSent
        ELSE worker' = AtRest /\ UNCHANGED <<mempool, everSent>>
  /\ UNCHANGED <<chainVars, journal, builds, outages>>

(* The journal learns the transaction's hash. *)
Committed ==
  /\ worker.at = "sent" /\ worker.kind = "commitReport"
  /\ Flush(worker.record, AtRest)
  /\ UNCHANGED <<chainVars, mempool, builds, everSent, outages>>

Revealed ==
  /\ worker.at = "sent" /\ worker.kind = "revealReport"
  /\ Flush(None, AtRest)
  /\ UNCHANGED <<chainVars, mempool, builds, everSent, outages>>

(* Any call of the tick fails, a receipt that does not come in time included. *)
TickFails ==
  /\ worker.at # "idle" /\ outages < MaxOutages
  /\ worker' = AtRest /\ outages' = outages + 1
  /\ UNCHANGED <<chainVars, mempool, journal, builds, everSent>>

Crash ==
  /\ outages < MaxOutages
  /\ worker' = AtRest /\ outages' = outages + 1
  /\ cache' = None /\ loaded' = FALSE
  /\ UNCHANGED <<chainVars, mempool, disk, builds, everSent>>

-----------------------------------------------------------------------------
WorksOn ==
  \/ FindWork \/ GetReport \/ SkipClosedCommit \/ SkipInactive \/ Resend \/ Commit
  \/ Forget \/ Reveal \/ Send \/ Committed \/ Revealed

WorkerNext ==
  \/ WorksOn \/ TickFails \/ Crash
  \/ \E tx \in mempool : Mine(tx)
  \/ BlockTime \/ OthersCommit \/ ApprovalChanges \/ LeavesLive \/ FallsBehindLookback

WorkerSpec == WorkerInit /\ [][WorkerNext]_workerVars

(* The worker's timer keeps ticking, what it sends is mined, and time passes *)
(* up to the reveal window; inside the window nothing hurries the worker.    *)
WorkerFairness ==
  /\ WF_workerVars(WorksOn)
  /\ WF_workerVars(\E tx \in mempool : Mine(tx))
  /\ WF_workerVars(chainTime <= CommitDeadline /\ BlockTime)

WorkerFairSpec == WorkerSpec /\ WorkerFairness

-----------------------------------------------------------------------------
WorkerTypeOK ==
  /\ chainTime \in 0..(RevealDeadline + 1)
  /\ {commitment, disk, cache, worker.record, worker.commitment} \subseteq 0..builds
  /\ builds \in 0..MaxBuilds
  /\ mempool \subseteq [kind : TxKinds, build : 1..builds]

(* Whether the host's clock, Skew ahead at worst, may already say too late.  *)
InTime == chainTime + Skew < RevealDeadline

(* "The salt is not recoverable": through crashes, late receipts and ticks   *)
(* of any order, while the chain holds a commitment that can still be        *)
(* revealed in time, the journal file holds the salt of that commitment.     *)
SaltSurvives ==
  (commitment # None /\ ~revealed /\ InTime) => disk = commitment

(* "A journalled commitment is never rebuilt": the worker never broadcasts   *)
(* two different commitments for one task, however many sends it gave up on. *)
OneCommitment == Cardinality(everSent) <= 1

(* Both, over variables that hold what their types allow.                    *)
CommitmentIsKept == WorkerTypeOK /\ SaltSurvives /\ OneCommitment

(* A commitment on the chain is revealed before the window may be over: also *)
(* after crashes, and when the task has fallen out of the lookback.          *)
CommitmentIsRevealed == commitment # None ~> (revealed \/ ~InTime)

(* "Journalled before the transaction, not after": no commitment is out      *)
(* before the file holds its record.                                         *)
JournalledFirst ==
  \A tx \in mempool : (tx.kind = "commitReport" /\ commitment = None /\ live /\ InTime)
                         => disk = tx.build
=============================================================================

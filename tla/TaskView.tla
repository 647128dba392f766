------------------------------ MODULE TaskView ------------------------------
(***************************************************************************)
(* What the API shows of a task (task-service.ts): the summary in the list, *)
(* read from the rows alone; the detail, read from rows and chain one after *)
(* the other; and the sync, which reads the chain and writes the rows.      *)
(*                                                                         *)
(* A struct reads as what the chain is at that moment.  An event's log is   *)
(* projected later, with structs read then; the logs are projected in order, *)
(* one per step, and only what the views look at is kept of the rows.       *)
(***************************************************************************)
EXTENDS Integers, Sequences, FiniteSets

CONSTANTS
  Verifiers,
  NoOne,
  verifierCount,
  MaxLogs,       \* bound: events of the task
  MaxFailures,     \* bound: chain reads that fail
  MaxSyncs       \* bound: calls of syncTask

ASSUME TaskViewAssumption ==
  /\ IsFiniteSet(Verifiers) /\ NoOne \notin Verifiers
  /\ verifierCount \in Nat \ {0} /\ MaxLogs \in Nat /\ MaxFailures \in Nat /\ MaxSyncs \in Nat

VARIABLES
  onchain,     \* [status, outcome, reports, disputed, logs]: the structs and the events
  read,        \* logs that are projected
  row,         \* [tasks, reports, consensus, disputed]: the task's rows
  sync,        \* a syncTask at work: what it has read
  detail,      \* a getTask at work: what it has read, and what it shows
  failures, calls

viewVars == <<onchain, read, row, sync, detail, failures, calls>>
dbVars == <<read, row>>
apiVars == <<sync, detail, failures, calls>>

Silent == [v \in Verifiers |-> 0]    \* 1 committed, 2 revealed
Count(reports, level) == Cardinality({v \in Verifiers : reports[v] >= level})

(* What the task's struct says.                                               *)
GetTask == [status |-> onchain.status, outcome |-> onchain.outcome,
            committed |-> Count(onchain.reports, 1), revealed |-> Count(onchain.reports, 2)]

Absent == [status |-> "None", outcome |-> "None", committed |-> 0, revealed |-> 0]
NoTaskRow == [tasks |-> Absent, reports |-> Silent, consensus |-> "none", disputed |-> FALSE]
NoSync == [at |-> "idle", task |-> Absent, reports |-> Silent]
NoDetail == [at |-> "idle", row |-> Absent, known |-> {}, rows |-> Silent, reports |-> Silent,
             answered |-> TRUE, lost |-> FALSE]

ViewInit ==
  /\ onchain = [status |-> "Open", outcome |-> "None", reports |-> Silent, disputed |-> FALSE,
                logs |-> <<[name |-> "TaskCreated", actor |-> NoOne]>>]
  /\ read = 0 /\ row = NoTaskRow /\ sync = NoSync /\ detail = NoDetail /\ failures = 0 /\ calls = 0

-----------------------------------------------------------------------------
(* The contract, as far as its structs and logs go.                           *)
Emits(changes, name, actor) ==
  /\ Len(onchain.logs) < MaxLogs
  /\ onchain' = [changes EXCEPT !.logs = Append(@, [name |-> name, actor |-> actor])]
  /\ UNCHANGED <<dbVars, apiVars>>

CommitReport(v) ==
  /\ onchain.status \in {"Open", "Committing"} /\ onchain.reports[v] = 0
  /\ Count(onchain.reports, 1) < verifierCount
  /\ Emits([onchain EXCEPT !.reports[v] = 1, !.status = "Committing"], "ReportCommitted", v)

RevealReport(v) ==
  /\ onchain.status \in {"Committing", "Revealing"} /\ onchain.reports[v] = 1
  /\ Emits([onchain EXCEPT !.reports[v] = 2, !.status = "Revealing"], "ReportRevealed", v)

CancelTask ==
  /\ onchain.status \in {"Open", "Committing"}
  /\ Emits([onchain EXCEPT !.status = "Cancelled", !.outcome = "Cancelled"], "TaskFinalized", NoOne)

(* What the keeper sends is what was evaluated.                               *)
FinalizeConsensus ==
  /\ onchain.status = "Revealing" /\ row.consensus \in {"CONSENSUS", "CONFLICT"}
  /\ Emits([onchain EXCEPT !.status = "Consensus", !.outcome = row.consensus],
           "ConsensusReached", NoOne)

ExpireTask ==
  /\ onchain.status \in {"Open", "Committing", "Revealing"}
  /\ Emits([onchain EXCEPT !.status = "Expired", !.outcome = "NO_QUORUM"], "TaskFinalized", NoOne)

FinalizeTask ==
  /\ onchain.status = "Consensus"
  /\ Emits([onchain EXCEPT !.status = "Finalized"], "TaskFinalized", NoOne)

OpenChallenge ==
  /\ onchain.status = "Consensus"
  /\ Emits([onchain EXCEPT !.status = "Disputed", !.disputed = TRUE], "ChallengeOpened", NoOne)

ResolveChallenge ==
  /\ onchain.status = "Disputed"
  /\ \E upheld \in BOOLEAN :
       Emits([onchain EXCEPT !.status = "Finalized",
                             !.outcome = IF upheld THEN "CONFLICT" ELSE @], "TaskFinalized", NoOne)

-----------------------------------------------------------------------------
(* The indexer's projections.                                                 *)
ProjectLog ==
  /\ read < Len(onchain.logs) /\ read' = read + 1
  /\ LET log == onchain.logs[read + 1] IN
     row' = [row EXCEPT
       !.tasks = GetTask,
       !.reports = [v \in Verifiers |-> IF log.actor = v THEN onchain.reports[v] ELSE @[v]],
       !.consensus = IF log.name = "ConsensusReached" THEN onchain.outcome ELSE @,
       !.disputed = @ \/ log.name = "ChallengeOpened"]
  /\ UNCHANGED <<onchain, apiVars>>

(* The orchestrator stores what it evaluated before the chain hears of it.    *)
PersistResult ==
  /\ row.tasks.status = "Revealing" /\ row.consensus = "none"
  /\ \E outcome \in {"CONSENSUS", "CONFLICT", "NO_QUORUM"} : row' = [row EXCEPT !.consensus = outcome]
  /\ UNCHANGED <<onchain, read, apiVars>>

-----------------------------------------------------------------------------
(* syncTask: the task's struct first, then those of its reports, and all of   *)
(* it written in one transaction.                                             *)
SyncReadsTask ==
  /\ sync.at = "idle" /\ calls < MaxSyncs /\ calls' = calls + 1
  /\ sync' = [NoSync EXCEPT !.at = "task", !.task = GetTask]
  /\ UNCHANGED <<onchain, dbVars, detail, failures>>

(* A list of verifiers that cannot be read is an empty list.                  *)
SyncReadsReports ==
  /\ sync.at = "task"
  /\ \/ /\ sync' = [sync EXCEPT !.at = "read", !.reports = onchain.reports]
        /\ UNCHANGED failures
     \/ /\ failures < MaxFailures /\ failures' = failures + 1
        /\ sync' = [sync EXCEPT !.at = "read"]
  /\ UNCHANGED <<onchain, dbVars, detail, calls>>

(* writeTaskRow overwrites; writeReportRow keeps a time that is there.        *)
SyncWrites ==
  /\ sync.at = "read" /\ sync' = NoSync
  /\ row' = [row EXCEPT
       !.tasks = sync.task,
       !.reports = [v \in Verifiers |-> IF sync.reports[v] > @[v] THEN sync.reports[v] ELSE @[v]]]
  /\ UNCHANGED <<onchain, read, detail, failures, calls>>

-----------------------------------------------------------------------------
(* getTask and buildDetail.                                                   *)
LoadTaskRow ==
  /\ detail.at = "idle" /\ row.tasks # Absent
  /\ detail' = [NoDetail EXCEPT !.at = "row", !.row = row.tasks]
  /\ UNCHANGED <<onchain, dbVars, sync, failures, calls>>

ReadStructs ==
  /\ detail.at = "row"
  /\ \/ /\ detail' = [detail EXCEPT !.at = "chain",
                        !.known = {v \in Verifiers : onchain.reports[v] > 0}]
        /\ UNCHANGED failures
     \/ /\ failures < MaxFailures /\ failures' = failures + 1
        /\ \E ok \in BOOLEAN :                       \* one of the two reads, or both
             detail' = [detail EXCEPT !.at = "chain", !.lost = TRUE, !.answered = ok]
  /\ UNCHANGED <<onchain, dbVars, sync, calls>>

LoadReportRows ==
  /\ detail.at = "chain"
  /\ detail' = [detail EXCEPT !.at = "rows", !.rows = row.reports,
                  !.known = @ \cup {v \in Verifiers : row.reports[v] > 0}]
  /\ UNCHANGED <<onchain, dbVars, sync, failures, calls>>

(* Mutant: the row is preferred to the chain. *)
Shown_Row(rows, chain, v) == IF rows[v] > 0 THEN rows[v] ELSE chain[v]

(* A report is as the chain has it.                                           *)
Shown(rows, chain, v) == chain[v]

(* The chain's report when it answers, and the row when it does not.          *)
BuildReports ==
  /\ detail.at = "rows"
  /\ \E lost \in SUBSET detail.known :
       /\ ~detail.answered => lost = detail.known
       /\ (detail.answered /\ lost # {}) => failures < MaxFailures
       /\ failures' = IF detail.answered /\ lost # {} THEN failures + 1 ELSE failures
       /\ detail' = [NoDetail EXCEPT !.at = "shown", !.row = detail.row,
            !.lost = detail.lost \/ lost # {},
            !.reports = [v \in Verifiers |->
                           IF v \in detail.known \ lost
                           THEN Shown(detail.rows, onchain.reports, v) ELSE detail.rows[v]]]
  /\ UNCHANGED <<onchain, dbVars, sync, calls>>

Answer ==
  /\ detail.at = "shown" /\ detail' = NoDetail
  /\ UNCHANGED <<onchain, dbVars, sync, failures, calls>>

ViewNext ==
  \/ \E v \in Verifiers : CommitReport(v) \/ RevealReport(v)
  \/ CancelTask \/ FinalizeConsensus \/ ExpireTask \/ FinalizeTask \/ OpenChallenge
  \/ ResolveChallenge \/ ProjectLog \/ PersistResult
  \/ SyncReadsTask \/ SyncReadsReports \/ SyncWrites
  \/ LoadTaskRow \/ ReadStructs \/ LoadReportRows \/ BuildReports \/ Answer

ViewSpec == ViewInit /\ [][ViewNext]_viewVars

-----------------------------------------------------------------------------
(* The words in the list.                                                     *)
DisplayStatus(r) ==
  CASE r.tasks.status \in {"Cancelled", "Expired", "Disputed"} -> r.tasks.status
    [] r.tasks.status = "Finalized" -> r.tasks.outcome
    [] OTHER -> "in review"

(* The evaluated result before the chain's own.                               *)
SettledOutcome(r) == IF r.consensus # "none" THEN r.consensus ELSE r.tasks.outcome

(* The label: how many agree, or how it settled, or how far it got.           *)
AgreementLabel(r) ==
  LET settled == SettledOutcome(r) IN
  CASE settled = "CONSENSUS" -> "agree"
    [] settled \in {"CONFLICT", "NO_QUORUM"} -> settled
    [] OTHER -> IF r.tasks.revealed > 0 THEN "revealed" ELSE "committed"

(* indexDrift: what the rows and the logs find wrong with the task's row.     *)
Logged(name) == \E i \in 1..read : onchain.logs[i].name = name

IndexDrift(r) ==
  \/ Count(r.reports, 1) > r.tasks.committed \/ Count(r.reports, 2) > r.tasks.revealed
  \/ Logged("TaskFinalized") /\ r.tasks.status # "Finalized"
  \/ Logged("ChallengeOpened") /\ ~r.disputed
  \/ r.consensus # "none" /\ r.tasks.status \in {"Open", "Committing", "Revealing"}

ChainDrift(task) == task # GetTask

(* A detail never counts a commit or a reveal that its reports do not show,   *)
(* unless a chain read was lost: the rows are read before the structs.        *)
CountsAreCovered ==
  (detail.at = "shown" /\ ~detail.lost) =>
    /\ Count(detail.reports, 1) >= detail.row.committed
    /\ Count(detail.reports, 2) >= detail.row.revealed

(* indexDrift: "a row that contradicts them contradicts the chain".           *)
DriftIsDrift == IndexDrift(row) => ChainDrift(row.tasks)

(* An overturned claim is not reported "as a successful one".                 *)
OverturnedIsNotAgreed ==
  DisplayStatus(row) = "CONFLICT" => AgreementLabel(row) # "agree"

(* workspaceStats, of the one task there is: what it adds to the numbers.      *)
Terminal == {"Cancelled", "Expired", "Finalized"}
One(holds) == IF holds THEN 1 ELSE 0

WorkspaceStats(r, late) ==
  [total |-> 1, active |-> One(r.tasks.status \notin Terminal),
   openQueue |-> One(r.tasks.status \in {"Open", "Committing"}),
   disputed |-> One(DisplayStatus(r) = "Disputed"),
   needingReview |-> One(DisplayStatus(r) = "Disputed") + One(r.tasks.status \notin Terminal /\ late)]

(* "What a person has to look at: a task in dispute, or one whose deadline has *)
(* passed": no more of them than there are tasks.                             *)
ReviewedOnce ==
  \A late \in BOOLEAN :
    WorkspaceStats(row, late).needingReview <= WorkspaceStats(row, late).total
=============================================================================

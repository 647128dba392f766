----------------------------- MODULE Evaluation -----------------------------
(***************************************************************************)
(* One task's evaluation as more than one process may run it: evaluateTask   *)
(* of apps/api/src/orchestrator/orchestrator.ts, from the rows of the        *)
(* reveals to the stored consensus artifact, the keeper that submits its     *)
(* hash, and what task-service.ts shows of the same reports and artifact.    *)
(*                                                                         *)
(* Settlement has the jobs; here a lease may be lost to another process at   *)
(* any moment (JobQueue says when), so an attempt may go on after the next    *)
(* one began.  An artifact is the reports it covers and its evaluatedAt, and *)
(* stands for its own hash.                                                  *)
(***************************************************************************)
EXTENDS Integers, FiniteSets, FiniteSetsExt

CONSTANTS
  Reporters,        \* a verifier for each slot of the task
  Bodies,           \* what a reported pointer may lead to
  Evaluators,       \* orchestrator processes
  MaxInstants,      \* bound: the clock
  MaxEvaluations    \* bound: attempts begun

(* Bytes that do not have the hash on the chain, and a report on another task.*)
AllBodies == {"good", "wrong bytes", "another task"}
ASSUME EvaluationAssumption ==
  /\ IsFiniteSet(Reporters) /\ Bodies \subseteq AllBodies
  /\ MaxInstants \in Nat /\ MaxEvaluations \in Nat

VARIABLES
  instant,
  revealedAt,   \* on the chain: the time of each reveal, or Not
  rows,         \* reveals the read model has rows of
  counted,      \* tasks.revealed_count
  body,         \* per verifier: what storage holds
  cached,       \* verifiers whose body is in their row
  attempt,      \* per process: its evaluation
  attempts,
  stored,       \* the row of consensus_results: the hash it names, and its body
  uploaded,     \* consensus artifacts in storage
  keeping,      \* the keeper: what it has read so far
  submitted,    \* the artifacts it sent, each with the reveals it had read
  settledHash,  \* resultHash on the chain
  synced        \* "no", the event is projected, or its artifact has been read too

facts == <<instant, revealedAt, body>>
index == <<rows, counted, cached>>
evalVars == <<facts, index, attempt, attempts, stored, uploaded, keeping, submitted, settledHash,
              synced>>

Not == 0
NoArtifact == [reports |-> {}, at |-> Not]
NoResultRow == [hash |-> NoArtifact, body |-> NoArtifact]
NoAttempt == [at |-> "idle"]
NotKeeping == [at |-> "idle"]
Revealed == {v \in Reporters : revealedAt[v] # Not}

EvalInit ==
  /\ instant = 1 /\ revealedAt = [v \in Reporters |-> Not] /\ body \in [Reporters -> Bodies]
  /\ rows = {} /\ counted = 0 /\ cached = {}
  /\ attempt = [e \in Evaluators |-> NoAttempt] /\ attempts = 0
  /\ stored = NoResultRow /\ uploaded = {}
  /\ keeping = NotKeeping /\ submitted = {} /\ settledHash = NoArtifact
  /\ synced = "no"

Settling == <<attempt, attempts, stored, uploaded, keeping, submitted, settledHash, synced>>

-----------------------------------------------------------------------------
(* The chain and the indexer.                                                *)

(* The window of the reveals is all but the last instant.                     *)
WindowClosed == instant = MaxInstants

Reveals(v) ==
  /\ revealedAt[v] = Not /\ ~WindowClosed
  /\ revealedAt' = [revealedAt EXCEPT ![v] = instant]
  /\ UNCHANGED <<instant, body, index, Settling>>

Instant ==
  /\ ~WindowClosed /\ instant' = instant + 1
  /\ UNCHANGED <<revealedAt, body, index, Settling>>

(* The row of one reveal, and the count of all the chain has by now.          *)
ProjectReveal(v) ==
  /\ v \in Revealed \ rows /\ rows' = rows \cup {v} /\ counted' = Cardinality(Revealed)
  /\ UNCHANGED <<cached, facts, Settling>>

(* The body goes into the row once its hash is found to be the chain's.       *)
DenormaliseReport(v) ==
  /\ v \in rows \ cached /\ body[v] # "wrong bytes"
  /\ cached' = cached \cup {v} /\ UNCHANGED <<rows, counted, facts, Settling>>

-----------------------------------------------------------------------------
(* evaluateTask.                                                             *)

AttemptGoes(e, to) == attempt' = [attempt EXCEPT ![e] = to]
Same == UNCHANGED <<facts, index, uploaded, keeping, submitted, settledHash, synced>>

(* The job: queued with the last reveal, or by the sweep once the host's clock *)
(* calls the window over, be that before the chain does.                      *)
Evaluable == counted > 0

ReadTask(e) ==
  /\ attempt[e].at = "idle" /\ attempts < MaxEvaluations /\ Evaluable
  /\ AttemptGoes(e, [at |-> "task", counted |-> counted]) /\ attempts' = attempts + 1
  /\ UNCHANGED stored /\ Same

(* A read model that is behind its own count is waited for.                   *)
ReadReportRows(e) ==
  /\ attempt[e].at = "task"
  /\ AttemptGoes(e, IF Cardinality(rows) < attempt[e].counted THEN NoAttempt
             ELSE [at |-> "reports", reports |-> rows])
  /\ UNCHANGED <<attempts, stored>> /\ Same

(* Mutant: the clock of the process goes into the hashed artifact. *)
EvaluatedAt_Now(reports) == instant

(* "The last reveal is a real measurement and does not move."                 *)
EvaluatedAt(reports) == Max({revealedAt[v] : v \in reports})

IsReport(v) == body[v] = "good"

(* loadManifest and loadReport; one body that is not what it should be ends   *)
(* the evaluation for good.                                                  *)
LoadAndEvaluate(e) ==
  /\ attempt[e].at = "reports"
  /\ LET reports == attempt[e].reports
     IN AttemptGoes(e, IF \A v \in reports : IsReport(v)
                THEN [at |-> "upload",
                      artifact |-> [reports |-> reports, at |-> EvaluatedAt(reports)]]
                ELSE [at |-> "failed"])
  /\ UNCHANGED <<attempts, stored>> /\ Same

UploadArtifact(e) ==
  /\ attempt[e].at = "upload"
  /\ uploaded' = uploaded \cup {attempt[e].artifact}
  /\ AttemptGoes(e, [attempt[e] EXCEPT !.at = "persist"])
  /\ UNCHANGED <<facts, index, attempts, stored, keeping, submitted, settledHash, synced>>

(* Storage is unreachable, or the process dies: the attempt is lost.          *)
LosesAttempt(e) ==
  /\ attempt[e].at \in {"task", "reports", "upload", "persist"} /\ AttemptGoes(e, NoAttempt)
  /\ UNCHANGED <<attempts, stored>> /\ Same

(* persistResult: the row of the task is replaced.                            *)
PersistArtifact(e) ==
  /\ attempt[e].at = "persist" /\ AttemptGoes(e, NoAttempt)
  /\ stored' = [hash |-> attempt[e].artifact, body |-> attempt[e].artifact]
  /\ UNCHANGED attempts /\ Same

-----------------------------------------------------------------------------
(* The keeper, finalizeConsensusFor: the row, whose body must have the hash    *)
(* the row names; then the task; then the checks, two of which look at the    *)
(* reports.                                                                  *)
KeeperOnly == UNCHANGED <<facts, index, attempt, attempts, stored, uploaded, settledHash, synced>>

KeeperReadsRow ==
  /\ keeping = NotKeeping /\ settledHash = NoArtifact
  /\ stored # NoResultRow /\ stored.hash = stored.body
  /\ keeping' = [at |-> "row", artifact |-> stored.body]
  /\ UNCHANGED submitted /\ KeeperOnly

KeeperReadsTask ==
  /\ keeping.at = "row" /\ settledHash = NoArtifact
  /\ keeping' = [at |-> "task", artifact |-> keeping.artifact, seen |-> Revealed]
  /\ UNCHANGED submitted /\ KeeperOnly

(* The time is another call, and the host's clock when that call fails: over   *)
(* or not, whatever the chain then has.  A refusal is tried again later.       *)
KeeperChecks ==
  /\ keeping.at = "task"
  /\ \E over \in BOOLEAN :
       LET complete == Cardinality(keeping.artifact.reports) = Cardinality(keeping.seen)
           sent == [artifact |-> keeping.artifact, seen |-> keeping.seen]
       IN submitted' = IF (keeping.seen = Reporters \/ over) /\ complete
                       THEN submitted \cup {sent} ELSE submitted
  /\ keeping' = NotKeeping /\ KeeperOnly

(* A read that fails ends the pass.                                          *)
KeeperStops ==
  /\ keeping.at \in {"row", "task"} /\ keeping' = NotKeeping
  /\ UNCHANGED submitted /\ KeeperOnly

(* finalizeConsensus is mined, however late: after the window or the last      *)
(* reveal, and once.                                                         *)
SubmissionLands ==
  /\ settledHash = NoArtifact /\ (WindowClosed \/ Revealed = Reporters)
  /\ \E sent \in submitted : settledHash' = sent.artifact
  /\ UNCHANGED <<facts, index, attempt, attempts, stored, uploaded, keeping, submitted, synced>>

(* The row gets the hash of the event and keeps the body it has; the artifact *)
(* of that hash is fetched later, into the row if it still names it.          *)
ProjectConsensusReached ==
  /\ settledHash # NoArtifact /\ synced = "no" /\ synced' = "projected"
  /\ stored' = [stored EXCEPT !.hash = settledHash]
  /\ UNCHANGED <<facts, index, attempt, attempts, uploaded, keeping, submitted, settledHash>>

DenormaliseConsensus ==
  /\ synced = "projected" /\ synced' = "read"
  /\ stored' = IF stored.hash = settledHash THEN [stored EXCEPT !.body = settledHash] ELSE stored
  /\ UNCHANGED <<facts, index, attempt, attempts, uploaded, keeping, submitted, settledHash>>

EvalNext ==
  \/ \E v \in Reporters : Reveals(v) \/ ProjectReveal(v) \/ DenormaliseReport(v)
  \/ \E e \in Evaluators :
       \/ ReadTask(e) \/ ReadReportRows(e) \/ LoadAndEvaluate(e) \/ UploadArtifact(e)
       \/ LosesAttempt(e) \/ PersistArtifact(e)
  \/ Instant \/ KeeperReadsRow \/ KeeperReadsTask \/ KeeperChecks \/ KeeperStops
  \/ SubmissionLands \/ ProjectConsensusReached \/ DenormaliseConsensus

EvalSpec == EvalInit /\ [][EvalNext]_evalVars

-----------------------------------------------------------------------------
(* What a reader sees: verifiedBody, loadReportBody, buildClaims.             *)

ReadReport(v, reachable) ==
  v \in rows /\ body[v] # "wrong bytes" /\ (v \in cached \/ reachable)

ShownBodies(reachable) == {v \in Reporters : ReadReport(v, reachable)}

(* The claims rest on the stored artifact, else on the bodies at hand.        *)
ClaimsRestOn(reachable) ==
  IF stored # NoResultRow THEN stored.body.reports ELSE ShownBodies(reachable)

-----------------------------------------------------------------------------
(* However often, by however many processes and over whatever the read model  *)
(* held at the time a task is evaluated, one set of reports has one artifact  *)
(* and one hash, so that a retry never strands the hash another attempt       *)
(* published; and what settles the task was uploaded before, and covers every *)
(* report the chain had when the keeper that sent it read the task.           *)
OneHashPerEvidence ==
  /\ \A a, b \in uploaded : a.reports = b.reports => a = b
  /\ settledHash # NoArtifact =>
       /\ settledHash \in uploaded
       /\ \E sent \in submitted : sent.artifact = settledHash /\ sent.seen = settledHash.reports

(* "The artifact has to account for every reveal the chain recorded": not so,  *)
(* when one is mined after the task was read and before the answer about the  *)
(* time, or before the window the host's clock called over.                   *)
SettledCoversAll == settledHash # NoArtifact => settledHash.reports = Revealed

(* Once the settled artifact has been read, the claims a reader is shown are  *)
(* those of the artifact the chain has ("the hash of the artifact that        *)
(* exists").                                                                 *)
StoredIsSettled == synced = "read" => stored.body = settledHash

(* A report the evaluation refuses ("report names a different task") is no    *)
(* report on this task to a reader either.                                    *)
ShownIsAcceptable == \A v \in ShownBodies(TRUE) : IsReport(v)
=============================================================================

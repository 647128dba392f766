---------------------------- MODULE ReaderProofs ----------------------------
(***************************************************************************)
(* Theorems about what people and services read off the chain and write to *)
(* it: the evaluations of a claim (Evaluation), the page that writes to    *)
(* the contract (Composer), the key its loops send with (Sender), and what *)
(* the API and the web server show of a task (TaskView, Lists, ShareCard). *)
(***************************************************************************)
EXTENDS Services, Evaluation, Composer, Sender, FiniteSetTheorems, SequenceTheorems,
        WellFoundedInduction, TLAPS

-----------------------------------------------------------------------------
(***************************************************************************)
(* The evaluations, for any reporters, evaluators and windows: whatever    *)
(* the order in which reveals are mined, indexed and evaluated, one set of *)
(* reveals has one hash.                                                   *)
(***************************************************************************)

(* An artifact of reveals that are on the chain, by the one rule.            *)
IsArtifact(a) ==
  /\ a = [reports |-> a.reports, at |-> EvaluatedAt(a.reports)]
  /\ a.reports \subseteq Revealed

AttemptOK(a) ==
  /\ a.at = "reports" => a.reports \subseteq Revealed
  /\ a.at \in {"upload", "persist"} =>
       a = [at |-> a.at, artifact |-> a.artifact] /\ IsArtifact(a.artifact)
  /\ a.at = "persist" => a.artifact \in uploaded

AttemptsOK == \A e \in Evaluators : AttemptOK(attempt[e])

(* What the keeper reads covers no report that the task, read later, lacks.   *)
KeepingOK ==
  /\ keeping.at \in {"row", "task"} =>
       keeping.artifact \in uploaded /\ keeping.artifact.reports \subseteq Revealed
  /\ keeping.at = "task" =>
       keeping.artifact.reports \subseteq keeping.seen /\ keeping.seen \subseteq Revealed

SentOK(s) == s.artifact \in uploaded /\ s.artifact.reports = s.seen

EvalInv ==
  /\ instant \in Nat \ {0} /\ revealedAt \in [Reporters -> Nat]
  /\ rows \subseteq Revealed
  /\ attempt = [e \in Evaluators |-> attempt[e]]
  /\ AttemptsOK
  /\ \A a \in uploaded : IsArtifact(a)
  /\ stored = [hash |-> stored.hash, body |-> stored.body]
  /\ {stored.hash, stored.body} \subseteq uploaded \cup {NoArtifact}
  /\ KeepingOK
  /\ \A s \in submitted : SentOK(s)
  /\ settledHash # NoArtifact => \E s \in submitted : s.artifact = settledHash

(* A reveal's time does not move, and what was evaluated of it stands.       *)
LEMMA ArtifactsStand ==
  ASSUME NEW a, IsArtifact(a), \A v \in Revealed : v \in Revealed' /\ revealedAt'[v] = revealedAt[v]
  PROVE  IsArtifact(a)'
<1>1. {revealedAt'[v] : v \in a.reports} = {revealedAt[v] : v \in a.reports}
  BY DEF IsArtifact
<1>2. EvaluatedAt(a.reports)' = EvaluatedAt(a.reports)
  BY <1>1 DEF EvaluatedAt
<1> QED
  BY <1>2 DEF IsArtifact

LEMMA EvalInitOK == EvalInit => EvalInv
  BY DEF EvalInit, EvalInv, NoAttempt, NotKeeping, NoResultRow, NoArtifact, AttemptsOK, AttemptOK,
         KeepingOK, Not

(* The chain moves, and only adds reveals.                                   *)
LEMMA FactsStep ==
  ASSUME EvalInv, instant' \in Nat \ {0}, revealedAt' \in [Reporters -> Nat],
         \A v \in Revealed : v \in Revealed' /\ revealedAt'[v] = revealedAt[v],
         UNCHANGED <<rows, Settling>>
  PROVE  EvalInv'
<1>1. UNCHANGED <<rows, attempt, uploaded, stored, keeping, submitted, settledHash>>
  BY DEF Settling
<1>2. \A a : IsArtifact(a) => IsArtifact(a)'
  BY ArtifactsStand
<1>3. Revealed \subseteq Revealed'
  OBVIOUS
<1>4. AttemptsOK'
  BY <1>1, <1>2, <1>3 DEF EvalInv, AttemptsOK, AttemptOK
<1>5. KeepingOK' /\ \A s \in submitted' : SentOK(s)'
  BY <1>1, <1>3 DEF EvalInv, KeepingOK, SentOK
<1> QED
  BY <1>1, <1>2, <1>3, <1>4, <1>5 DEF EvalInv

(* The chain and the reveals rest.                                           *)
LEMMA SettlingStep ==
  ASSUME EvalInv, UNCHANGED facts, rows' \subseteq Revealed,
         attempt' = [e \in Evaluators |-> attempt'[e]], uploaded \subseteq uploaded',
         AttemptsOK',
         \A a \in uploaded' : a \in uploaded \/ IsArtifact(a),
         stored' = [hash |-> stored'.hash, body |-> stored'.body],
         {stored'.hash, stored'.body} \subseteq uploaded' \cup {NoArtifact},
         keeping' = keeping \/ KeepingOK', submitted \subseteq submitted',
         \A s \in submitted' : s \in submitted \/ SentOK(s),
         settledHash' = settledHash \/ \E s \in submitted : s.artifact = settledHash'
  PROVE  EvalInv'
<1>1. UNCHANGED <<instant, revealedAt>> /\ Revealed' = Revealed
  BY DEF facts, Revealed
<1>2. \A a : IsArtifact(a) => IsArtifact(a)'
  BY <1>1, ArtifactsStand
<1>4. \A a \in uploaded' : IsArtifact(a)'
  BY <1>2 DEF EvalInv
<1>5. KeepingOK'
  BY <1>1 DEF EvalInv, KeepingOK
<1>6. \A s \in submitted' : SentOK(s)'
  BY DEF EvalInv, SentOK
<1>7. settledHash' # NoArtifact => \E s \in submitted' : s.artifact = settledHash'
  BY DEF EvalInv
<1> QED
  BY <1>1, <1>4, <1>5, <1>6, <1>7 DEF EvalInv

(* What SettlingStep asks of the parts a step leaves alone.                  *)
LEMMA Standing ==
  ASSUME EvalInv
  PROVE  /\ attempt = [e \in Evaluators |-> attempt[e]]
         /\ stored = [hash |-> stored.hash, body |-> stored.body]
         /\ {stored.hash, stored.body, settledHash} \subseteq uploaded \cup {NoArtifact}
         /\ \A s \in submitted : SentOK(s)
         /\ rows \subseteq Revealed
  BY DEF EvalInv, SentOK

LEMMA ChainSteps ==
  ASSUME EvalInv, Instant \/ \E v \in Reporters : Reveals(v)
  PROVE  EvalInv'
<1>1. CASE Instant
  <2>1. instant' = instant + 1 /\ ~WindowClosed /\ UNCHANGED <<revealedAt, rows, Settling>>
    BY <1>1 DEF Instant, index
  <2>2. Revealed' = Revealed
    BY <2>1 DEF Revealed
  <2>3. instant' \in Nat \ {0} /\ revealedAt' \in [Reporters -> Nat]
    BY <2>1 DEF EvalInv
  <2> QED
    BY <2>1, <2>2, <2>3, FactsStep
<1>2. ASSUME NEW v \in Reporters, Reveals(v)
      PROVE  EvalInv'
  <2>1. /\ revealedAt[v] = Not /\ ~WindowClosed
        /\ revealedAt' = [revealedAt EXCEPT ![v] = instant]
        /\ UNCHANGED <<instant, rows, Settling>>
    BY <1>2 DEF Reveals, index
  <2>2. instant' \in Nat \ {0} /\ revealedAt' \in [Reporters -> Nat]
    BY <2>1 DEF EvalInv
  <2>3. \A u \in Revealed : u \in Revealed' /\ revealedAt'[u] = revealedAt[u]
    BY <2>1 DEF EvalInv, Revealed
  <2> QED
    BY <2>1, <2>2, <2>3, FactsStep
<1> QED
  BY <1>1, <1>2

LEMMA IndexSteps ==
  ASSUME EvalInv, \E v \in Reporters : ProjectReveal(v) \/ DenormaliseReport(v)
  PROVE  EvalInv'
<1>1. UNCHANGED <<facts, attempt, uploaded, stored, keeping, submitted, settledHash>>
  BY DEF ProjectReveal, DenormaliseReport, Settling
<1>2. rows' \subseteq Revealed
  <2>1. PICK v \in Reporters : ProjectReveal(v) \/ DenormaliseReport(v)
    OBVIOUS
  <2>2. rows' \subseteq rows \cup {v} /\ (rows' # rows => v \in Revealed)
    BY <2>1 DEF ProjectReveal, DenormaliseReport
  <2> QED
    BY <2>2 DEF EvalInv
<1>3. Revealed' = Revealed /\ UNCHANGED revealedAt
  BY <1>1 DEF facts, Revealed
<1>4. \A a : IsArtifact(a) => IsArtifact(a)'
  BY <1>3, ArtifactsStand
<1>5. AttemptsOK'
  BY <1>1, <1>3, <1>4 DEF EvalInv, AttemptsOK, AttemptOK
<1> QED
  BY <1>1, <1>2, <1>5, Standing, SettlingStep

(* One attempt goes on; what another process holds is not disturbed.         *)
LEMMA AttemptSteps ==
  ASSUME EvalInv, NEW e \in Evaluators, NEW to, AttemptGoes(e, to),
         UNCHANGED <<facts, rows, keeping, submitted, settledHash>>,
         uploaded \subseteq uploaded', \A a \in uploaded' : a \in uploaded \/ IsArtifact(a),
         stored' = [hash |-> stored'.hash, body |-> stored'.body],
         {stored'.hash, stored'.body} \subseteq uploaded \cup {NoArtifact},
         AttemptOK(to)'
  PROVE  EvalInv'
<1>1. UNCHANGED revealedAt /\ Revealed' = Revealed
  BY DEF facts, Revealed
<1>2. \A a : IsArtifact(a) => IsArtifact(a)'
  BY <1>1, ArtifactsStand
<1>3. attempt' = [attempt EXCEPT ![e] = to]
  BY DEF AttemptGoes
<1>4. AttemptsOK'
  BY <1>1, <1>2, <1>3 DEF EvalInv, AttemptsOK, AttemptOK
<1>5. attempt' = [f \in Evaluators |-> attempt'[f]]
  BY <1>3 DEF EvalInv
<1> QED
  BY <1>4, <1>5, Standing, SettlingStep

LEMMA EvaluatorSteps ==
  ASSUME EvalInv, NEW e \in Evaluators,
         \/ ReadTask(e) \/ ReadReportRows(e) \/ LoadAndEvaluate(e) \/ UploadArtifact(e)
         \/ LosesAttempt(e) \/ PersistArtifact(e)
  PROVE  EvalInv'
<1>1. /\ UNCHANGED <<facts, rows, keeping, submitted, settledHash>>
      /\ stored = [hash |-> stored.hash, body |-> stored.body]
      /\ {stored.hash, stored.body} \subseteq uploaded \cup {NoArtifact}
  BY DEF ReadTask, ReadReportRows, LoadAndEvaluate, UploadArtifact, LosesAttempt,
         PersistArtifact, Same, index, EvalInv
<1>2. UNCHANGED revealedAt /\ Revealed' = Revealed
  BY <1>1 DEF facts, Revealed
<1>3. \A a : IsArtifact(a) => IsArtifact(a)'
  BY <1>2, ArtifactsStand
<1>4. \A a : a = NoAttempt => AttemptOK(a)'
  BY DEF AttemptOK, NoAttempt
<1>5. CASE ReadTask(e)
  <2>1. /\ AttemptGoes(e, [at |-> "task", counted |-> counted])
        /\ UNCHANGED <<uploaded, stored>>
    BY <1>5 DEF ReadTask, Same
  <2>2. PICK to : to = [at |-> "task", counted |-> counted]
    OBVIOUS
  <2>3. AttemptOK(to)'
    BY <2>2 DEF EvalInv, AttemptsOK, AttemptOK
  <2> QED
    BY <1>1, <2>1, <2>2, <2>3, AttemptSteps
<1>6. CASE ReadReportRows(e)
  <2>1. PICK to : /\ AttemptGoes(e, to)
                  /\ to = NoAttempt \/ to = [at |-> "reports", reports |-> rows]
    BY <1>6 DEF ReadReportRows
  <2>2. to = [at |-> "reports", reports |-> rows] => AttemptOK(to)'
    BY <1>2 DEF AttemptOK, EvalInv
  <2>3. AttemptOK(to)' /\ UNCHANGED <<uploaded, stored>>
    BY <1>4, <1>6, <2>1, <2>2 DEF ReadReportRows, Same
  <2> QED
    BY <1>1, <2>1, <2>3, AttemptSteps
<1>7. CASE LoadAndEvaluate(e)
  <2>1. PICK artifact : artifact = [reports |-> attempt[e].reports,
                                    at |-> EvaluatedAt(attempt[e].reports)]
    OBVIOUS
  <2>2. PICK to : /\ AttemptGoes(e, to)
                  /\ to = [at |-> "failed"] \/ to = [at |-> "upload", artifact |-> artifact]
    BY <1>7, <2>1 DEF LoadAndEvaluate
  <2>3. attempt[e].at = "reports" /\ UNCHANGED <<uploaded, stored>>
    BY <1>7 DEF LoadAndEvaluate, Same
  <2>4. IsArtifact(artifact)
    BY <2>1, <2>3 DEF EvalInv, AttemptsOK, AttemptOK, IsArtifact
  <2>5. AttemptOK(to)'
    BY <1>3, <2>2, <2>4 DEF EvalInv, AttemptsOK, AttemptOK
  <2> QED
    BY <1>1, <2>2, <2>3, <2>5, AttemptSteps
<1>8. CASE UploadArtifact(e)
  <2>1. PICK artifact : artifact = attempt[e].artifact
    OBVIOUS
  <2>2. /\ attempt[e].at = "upload" /\ AttemptGoes(e, [attempt[e] EXCEPT !.at = "persist"])
        /\ uploaded' = uploaded \cup {artifact} /\ stored' = stored
    BY <1>8, <2>1 DEF UploadArtifact
  <2>3. attempt[e] = [at |-> "upload", artifact |-> artifact] /\ IsArtifact(artifact)
    BY <2>1, <2>2 DEF EvalInv, AttemptsOK, AttemptOK
  <2>4. PICK to : to = [at |-> "persist", artifact |-> artifact]
    OBVIOUS
  <2>5. AttemptGoes(e, to)
    BY <2>2, <2>3, <2>4
  <2>6. AttemptOK(to)'
    BY <1>3, <2>2, <2>3, <2>4 DEF EvalInv, AttemptsOK, AttemptOK
  <2> QED
    BY <1>1, <2>2, <2>3, <2>5, <2>6, AttemptSteps
<1>9. CASE LosesAttempt(e)
  <2>1. PICK to : to = NoAttempt
    OBVIOUS
  <2>2. AttemptGoes(e, to) /\ UNCHANGED <<uploaded, stored>>
    BY <1>9, <2>1 DEF LosesAttempt, Same
  <2> QED
    BY <1>1, <1>4, <2>1, <2>2, AttemptSteps
<1>10. CASE PersistArtifact(e)
  <2> DEFINE artifact == attempt[e].artifact
  <2>1. /\ AttemptGoes(e, NoAttempt) /\ UNCHANGED uploaded
        /\ stored' = [hash |-> artifact, body |-> artifact]
        /\ attempt[e].at = "persist"
    BY <1>10 DEF PersistArtifact, Same
  <2>2. artifact \in uploaded
    BY <2>1 DEF EvalInv, AttemptsOK, AttemptOK
  <2>3. PICK to : to = NoAttempt
    OBVIOUS
  <2> HIDE DEF artifact
  <2>4. AttemptGoes(e, to) /\ stored'.hash = artifact /\ stored'.body = artifact
    BY <2>1, <2>3
  <2> QED
    BY <1>1, <1>4, <2>1, <2>2, <2>3, <2>4, AttemptSteps
<1> QED
  BY <1>5, <1>6, <1>7, <1>8, <1>9, <1>10

(* The keeper counts the artifact against the reveals it has read of the     *)
(* task: the artifact was read before, so as many of them are the same ones. *)
LEMMA KeeperSteps ==
  ASSUME EvalInv,
         \/ KeeperReadsRow \/ KeeperReadsTask \/ KeeperChecks \/ KeeperStops
         \/ SubmissionLands \/ ProjectConsensusReached \/ DenormaliseConsensus
  PROVE  EvalInv'
<1>1. UNCHANGED <<facts, rows, attempt, uploaded>>
  BY DEF KeeperReadsRow, KeeperReadsTask, KeeperChecks, KeeperStops, KeeperOnly,
         SubmissionLands, ProjectConsensusReached, DenormaliseConsensus, index
<1>2. UNCHANGED revealedAt /\ Revealed' = Revealed
  BY <1>1 DEF facts, Revealed
<1>3. \A a : IsArtifact(a) => IsArtifact(a)'
  BY <1>2, ArtifactsStand
<1>4. AttemptsOK'
  BY <1>1, <1>2, <1>3 DEF EvalInv, AttemptsOK, AttemptOK
<1>5. /\ attempt' = [e \in Evaluators |-> attempt'[e]] /\ rows' \subseteq Revealed
  BY <1>1 DEF EvalInv
<1>6. keeping' = NotKeeping => KeepingOK'
  BY DEF KeepingOK, NotKeeping
<1>7. CASE KeeperReadsRow
  <2> DEFINE result == stored.body
  <2>1. /\ stored # NoResultRow /\ stored.hash = result
        /\ keeping' = [at |-> "row", artifact |-> result]
        /\ UNCHANGED <<stored, submitted, settledHash>>
    BY <1>7 DEF KeeperReadsRow, KeeperOnly
  <2>2. result \in uploaded
    BY <2>1 DEF EvalInv, NoResultRow
  <2>3. result.reports \subseteq Revealed
    BY <2>2 DEF EvalInv, IsArtifact
  <2> HIDE DEF result
  <2>4. KeepingOK'
    BY <1>1, <1>2, <2>1, <2>2, <2>3 DEF KeepingOK
  <2> QED
    BY <1>1, <1>4, <1>5, <2>1, <2>4, Standing, SettlingStep
<1>8. CASE KeeperReadsTask
  <2>1. /\ keeping.at = "row"
        /\ keeping' = [at |-> "task", artifact |-> keeping.artifact, seen |-> Revealed]
        /\ UNCHANGED <<stored, submitted, settledHash>>
    BY <1>8 DEF KeeperReadsTask, KeeperOnly
  <2>2. keeping.artifact \in uploaded /\ keeping.artifact.reports \subseteq Revealed
    BY <2>1 DEF EvalInv, KeepingOK
  <2>3. KeepingOK'
    BY <1>1, <1>2, <2>1, <2>2 DEF KeepingOK
  <2> QED
    BY <1>1, <1>4, <1>5, <2>1, <2>3, Standing, SettlingStep
<1>9. CASE KeeperChecks
  <2> DEFINE submission == [artifact |-> keeping.artifact, seen |-> keeping.seen]
  <2>1. /\ keeping.at = "task" /\ keeping' = NotKeeping /\ UNCHANGED <<stored, settledHash>>
        /\ \/ submitted' = submitted
           \/ /\ submitted' = submitted \cup {submission}
              /\ Cardinality(keeping.artifact.reports) = Cardinality(keeping.seen)
    BY <1>9 DEF KeeperChecks, KeeperOnly
  <2>2. /\ keeping.artifact \in uploaded
        /\ keeping.artifact.reports \subseteq keeping.seen /\ keeping.seen \subseteq Revealed
    BY <2>1 DEF EvalInv, KeepingOK
  <2>3. IsFiniteSet(keeping.seen)
    BY <2>2, EvaluationAssumption, FS_Subset DEF Revealed
  <2>4. Cardinality(keeping.artifact.reports) = Cardinality(keeping.seen)
          => keeping.artifact.reports = keeping.seen
    BY <2>2, <2>3, FS_Subset
  <2>5. Cardinality(keeping.artifact.reports) = Cardinality(keeping.seen) => SentOK(submission)
    BY <2>2, <2>4 DEF SentOK
  <2> HIDE DEF submission
  <2>6. /\ submitted \subseteq submitted'
        /\ \A s \in submitted' : s \in submitted \/ SentOK(s)
    BY <2>1, <2>5
  <2>7. KeepingOK'
    BY <1>6, <2>1
  <2> QED
    BY <1>1, <1>4, <1>5, <2>1, <2>6, <2>7, Standing, SettlingStep
<1>10. CASE KeeperStops
  <2>1. keeping' = NotKeeping /\ UNCHANGED <<stored, submitted, settledHash>>
    BY <1>10 DEF KeeperStops, KeeperOnly
  <2>2. KeepingOK'
    BY <1>6, <2>1
  <2> QED
    BY <1>1, <1>4, <1>5, <2>1, <2>2, Standing, SettlingStep
<1>11. CASE SubmissionLands
  <2>1. /\ UNCHANGED <<stored, keeping, submitted>>
        /\ \E s \in submitted : s.artifact = settledHash'
    BY <1>11 DEF SubmissionLands
  <2> QED
    BY <1>1, <1>4, <1>5, <2>1, Standing, SettlingStep
<1>12. CASE ProjectConsensusReached \/ DenormaliseConsensus
  <2>1. /\ UNCHANGED <<keeping, submitted, settledHash>>
        /\ \/ stored' = stored \/ stored' = [stored EXCEPT !.hash = settledHash]
           \/ stored' = [stored EXCEPT !.body = settledHash]
    BY <1>12 DEF ProjectConsensusReached, DenormaliseConsensus
  <2>2. /\ stored = [hash |-> stored.hash, body |-> stored.body]
        /\ {stored.hash, stored.body, settledHash} \subseteq uploaded \cup {NoArtifact}
    BY Standing
  <2>3. /\ stored' = [hash |-> stored'.hash, body |-> stored'.body]
        /\ {stored'.hash, stored'.body} \subseteq uploaded \cup {NoArtifact}
    BY <2>1, <2>2
  <2> QED
    BY <1>1, <1>4, <1>5, <2>1, <2>3, Standing, SettlingStep
<1> QED
  BY <1>7, <1>8, <1>9, <1>10, <1>11, <1>12

LEMMA EvalStepOK == EvalInv /\ [EvalNext]_evalVars => EvalInv'
<1> SUFFICES ASSUME EvalInv, [EvalNext]_evalVars PROVE EvalInv'
  OBVIOUS
<1>1. CASE UNCHANGED evalVars
  <2>1. /\ UNCHANGED <<facts, rows, attempt, uploaded, stored, keeping, submitted, settledHash>>
        /\ UNCHANGED <<instant, revealedAt>>
    BY <1>1 DEF evalVars, facts, index
  <2>2. Revealed' = Revealed /\ (\A a : IsArtifact(a) => IsArtifact(a)')
    BY <2>1, ArtifactsStand DEF Revealed
  <2>3. AttemptsOK'
    BY <2>1, <2>2 DEF EvalInv, AttemptsOK, AttemptOK
  <2> QED
    BY <2>1, <2>2, <2>3, Standing, SettlingStep
<1> QED
  BY <1>1, ChainSteps, IndexSteps, EvaluatorSteps, KeeperSteps DEF EvalNext

(* However many processes evaluate a task, and whichever attempts are lost   *)
(* or late, one set of reports has one artifact, and what settles the task   *)
(* is an uploaded artifact of every reveal the keeper had read of the task.  *)
THEOREM EvidenceHashesOnce == EvalSpec => []OneHashPerEvidence
<1>1. EvalInv => OneHashPerEvidence
  BY DEF EvalInv, IsArtifact, SentOK, OneHashPerEvidence
<1> QED
  BY EvalInitOK, EvalStepOK, <1>1, PTL DEF EvalSpec

-----------------------------------------------------------------------------
(***************************************************************************)
(* The composer, for any accounts and fields: what the page says of a      *)
(* write is what became of its transaction.                                *)
(***************************************************************************)

Words == {"waiting", "unsent", "refused", "unconfirmed", "done", "reverted"}
Tx == [n : Nat, what : Writes, from : Accounts, creator : Accounts,
       changed : SUBSET Fields, fate : {"pending", "mined", "reverted"}]
Unsent == {"preparing", "checking", "signing"}
Sending == {"confirming", "syncing"}
WriteUnderWay ==
  [at : Unsent \cup Sending, what : Writes, creator : Accounts, changed : SUBSET Fields]

(* What may be said of a transaction. *)
Says(tx, word) ==
  /\ word # "unsent"
  /\ word = "done" => tx.fate = "mined"
  /\ word = "reverted" => tx.fate = "reverted"

AsTyped(what, changed) ==
  what = "createTask" => changed \cap {"bounty", "verifierCount"} = {}

TxsOK ==
  /\ \A i \in 1..Len(txs) :
        /\ txs[i].n \in 1..Len(told) /\ Says(txs[i], told[txs[i].n])
        /\ AsTyped(txs[i].what, txs[i].changed)
  /\ \A i, j \in 1..Len(txs) : txs[i].n = txs[j].n => i = j

(* The write under way is the last one told of; it has no transaction before *)
(* it is signed, and the last one after.                                     *)
WriteOK ==
  /\ write # Idle => Len(told) > 0 /\ told[Len(told)] = "waiting"
  /\ write.at \in Unsent => \A i \in 1..Len(txs) : txs[i].n # Len(told)
  /\ write.at \in {"checking", "signing"} => AsTyped(write.what, write.changed)
  /\ write.at \in Sending => Len(txs) > 0 /\ txs[Len(txs)].n = Len(told)
  /\ write.at = "confirming" => AsTyped(write.what, write.changed)
  /\ write.at = "syncing" => txs[Len(txs)].fate = "mined"

ComposerTypes ==
  /\ write \in WriteUnderWay \cup {Idle}
  /\ txs \in Seq(Tx) /\ told \in Seq(Words)
  /\ account \in Accounts \cup {NoAccount}

ComposerInv == ComposerTypes /\ TxsOK /\ WriteOK

LEMMA IdleWrite ==
  /\ Idle.at = "idle"
  /\ \A w \in WriteUnderWay : w # Idle /\ w.at \in Unsent \cup Sending
  BY DEF Idle, WriteUnderWay, Unsent, Sending

LEMMA ComposerInitOK == ComposerInit => ComposerInv
<1> SUFFICES ASSUME ComposerInit PROVE ComposerInv
  OBVIOUS
<1>1. write = Idle /\ txs = <<>> /\ told = <<>> /\ account \in Accounts
  BY DEF ComposerInit
<1>2. Len(txs) = 0 /\ ComposerTypes
  BY <1>1 DEF ComposerTypes
<1> QED
  BY <1>1, <1>2, IdleWrite DEF ComposerInv, TxsOK, WriteOK, Unsent, Sending

(* The write ends, and its user is told what its transaction bears out.      *)
LEMMA EndsOK ==
  ASSUME ComposerInv, NEW word \in Words, write # Idle, Ends(word), UNCHANGED <<txs, World>>,
         \A i \in 1..Len(txs) : txs[i].n = Len(told) => Says(txs[i], word)
  PROVE  ComposerInv'
<1>1. /\ txs \in Seq(Tx) /\ told \in Seq(Words) /\ Len(told) \in Nat /\ Len(told) > 0
      /\ account' = account /\ account \in Accounts \cup {NoAccount}
  BY DEF ComposerInv, ComposerTypes, WriteOK, World
<1>2. write' = Idle /\ told' = [told EXCEPT ![Len(told)] = word]
  BY DEF Ends, Tell, Current
<1>3. /\ told' \in Seq(Words) /\ Len(told') = Len(told)
      /\ \A j \in 1..Len(told) : told'[j] = IF j = Len(told) THEN word ELSE told[j]
  <2>1. Len(told) \in 1..Len(told)
    BY <1>1
  <2> QED
    BY <1>1, <1>2, <2>1, ExceptSeq
<1>4. TxsOK'
  <2>1. ASSUME NEW i \in 1..Len(txs) PROVE Says(txs[i], told'[txs[i].n])
    BY <1>3 DEF ComposerInv, TxsOK
  <2> QED
    BY <1>3, <2>1 DEF ComposerInv, TxsOK
<1>5. WriteOK'
  BY <1>2, IdleWrite DEF WriteOK, Unsent, Sending
<1> QED
  BY <1>1, <1>2, <1>3, <1>4, <1>5 DEF ComposerInv, ComposerTypes

(* The write goes on; nobody is told anything.                               *)
LEMMA GoesOn ==
  ASSUME ComposerInv, write' \in WriteUnderWay, write # Idle, UNCHANGED <<txs, told, World>>,
         write'.at \in Unsent => write.at \in Unsent,
         write'.at \in {"checking", "signing"} => AsTyped(write'.what, write'.changed),
         write'.at = "syncing" => write.at = "confirming" /\ txs[Len(txs)].fate = "mined",
         write'.at # "confirming"
  PROVE  ComposerInv'
<1>1. TxsOK'
  BY DEF ComposerInv, TxsOK
<1>2. WriteOK'
  BY DEF ComposerInv, WriteOK, Sending
<1>3. ComposerTypes'
  BY DEF ComposerInv, ComposerTypes, World
<1> QED
  BY <1>1, <1>2, <1>3 DEF ComposerInv

LEMMA ClickStep ==
  ASSUME ComposerInv, NEW what \in Writes, Click(what)
  PROVE  ComposerInv'
<1>1. /\ txs \in Seq(Tx) /\ told \in Seq(Words) /\ Len(told) \in Nat
      /\ account' = account /\ account \in Accounts \cup {NoAccount} /\ txs' = txs /\ write = Idle
  BY DEF ComposerInv, ComposerTypes, Click, World
<1>2. PICK word \in Words :
        /\ told' = Append(told, word)
        /\ \/ account = NoAccount /\ write' = write
           \/ /\ word = "waiting" /\ account # NoAccount
              /\ write' = [at |-> IF what \in Prepared THEN "preparing" ELSE "checking",
                           what |-> what, creator |-> account, changed |-> {}]
  BY <1>1 DEF Click, Words
<1>3. /\ told' \in Seq(Words) /\ Len(told') = Len(told) + 1 /\ told'[Len(told')] = word
      /\ \A j \in 1..Len(told) : told'[j] = told[j]
  BY <1>1, <1>2
<1>4. \A i \in 1..Len(txs) : txs[i].n \in 1..Len(told') /\ txs[i].n # Len(told')
  BY <1>1, <1>3 DEF ComposerInv, TxsOK
<1>5. TxsOK'
  BY <1>1, <1>3, <1>4 DEF ComposerInv, TxsOK
<1>6. CASE account = NoAccount
  <2>1. write' = Idle
    BY <1>1, <1>2, <1>6
  <2>2. WriteOK'
    BY <2>1, IdleWrite DEF WriteOK, Unsent, Sending
  <2> QED
    BY <1>1, <1>3, <1>5, <2>1, <2>2 DEF ComposerInv, ComposerTypes
<1>7. CASE account # NoAccount
  <2>1. /\ write' \in WriteUnderWay /\ write'.at \in {"preparing", "checking"}
        /\ write'.changed = {} /\ word = "waiting"
    BY <1>1, <1>2, <1>7 DEF WriteUnderWay, Unsent
  <2>2. AsTyped(write'.what, write'.changed)
    BY <2>1 DEF AsTyped
  <2>3. WriteOK'
    BY <1>1, <1>3, <1>4, <2>1, <2>2 DEF WriteOK, Sending
  <2> QED
    BY <1>1, <1>3, <1>5, <2>1, <2>3 DEF ComposerInv, ComposerTypes
<1> QED
  BY <1>6, <1>7

LEMMA PreparationSteps ==
  ASSUME ComposerInv,
         \/ \E changed \in {{}} \cup {{f} : f \in Fields} : PreparationArrives(changed)
         \/ PreparationFails \/ Declines
         \/ \E reachable \in BOOLEAN : Preflight(reachable)
  PROVE  ComposerInv'
<1>1. /\ write \in WriteUnderWay /\ write.at \in Unsent /\ UNCHANGED <<txs, World>>
      /\ write # Idle
  BY IdleWrite DEF PreparationArrives, PreparationFails, Declines, Preflight, ComposerInv,
                   ComposerTypes, Unsent
<1>2. ASSUME NEW word \in {"unsent", "refused"}, Ends(word)
      PROVE  ComposerInv'
  <2>1. \A i \in 1..Len(txs) : txs[i].n # Len(told)
    BY <1>1 DEF ComposerInv, WriteOK
  <2> QED
    BY <1>1, <1>2, <2>1, EndsOK DEF Words
<1>3. ASSUME NEW changed \in {{}} \cup {{f} : f \in Fields}, PreparationArrives(changed),
             ~Ends("unsent")
      PROVE  ComposerInv'
  <2>1. /\ write.what = "createTask" => Matches(changed)
        /\ write' = [write EXCEPT !.at = "checking", !.changed = changed] /\ told' = told
    BY <1>3 DEF PreparationArrives
  <2>2. /\ write' \in WriteUnderWay /\ write'.at = "checking" /\ write'.what = write.what
        /\ write'.changed = changed
    BY <1>1, <2>1 DEF WriteUnderWay, Unsent
  <2>3. AsTyped(write'.what, write'.changed)
    BY <2>1, <2>2 DEF AsTyped, Matches, Compared
  <2> QED
    BY <1>1, <2>1, <2>2, <2>3, GoesOn
<1>4. ASSUME NEW reachable \in BOOLEAN, Preflight(reachable), ~Ends("unsent")
      PROVE  ComposerInv'
  <2>1. write.at = "checking" /\ write' = [write EXCEPT !.at = "signing"] /\ told' = told
    BY <1>4 DEF Preflight
  <2>2. /\ write' \in WriteUnderWay /\ write'.at = "signing" /\ write'.what = write.what
        /\ write'.changed = write.changed
    BY <1>1, <2>1 DEF WriteUnderWay, Unsent
  <2>3. AsTyped(write'.what, write'.changed)
    BY <2>1, <2>2 DEF ComposerInv, WriteOK
  <2> QED
    BY <1>1, <2>1, <2>2, <2>3, GoesOn
<1> QED
  BY <1>2, <1>3, <1>4 DEF PreparationFails, Declines

(* The wallet sends it: the transaction is the only one of its write, and its *)
(* user goes on waiting or is told that the wallet's call failed.             *)
LEMMA WalletSends ==
  ASSUME ComposerInv, Broadcasts, NEW word \in {"waiting", "refused"},
         told' = [told EXCEPT ![Len(told)] = word],
         \/ write' = Idle
         \/ word = "waiting" /\ write' = [write EXCEPT !.at = "confirming"]
  PROVE  ComposerInv'
<1>1. /\ txs \in Seq(Tx) /\ told \in Seq(Words) /\ Len(told) \in Nat /\ Len(txs) \in Nat
      /\ account' = account /\ account \in Accounts
      /\ write.at = "signing" /\ write \in WriteUnderWay
  BY IdleWrite DEF ComposerInv, ComposerTypes, Broadcasts, World
<1>2. PICK tx : tx = [n |-> Len(told), what |-> write.what, from |-> account,
                      creator |-> write.creator, changed |-> write.changed, fate |-> "pending"]
  OBVIOUS
<1>3. /\ tx \in Tx /\ tx.n = Len(told) /\ tx.what = write.what /\ tx.changed = write.changed
      /\ tx.fate = "pending"
  <2>1. tx.n = Len(told) /\ tx.what = write.what /\ tx.changed = write.changed /\ tx.fate = "pending"
    BY <1>2
  <2> QED
    BY <1>1, <1>2, <2>1 DEF Tx, WriteUnderWay
<1>4. txs' = Append(txs, tx)
  BY <1>2 DEF Broadcasts, Current
<1>5. /\ txs' \in Seq(Tx) /\ Len(txs') = Len(txs) + 1 /\ txs'[Len(txs')] = tx
      /\ \A i \in 1..Len(txs) : txs'[i] = txs[i]
      /\ \A i \in 1..Len(txs') : i \in 1..Len(txs) \/ i = Len(txs')
  BY <1>1, <1>3, <1>4
<1>7. /\ AsTyped(write.what, write.changed) /\ Len(told) > 0
      /\ \A i \in 1..Len(txs) : txs[i].n # Len(told)
  BY <1>1, IdleWrite DEF ComposerInv, WriteOK, Unsent
<1>8. /\ told' \in Seq(Words) /\ Len(told') = Len(told)
      /\ \A j \in 1..Len(told) : told'[j] = IF j = Len(told) THEN word ELSE told[j]
  <2>1. Len(told) \in 1..Len(told) /\ word \in Words
    BY <1>1, <1>7 DEF Words
  <2> QED
    BY <1>1, <2>1, ExceptSeq
<1>9. ASSUME NEW i \in 1..Len(txs')
      PROVE  /\ txs'[i].n \in 1..Len(told) /\ Says(txs'[i], told'[txs'[i].n])
             /\ AsTyped(txs'[i].what, txs'[i].changed)
  <2>1. CASE i \in 1..Len(txs)
    <3>1. txs'[i] = txs[i] /\ txs[i].n \in 1..Len(told) /\ txs[i].n # Len(told)
      BY <1>5, <1>7, <2>1 DEF ComposerInv, TxsOK
    <3> QED
      BY <1>8, <2>1, <3>1 DEF ComposerInv, TxsOK
  <2>2. CASE i = Len(txs')
    <3>1. txs'[i] = tx /\ Len(told) \in 1..Len(told)
      BY <1>1, <1>5, <1>7, <2>2
    <3>2. told'[tx.n] = word
      BY <1>3, <1>8, <3>1
    <3> QED
      BY <1>3, <1>7, <3>1, <3>2 DEF Says
  <2> QED
    BY <1>5, <2>1, <2>2
<1>10. \A i, j \in 1..Len(txs') : txs'[i].n = txs'[j].n => i = j
  BY <1>3, <1>5, <1>7 DEF ComposerInv, TxsOK
<1>11. TxsOK'
  BY <1>8, <1>9, <1>10 DEF TxsOK
<1>12. CASE write' = Idle
  <2>1. WriteOK'
    BY <1>12, IdleWrite DEF WriteOK, Unsent, Sending
  <2> QED
    BY <1>1, <1>5, <1>8, <1>11, <1>12, <2>1 DEF ComposerInv, ComposerTypes
<1>13. CASE word = "waiting" /\ write' = [write EXCEPT !.at = "confirming"]
  <2>1. /\ write' \in WriteUnderWay /\ write'.at = "confirming"
        /\ write'.what = write.what /\ write'.changed = write.changed
    BY <1>1, <1>13 DEF WriteUnderWay, Sending
  <2>2. told'[Len(told')] = "waiting" /\ Len(told') > 0
    BY <1>1, <1>7, <1>8, <1>13
  <2>3. WriteOK'
    BY <1>1, <1>3, <1>5, <1>7, <1>8, <2>1, <2>2 DEF WriteOK, Unsent
  <2> QED
    BY <1>1, <1>5, <1>8, <1>11, <2>1, <2>3 DEF ComposerInv, ComposerTypes
<1> QED
  BY <1>12, <1>13

LEMMA SignStep ==
  ASSUME ComposerInv, Sign \/ AnswerLost
  PROVE  ComposerInv'
<1>1. write # Idle /\ Broadcasts
  BY IdleWrite DEF Sign, AnswerLost, Broadcasts, Idle
<1>2. CASE Sign
  <2>1. told \in Seq(Words) /\ Len(told) \in Nat /\ Len(told) > 0 /\ told[Len(told)] = "waiting"
    BY <1>1 DEF ComposerInv, ComposerTypes, WriteOK
  <2>2. told' = [told EXCEPT ![Len(told)] = "waiting"]
    BY <1>2, <2>1 DEF Sign
  <2>3. write' = [write EXCEPT !.at = "confirming"]
    BY <1>2 DEF Sign
  <2> QED
    BY <1>1, <2>2, <2>3, WalletSends
<1>3. CASE AnswerLost
  <2>1. write' = Idle /\ told' = [told EXCEPT ![Len(told)] = "refused"]
    BY <1>3 DEF AnswerLost, Ends, Tell, Current
  <2> QED
    BY <1>1, <2>1, WalletSends
<1> QED
  BY <1>2, <1>3

(* A transaction's fate is decided once. *)
LEMMA MineStep ==
  ASSUME ComposerInv, NEW i \in 1..Len(txs), MineWrite(i)
  PROVE  ComposerInv'
<1>1. /\ txs \in Seq(Tx) /\ txs[i] \in Tx /\ Len(txs) \in Nat /\ UNCHANGED <<write, told, account>>
      /\ txs[i].fate = "pending"
  BY ElementOfSeq DEF ComposerInv, ComposerTypes, MineWrite, World
<1>2. PICK fate \in {"reverted", "mined"} : txs' = [txs EXCEPT ![i].fate = fate]
  BY DEF MineWrite
<1>3. PICK tx : tx = [txs[i] EXCEPT !.fate = fate]
  OBVIOUS
<1>4. /\ tx \in Tx /\ tx.n = txs[i].n /\ tx.what = txs[i].what /\ tx.changed = txs[i].changed
  BY <1>1, <1>3 DEF Tx
<1>5. txs' = [txs EXCEPT ![i] = tx]
  BY <1>1, <1>2, <1>3
<1>6. /\ txs' \in Seq(Tx) /\ Len(txs') = Len(txs)
      /\ \A j \in 1..Len(txs) : txs'[j] = IF j = i THEN tx ELSE txs[j]
  BY <1>1, <1>4, <1>5, ExceptSeq
<1>7. Says(tx, told[tx.n])
  BY <1>1, <1>4 DEF ComposerInv, TxsOK, Says
<1>8. TxsOK'
  BY <1>1, <1>4, <1>6, <1>7 DEF ComposerInv, TxsOK
<1>9. WriteOK'
  BY <1>1, <1>4, <1>6 DEF ComposerInv, WriteOK
<1> QED
  BY <1>1, <1>6, <1>8, <1>9 DEF ComposerInv, ComposerTypes

LEMMA ReceiptSteps ==
  ASSUME ComposerInv, Confirmed \/ ReceiptTimesOut \/ Nudged
  PROVE  ComposerInv'
<1>1. /\ write \in WriteUnderWay /\ write.at \in Sending /\ UNCHANGED <<txs, World>>
      /\ write # Idle /\ Len(txs) > 0 /\ txs[Len(txs)].n = Len(told) /\ Len(txs) \in Nat
  BY IdleWrite DEF Confirmed, ReceiptTimesOut, Nudged, ComposerInv, ComposerTypes, WriteOK, Sending
<1>2. \A i \in 1..Len(txs) : txs[i].n = Len(told) => i = Len(txs)
  BY <1>1 DEF ComposerInv, TxsOK
<1>3. ASSUME NEW word \in Words, Ends(word), Says(txs[Len(txs)], word)
      PROVE  ComposerInv'
  BY <1>1, <1>2, <1>3, EndsOK
<1>4. CASE ReceiptTimesOut
  BY <1>3, <1>4 DEF ReceiptTimesOut, Says, Words
<1>5. CASE Nudged
  <2>1. txs[Len(txs)].fate = "mined" /\ Ends("done")
    BY <1>5 DEF Nudged, ComposerInv, WriteOK
  <2> QED
    BY <1>3, <2>1 DEF Says, Words
<1>6. CASE Confirmed
  <2>1. CASE txs[Len(txs)].fate = "reverted" /\ Ends("reverted")
    BY <1>3, <2>1 DEF Says, Words
  <2>2. CASE txs[Len(txs)].fate = "mined" /\ Ends("done")
    BY <1>3, <2>2 DEF Says, Words
  <2>3. CASE /\ txs[Len(txs)].fate = "mined"
             /\ write' = [write EXCEPT !.at = "syncing"] /\ told' = told
    <3>1. write' \in WriteUnderWay /\ write'.at = "syncing" /\ write.at = "confirming"
      BY <1>1, <1>6, <2>3 DEF Confirmed, WriteUnderWay, Sending
    <3> QED
      BY <1>1, <2>3, <3>1, GoesOn DEF Unsent
  <2> QED
    BY <1>6, <2>1, <2>2, <2>3 DEF Confirmed
<1> QED
  BY <1>4, <1>5, <1>6

LEMMA ComposerStepOK == ComposerInv /\ [ComposerNext]_composerVars => ComposerInv'
<1> SUFFICES ASSUME ComposerInv, [ComposerNext]_composerVars PROVE ComposerInv'
  OBVIOUS
<1>1. ASSUME UNCHANGED <<write, txs, told>>, account' \in Accounts \cup {NoAccount}
      PROVE  ComposerInv'
  BY <1>1 DEF ComposerInv, ComposerTypes, TxsOK, WriteOK
<1>2. CASE \/ \E a \in Accounts \cup {NoAccount} : SwitchWallet(a)
           \/ PauseOrUnpause \/ Settles \/ LogsIndexed \/ PollTask \/ UNCHANGED composerVars
  <2>1. account' \in Accounts \cup {NoAccount}
    BY <1>2 DEF SwitchWallet, PauseOrUnpause, Settles, LogsIndexed, PollTask, composerVars,
                ComposerInv, ComposerTypes
  <2>2. UNCHANGED <<write, txs, told>>
    BY <1>2 DEF SwitchWallet, PauseOrUnpause, Settles, LogsIndexed, PollTask, composerVars
  <2> QED
    BY <1>1, <2>1, <2>2
<1> QED
  BY <1>2, ClickStep, PreparationSteps, SignStep, MineStep, ReceiptSteps DEF ComposerNext

(* Whatever the API answers, and however the wallet is switched meanwhile,   *)
(* what a user is told of a write is true of the transaction it became.      *)
THEOREM ToldTruly == ComposerSpec => []ToldIsTrue
<1>1. ComposerInv => ToldIsTrue
  BY DEF ComposerInv, TxsOK, Says, AsTyped, ToldIsTrue
<1> QED
  BY ComposerInitOK, ComposerStepOK, <1>1, PTL DEF ComposerSpec

-----------------------------------------------------------------------------
(***************************************************************************)
(* The sender, for any number of loops that share the key, tries and tips: *)
(* no send is refused for a nonce that another loop of the same process    *)
(* holds, and no loop takes another's receipt for its own.                 *)
(***************************************************************************)

SendStages == {"idle", "reading", "read", "simulated", "signed", "waiting", "sent", "reverted",
        "unavailable", "refused"}

Sends == [at : SendStages, nonce : Nat, tip : Nat, tries : Nat]

SenderShape ==
  /\ outgoing \in [Senders -> Sends]
  /\ given \in Nat
  /\ DOMAIN mempool \subseteq 1..given /\ DOMAIN minedTxs \subseteq 1..given

(* What is mined is no longer in the mempool.                               *)
Apart == DOMAIN mempool \cap DOMAIN minedTxs = {}

(* A nonce that is given and not broadcast is its loop's alone; the tip is    *)
(* one that the node takes.                                                  *)
Signed(l) ==
  /\ outgoing[l].at \in {"simulated", "signed"} => outgoing[l].tip >= MIN_PRIORITY_FEE
  /\ outgoing[l].at = "signed" =>
       /\ outgoing[l].nonce \in 1..given
       /\ outgoing[l].nonce \notin DOMAIN mempool \cup DOMAIN minedTxs
       /\ \A k \in Senders : outgoing[k].at = "signed" /\ outgoing[k].nonce = outgoing[l].nonce
                               => k = l

(* What a loop waits for is its own, mined or not.                           *)
Waits(l) ==
  /\ outgoing[l].at = "waiting" =>
       LET n == outgoing[l].nonce
       IN \/ n \in DOMAIN mempool /\ mempool[n].loop = l
          \/ n \in DOMAIN minedTxs /\ minedTxs[n].loop = l
  /\ outgoing[l].at = "sent" =>
       outgoing[l].nonce \in DOMAIN minedTxs /\ minedTxs[outgoing[l].nonce].loop = l
  /\ outgoing[l].at # "refused"

NonceInv == SenderShape /\ Apart /\ \A l \in Senders : Signed(l) /\ Waits(l)

(* The larger of two numbers. *)
LEMMA MaxOfTwo ==
  ASSUME NEW a \in Nat, NEW b \in Nat
  PROVE  Max({a, b}) \in {a, b} /\ Max({a, b}) >= a /\ Max({a, b}) >= b
<1>1. \E m \in {a, b} : \A y \in {a, b} : m >= y
  <2>1. CASE a >= b BY <2>1
  <2>2. CASE b >= a BY <2>2
  <2> QED BY <2>1, <2>2
<1> QED BY <1>1 DEF Max

(* A fresh nonce is above all that were given. *)
LEMMA NonceIsFresh == SenderShape => NextNonce \in Nat /\ NextNonce > given
<1> SUFFICES ASSUME SenderShape PROVE NextNonce \in Nat /\ NextNonce > given
  OBVIOUS
<1>1. IsFiniteSet(1..given) BY FS_Interval DEF SenderShape
<1>2. IsFiniteSet(DOMAIN mempool) /\ IsFiniteSet(DOMAIN minedTxs)
  BY <1>1, FS_Subset DEF SenderShape
<1>3. PendingTx \in Nat BY <1>2, FS_CardinalityType DEF PendingTx
<1> QED BY <1>3, MaxOfTwo DEF NextNonce, SenderShape

(* A loop's send moves, and the tables do not: what holds of the others still *)
(* holds, and what must hold of it is this.                                  *)
LEMMA SendMoves ==
  ASSUME NonceInv, NEW l \in Senders, NEW send \in Sends,
         outgoing' = [outgoing EXCEPT ![l] = send],
         UNCHANGED <<given, mempool, minedTxs>>,
         send.at \notin {"signed", "waiting", "refused"},
         send.at = "simulated" => send.tip >= MIN_PRIORITY_FEE,
         send.at = "sent" => /\ outgoing[l].at = "waiting" /\ send.nonce = outgoing[l].nonce
                             /\ send.nonce \in DOMAIN minedTxs
  PROVE  NonceInv'
<1>1. SenderShape' /\ Apart' BY DEF NonceInv, SenderShape, Apart
<1>2. ASSUME NEW k \in Senders PROVE Signed(k)' /\ Waits(k)'
  BY DEF NonceInv, SenderShape, Apart, Signed, Waits
<1> QED BY <1>1, <1>2 DEF NonceInv

(* The steps of a send up to its nonce and after its broadcast. *)
LEMMA OwnSteps ==
  ASSUME NonceInv, NEW l \in Senders,
         \/ StartSend(l) \/ ReadContract(l) \/ Simulate(l) \/ ReceiptFound(l)
         \/ ReceiptDeadline(l)
  PROVE  NonceInv'
<1> USE DEF SendIs, node
<1>1. outgoing[l] \in Sends BY DEF NonceInv, SenderShape
<1>2. CASE StartSend(l)
  <2>1. NoSend \in Sends BY DEF NoSend, Sends, SendStages
  <2>2. [NoSend EXCEPT !.at = "reading"] \in Sends BY <2>1 DEF Sends, SendStages
  <2>3. [NoSend EXCEPT !.at = "reading"].at = "reading" BY <2>1 DEF Sends
  <2> QED BY <1>2, <2>2, <2>3, SendMoves DEF StartSend
<1>3. CASE ReadContract(l)
  <2>1. PICK send \in Sends : /\ send.at \in {"read", "reading", "unavailable"}
                              /\ outgoing' = [outgoing EXCEPT ![l] = send]
    <3>1. CASE outgoing' = [outgoing EXCEPT ![l] = [outgoing[l] EXCEPT !.at = "read"]]
      BY <1>1, <3>1 DEF Sends, SendStages
    <3>2. CASE \E at \in {"reading", "unavailable"} : outgoing' =
                 [outgoing EXCEPT ![l] = [outgoing[l] EXCEPT !.tries = @ + 1, !.at = at]]
      <4>1. PICK at \in {"reading", "unavailable"} : outgoing' =
                 [outgoing EXCEPT ![l] =
                    [outgoing[l] EXCEPT !.tries = outgoing[l].tries + 1, !.at = at]]
        BY <3>2
      <4>2. outgoing[l].tries + 1 \in Nat BY <1>1 DEF Sends
      <4> QED BY <1>1, <4>1, <4>2 DEF Sends, SendStages
    <3> QED BY <1>1, <1>3, <3>1, <3>2 DEF ReadContract, Sends
  <2> QED BY <1>3, <2>1, SendMoves DEF ReadContract
<1>4. CASE Simulate(l)
  <2>1. \A suggested \in SuggestedTips :
          Tip(suggested) \in Nat /\ Tip(suggested) >= MIN_PRIORITY_FEE
    BY MaxOfTwo, SenderAssumption DEF Tip
  <2>2. PICK send \in Sends : /\ send.at \in {"simulated", "reverted", "unavailable"}
                              /\ send.at = "simulated" => send.tip >= MIN_PRIORITY_FEE
                              /\ outgoing' = [outgoing EXCEPT ![l] = send]
    <3>1. CASE outgoing' = [outgoing EXCEPT ![l] = [outgoing[l] EXCEPT !.at = "unavailable"]]
      BY <1>1, <3>1 DEF Sends, SendStages
    <3>2. CASE \E suggested \in SuggestedTips, at \in {"simulated", "reverted"} : outgoing' =
                 [outgoing EXCEPT ![l] =
                    [outgoing[l] EXCEPT !.tip = Tip(suggested), !.at = at]]
      BY <1>1, <2>1, <3>2 DEF Sends, SendStages
    <3> QED BY <1>4, <3>1, <3>2 DEF Simulate
  <2> QED BY <1>4, <2>2, SendMoves DEF Simulate
<1>5. CASE ReceiptFound(l)
  <2>1. PICK at \in {"sent", "reverted"} :
          outgoing' = [outgoing EXCEPT ![l] = [outgoing[l] EXCEPT !.at = at]]
    BY <1>5 DEF ReceiptFound
  <2> DEFINE send == [outgoing[l] EXCEPT !.at = at]
  <2>2. send \in Sends /\ send.at = at /\ send.nonce = outgoing[l].nonce
    BY <1>1, <2>1 DEF Sends, SendStages
  <2>3. outgoing' = [outgoing EXCEPT ![l] = send] BY <2>1
  <2> HIDE DEF send
  <2> QED BY <1>5, <2>2, <2>3, SendMoves DEF ReceiptFound
<1>6. CASE ReceiptDeadline(l)
  <2> DEFINE send == [outgoing[l] EXCEPT !.at = "unavailable"]
  <2>1. send \in Sends /\ send.at = "unavailable" BY <1>1 DEF Sends, SendStages
  <2>2. outgoing' = [outgoing EXCEPT ![l] = send] BY <1>6 DEF ReceiptDeadline
  <2> HIDE DEF send
  <2> QED BY <1>6, <2>1, <2>2, SendMoves DEF ReceiptDeadline
<1> QED BY <1>2, <1>3, <1>4, <1>5, <1>6

(* The nonce manager's number is nobody else's. *)
LEMMA TakeStep ==
  ASSUME NonceInv, NEW l \in Senders, TakeNonce(l)
  PROVE  NonceInv'
<1> USE DEF NonceInv, TakeNonce, SendIs, node
<1>1. NextNonce \in Nat /\ NextNonce > given BY NonceIsFresh
<1>2. /\ outgoing' = [outgoing EXCEPT ![l] = [outgoing[l] EXCEPT !.at = "signed", !.nonce = NextNonce]]
      /\ given' = NextNonce /\ UNCHANGED <<mempool, minedTxs>>
      /\ outgoing[l].at = "simulated"
  OBVIOUS
<1>3. [outgoing[l] EXCEPT !.at = "signed", !.nonce = NextNonce] \in Sends
  BY <1>1 DEF SenderShape, Sends, SendStages
<1>4. SenderShape' /\ Apart' BY <1>1, <1>2, <1>3 DEF SenderShape, Apart
<1>5. ASSUME NEW k \in Senders PROVE Signed(k)' /\ Waits(k)'
  BY <1>1, <1>2 DEF SenderShape, Sends, Signed, Waits
<1> QED BY <1>4, <1>5

(* A broadcast that the node takes puts the loop's own transaction there. *)
LEMMA BroadcastStep ==
  ASSUME NonceInv, NEW l \in Senders, BroadcastTx(l)
  PROVE  NonceInv'
<1> USE DEF NonceInv
<1> DEFINE n == outgoing[l].nonce
           tx == [loop |-> l, tip |-> outgoing[l].tip]
<1>1. Accepted(l) /\ n \in 1..given
  BY DEF BroadcastTx, Signed, Accepted
<1>2. PICK at \in {"unavailable", "waiting"} :
        /\ outgoing' = [outgoing EXCEPT ![l] = [outgoing[l] EXCEPT !.at = at]]
        /\ \/ mempool' = Filed(mempool, n, tx)
           \/ mempool' = mempool /\ at = "unavailable"
        /\ UNCHANGED <<given, minedTxs>>
  BY <1>1 DEF BroadcastTx, SendIs
<1>3. \/ /\ DOMAIN mempool' = DOMAIN mempool \cup {n} /\ mempool'[n].loop = l
         /\ \A x \in DOMAIN mempool : mempool'[x] = mempool[x]
      \/ mempool' = mempool /\ at = "unavailable"
  BY <1>1, <1>2 DEF Filed, Accepted
<1>4. SenderShape' /\ Apart' BY <1>1, <1>2, <1>3 DEF SenderShape, Apart, Sends, SendStages, Accepted
<1>5. outgoing[l].at = "signed" BY DEF BroadcastTx
<1>6. ASSUME NEW k \in Senders PROVE Signed(k)' /\ Waits(k)'
  <2>1. CASE k = l BY <1>2, <1>3, <2>1 DEF SenderShape, Sends, Signed, Waits
  <2>2. CASE k # l
    BY <1>1, <1>2, <1>3, <1>5, <2>2 DEF SenderShape, Sends, Signed, Waits, Accepted
  <2> QED BY <2>1, <2>2
<1> QED BY <1>4, <1>6

(* Mining moves a transaction from one table to the other. *)
LEMMA SentMineStep == NonceInv /\ MineNext => NonceInv'
<1> SUFFICES ASSUME NonceInv, MineNext PROVE NonceInv'
  OBVIOUS
<1> USE DEF NonceInv
<1> DEFINE n == Cardinality(DOMAIN minedTxs) + 1
           tx == [loop |-> mempool[n].loop, ok |-> ~Done]
<1>1. /\ n \in DOMAIN mempool /\ minedTxs' = Filed(minedTxs, n, tx)
      /\ mempool' = Restrict(mempool, DOMAIN mempool \ {n})
      /\ UNCHANGED <<outgoing, given>>
  BY DEF MineNext
<1> HIDE DEF n
<1>2. n \notin DOMAIN minedTxs BY <1>1 DEF Apart
<1>3. /\ DOMAIN minedTxs' = DOMAIN minedTxs \cup {n} /\ minedTxs'[n].loop = mempool[n].loop
      /\ \A x \in DOMAIN minedTxs : minedTxs'[x] = minedTxs[x]
  BY <1>1, <1>2 DEF Filed
<1>4. /\ DOMAIN mempool' = DOMAIN mempool \ {n}
      /\ \A x \in DOMAIN mempool' : mempool'[x] = mempool[x]
  BY <1>1 DEF Restrict
<1>5. SenderShape' /\ Apart' BY <1>1, <1>3, <1>4 DEF SenderShape, Apart
<1>6. ASSUME NEW k \in Senders PROVE Signed(k)' /\ Waits(k)'
  BY <1>1, <1>3, <1>4 DEF Signed, Waits
<1> QED BY <1>5, <1>6

(* "One key is shared by more than one loop": with the nonce manager none of  *)
(* them loses a settlement to a race with another of the same process.        *)
THEOREM OneKeyIsEnough == SenderSpec => []NeverLostToItself
<1>1. SenderInit => NonceInv
  BY SenderAssumption
     DEF SenderInit, NonceInv, SenderShape, Sends, Apart, Signed, Waits, NoSend, SendStages
<1>2. NonceInv /\ [SenderNext]_senderVars => NonceInv'
  <2>1. ASSUME NonceInv, UNCHANGED senderVars PROVE NonceInv'
    BY <2>1 DEF senderVars, node, NonceInv, SenderShape, Apart, Signed, Waits
  <2> QED BY <2>1, OwnSteps, TakeStep, BroadcastStep, SentMineStep DEF SenderNext
<1>3. NonceInv => NeverLostToItself
  BY DEF NonceInv, Waits, NeverLostToItself
<1> QED BY <1>1, <1>2, <1>3, PTL DEF SenderSpec

-----------------------------------------------------------------------------
(***************************************************************************)
(* The detail of a task, for any verifiers and any losses: it shows every  *)
(* report that its row counts, although row, chain and report rows are     *)
(* read one after the other.                                               *)
(***************************************************************************)

Levels == [Verifiers -> 0..2]
AtLeast(S, reports, level) == {v \in S : reports[v] >= level}

(* What a struct counted is among the reports of S.                          *)
Within(t, S, reports) ==
  /\ t.committed \in Nat /\ t.committed <= Cardinality(AtLeast(S, reports, 1))
  /\ t.revealed \in Nat /\ t.revealed <= Cardinality(AtLeast(S, reports, 2))

ViewTypes ==
  /\ onchain = [status |-> onchain.status, outcome |-> onchain.outcome, reports |-> onchain.reports,
                disputed |-> onchain.disputed, logs |-> onchain.logs]
  /\ onchain.reports \in Levels
  /\ row = [tasks |-> row.tasks, reports |-> row.reports, consensus |-> row.consensus,
            disputed |-> row.disputed]
  /\ sync = [at |-> sync.at, task |-> sync.task, reports |-> sync.reports]
  /\ detail = [at |-> detail.at, row |-> detail.row, known |-> detail.known, rows |-> detail.rows,
               reports |-> detail.reports, answered |-> detail.answered, lost |-> detail.lost]
  /\ detail.known \subseteq Verifiers

ViewInv ==
  /\ ViewTypes
  /\ Within(row.tasks, Verifiers, onchain.reports)
  /\ Within(sync.task, Verifiers, onchain.reports)
  /\ detail.at = "row" => Within(detail.row, Verifiers, onchain.reports)
  /\ (detail.at \in {"chain", "rows"} /\ ~detail.lost) => Within(detail.row, detail.known, onchain.reports)
  /\ (detail.at = "shown" /\ ~detail.lost) => Within(detail.row, Verifiers, detail.reports)

LEMMA LevelsCount ==
  ASSUME NEW S \in SUBSET Verifiers, NEW reports, NEW level
  PROVE  /\ IsFiniteSet(AtLeast(S, reports, level))
         /\ Cardinality(AtLeast(S, reports, level)) \in Nat
<1>1. AtLeast(S, reports, level) \subseteq Verifiers
  BY DEF AtLeast
<1> QED
  BY <1>1, TaskViewAssumption, FS_Subset, FS_CardinalityType

(* A report never goes back, so what was counted stays counted.              *)
LEMMA StaysWithin ==
  ASSUME NEW S \in SUBSET Verifiers, NEW T \in SUBSET Verifiers, S \subseteq T,
         NEW old, NEW new, NEW t, Within(t, S, old),
         \A v \in S, level \in {1, 2} : old[v] >= level => new[v] >= level
  PROVE  Within(t, T, new)
<1>1. \A level \in {1, 2} : AtLeast(S, old, level) \subseteq AtLeast(T, new, level)
  BY DEF AtLeast
<1>2. \A level \in {1, 2} : Cardinality(AtLeast(S, old, level)) <= Cardinality(AtLeast(T, new, level))
  BY <1>1, LevelsCount, FS_Subset
<1>3. \A level \in {1, 2} : /\ Cardinality(AtLeast(S, old, level)) \in Nat
                            /\ Cardinality(AtLeast(T, new, level)) \in Nat
  BY LevelsCount
<1> QED
  BY <1>2, <1>3 DEF Within

LEMMA GetTaskWithin == Within(GetTask, Verifiers, onchain.reports)
<1>1. \A level \in {1, 2} : Count(onchain.reports, level) = Cardinality(AtLeast(Verifiers, onchain.reports, level))
  BY DEF Count, AtLeast
<1>2. \A level \in {1, 2} : Cardinality(AtLeast(Verifiers, onchain.reports, level)) \in Nat
  BY LevelsCount
<1> QED
  BY <1>1, <1>2 DEF GetTask, Within

LEMMA AbsentWithin == ASSUME NEW reports PROVE Within(Absent, Verifiers, reports)
<1>1. \A level \in {1, 2} : Cardinality(AtLeast(Verifiers, reports, level)) \in Nat
  BY LevelsCount
<1> QED
  BY <1>1 DEF Absent, Within

LEMMA ViewInitOK == ViewInit => ViewInv
<1> SUFFICES ASSUME ViewInit PROVE ViewInv
  OBVIOUS
<1>1. Silent \in Levels
  BY DEF Silent, Levels
<1>2. ViewTypes
  BY <1>1 DEF ViewInit, ViewTypes, NoTaskRow, NoSync, NoDetail
<1>3. row.tasks = Absent /\ sync.task = Absent /\ detail.at = "idle"
  BY DEF ViewInit, NoTaskRow, NoSync, NoDetail
<1> QED
  BY <1>2, <1>3, AbsentWithin DEF ViewInv

(* The contract moves: reports are committed and revealed, none is unmade.   *)
LEMMA StructSteps ==
  ASSUME ViewInv, UNCHANGED <<dbVars, apiVars>>,
         onchain' = [status |-> onchain'.status, outcome |-> onchain'.outcome, reports |-> onchain'.reports,
                     disputed |-> onchain'.disputed, logs |-> onchain'.logs],
         onchain'.reports \in Levels,
         \A v \in Verifiers : onchain.reports[v] <= onchain'.reports[v]
  PROVE  ViewInv'
<1>1. UNCHANGED <<row, sync, detail>>
  BY DEF dbVars, apiVars
<1>2. ViewTypes'
  BY <1>1 DEF ViewInv, ViewTypes
<1>3. \A v \in Verifiers : onchain.reports[v] \in 0..2 /\ onchain'.reports[v] \in 0..2
  BY DEF ViewInv, ViewTypes, Levels
<1>4. \A v \in Verifiers, level \in {1, 2} : onchain.reports[v] >= level => onchain'.reports[v] >= level
  BY <1>3
<1>5. ASSUME NEW S \in SUBSET Verifiers, NEW t, Within(t, S, onchain.reports)
      PROVE  Within(t, S, onchain'.reports)
  BY <1>4, <1>5, StaysWithin
<1>6. Within(row.tasks, Verifiers, onchain'.reports) /\ Within(sync.task, Verifiers, onchain'.reports)
  BY <1>5 DEF ViewInv
<1>7. detail.at = "row" => Within(detail.row, Verifiers, onchain'.reports)
  BY <1>5 DEF ViewInv
<1>8. (detail.at \in {"chain", "rows"} /\ ~detail.lost) => Within(detail.row, detail.known, onchain'.reports)
  BY <1>5 DEF ViewInv, ViewTypes
<1> QED
  BY <1>1, <1>2, <1>6, <1>7, <1>8 DEF ViewInv, Within

LEMMA ContractSteps ==
  ASSUME ViewInv,
         \/ \E v \in Verifiers : CommitReport(v) \/ RevealReport(v)
         \/ CancelTask \/ FinalizeConsensus \/ ExpireTask \/ FinalizeTask
         \/ OpenChallenge \/ ResolveChallenge
  PROVE  ViewInv'
<1>1. PICK c : c = onchain
  OBVIOUS
<1>2. c = [status |-> c.status, outcome |-> c.outcome, reports |-> c.reports, disputed |-> c.disputed, logs |-> c.logs]
      /\ c.reports \in Levels
  BY <1>1 DEF ViewInv, ViewTypes
<1>3. ASSUME NEW changes, NEW name, NEW actor, Emits(changes, name, actor),
             changes = [status |-> changes.status, outcome |-> changes.outcome, reports |-> changes.reports,
                        disputed |-> changes.disputed, logs |-> changes.logs],
             changes.reports \in Levels,
             \A v \in Verifiers : c.reports[v] <= changes.reports[v]
      PROVE  ViewInv'
  <2>1. PICK new : new = onchain'
    OBVIOUS
  <2>2. new = [status |-> new.status, outcome |-> new.outcome, reports |-> changes.reports,
               disputed |-> new.disputed, logs |-> new.logs]
    BY <1>3, <2>1 DEF Emits
  <2>3. UNCHANGED <<dbVars, apiVars>>
    BY <1>3 DEF Emits
  <2> QED
    BY <1>1, <1>3, <2>1, <2>2, <2>3, StructSteps
<1>4. ASSUME NEW changes, NEW name, NEW actor, Emits(changes, name, actor),
             changes = [status |-> changes.status, outcome |-> changes.outcome, reports |-> c.reports,
                        disputed |-> changes.disputed, logs |-> changes.logs]
      PROVE  ViewInv'
  BY <1>2, <1>3, <1>4 DEF Levels
<1>5. ASSUME NEW v \in Verifiers, CommitReport(v) \/ RevealReport(v)
      PROVE  ViewInv'
  <2>1. \/ /\ Emits([c EXCEPT !.reports[v] = 1, !.status = "Committing"], "ReportCommitted", v)
           /\ c.reports[v] < 1
        \/ /\ Emits([c EXCEPT !.reports[v] = 2, !.status = "Revealing"], "ReportRevealed", v)
           /\ c.reports[v] < 2
    <3>1. CASE CommitReport(v)
      <4>1. Emits([c EXCEPT !.reports[v] = 1, !.status = "Committing"], "ReportCommitted", v)
        <5>1. Emits([onchain EXCEPT !.reports[v] = 1, !.status = "Committing"], "ReportCommitted", v)
          BY <3>1 DEF CommitReport
        <5> QED
          BY <1>1, <5>1
      <4>2. c.reports[v] < 1
        <5>1. onchain.reports[v] = 0
          BY <3>1 DEF CommitReport
        <5> QED
          BY <1>1, <5>1
      <4> QED
        BY <4>1, <4>2
    <3>2. CASE RevealReport(v)
      <4>1. Emits([c EXCEPT !.reports[v] = 2, !.status = "Revealing"], "ReportRevealed", v)
        <5>1. Emits([onchain EXCEPT !.reports[v] = 2, !.status = "Revealing"], "ReportRevealed", v)
          BY <3>2 DEF RevealReport
        <5> QED
          BY <1>1, <5>1
      <4>2. c.reports[v] < 2
        <5>1. onchain.reports[v] = 1
          BY <3>2 DEF RevealReport
        <5> QED
          BY <1>1, <5>1
      <4> QED
        BY <4>1, <4>2
    <3> QED
      BY <1>5, <3>1, <3>2
  <2>2. PICK level, status, name, changes :
           /\ level \in {1, 2} /\ changes = [c EXCEPT !.reports[v] = level, !.status = status]
           /\ Emits(changes, name, v) /\ c.reports[v] < level
    BY <2>1
  <2>3. /\ changes = [status |-> changes.status, outcome |-> changes.outcome, reports |-> changes.reports,
                      disputed |-> changes.disputed, logs |-> changes.logs]
        /\ changes.reports = [c.reports EXCEPT ![v] = level]
    BY <1>2, <2>2
  <2>4. changes.reports \in Levels /\ \A w \in Verifiers : c.reports[w] <= changes.reports[w]
    BY <1>2, <2>2, <2>3 DEF Levels
  <2> QED
    BY <1>3, <2>2, <2>3, <2>4
<1>6. CASE \/ CancelTask \/ FinalizeConsensus \/ ExpireTask \/ FinalizeTask
           \/ OpenChallenge \/ ResolveChallenge
  <2>1. PICK changes, name : /\ Emits(changes, name, NoOne)
                             /\ changes = [status |-> changes.status, outcome |-> changes.outcome,
                                           reports |-> c.reports, disputed |-> changes.disputed,
                                           logs |-> changes.logs]
    <3>1. CASE CancelTask
      <4>1. PICK changes : changes = [c EXCEPT !.status = "Cancelled", !.outcome = "Cancelled"]
        OBVIOUS
      <4>2. changes = [status |-> changes.status, outcome |-> changes.outcome, reports |-> c.reports,
                       disputed |-> changes.disputed, logs |-> changes.logs]
        BY <1>2, <4>1
      <4>3. Emits(changes, "TaskFinalized", NoOne)
        BY <1>1, <3>1, <4>1 DEF CancelTask
      <4> QED
        BY <4>2, <4>3
    <3>2. CASE FinalizeConsensus
      <4>1. PICK changes : changes = [c EXCEPT !.status = "Consensus", !.outcome = row.consensus]
        OBVIOUS
      <4>2. changes = [status |-> changes.status, outcome |-> changes.outcome, reports |-> c.reports,
                       disputed |-> changes.disputed, logs |-> changes.logs]
        BY <1>2, <4>1
      <4>3. Emits(changes, "ConsensusReached", NoOne)
        BY <1>1, <3>2, <4>1 DEF FinalizeConsensus
      <4> QED
        BY <4>2, <4>3
    <3>3. CASE ExpireTask
      <4>1. PICK changes : changes = [c EXCEPT !.status = "Expired", !.outcome = "NO_QUORUM"]
        OBVIOUS
      <4>2. changes = [status |-> changes.status, outcome |-> changes.outcome, reports |-> c.reports,
                       disputed |-> changes.disputed, logs |-> changes.logs]
        BY <1>2, <4>1
      <4>3. Emits(changes, "TaskFinalized", NoOne)
        BY <1>1, <3>3, <4>1 DEF ExpireTask
      <4> QED
        BY <4>2, <4>3
    <3>4. CASE FinalizeTask
      <4>1. PICK changes : changes = [c EXCEPT !.status = "Finalized"]
        OBVIOUS
      <4>2. changes = [status |-> changes.status, outcome |-> changes.outcome, reports |-> c.reports,
                       disputed |-> changes.disputed, logs |-> changes.logs]
        BY <1>2, <4>1
      <4>3. Emits(changes, "TaskFinalized", NoOne)
        BY <1>1, <3>4, <4>1 DEF FinalizeTask
      <4> QED
        BY <4>2, <4>3
    <3>5. CASE OpenChallenge
      <4>1. PICK changes : changes = [c EXCEPT !.status = "Disputed", !.disputed = TRUE]
        OBVIOUS
      <4>2. changes = [status |-> changes.status, outcome |-> changes.outcome, reports |-> c.reports,
                       disputed |-> changes.disputed, logs |-> changes.logs]
        BY <1>2, <4>1
      <4>3. Emits(changes, "ChallengeOpened", NoOne)
        BY <1>1, <3>5, <4>1 DEF OpenChallenge
      <4> QED
        BY <4>2, <4>3
    <3>6. CASE ResolveChallenge
      <4>1. PICK outcome : Emits([c EXCEPT !.status = "Finalized", !.outcome = outcome], "TaskFinalized", NoOne)
        BY <1>1, <3>6 DEF ResolveChallenge
      <4>2. PICK changes : changes = [c EXCEPT !.status = "Finalized", !.outcome = outcome]
        OBVIOUS
      <4>3. changes = [status |-> changes.status, outcome |-> changes.outcome, reports |-> c.reports,
                       disputed |-> changes.disputed, logs |-> changes.logs]
        BY <1>2, <4>2
      <4> QED
        BY <4>1, <4>2, <4>3
    <3> QED
      BY <1>6, <3>1, <3>2, <3>3, <3>4, <3>5, <3>6
  <2> QED
    BY <1>4, <2>1
<1> QED
  BY <1>5, <1>6

(* The rows and the sync take over counts read from the chain.               *)
LEMMA RowSteps ==
  ASSUME ViewInv, ProjectLog \/ PersistResult \/ SyncReadsTask \/ SyncReadsReports \/ SyncWrites
  PROVE  ViewInv'
<1>1. PICK old : old = row
  OBVIOUS
<1>2. old = [tasks |-> old.tasks, reports |-> old.reports, consensus |-> old.consensus, disputed |-> old.disputed]
  BY <1>1 DEF ViewInv, ViewTypes
<1>3. PICK before : before = sync
  OBVIOUS
<1>4. before = [at |-> before.at, task |-> before.task, reports |-> before.reports]
  BY <1>3 DEF ViewInv, ViewTypes
<1>5. UNCHANGED <<onchain, detail>>
  BY DEF ProjectLog, PersistResult, SyncReadsTask, SyncReadsReports, SyncWrites, apiVars, dbVars
<1>6. /\ row' = [tasks |-> row'.tasks, reports |-> row'.reports, consensus |-> row'.consensus,
                 disputed |-> row'.disputed]
      /\ row'.tasks \in {old.tasks, before.task, GetTask}
  <2>1. CASE ProjectLog
    <3>1. PICK reports, consensus, disputed :
            row' = [old EXCEPT !.tasks = GetTask, !.reports = reports, !.consensus = consensus,
                               !.disputed = disputed]
      BY <1>1, <2>1 DEF ProjectLog
    <3> QED
      BY <1>2, <3>1
  <2>2. CASE PersistResult
    <3>1. PICK outcome : row' = [old EXCEPT !.consensus = outcome]
      BY <1>1, <2>2 DEF PersistResult
    <3> QED
      BY <1>2, <3>1
  <2>3. CASE SyncWrites
    <3>1. PICK reports : row' = [old EXCEPT !.tasks = before.task, !.reports = reports]
      BY <1>1, <1>3, <2>3 DEF SyncWrites
    <3> QED
      BY <1>2, <3>1
  <2>4. CASE SyncReadsTask \/ SyncReadsReports
    BY <1>1, <1>2, <2>4 DEF SyncReadsTask, SyncReadsReports, dbVars
  <2> QED
    BY <2>1, <2>2, <2>3, <2>4
<1>7. /\ sync' = [at |-> sync'.at, task |-> sync'.task, reports |-> sync'.reports]
      /\ sync'.task \in {Absent, before.task, GetTask}
  <2>1. CASE ProjectLog \/ PersistResult
    BY <1>3, <1>4, <2>1 DEF ProjectLog, PersistResult, apiVars
  <2>2. CASE SyncReadsTask
    <3>1. PICK new : new = [NoSync EXCEPT !.at = "task", !.task = GetTask]
      OBVIOUS
    <3>2. new = [at |-> "task", task |-> GetTask, reports |-> Silent]
      BY <3>1 DEF NoSync
    <3>3. sync' = new
      BY <2>2, <3>1 DEF SyncReadsTask
    <3> QED
      BY <3>2, <3>3
  <2>3. CASE SyncReadsReports
    <3>1. \/ sync' = [before EXCEPT !.at = "read", !.reports = onchain.reports]
          \/ sync' = [before EXCEPT !.at = "read"]
      BY <1>3, <2>3 DEF SyncReadsReports
    <3> QED
      BY <1>4, <3>1
  <2>4. CASE SyncWrites
    BY <2>4 DEF SyncWrites, NoSync
  <2> QED
    BY <2>1, <2>2, <2>3, <2>4
<1>8. ViewTypes'
  BY <1>5, <1>6, <1>7 DEF ViewInv, ViewTypes
<1>9. Within(row'.tasks, Verifiers, onchain.reports) /\ Within(sync'.task, Verifiers, onchain.reports)
  BY <1>1, <1>3, <1>6, <1>7, GetTaskWithin, AbsentWithin DEF ViewInv
<1> QED
  BY <1>5, <1>8, <1>9 DEF ViewInv

(* A detail is answered: the row first, the structs, the rows of the reports.*)
LEMMA DetailSteps ==
  ASSUME ViewInv, LoadTaskRow \/ ReadStructs \/ LoadReportRows \/ BuildReports \/ Answer
  PROVE  ViewInv'
<1>1. UNCHANGED <<onchain, row, sync>>
  BY DEF LoadTaskRow, ReadStructs, LoadReportRows, BuildReports, Answer, dbVars
<1>2. PICK old : old = detail
  OBVIOUS
<1>3. /\ old = [at |-> old.at, row |-> old.row, known |-> old.known, rows |-> old.rows,
                reports |-> old.reports, answered |-> old.answered, lost |-> old.lost]
      /\ old.known \subseteq Verifiers
  BY <1>2 DEF ViewInv, ViewTypes
<1>4. SUFFICES ASSUME NEW new, new = detail'
               PROVE  /\ new = [at |-> new.at, row |-> new.row, known |-> new.known, rows |-> new.rows,
                                reports |-> new.reports, answered |-> new.answered, lost |-> new.lost]
                      /\ new.known \subseteq Verifiers
                      /\ new.at = "row" => Within(new.row, Verifiers, onchain.reports)
                      /\ (new.at \in {"chain", "rows"} /\ ~new.lost) => Within(new.row, new.known, onchain.reports)
                      /\ (new.at = "shown" /\ ~new.lost) => Within(new.row, Verifiers, new.reports)
  <2>1. PICK new : new = detail'
    OBVIOUS
  <2>2. /\ new = [at |-> new.at, row |-> new.row, known |-> new.known, rows |-> new.rows,
                  reports |-> new.reports, answered |-> new.answered, lost |-> new.lost]
        /\ new.known \subseteq Verifiers
        /\ new.at = "row" => Within(new.row, Verifiers, onchain.reports)
        /\ (new.at \in {"chain", "rows"} /\ ~new.lost) => Within(new.row, new.known, onchain.reports)
        /\ (new.at = "shown" /\ ~new.lost) => Within(new.row, Verifiers, new.reports)
    BY <2>1, <1>4
  <2>3. ViewTypes'
    BY <1>1, <2>1, <2>2 DEF ViewInv, ViewTypes
  <2> QED
    BY <1>1, <2>1, <2>2, <2>3 DEF ViewInv
<1>5. CASE LoadTaskRow
  <2>1. PICK task : task = row.tasks
    OBVIOUS
  <2>2. new = [NoDetail EXCEPT !.at = "row", !.row = task]
    BY <1>4, <1>5, <2>1 DEF LoadTaskRow
  <2>3. /\ new = [at |-> new.at, row |-> new.row, known |-> new.known, rows |-> new.rows,
                  reports |-> new.reports, answered |-> new.answered, lost |-> new.lost]
        /\ new.at = "row" /\ new.row = task /\ new.known = {}
    BY <2>2 DEF NoDetail
  <2> QED
    BY <2>1, <2>3 DEF ViewInv
<1>6. CASE ReadStructs
  <2>1. old.at = "row" /\ Within(old.row, Verifiers, onchain.reports)
    BY <1>2, <1>6 DEF ReadStructs, ViewInv
  <2>2. \/ \E known : /\ new = [old EXCEPT !.at = "chain", !.known = known]
                      /\ known = {v \in Verifiers : onchain.reports[v] > 0}
        \/ \E ok : new = [old EXCEPT !.at = "chain", !.lost = TRUE, !.answered = ok]
    BY <1>2, <1>4, <1>6 DEF ReadStructs
  <2>3. CASE \E ok : new = [old EXCEPT !.at = "chain", !.lost = TRUE, !.answered = ok]
    BY <1>3, <2>3
  <2>4. CASE \E known : /\ new = [old EXCEPT !.at = "chain", !.known = known]
                        /\ known = {v \in Verifiers : onchain.reports[v] > 0}
    <3>1. PICK known : /\ new = [old EXCEPT !.at = "chain", !.known = known]
                       /\ known = {v \in Verifiers : onchain.reports[v] > 0}
      BY <2>4
    <3>2. /\ new = [at |-> new.at, row |-> new.row, known |-> new.known, rows |-> new.rows,
                    reports |-> new.reports, answered |-> new.answered, lost |-> new.lost]
          /\ new.at = "chain" /\ new.row = old.row /\ new.known = known
      BY <1>3, <3>1
    <3>3. \A v \in Verifiers : onchain.reports[v] \in 0..2
      BY DEF ViewInv, ViewTypes, Levels
    <3>4. \A level \in {1, 2} : AtLeast(known, onchain.reports, level) = AtLeast(Verifiers, onchain.reports, level)
      BY <3>1, <3>3 DEF AtLeast
    <3>5. Within(old.row, known, onchain.reports)
      BY <2>1, <3>4 DEF Within
    <3> QED
      BY <3>1, <3>2, <3>5
  <2> QED
    BY <2>2, <2>3, <2>4
<1>7. CASE LoadReportRows
  <2>1. PICK reports, known : /\ new = [old EXCEPT !.at = "rows", !.rows = reports, !.known = known]
                              /\ known = old.known \cup {v \in Verifiers : row.reports[v] > 0}
    BY <1>2, <1>4, <1>7 DEF LoadReportRows
  <2>2. /\ new = [at |-> new.at, row |-> new.row, known |-> new.known, rows |-> new.rows,
                  reports |-> new.reports, answered |-> new.answered, lost |-> new.lost]
        /\ new.at = "rows" /\ new.row = old.row /\ new.known = known
    BY <1>3, <2>1
  <2>3. new.lost = old.lost
    BY <1>3, <2>1
  <2>4. old.known \subseteq known /\ known \subseteq Verifiers
    BY <1>3, <2>1
  <2>5. ~old.lost => Within(old.row, old.known, onchain.reports)
    BY <1>2, <1>7 DEF LoadReportRows, ViewInv
  <2>6. ~old.lost => Within(old.row, known, onchain.reports)
    BY <1>3, <2>4, <2>5, StaysWithin
  <2> QED
    BY <2>2, <2>3, <2>4, <2>6
<1>8. CASE BuildReports
  <2>1. PICK lost, reports :
          /\ lost \subseteq old.known
          /\ new = [NoDetail EXCEPT !.at = "shown", !.row = old.row, !.lost = old.lost \/ lost # {},
                                    !.reports = reports]
          /\ reports = [v \in Verifiers |->
                           IF v \in old.known \ lost
                           THEN Shown(old.rows, onchain.reports, v) ELSE old.rows[v]]
    BY <1>2, <1>4, <1>8 DEF BuildReports
  <2>2. /\ new = [at |-> new.at, row |-> new.row, known |-> new.known, rows |-> new.rows,
                  reports |-> new.reports, answered |-> new.answered, lost |-> new.lost]
        /\ new.at = "shown" /\ new.row = old.row /\ new.known = {} /\ new.reports = reports
    BY <2>1 DEF NoDetail
  <2>3. new.lost = (old.lost \/ lost # {})
    BY <2>1 DEF NoDetail
  <2>4. ASSUME ~new.lost PROVE Within(new.row, Verifiers, new.reports)
    <3>1. lost = {} /\ ~old.lost
      BY <2>3, <2>4
    <3>2. Within(old.row, old.known, onchain.reports)
      BY <1>2, <1>8, <3>1 DEF BuildReports, ViewInv
    <3>3. \A v \in old.known : reports[v] = onchain.reports[v]
      BY <1>3, <2>1, <3>1 DEF Shown
    <3>4. Within(old.row, Verifiers, reports)
      BY <1>3, <3>2, <3>3, StaysWithin
    <3> QED
      BY <2>2, <3>4
  <2> QED
    BY <2>2, <2>4
<1>9. CASE Answer
  <2>1. new = NoDetail
    BY <1>4, <1>9 DEF Answer
  <2> QED
    BY <2>1 DEF NoDetail
<1> QED
  BY <1>5, <1>6, <1>7, <1>8, <1>9

LEMMA ViewStepOK == ViewInv /\ [ViewNext]_viewVars => ViewInv'
<1>1. ASSUME ViewInv, UNCHANGED viewVars PROVE ViewInv'
  BY <1>1 DEF viewVars, ViewInv, ViewTypes
<1> QED
  BY <1>1, ContractSteps, RowSteps, DetailSteps DEF ViewNext

LEMMA ViewInvariant == ViewSpec => []ViewInv
  BY ViewInitOK, ViewStepOK, PTL DEF ViewSpec

(* A detail shows every commit and reveal its row counts, unless a chain read *)
(* was lost.                                                                  *)
THEOREM DetailCovers == ViewSpec => []CountsAreCovered
<1>1. ASSUME ViewInv PROVE CountsAreCovered
  <2>1. \A level \in {1, 2} : /\ Count(detail.reports, level) = Cardinality(AtLeast(Verifiers, detail.reports, level))
                              /\ Cardinality(AtLeast(Verifiers, detail.reports, level)) \in Nat
    BY LevelsCount DEF Count, AtLeast
  <2> QED
    BY <1>1, <2>1 DEF ViewInv, Within, CountsAreCovered
<1> QED
  BY <1>1, ViewInvariant, PTL

-----------------------------------------------------------------------------
(***************************************************************************)
(* The lists, for any rows, page sizes and filters: who walks a list page  *)
(* by page while its rows change misses none that was there throughout.    *)
(***************************************************************************)

Less == {p \in Nat \X Nat : p[1] < p[2]}

LEMMA LessIs == OpToRel(<, Nat) = Less
  BY DEF OpToRel, Less

(* A set of numbers has a least one.                                         *)
LEMMA LeastOf ==
  ASSUME NEW S \in SUBSET Nat, S # {}
  PROVE  \E n \in S : \A m \in S : n <= m
<1>1. IsWellFoundedOn(Less, Nat)
  BY NatLessThanWellFounded, LessIs
<1>2. PICK x \in S : \A y \in S : <<y, x>> \notin Less
  BY <1>1, WFMin
<1>3. ASSUME NEW m \in S PROVE x <= m
  <2>1. <<m, x>> \in Nat \X Nat /\ <<m, x>>[1] = m /\ <<m, x>>[2] = x
    OBVIOUS
  <2> QED
    BY <1>2, <2>1 DEF Less
<1> QED
  BY <1>3

(* A finite set with a strict order has a first element.                     *)
LEMMA FirstOf ==
  ASSUME NEW S, IsFiniteSet(S), S # {}, NEW R,
         \A x, y \in S : x # y => <<x, y>> \in R \/ <<y, x>> \in R,
         \A x \in S : <<x, x>> \notin R,
         \A x, y, z \in S : <<x, y>> \in R /\ <<y, z>> \in R => <<x, z>> \in R
  PROVE  \E x \in S : \A y \in S \ {x} : <<x, y>> \in R
<1> DEFINE Before(x) == {y \in S : <<y, x>> \in R}
<1>1. \A x \in S : IsFiniteSet(Before(x)) /\ Cardinality(Before(x)) \in Nat
  BY FS_Subset, FS_CardinalityType
<1>2. PICK n \in {Cardinality(Before(x)) : x \in S} : \A m \in {Cardinality(Before(x)) : x \in S} : n <= m
  <2> HIDE DEF Before
  <2>1. PICK counts : counts = {Cardinality(Before(x)) : x \in S}
    OBVIOUS
  <2>2. counts \in SUBSET Nat /\ counts # {}
    BY <1>1, <2>1
  <2> QED
    BY <2>1, <2>2, LeastOf
<1>3. PICK x \in S : n = Cardinality(Before(x))
  BY <1>2
<1>4. ASSUME NEW y \in S \ {x} PROVE <<x, y>> \in R
  <2>1. SUFFICES ASSUME <<y, x>> \in R PROVE FALSE
    OBVIOUS
  <2>2. Before(y) \subseteq Before(x) /\ y \in Before(x) /\ y \notin Before(y)
    BY <2>1
  <2> HIDE DEF Before
  <2>3. Before(y) # Before(x) /\ y \in S
    BY <2>2
  <2>4. Cardinality(Before(y)) < Cardinality(Before(x))
    BY <1>1, <2>2, <2>3, FS_Subset
  <2>5. n <= Cardinality(Before(y))
    BY <1>2, <2>3
  <2> QED
    BY <1>1, <1>3, <2>3, <2>4, <2>5
<1> QED
  BY <1>4

-----------------------------------------------------------------------------
(* Rows have times, and those of tasks and logs are whole milliseconds.      *)
RowsOK(n) ==
  /\ DOMAIN lists[n] \subseteq Nat /\ IsFiniteSet(DOMAIN lists[n])
  /\ \A id \in DOMAIN lists[n] :
       /\ lists[n][id] = [at |-> lists[n][id].at, display |-> lists[n][id].display]
       /\ lists[n][id].at \in Nat
       /\ n # "artifacts" => lists[n][id].at % 2 = 0

ListTypes ==
  /\ lists = [n \in Names |-> lists[n]]
  /\ \A n \in Names : lists[n] = [id \in DOMAIN lists[n] |-> lists[n][id]] /\ RowsOK(n)
  /\ reader = [list |-> reader.list, begun |-> reader.begun, done |-> reader.done, shows |-> reader.shows,
               cursor |-> reader.cursor, seen |-> reader.seen, owed |-> reader.owed]
  /\ reader.list \in Names
  /\ reader.cursor = [at |-> reader.cursor.at, id |-> reader.cursor.id]
  /\ reader.cursor.at \in Int /\ reader.cursor.id \in Int

(* What the reader is owed is still there and still asked for.               *)
ReaderOK ==
  /\ \A id \in reader.owed :
       id \in DOMAIN lists[reader.list] /\ lists[reader.list][id].display \in reader.shows
  /\ ~reader.begun => reader.cursor = NoCursor /\ reader.owed = {}
  /\ (reader.begun /\ ~reader.done) => reader.cursor # NoCursor

ListInv == ListTypes /\ ReaderOK /\ NothingSkipped

LEMMA ListsInitOK == ListsInit => ListInv
<1> SUFFICES ASSUME ListsInit PROVE ListInv
  OBVIOUS
<1>1. PICK n \in Names : reader = NewReader(n)
  BY DEF ListsInit
<1>2. \A m \in Names : DOMAIN lists[m] = {} /\ lists[m] = [id \in {} |-> 0]
  BY DEF ListsInit
<1>3. IsFiniteSet({})
  BY FS_EmptySet
<1>4. \A m \in Names : RowsOK(m) /\ lists[m] = [id \in DOMAIN lists[m] |-> lists[m][id]]
  BY <1>2, <1>3 DEF RowsOK
<1>5. /\ reader = [list |-> n, begun |-> FALSE, done |-> FALSE, shows |-> {},
                   cursor |-> NoCursor, seen |-> {}, owed |-> {}]
      /\ NoCursor = [at |-> -1, id |-> -1]
  BY <1>1 DEF NewReader, NoCursor
<1>6. ListTypes
  BY <1>4, <1>5 DEF ListTypes, ListsInit
<1> QED
  BY <1>5, <1>6 DEF ListInv, ReaderOK, NothingSkipped

(* A row that is written stays on its side of the reader, if it is owed.     *)
LEMMA WriteStep ==
  ASSUME ListInv, NEW n \in Names, NEW id \in Nat, NEW line, Rewritten(n, id, line),
         line = [at |-> line.at, display |-> line.display], line.at \in Nat,
         n # "artifacts" => line.at % 2 = 0,
         (n # "artifacts" /\ id \in DOMAIN lists[n]) => line.at <= lists[n][id].at
  PROVE  ListInv'
<1>1. PICK kept : kept = lists[n]
  OBVIOUS
<1>2. PICK new : new = [i \in DOMAIN kept \cup {id} |-> IF i = id THEN line ELSE kept[i]]
  OBVIOUS
<1>3. lists' = [lists EXCEPT ![n] = new]
  BY <1>1, <1>2 DEF Rewritten
<1>4. /\ lists'[n] = new /\ \A m \in Names : m # n => lists'[m] = lists[m]
      /\ lists' = [m \in Names |-> lists'[m]]
  BY <1>3 DEF ListInv, ListTypes
<1>5. /\ DOMAIN new = DOMAIN kept \cup {id} /\ new[id] = line
      /\ \A i \in DOMAIN kept : i # id => new[i] = kept[i]
  BY <1>2
<1>6. /\ DOMAIN kept \subseteq Nat /\ IsFiniteSet(DOMAIN kept)
      /\ \A i \in DOMAIN kept : /\ kept[i] = [at |-> kept[i].at, display |-> kept[i].display]
                                /\ kept[i].at \in Nat
                                /\ n # "artifacts" => kept[i].at % 2 = 0
  BY <1>1 DEF ListInv, ListTypes, RowsOK
<1>7. RowsOK(n)'
  <2>1. IsFiniteSet(DOMAIN new)
    BY <1>5, <1>6, FS_AddElement
  <2>2. \A i \in DOMAIN new : /\ new[i] = [at |-> new[i].at, display |-> new[i].display]
                              /\ new[i].at \in Nat
                              /\ n # "artifacts" => new[i].at % 2 = 0
    BY <1>5, <1>6
  <2> QED
    BY <1>4, <1>5, <1>6, <2>1, <2>2 DEF RowsOK
<1>8. ASSUME NEW m \in Names PROVE RowsOK(m)' /\ lists'[m] = [i \in DOMAIN lists'[m] |-> lists'[m][i]]
  <2>1. CASE m = n
    BY <1>2, <1>4, <1>5, <1>7, <2>1
  <2>2. CASE m # n
    BY <1>4, <2>2 DEF ListInv, ListTypes, RowsOK
  <2> QED
    BY <2>1, <2>2
<1>9. PICK old : old = reader
  OBVIOUS
<1>10. old = [list |-> old.list, begun |-> old.begun, done |-> old.done, shows |-> old.shows,
              cursor |-> old.cursor, seen |-> old.seen, owed |-> old.owed]
  BY <1>9 DEF ListInv, ListTypes
<1>11. PICK owed : /\ owed \subseteq old.owed
                   /\ line.display \notin old.shows => id \notin owed
                   /\ reader' = [list |-> old.list, begun |-> old.begun, done |-> old.done, shows |-> old.shows,
                                 cursor |-> old.cursor, seen |-> old.seen, owed |-> owed]
  <2>1. CASE line.display \in old.shows
    BY <1>9, <1>10, <2>1 DEF Rewritten
  <2>2. CASE line.display \notin old.shows
    <3>1. PICK owed : owed = old.owed \ {id}
      OBVIOUS
    <3>2. reader' = [old EXCEPT !.owed = owed]
      BY <1>9, <2>2, <3>1 DEF Rewritten
    <3> QED
      BY <1>10, <2>2, <3>1, <3>2
  <2> QED
    BY <2>1, <2>2
<1>12. old.list = n
  BY <1>9 DEF Rewritten
<1>13. ListTypes'
  BY <1>4, <1>8, <1>9, <1>10, <1>11 DEF ListInv, ListTypes
<1>14. ReaderOK'
  BY <1>1, <1>4, <1>5, <1>9, <1>11, <1>12 DEF ListInv, ReaderOK
<1>15. NothingSkipped'
  <2>1. SUFFICES ASSUME n \in {"tasks", "activity"}, NEW i \in owed,
                        old.done \/ ~Below([at |-> new[i].at, id |-> i], old.cursor)
                 PROVE  i \in old.seen
    BY <1>4, <1>11, <1>12 DEF NothingSkipped, Behind, Key
  <2>2. i \in DOMAIN kept /\ i \in old.owed
    BY <1>1, <1>9, <1>11, <1>12 DEF ListInv, ReaderOK
  <2>3. kept[i].at \in Nat /\ new[i].at \in Nat /\ new[i].at <= kept[i].at
    <3>1. i = id => line.at <= kept[id].at
      BY <1>1, <2>1, <2>2
    <3> QED
      BY <1>5, <1>6, <2>2, <3>1
  <2>4. old.done \/ ~Below([at |-> kept[i].at, id |-> i], old.cursor)
    BY <1>9, <2>1, <2>3 DEF Below, ListInv, ListTypes
  <2> QED
    BY <1>1, <1>9, <1>12, <2>1, <2>2, <2>4 DEF ListInv, NothingSkipped, Behind, Key
<1> QED
  BY <1>13, <1>14, <1>15 DEF ListInv

LEMMA WriteSteps ==
  ASSUME ListInv, NEW id \in Ids,
         \/ ProjectTask(id) \/ SyncInserts(id) \/ StatusMoves(id)
         \/ StoreArtifact(id) \/ DateArtifact(id) \/ IndexLog(id)
  PROVE  ListInv'
<1>1. /\ id \in Nat /\ "tasks" \in Names /\ "artifacts" \in Names /\ "activity" \in Names
      /\ \A t \in Times : t \in Nat
      /\ \A t \in Whole : t \in Nat /\ t % 2 = 0
  BY ListsAssumption DEF Names, Whole
<1>2. \A n \in Names : RowsOK(n)
  BY DEF ListInv, ListTypes
<1>3. ASSUME NEW n \in Names, NEW at \in Nat, NEW display,
             Rewritten(n, id, [at |-> at, display |-> display]),
             n # "artifacts" => at % 2 = 0,
             (n # "artifacts" /\ id \in DOMAIN lists[n]) => at <= lists[n][id].at
      PROVE  ListInv'
  <2>1. PICK line : line = [at |-> at, display |-> display]
    OBVIOUS
  <2>2. /\ line = [at |-> line.at, display |-> line.display] /\ line.at = at
        /\ Rewritten(n, id, line)
    BY <1>3, <2>1
  <2> QED
    BY <1>1, <1>3, <2>2, WriteStep
<1>4. CASE ProjectTask(id)
  <2>1. PICK at \in Whole, display \in Displays :
          Rewritten("tasks", id, [at |-> ProjectedAt(id, at), display |-> display])
    BY <1>4 DEF ProjectTask
  <2>2. /\ ProjectedAt(id, at) \in Nat /\ ProjectedAt(id, at) % 2 = 0
        /\ id \in DOMAIN lists["tasks"] => ProjectedAt(id, at) <= lists["tasks"][id].at
    <3>1. id \in DOMAIN lists["tasks"] => lists["tasks"][id].at \in Nat /\ lists["tasks"][id].at % 2 = 0
      BY <1>1, <1>2 DEF RowsOK
    <3> QED
      BY <1>1, <3>1 DEF ProjectedAt
  <2> QED
    BY <1>1, <1>3, <2>1, <2>2
<1>5. CASE SyncInserts(id)
  BY <1>1, <1>3, <1>5 DEF SyncInserts
<1>6. CASE StatusMoves(id)
  <2>1. PICK display \in Displays :
          /\ id \in DOMAIN lists["tasks"]
          /\ Rewritten("tasks", id, [lists["tasks"][id] EXCEPT !.display = display])
    BY <1>6 DEF StatusMoves
  <2>2. PICK line : line = lists["tasks"][id]
    OBVIOUS
  <2>3. line = [at |-> line.at, display |-> line.display] /\ line.at \in Nat /\ line.at % 2 = 0
    BY <1>1, <1>2, <2>1, <2>2 DEF RowsOK
  <2>4. [line EXCEPT !.display = display] = [at |-> line.at, display |-> display]
    BY <2>3
  <2> QED
    BY <1>1, <1>3, <2>1, <2>2, <2>3, <2>4
<1>7. CASE StoreArtifact(id)
  BY <1>1, <1>3, <1>7 DEF StoreArtifact
<1>8. CASE DateArtifact(id)
  <2>1. PICK at \in Whole :
          /\ id \in DOMAIN lists["artifacts"]
          /\ Rewritten("artifacts", id, [lists["artifacts"][id] EXCEPT !.at = at])
    BY <1>8 DEF DateArtifact
  <2>2. PICK line : line = lists["artifacts"][id]
    OBVIOUS
  <2>3. line = [at |-> line.at, display |-> line.display]
    BY <1>1, <1>2, <2>1, <2>2 DEF RowsOK
  <2>4. [line EXCEPT !.at = at] = [at |-> at, display |-> line.display]
    BY <2>3
  <2> QED
    BY <1>1, <1>3, <2>1, <2>2, <2>4
<1>9. CASE IndexLog(id)
  BY <1>1, <1>3, <1>9 DEF IndexLog
<1> QED
  BY <1>4, <1>5, <1>6, <1>7, <1>8, <1>9

-----------------------------------------------------------------------------
(* The rows that come before one of them.                                    *)
Above(n, rest, id) == {i \in rest : Below(Key(n, id), Key(n, i))}

TopOf(n, rest, limit) == {id \in rest : Cardinality(Above(n, rest, id)) < limit}

(* Keys are in one line.                                                     *)
LEMMA KeysInLine ==
  ASSUME NEW n \in Names, RowsOK(n), NEW i \in DOMAIN lists[n], NEW j \in DOMAIN lists[n],
         NEW k \in DOMAIN lists[n]
  PROVE  /\ ~Below(Key(n, i), Key(n, i))
         /\ i # j => Below(Key(n, i), Key(n, j)) \/ Below(Key(n, j), Key(n, i))
         /\ Below(Key(n, i), Key(n, j)) /\ Below(Key(n, j), Key(n, k)) => Below(Key(n, i), Key(n, k))
<1>1. ASSUME NEW id \in DOMAIN lists[n] PROVE Key(n, id).at \in Int /\ Key(n, id).id = id /\ id \in Int
  <2>1. lists[n][id].at \in Nat /\ id \in Nat
    BY <1>1 DEF RowsOK
  <2> QED
    BY <2>1 DEF Key
<1> QED
  BY <1>1 DEF Below

(* There is a last one, and a first.                                         *)
LEMMA LastThere ==
  ASSUME NEW n \in Names, RowsOK(n), NEW ids \in SUBSET DOMAIN lists[n], ids # {}
  PROVE  /\ \E id \in ids : \A i \in ids \ {id} : Below(Key(n, id), Key(n, i))
         /\ \E id \in ids : \A i \in ids \ {id} : Below(Key(n, i), Key(n, id))
<1>1. IsFiniteSet(ids)
  BY FS_Subset DEF RowsOK
<1>2. \A i, j \in ids : i # j => Below(Key(n, i), Key(n, j)) \/ Below(Key(n, j), Key(n, i))
  BY KeysInLine
<1>3. \A i \in ids : ~Below(Key(n, i), Key(n, i))
  BY KeysInLine
<1>4. \A i, j, k \in ids : Below(Key(n, i), Key(n, j)) /\ Below(Key(n, j), Key(n, k)) => Below(Key(n, i), Key(n, k))
  BY KeysInLine
<1>5. \E id \in ids : \A i \in ids \ {id} : Below(Key(n, id), Key(n, i))
  <2>1. PICK R : R = {p \in ids \X ids : Below(Key(n, p[1]), Key(n, p[2]))}
    OBVIOUS
  <2>2. \A i, j \in ids : <<i, j>> \in R <=> Below(Key(n, i), Key(n, j))
    BY <2>1
  <2>3. \A i, j \in ids : i # j => <<i, j>> \in R \/ <<j, i>> \in R
    BY <1>2, <2>2
  <2>4. \A i \in ids : <<i, i>> \notin R
    BY <1>3, <2>2
  <2>5. \A i, j, k \in ids : <<i, j>> \in R /\ <<j, k>> \in R => <<i, k>> \in R
    BY <1>4, <2>2
  <2>6. \E id \in ids : \A i \in ids \ {id} : <<id, i>> \in R
    BY <1>1, <2>3, <2>4, <2>5, FirstOf
  <2> QED
    BY <2>2, <2>6
<1>6. \E id \in ids : \A i \in ids \ {id} : Below(Key(n, i), Key(n, id))
  <2>1. PICK R : R = {p \in ids \X ids : Below(Key(n, p[2]), Key(n, p[1]))}
    OBVIOUS
  <2>2. \A i, j \in ids : <<i, j>> \in R <=> Below(Key(n, j), Key(n, i))
    BY <2>1
  <2>3. \A i, j \in ids : i # j => <<i, j>> \in R \/ <<j, i>> \in R
    BY <1>2, <2>2
  <2>4. \A i \in ids : <<i, i>> \notin R
    BY <1>3, <2>2
  <2>5. \A i, j, k \in ids : <<i, j>> \in R /\ <<j, k>> \in R => <<i, k>> \in R
    BY <1>4, <2>2
  <2>6. \E id \in ids : \A i \in ids \ {id} : <<id, i>> \in R
    BY <1>1, <2>3, <2>4, <2>5, FirstOf
  <2> QED
    BY <2>2, <2>6
<1> QED
  BY <1>5, <1>6

LEMMA LastIs ==
  ASSUME NEW n \in Names, RowsOK(n), NEW ids \in SUBSET DOMAIN lists[n], ids # {}
  PROVE  /\ LastOf(n, ids) \in ids
         /\ \A i \in ids \ {LastOf(n, ids)} : Below(Key(n, LastOf(n, ids)), Key(n, i))
  BY LastThere DEF LastOf

(* A page is the top of what is left: of what is not on it, nothing comes     *)
(* before its last row; and when a longer page would be no longer, it is all. *)
LEMMA PageIsTop ==
  ASSUME NEW n \in Names, RowsOK(n), NEW rest \in SUBSET DOMAIN lists[n], NEW limit \in Nat \ {0},
         NEW page, page = TopOf(n, rest, limit), NEW longer, longer = TopOf(n, rest, limit + 1)
  PROVE  /\ page = longer => page = rest
         /\ page # longer => page # {} /\ \A id \in rest \ page : Below(Key(n, id), Key(n, LastOf(n, page)))
<1> USE DEF TopOf
<1>1. \A id \in rest : /\ Above(n, rest, id) \in SUBSET rest /\ Above(n, rest, id) \in SUBSET DOMAIN lists[n]
                       /\ IsFiniteSet(Above(n, rest, id)) /\ Cardinality(Above(n, rest, id)) \in Nat
  BY FS_Subset, FS_CardinalityType DEF RowsOK, Above
<1>2. \A i, j \in rest : j \in Above(n, rest, i) <=> Below(Key(n, i), Key(n, j))
  BY DEF Above
<1>3. ASSUME NEW i \in rest, NEW j \in rest, j \in Above(n, rest, i)
      PROVE  Cardinality(Above(n, rest, j)) < Cardinality(Above(n, rest, i))
  <2>1. Above(n, rest, j) \subseteq Above(n, rest, i)
    BY <1>1, <1>2, <1>3, KeysInLine
  <2>2. j \notin Above(n, rest, j)
    BY <1>2, KeysInLine
  <2> QED
    BY <1>1, <1>3, <2>1, <2>2, FS_Subset
<1>4. ASSUME page = longer, rest \ page # {} PROVE FALSE
  <2>1. PICK id \in rest \ page : \A i \in (rest \ page) \ {id} : Below(Key(n, i), Key(n, id))
    BY <1>4, LastThere
  <2>2. Cardinality(Above(n, rest, id)) >= limit + 1
    BY <1>1, <1>4
  <2>3. Above(n, rest, id) \subseteq page
    <3>1. SUFFICES ASSUME NEW i \in Above(n, rest, id), i \notin page PROVE FALSE
      BY <1>1
    <3>2. i \in rest /\ Below(Key(n, id), Key(n, i)) /\ i # id
      BY <1>1, <1>2, <3>1, KeysInLine
    <3>3. Below(Key(n, i), Key(n, id))
      BY <2>1, <3>1, <3>2
    <3> QED
      BY <3>2, <3>3, KeysInLine
  <2>4. Above(n, rest, id) # {}
    <3>1. SUFFICES ASSUME Above(n, rest, id) = {} PROVE FALSE
      OBVIOUS
    <3>2. Cardinality(Above(n, rest, id)) = 0
      BY <3>1, FS_EmptySet
    <3> QED
      BY <2>2, <3>2
  <2>5. PICK j \in Above(n, rest, id) : \A i \in Above(n, rest, id) \ {j} : Below(Key(n, j), Key(n, i))
    BY <1>1, <2>4, LastThere
  <2>6. Above(n, rest, id) \ {j} \subseteq Above(n, rest, j) /\ j \in rest
    BY <1>1, <1>2, <2>5
  <2>7. Cardinality(Above(n, rest, id) \ {j}) = Cardinality(Above(n, rest, id)) - 1
    BY <1>1, <2>5, FS_RemoveElement
  <2>8. Cardinality(Above(n, rest, id) \ {j}) <= Cardinality(Above(n, rest, j))
    BY <1>1, <2>6, FS_Subset
  <2>9. Cardinality(Above(n, rest, j)) < limit
    BY <2>3, <2>5
  <2> QED
    BY <1>1, <2>2, <2>6, <2>7, <2>8, <2>9
<1>5. ASSUME page # longer PROVE page # {}
  <2>1. rest # {}
    BY <1>5
  <2>2. PICK id \in rest : \A i \in rest \ {id} : Below(Key(n, i), Key(n, id))
    BY <2>1, LastThere
  <2>3. Above(n, rest, id) = {}
    BY <1>1, <1>2, <2>2, KeysInLine
  <2> QED
    BY <2>3, FS_EmptySet
<1>6. ASSUME page # {}, NEW id \in rest \ page PROVE Below(Key(n, id), Key(n, LastOf(n, page)))
  <2>1. LastOf(n, page) \in page
    BY <1>6, LastIs
  <2>2. Below(Key(n, id), Key(n, LastOf(n, page))) \/ Below(Key(n, LastOf(n, page)), Key(n, id))
    BY <1>6, <2>1, KeysInLine
  <2>3. ASSUME Below(Key(n, LastOf(n, page)), Key(n, id)) PROVE FALSE
    <3>1. Cardinality(Above(n, rest, id)) < Cardinality(Above(n, rest, LastOf(n, page)))
      BY <1>2, <1>3, <2>1, <2>3
    <3> QED
      BY <1>1, <2>1, <3>1
  <2> QED
    BY <2>2, <2>3
<1> QED
  BY <1>4, <1>5, <1>6

(* One request of the reader.                                                *)
LEMMA WalkStep ==
  ASSUME ListInv, NEW n \in Names, NEW shows, NEW limit \in Limits, Walk(n, shows, limit)
  PROVE  ListInv'
<1>1. PICK old : old = reader
  OBVIOUS
<1>2. PICK rest : rest = {id \in Matching(n, shows) : Continues(n, id, old.cursor)}
  OBVIOUS
<1>3. PICK page : page = TopOf(n, rest, limit)
  OBVIOUS
<1>4. PICK longer : longer = TopOf(n, rest, limit + 1)
  OBVIOUS
<1>5. Page(n, shows, old.cursor, limit) = page /\ Page(n, shows, old.cursor, limit + 1) = longer
  BY <1>2, <1>3, <1>4 DEF Page, Above, TopOf
<1>6. PICK next : next = IF page # longer THEN EncodeCursor(Key(n, LastOf(n, page))) ELSE NoCursor
  OBVIOUS
<1>7. NextPage(n, shows, old.cursor, limit) = [items |-> page, next |-> next]
  BY <1>5, <1>6 DEF NextPage
<1>8. PICK owed : owed = IF ~old.begun THEN Matching(n, shows) ELSE old.owed
  OBVIOUS
<1>9. /\ old.list = n /\ (~old.begun \/ (old.shows = shows /\ ~old.done))
      /\ reader' = [list |-> n, begun |-> TRUE, shows |-> shows, cursor |-> next,
                    done |-> next = NoCursor, seen |-> old.seen \cup page, owed |-> owed]
      /\ UNCHANGED <<lists, writes>>
  BY <1>1, <1>7, <1>8 DEF Walk
<1>10. RowsOK(n) /\ limit \in Nat \ {0} /\ rest \in SUBSET DOMAIN lists[n]
  BY <1>2, ListsAssumption DEF ListInv, ListTypes, Matching
<1>11. /\ page = longer => page = rest
       /\ page # longer => page # {} /\ \A id \in rest \ page : Below(Key(n, id), Key(n, LastOf(n, page)))
  BY <1>3, <1>4, <1>10, PageIsTop
<1>12. next = [at |-> next.at, id |-> next.id] /\ next.at \in Int /\ next.id \in Int
  <2>1. CASE page = longer
    BY <1>6, <2>1 DEF NoCursor
  <2>2. CASE page # longer
    <3>1. LastOf(n, page) \in DOMAIN lists[n]
      BY <1>3, <1>10, <1>11, <2>2, LastIs DEF TopOf
    <3>2. lists[n][LastOf(n, page)].at \in Nat /\ LastOf(n, page) \in Nat
      BY <1>10, <3>1 DEF RowsOK
    <3>3. next = EncodeCursor([at |-> lists[n][LastOf(n, page)].at, id |-> LastOf(n, page)])
      BY <1>6, <2>2 DEF Key
    <3> QED
      BY <3>2, <3>3 DEF EncodeCursor
  <2> QED
    BY <2>1, <2>2
<1>13. ListTypes'
  BY <1>9, <1>12 DEF ListInv, ListTypes, RowsOK
<1>14. \A id \in owed : id \in Matching(n, shows)
  BY <1>1, <1>8, <1>9 DEF ListInv, ReaderOK, Matching
<1>15. ReaderOK'
  BY <1>9, <1>14 DEF ReaderOK, Matching
<1>16. NothingSkipped'
  <2>1. SUFFICES ASSUME n \in {"tasks", "activity"}, NEW id \in owed,
                        next = NoCursor \/ ~Below(Key(n, id), next)
                 PROVE  id \in old.seen \cup page
    BY <1>9 DEF NothingSkipped, Behind, Key
  <2>2. ASSUME id \in rest, id \notin page PROVE FALSE
    <3>1. page # longer /\ id \in rest \ page
      BY <1>11, <2>2
    <3>2. Below(Key(n, id), Key(n, LastOf(n, page))) /\ LastOf(n, page) \in DOMAIN lists[n]
      BY <1>3, <1>10, <1>11, <3>1, LastIs DEF TopOf
    <3>3. PICK last : last = lists[n][LastOf(n, page)].at
      OBVIOUS
    <3>4. last \in Nat /\ last % 2 = 0
      BY <1>10, <2>1, <3>2, <3>3 DEF RowsOK
    <3>5. next = EncodeCursor([at |-> last, id |-> LastOf(n, page)])
      BY <1>6, <3>1, <3>3 DEF Key
    <3>6. next = [at |-> last, id |-> LastOf(n, page)]
      BY <3>4, <3>5 DEF EncodeCursor
    <3>7. next # NoCursor
      BY <3>4, <3>6 DEF NoCursor
    <3> QED
      BY <2>1, <3>2, <3>3, <3>6, <3>7 DEF Key
  <2>3. ASSUME id \notin rest PROVE id \in old.seen
    <3>1. ~Continues(n, id, old.cursor)
      BY <1>2, <1>14, <2>1, <2>3
    <3>2. old.cursor # NoCursor /\ ~Below(Key(n, id), old.cursor)
      BY <3>1 DEF Continues
    <3>3. old.begun
      BY <1>1, <3>2 DEF ListInv, ReaderOK
    <3>4. id \in old.owed
      BY <1>8, <2>1, <3>3
    <3> QED
      BY <1>1, <1>9, <2>1, <3>2, <3>4 DEF ListInv, NothingSkipped, Behind
  <2> QED
    BY <2>2, <2>3
<1> QED
  BY <1>13, <1>15, <1>16 DEF ListInv

LEMMA ListsStepOK == ListInv /\ [ListsNext]_listVars => ListInv'
<1>1. ASSUME ListInv, UNCHANGED listVars PROVE ListInv'
  BY <1>1 DEF listVars, ListInv, ListTypes, RowsOK, ReaderOK, NothingSkipped, Behind, Key
<1>2. ASSUME ListInv, ListTasks \/ ListArtifacts \/ ListActivity PROVE ListInv'
  BY <1>2, WalkStep DEF ListTasks, ListArtifacts, ListActivity, Names
<1> QED
  BY <1>1, <1>2, WriteSteps DEF ListsNext

LEMMA ListsInvariant == ListsSpec => []ListInv
  BY ListsInitOK, ListsStepOK, PTL DEF ListsSpec

(* A reader of the tasks or of the activity misses no row that answered its  *)
(* filter from the first page on.                                            *)
THEOREM ListsSkipNothing == ListsSpec => []NothingSkipped
<1>1. ListInv => NothingSkipped
  BY DEF ListInv
<1> QED
  BY <1>1, ListsInvariant, PTL

-----------------------------------------------------------------------------
(***************************************************************************)
(* The share cards, for any tasks, visitors and cache size: a card that is *)
(* served says what the API said when it was asked for, but for the handle. *)
(***************************************************************************)

Statuses == {"IN REVIEW", "DISPUTED", "VERIFIED", "CONFLICT"}
SharedRows ==
  [ref : Nat, status : Statuses, revealed : Nat, manifest : BOOLEAN, consensus : BOOLEAN]

(* The title of a card is known by whether its claims are.                   *)
Drawn ==
  {card \in [taskId : SharedTasks, ref : Nat, status : Statuses, revealed : Nat,
             titled : BOOLEAN, claims : {0, 1}, agreement : {"settled", "revealed"}] :
     card.claims = 1 <=> card.titled}
CardKeys == {CardKey(card) : card \in Drawn}
CardEntries == {e \in [key : CardKeys, png : Drawn, at : Nat] : e.key = CardKey(e.png)}

ShareInv ==
  /\ shared \in [SharedTasks -> SharedRows] /\ minute \in Nat
  /\ cards \in Seq(CardEntries)
  /\ visit = [v \in Visitors |-> visit[v]]
  /\ \A v \in Visitors : visit[v].at = "drawing" => visit[v].card \in Drawn
  /\ CardDrawsTheTask

LEMMA ShareInitOK == ShareInit => ShareInv
<1> SUFFICES ASSUME ShareInit PROVE ShareInv
  OBVIOUS
<1>1. shared \in [SharedTasks -> SharedRows]
  BY DEF ShareInit, SharedRows, Statuses
<1>2. \A v \in Visitors : visit[v].at = "away"
  BY DEF ShareInit, Away
<1>3. cards \in Seq(CardEntries) /\ minute \in Nat /\ visit = [v \in Visitors |-> visit[v]]
  <2>1. cards = <<>> /\ minute = 0 /\ visit = [v \in Visitors |-> Away]
    BY DEF ShareInit
  <2>2. cards \in Seq(CardEntries)
    BY <2>1, EmptySeq
  <2> QED
    BY <2>1, <2>2
<1> QED
  BY <1>1, <1>2, <1>3 DEF ShareInv, CardDrawsTheTask

LEMMA CardIsDrawn == ASSUME ShareInv, NEW t \in SharedTasks PROVE CardFromTask(t) \in Drawn
  BY DEF ShareInv, CardFromTask, Drawn, SharedRows

(* What a card is kept by tells the card, but for its handle.                *)
LEMMA KeyTells ==
  ASSUME NEW a \in Drawn, NEW b \in Drawn, CardKey(a) = CardKey(b)
  PROVE  ButHandle(a) = ButHandle(b)
<1>1. ASSUME NEW c \in Drawn
      PROVE  ButHandle(c) = [taskId |-> c.taskId, ref |-> 0, status |-> c.status,
                             revealed |-> c.revealed, titled |-> c.titled,
                             claims |-> c.claims, agreement |-> c.agreement]
  BY DEF Drawn, ButHandle
<1>2. /\ a.taskId = b.taskId /\ a.status = b.status /\ a.revealed = b.revealed
      /\ a.claims = b.claims /\ a.agreement = b.agreement
  BY DEF CardKey
<1>3. a.titled = b.titled
  <2>1. /\ a.titled \in BOOLEAN /\ b.titled \in BOOLEAN
        /\ (a.titled <=> a.claims = 1) /\ (b.titled <=> b.claims = 1)
    BY DEF Drawn
  <2> QED
    BY <1>2, <2>1
<1>4. ButHandle(a) = [taskId |-> a.taskId, ref |-> 0, status |-> a.status,
                      revealed |-> a.revealed, titled |-> a.titled,
                      claims |-> a.claims, agreement |-> a.agreement]
  BY <1>1
<1>5. ButHandle(b) = [taskId |-> b.taskId, ref |-> 0, status |-> b.status,
                      revealed |-> b.revealed, titled |-> b.titled,
                      claims |-> b.claims, agreement |-> b.agreement]
  BY <1>1
<1> QED
  BY <1>2, <1>3, <1>4, <1>5

LEMMA DeletedIs == ASSUME ShareInv, NEW key PROVE Deleted(key) \in Seq(CardEntries)
<1>1. CASE Kept(key) = {}
  BY <1>1 DEF Deleted, ShareInv
<1>2. CASE Kept(key) # {}
  <2>1. PICK i \in Kept(key) : Deleted(key) = RemoveAt(cards, i)
    BY <1>2 DEF Deleted
  <2>2. cards \in Seq(CardEntries) /\ Len(cards) \in Nat /\ i \in 1..Len(cards)
    BY LenProperties DEF ShareInv, Kept
  <2>3. SubSeq(cards, 1, i - 1) \in Seq(CardEntries)
    BY <2>2, SubSeqProperties
  <2>4. SubSeq(cards, i + 1, Len(cards)) \in Seq(CardEntries)
    BY <2>2, SubSeqProperties
  <2> QED
    BY <2>1, <2>3, <2>4, ConcatProperties DEF RemoveAt
<1> QED
  BY <1>1, <1>2

LEMMA RememberedIs ==
  ASSUME ShareInv, NEW card \in Drawn PROVE Remembered(CardKey(card), card) \in Seq(CardEntries)
<1>1. PICK entry : entry = [key |-> CardKey(card), png |-> card, at |-> minute]
  OBVIOUS
<1>2. entry \in CardEntries
  BY <1>1 DEF ShareInv, CardEntries, CardKeys
<1>3. PICK all : all = Append(Deleted(CardKey(card)), entry)
  OBVIOUS
<1>4. all \in Seq(CardEntries) /\ all # <<>>
  BY <1>2, <1>3, DeletedIs, AppendProperties
<1>5. Tail(all) \in Seq(CardEntries)
  BY <1>4, HeadTailProperties
<1> QED
  BY <1>1, <1>3, <1>4, <1>5 DEF Remembered

LEMMA TaskSteps ==
  ASSUME ShareInv,
         \/ \E t \in SharedTasks :
              RevealShows(t) \/ ManifestShows(t) \/ ResultShows(t) \/ StatusShows(t) \/ Renumbered(t)
         \/ CacheMinute \/ Rebuild \/ UNCHANGED shareVars
  PROVE  ShareInv'
<1>1. UNCHANGED <<visit, cards>>
  BY DEF RevealShows, ManifestShows, ResultShows, StatusShows, Renumbered, CacheMinute, Rebuild,
         Becomes, served, shareVars
<1>2. shared' \in [SharedTasks -> SharedRows] /\ minute' \in Nat
  <2>1. CASE CacheMinute \/ Rebuild \/ UNCHANGED shareVars
    BY <2>1 DEF CacheMinute, Rebuild, shareVars, ShareInv
  <2>2. ASSUME NEW t \in SharedTasks,
               RevealShows(t) \/ ManifestShows(t) \/ ResultShows(t) \/ StatusShows(t)
               \/ Renumbered(t)
        PROVE  shared' \in [SharedTasks -> SharedRows] /\ minute' \in Nat
    <3>1. PICK old : old = shared[t]
      OBVIOUS
    <3>2. old \in SharedRows
      BY <3>1 DEF ShareInv
    <3>3. PICK line \in SharedRows : Becomes(t, line)
      <4>1. CASE RevealShows(t)
        <5>1. Becomes(t, [old EXCEPT !.revealed = @ + 1])
          BY <3>1, <4>1 DEF RevealShows
        <5> QED
          BY <3>2, <5>1 DEF SharedRows
      <4>2. CASE ManifestShows(t)
        <5>1. Becomes(t, [old EXCEPT !.manifest = TRUE])
          BY <3>1, <4>2 DEF ManifestShows
        <5> QED
          BY <3>2, <5>1 DEF SharedRows
      <4>3. CASE ResultShows(t)
        <5>1. Becomes(t, [old EXCEPT !.consensus = TRUE])
          BY <3>1, <4>3 DEF ResultShows
        <5> QED
          BY <3>2, <5>1 DEF SharedRows
      <4>4. CASE StatusShows(t)
        <5>1. PICK status \in {"DISPUTED", "VERIFIED", "CONFLICT"} : Becomes(t, [old EXCEPT !.status = status])
          BY <3>1, <4>4 DEF StatusShows
        <5> QED
          BY <3>2, <5>1 DEF SharedRows, Statuses
      <4>5. CASE Renumbered(t)
        <5>1. PICK move \in Renumberings : Becomes(t, [old EXCEPT !.ref = move[2]])
          BY <3>1, <4>5 DEF Renumbered
        <5>2. move[2] \in Nat
          BY ShareCardAssumption
        <5> QED
          BY <3>2, <5>1, <5>2 DEF SharedRows
      <4> QED
        BY <2>2, <4>1, <4>2, <4>3, <4>4, <4>5
    <3> QED
      BY <3>3 DEF Becomes, ShareInv
  <2> QED
    BY <2>1, <2>2
<1> QED
  BY <1>1, <1>2 DEF ShareInv, CardDrawsTheTask

(* A request: the visitor's own row and the cache change.                    *)
LEMMA VisitSteps ==
  ASSUME ShareInv, NEW v \in Visitors,
         \/ OpenTaskPage(v) \/ LoadScript(v) \/ AskForCard(v) \/ CardNotFound(v)
         \/ DrawCard(v) \/ DrawFails(v) \/ Leaves(v)
  PROVE  ShareInv'
<1>1. UNCHANGED <<shared, minute>>
  BY DEF OpenTaskPage, LoadScript, AskForCard, CardNotFound, DrawCard, DrawFails, Leaves, Unmoved
<1>2. SUFFICES ASSUME NEW with, visit' = [visit EXCEPT ![v] = with]
               PROVE  /\ cards' \in Seq(CardEntries)
                      /\ with.at = "drawing" => with.card \in Drawn
                      /\ with.at = "png" => ButHandle(with.png) = ButHandle(with.card)
  <2>1. PICK with : visit' = [visit EXCEPT ![v] = with]
    BY DEF OpenTaskPage, LoadScript, AskForCard, CardNotFound, DrawCard, DrawFails, Leaves, Replied
  <2>2. /\ cards' \in Seq(CardEntries)
        /\ with.at = "drawing" => with.card \in Drawn
        /\ with.at = "png" => ButHandle(with.png) = ButHandle(with.card)
    BY <1>2, <2>1
  <2>3. visit'[v] = with /\ visit' = [u \in Visitors |-> visit'[u]]
        /\ \A u \in Visitors : u # v => visit'[u] = visit[u]
    BY <2>1 DEF ShareInv
  <2> QED
    BY <1>1, <2>2, <2>3 DEF ShareInv, CardDrawsTheTask
<1>3. visit'[v] = with
  BY <1>2 DEF ShareInv
<1>4. CASE OpenTaskPage(v) \/ LoadScript(v) \/ CardNotFound(v) \/ DrawFails(v) \/ Leaves(v)
  <2>1. cards' = cards
    BY <1>4 DEF OpenTaskPage, LoadScript, CardNotFound, DrawFails, Leaves
  <2>2. with.at \notin {"drawing", "png"}
    <3>1. CASE OpenTaskPage(v)
      <4>1. PICK rated, bytes : visit' = [visit EXCEPT ![v] = [at |-> "page", rated |-> rated, shell |-> bytes]]
        BY <3>1 DEF OpenTaskPage, Replied
      <4> QED
        BY <1>3, <4>1 DEF ShareInv
    <3>2. CASE LoadScript(v)
      <4>1. PICK at \in {"running", "blank"} : visit' = [visit EXCEPT ![v] = [at |-> at]]
        BY <3>2 DEF LoadScript, Replied
      <4> QED
        BY <1>3, <4>1 DEF ShareInv
    <3>3. CASE CardNotFound(v) \/ DrawFails(v)
      BY <1>3, <3>3 DEF CardNotFound, DrawFails, Replied, ShareInv
    <3>4. CASE Leaves(v)
      BY <1>3, <3>4 DEF Leaves, Replied, Away, ShareInv
    <3> QED
      BY <1>4, <3>1, <3>2, <3>3, <3>4
  <2> QED
    BY <2>1, <2>2 DEF ShareInv
<1>5. CASE AskForCard(v)
  <2>1. PICK t, card, hits :
          /\ t \in SharedTasks /\ card = CardFromTask(t) /\ hits = Fresh(CardKey(card))
          /\ cards' = IF hits = {} THEN Deleted(CardKey(card)) ELSE cards
          /\ IF hits # {}
             THEN visit' = [visit EXCEPT ![v] = [at |-> "png", card |-> card, png |-> cards[CHOOSE i \in hits : TRUE].png]]
             ELSE visit' = [visit EXCEPT ![v] = [at |-> "drawing", card |-> card]]
    BY <1>5 DEF AskForCard, Replied
  <2>2. card \in Drawn
    BY <2>1, CardIsDrawn
  <2>3. CASE hits = {}
    <3>1. with = [at |-> "drawing", card |-> card] /\ cards' = Deleted(CardKey(card))
      BY <1>3, <2>1, <2>3 DEF ShareInv
    <3> QED
      BY <2>2, <3>1, DeletedIs
  <2>4. CASE hits # {}
    <3>1. PICK i \in hits : with = [at |-> "png", card |-> card, png |-> cards[i].png] /\ cards' = cards
      BY <1>3, <2>1, <2>4 DEF ShareInv
    <3>2. cards[i] \in CardEntries /\ cards[i].key = CardKey(card)
      BY <2>1, <3>1, ElementOfSeq, LenProperties DEF Fresh, Kept, ShareInv
    <3>3. ButHandle(cards[i].png) = ButHandle(card)
      BY <2>2, <3>2, KeyTells DEF CardEntries
    <3> QED
      BY <3>1, <3>3 DEF ShareInv
  <2> QED
    BY <2>3, <2>4
<1>6. CASE DrawCard(v)
  <2>1. PICK card : card = visit[v].card
    OBVIOUS
  <2>2. card \in Drawn /\ cards' = Remembered(CardKey(card), card)
        /\ with = [at |-> "png", card |-> card, png |-> card]
    BY <1>3, <1>6, <2>1 DEF DrawCard, Replied, ShareInv
  <2> QED
    BY <2>2, RememberedIs
<1> QED
  BY <1>4, <1>5, <1>6

LEMMA ShareInvariant == ShareSpec => []ShareInv
<1>1. ShareInv /\ [ShareNext]_shareVars => ShareInv'
  BY TaskSteps, VisitSteps DEF ShareNext
<1> QED
  BY <1>1, ShareInitOK, PTL DEF ShareSpec

(* A card that is served says what the API said when it was asked for, kept  *)
(* or drawn, in all but the task's handle.                                   *)
THEOREM CardsAreDrawn == ShareSpec => []CardDrawsTheTask
<1>1. ShareInv => CardDrawsTheTask
  BY DEF ShareInv
<1> QED
  BY <1>1, ShareInvariant, PTL

-----------------------------------------------------------------------------
(***************************************************************************)
(* The three of them, side by side.                                        *)
(***************************************************************************)

(* Whatever the three do meanwhile, what a page shows is so.                 *)
THEOREM ShownTruly == ViewSpec /\ ListsSpec /\ ShareSpec => []ShownIsTrue
<1>1. CountsAreCovered /\ NothingSkipped /\ CardDrawsTheTask => ShownIsTrue
  BY DEF ShownIsTrue
<1> QED
  BY <1>1, DetailCovers, ListsSkipNothing, CardsAreDrawn, PTL

=============================================================================

------------------------------- MODULE Engine -------------------------------
(***************************************************************************)
(* The agreement engine (packages/consensus/src/engine.ts) as operators:    *)
(* what a panel of reports comes to, claim by claim, and for the task.      *)
(*                                                                         *)
(* A panel is a set of reports; a report names its verifier, whether it is  *)
(* bound to the task and manifest, the place of its hash in their order,    *)
(* and its entry per claim it speaks of: verdict, confidence, the hashes it *)
(* cites, and whether it stood in for a model.  Reports in any order are    *)
(* the same set, as the engine sorts what it is given.                      *)
(***************************************************************************)
EXTENDS Integers, FiniteSets

CONSTANTS
  ManifestClaims,
  requiredAgreement,
  minimumConfidence,   \* in percent, as the two floors below
  minimumEvidenceCoverage, minimumEvidenceOverlap,
  Panels               \* the panels that are evaluated

(* A hash is of one report: of a verifier no two reports share one.           *)
ArePanel(reports) ==
  /\ IsFiniteSet(reports)
  /\ \A r \in reports : r = [verifier |-> r.verifier, bound |-> r.bound, hash |-> r.hash,
                             claims |-> r.claims]
  /\ \A r, s \in reports : r.verifier = s.verifier /\ r.hash = s.hash => r = s

ASSUME EngineAssumption ==
  /\ requiredAgreement \in Nat \ {0} /\ IsFiniteSet(ManifestClaims)
  /\ {minimumConfidence, minimumEvidenceCoverage, minimumEvidenceOverlap} \subseteq 0..100
  /\ \A reports \in Panels : ArePanel(reports)

VARIABLE panel       \* the panel that was evaluated, and its result

Abstention == "INSUFFICIENT_EVIDENCE"
Labels == {"SUPPORTED", "CONTRADICTED", Abstention}
NoPanel == [reports |-> {}, outcome |-> "none"]

(* lowestPerVerifier and revealedReports: what is bound, one per verifier.    *)
RevealedReports(reports) ==
  LET bound == {r \in reports : r.bound}
  IN {r \in bound : \A s \in bound : s.verifier = r.verifier => r.hash <= s.hash}

(* Mutant: a verdict that no model produced is counted. *)
Counts_Degraded(entry) ==
  entry.verdict = Abstention \/ entry.confidence >= minimumConfidence

(* voteFor, clearsFloor: an abstention needs no confidence.                   *)
Counts(entry) ==
  /\ ~entry.degraded
  /\ entry.verdict = Abstention \/ entry.confidence >= minimumConfidence

Votes(reports, c) == {r \in RevealedReports(reports) : c \in DOMAIN r.claims}
Holders(reports, c, verdict) ==
  {r \in Votes(reports, c) : Counts(r.claims[c]) /\ r.claims[c].verdict = verdict}

(* majorityVerdict: none that leads alone is an abstention.                   *)
MajorityVerdict(reports, c) ==
  LET size(v) == Cardinality(Holders(reports, c, v))
      leads == {v \in Labels : \A w \in Labels \ {v} : size(v) > size(w)}
  IN IF leads = {} THEN Abstention ELSE CHOOSE v \in leads : TRUE

Agreeing(reports, c) == Holders(reports, c, MajorityVerdict(reports, c))

(* Both directions among the opinions, however weak, of models.               *)
CriticalConflict(reports, c) ==
  LET says(v) == {r \in Votes(reports, c) : ~r.claims[c].degraded /\ r.claims[c].verdict = v}
  IN says("SUPPORTED") # {} /\ says("CONTRADICTED") # {}

(* jaccard: of the snapshots cited, those that all cite.                      *)
Overlapping(agreeing, c) ==
  LET cited == UNION {r.claims[c].sources : r \in agreeing}
      shared == {h \in cited : \A r \in agreeing : h \in r.claims[c].sources}
  IN cited # {} /\ 100 * Cardinality(shared) >= minimumEvidenceOverlap * Cardinality(cited)

Covered(agreeing, c) ==
  LET citing == {r \in agreeing : r.claims[c].sources # {}}
  IN agreeing # {} /\ 100 * Cardinality(citing) >= minimumEvidenceCoverage * Cardinality(agreeing)

(* consensusForVotes: evidence is asked only of an assertion.                 *)
Agreed(reports, c) ==
  LET agreeing == Agreeing(reports, c)
  IN /\ Cardinality(agreeing) >= requiredAgreement
     /\ ~CriticalConflict(reports, c)
     /\ MajorityVerdict(reports, c) # Abstention => Covered(agreeing, c) /\ Overlapping(agreeing, c)

Outcome(reports) ==
  IF Cardinality(RevealedReports(reports)) < requiredAgreement THEN "NO_QUORUM"
  ELSE IF \A c \in ManifestClaims : Agreed(reports, c) THEN "CONSENSUS" ELSE "CONFLICT"

(* agreedOnMajority: with most of the claims.                                 *)
AgreedOnMajority(reports, r) ==
  2 * Cardinality({c \in ManifestClaims : Agreed(reports, c) /\ r \in Agreeing(reports, c)})
    > Cardinality(ManifestClaims)

Rewarded(reports) ==
  IF Outcome(reports) # "CONSENSUS" THEN {}
  ELSE {r.verifier : r \in {s \in RevealedReports(reports) : AgreedOnMajority(reports, s)}}

-----------------------------------------------------------------------------
EngineInit == panel = NoPanel

EvaluateConsensus ==
  /\ panel = NoPanel
  /\ \E reports \in Panels : panel' = [reports |-> reports, outcome |-> Outcome(reports)]

EngineNext == EvaluateConsensus
EngineSpec == EngineInit /\ [][EngineNext]_panel

-----------------------------------------------------------------------------
(* "A verdict nobody's model produced must not decide the outcome or earn a   *)
(* share": striking every such entry changes neither.                         *)
Struck(reports) ==
  {[r EXCEPT !.claims = [c \in {d \in DOMAIN r.claims : ~r.claims[d].degraded} |-> r.claims[c]]] :
     r \in reports}

DegradedCarriesNoWeight ==
  panel # NoPanel =>
    /\ Outcome(Struck(panel.reports)) = panel.outcome
    /\ Rewarded(Struck(panel.reports)) = Rewarded(panel.reports)

(* A consensus is not two halves: any two who are paid gave one verdict on a  *)
(* claim that was agreed on, by requiredAgreement of the panel at least and   *)
(* with no model of the panel asserting the opposite.  The verdict may be the *)
(* abstention a tie comes to, and its holders fewer than half.                *)
PaidAgree ==
  \A v, w \in Rewarded(panel.reports) :
    \E c \in ManifestClaims, r, s \in RevealedReports(panel.reports) :
      /\ r.verifier = v /\ s.verifier = w
      /\ Agreed(panel.reports, c)
      /\ {r, s} \subseteq Agreeing(panel.reports, c)

(* engine.ts: "enough degraded reports and a task drops below                 *)
(* requiredAgreement and refunds as NO_QUORUM".                               *)
DegradedRefunds ==
  panel # NoPanel =>
    (Cardinality({r \in RevealedReports(panel.reports) :
                    \E c \in DOMAIN r.claims : ~r.claims[c].degraded}) < requiredAgreement
       => panel.outcome = "NO_QUORUM")

(* engine.ts: "a tie is not a majority".                                      *)
TieIsNoMajority ==
  panel # NoPanel =>
    \A c \in ManifestClaims : Agreed(panel.reports, c) =>
      \A v \in Labels \ {MajorityVerdict(panel.reports, c)} :
        Cardinality(Holders(panel.reports, c, v)) < Cardinality(Agreeing(panel.reports, c))

(* engine.ts: "the same three outcomes finalizeConsensus settles on", which   *)
(* refuses a consensus that names nobody.                                     *)
ConsensusNamesSomeone == panel.outcome = "CONSENSUS" => Rewarded(panel.reports) # {}
=============================================================================

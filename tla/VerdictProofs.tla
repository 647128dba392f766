--------------------------- MODULE VerdictProofs ---------------------------
(***************************************************************************)
(* Theorems about verdicts: what a model's answer weighs (Compute), what   *)
(* the consensus engine makes of a panel of reports (Engine), and what an  *)
(* adjudicator makes of the panel of a dispute (Adjudication); and about   *)
(* the evidence under them: what of a source is published (Prepare,        *)
(* SourceText), and which of its spans a model is shown (Compute).         *)
(***************************************************************************)
EXTENDS Services, FiniteSetTheorems, SequenceTheorems, WellFoundedInduction, NaturalsInduction,
        TLAPS

-----------------------------------------------------------------------------
(* A report without what no model produced.                                  *)
Stripped(r) ==
  [r EXCEPT !.claims = [c \in {d \in DOMAIN r.claims : ~r.claims[d].degraded} |-> r.claims[c]]]

LEMMA StrippedIs ==
  ASSUME NEW reports, ArePanel(reports), NEW r \in reports
  PROVE  /\ Stripped(r).verifier = r.verifier /\ Stripped(r).bound = r.bound
         /\ Stripped(r).hash = r.hash
         /\ Stripped(r).claims = [c \in {d \in DOMAIN r.claims : ~r.claims[d].degraded} |-> r.claims[c]]
  BY DEF ArePanel, Stripped

LEMMA StruckIs == \A reports : Struck(reports) = {Stripped(r) : r \in reports}
  BY DEF Struck, Stripped

(* It is revealed as the report is, and is no other's.                       *)
LEMMA StrippedReveals ==
  ASSUME NEW reports, ArePanel(reports)
  PROVE  /\ RevealedReports(Struck(reports)) = {Stripped(r) : r \in RevealedReports(reports)}
         /\ \A r, s \in reports : Stripped(r) = Stripped(s) => r = s
         /\ RevealedReports(reports) \subseteq reports
<1>1. \A r \in reports :
        /\ Stripped(r).verifier = r.verifier /\ Stripped(r).bound = r.bound
        /\ Stripped(r).hash = r.hash
  BY StrippedIs
<1>2. \A r, s \in reports : Stripped(r) = Stripped(s) => r = s
  BY <1>1 DEF ArePanel
<1>3. \A r \in reports : r \in RevealedReports(reports) <=>
        r.bound /\ \A s \in reports : s.bound /\ s.verifier = r.verifier => r.hash <= s.hash
  BY DEF RevealedReports
<1>4. RevealedReports(Struck(reports)) =
        {t \in Struck(reports) : 
           t.bound /\ \A u \in Struck(reports) : u.bound /\ u.verifier = t.verifier => t.hash <= u.hash}
  BY DEF RevealedReports
<1>5. \A r \in reports : Stripped(r) \in RevealedReports(Struck(reports)) <=> r \in RevealedReports(reports)
  BY <1>1, <1>3, <1>4, StruckIs
<1>6. RevealedReports(Struck(reports)) \subseteq Struck(reports)
  BY <1>4
<1>7. RevealedReports(reports) \subseteq reports
  BY DEF RevealedReports
<1> QED
  BY <1>2, <1>5, <1>6, <1>7, StruckIs

LEMMA StrippedAreAsMany ==
  ASSUME NEW reports, ArePanel(reports), NEW T \in SUBSET reports
  PROVE  /\ IsFiniteSet(T) /\ Cardinality({Stripped(r) : r \in T}) = Cardinality(T)
         /\ Cardinality(T) \in Nat
<1>1. IsFiniteSet(T)
  BY FS_Subset DEF ArePanel
<1> DEFINE f == [r \in T |-> Stripped(r)]
<1>2. f \in Bijection(T, {Stripped(r) : r \in T})
  BY StrippedReveals DEF Bijection, Injection, Surjection, IsInjective
<1> QED
  BY <1>1, <1>2, FS_Bijection, FS_CardinalityType DEF ExistsBijection

LEMMA StrippedVotes ==
  ASSUME NEW reports, ArePanel(reports), NEW c
  PROVE  Votes(Struck(reports), c) =
           {Stripped(r) : r \in {s \in Votes(reports, c) : ~s.claims[c].degraded}}
<1>1. ASSUME NEW r \in reports
      PROVE  c \in DOMAIN Stripped(r).claims <=> (c \in DOMAIN r.claims /\ ~r.claims[c].degraded)
  <2>1. Stripped(r).claims = [d \in {e \in DOMAIN r.claims : ~r.claims[e].degraded} |-> r.claims[d]]
    BY StrippedIs
  <2> QED
    BY <2>1
<1> QED
  BY <1>1, StrippedReveals DEF Votes

LEMMA StrippedHolders ==
  ASSUME NEW reports, ArePanel(reports), NEW c, NEW verdict
  PROVE  /\ Holders(Struck(reports), c, verdict) = {Stripped(r) : r \in Holders(reports, c, verdict)}
         /\ Holders(reports, c, verdict) \subseteq RevealedReports(reports)
         /\ \A r \in Holders(reports, c, verdict) :
              c \in DOMAIN r.claims /\ Stripped(r).claims[c] = r.claims[c]
<1>1. \A r \in Votes(reports, c) :
        r \in RevealedReports(reports) /\ r \in reports /\ c \in DOMAIN r.claims
  BY StrippedReveals DEF Votes
<1>2. \A r \in Votes(reports, c) : ~r.claims[c].degraded => Stripped(r).claims[c] = r.claims[c]
  BY <1>1, StrippedIs
<1>3. \A r \in Votes(reports, c) : Counts(r.claims[c]) => ~r.claims[c].degraded
  BY DEF Counts
<1>4. Holders(Struck(reports), c, verdict) =
        {t \in Votes(Struck(reports), c) : Counts(t.claims[c]) /\ t.claims[c].verdict = verdict}
  BY DEF Holders
<1>5. Holders(reports, c, verdict) =
        {t \in Votes(reports, c) : Counts(t.claims[c]) /\ t.claims[c].verdict = verdict}
  BY DEF Holders
<1> QED
  BY <1>1, <1>2, <1>3, <1>4, <1>5, StrippedVotes

LEMMA StrippedMajority ==
  ASSUME NEW reports, ArePanel(reports), NEW c
  PROVE  /\ MajorityVerdict(Struck(reports), c) = MajorityVerdict(reports, c)
         /\ Agreeing(Struck(reports), c) = {Stripped(r) : r \in Agreeing(reports, c)}
         /\ Agreeing(reports, c) \subseteq RevealedReports(reports)
         /\ \A r \in Agreeing(reports, c) : Stripped(r).claims[c] = r.claims[c]
<1>1. ASSUME NEW v
      PROVE  Cardinality(Holders(Struck(reports), c, v)) = Cardinality(Holders(reports, c, v))
  <2>1. Holders(reports, c, v) \in SUBSET reports
    BY StrippedHolders, StrippedReveals
  <2> QED
    BY <2>1, StrippedHolders, StrippedAreAsMany
<1> DEFINE Leading(rs) ==
      {v \in Labels : \A w \in Labels \ {v} : Cardinality(Holders(rs, c, v)) > Cardinality(Holders(rs, c, w))}
<1>2. Leading(Struck(reports)) = Leading(reports)
  BY <1>1
<1>3. MajorityVerdict(Struck(reports), c) = MajorityVerdict(reports, c)
  <2>1. \A rs : MajorityVerdict(rs, c) =
                 IF Leading(rs) = {} THEN Abstention ELSE CHOOSE v \in Leading(rs) : TRUE
    BY DEF MajorityVerdict
  <2> HIDE DEF Leading
  <2> QED
    BY <1>2, <2>1
<1> QED
  BY <1>3, StrippedHolders DEF Agreeing

LEMMA StrippedConflicts ==
  ASSUME NEW reports, ArePanel(reports), NEW c
  PROVE  CriticalConflict(Struck(reports), c) <=> CriticalConflict(reports, c)
<1>1. ASSUME NEW r \in Votes(reports, c), ~r.claims[c].degraded
      PROVE  Stripped(r).claims[c] = r.claims[c]
  <2>1. r \in reports /\ c \in DOMAIN r.claims
    BY StrippedReveals DEF Votes
  <2> QED
    BY <1>1, <2>1, StrippedIs
<1>2. ASSUME NEW v
      PROVE  {r \in Votes(Struck(reports), c) : ~r.claims[c].degraded /\ r.claims[c].verdict = v} =
             {Stripped(r) : r \in {s \in Votes(reports, c) : ~s.claims[c].degraded /\ s.claims[c].verdict = v}}
  BY <1>1, StrippedVotes
<1>3. ASSUME NEW v
      PROVE  {r \in Votes(Struck(reports), c) : ~r.claims[c].degraded /\ r.claims[c].verdict = v} = {}
        <=> {r \in Votes(reports, c) : ~r.claims[c].degraded /\ r.claims[c].verdict = v} = {}
  <2> DEFINE S == {s \in Votes(reports, c) : ~s.claims[c].degraded /\ s.claims[c].verdict = v}
  <2>1. {Stripped(r) : r \in S} = {} <=> S = {}
    OBVIOUS
  <2> QED
    BY <1>2, <2>1
<1> QED
  BY <1>3, Zenon DEF CriticalConflict

LEMMA StrippedEvidence ==
  ASSUME NEW reports, ArePanel(reports), NEW c
  PROVE  LET agreeing == Agreeing(reports, c)
             stripped == Agreeing(Struck(reports), c)
         IN  /\ Covered(stripped, c) <=> Covered(agreeing, c)
             /\ Overlapping(stripped, c) <=> Overlapping(agreeing, c)
             /\ Cardinality(stripped) = Cardinality(agreeing)
<1> DEFINE agreeing == Agreeing(reports, c)
           stripped == Agreeing(Struck(reports), c)
<1>1. /\ stripped = {Stripped(r) : r \in agreeing} /\ agreeing \subseteq reports
      /\ \A r \in agreeing : Stripped(r).claims[c] = r.claims[c]
  BY StrippedMajority, StrippedReveals
<1>2. Cardinality(stripped) = Cardinality(agreeing)
  BY <1>1, StrippedAreAsMany
<1> HIDE DEF agreeing, stripped
<1>3. Covered(stripped, c) <=> Covered(agreeing, c)
  <2>1. {r \in stripped : r.claims[c].sources # {}} =
          {Stripped(r) : r \in {s \in agreeing : s.claims[c].sources # {}}}
    BY <1>1
  <2>2. Cardinality({r \in stripped : r.claims[c].sources # {}}) =
          Cardinality({r \in agreeing : r.claims[c].sources # {}})
    BY <1>1, <2>1, StrippedAreAsMany
  <2>3. stripped # {} <=> agreeing # {}
    BY <1>1
  <2> QED
    BY <1>2, <2>2, <2>3 DEF Covered
<1>4. Overlapping(stripped, c) <=> Overlapping(agreeing, c)
  <2>1. UNION {r.claims[c].sources : r \in stripped} = UNION {r.claims[c].sources : r \in agreeing}
    BY <1>1
  <2>2. \A h : (\A r \in stripped : h \in r.claims[c].sources) <=> (\A r \in agreeing : h \in r.claims[c].sources)
    BY <1>1
  <2>3. {h \in UNION {r.claims[c].sources : r \in stripped} : \A r \in stripped : h \in r.claims[c].sources}
        = {h \in UNION {r.claims[c].sources : r \in agreeing} : \A r \in agreeing : h \in r.claims[c].sources}
    BY <2>1, <2>2
  <2> QED
    BY <2>1, <2>3 DEF Overlapping
<1> QED
  BY <1>2, <1>3, <1>4 DEF agreeing, stripped

LEMMA StrippedAgreed ==
  ASSUME NEW reports, ArePanel(reports), NEW c
  PROVE  Agreed(Struck(reports), c) <=> Agreed(reports, c)
  BY StrippedEvidence, StrippedConflicts, StrippedMajority DEF Agreed

(* What was struck weighs nothing.                                           *)
LEMMA StrippedOutcome ==
  ASSUME NEW reports, ArePanel(reports)
  PROVE  Outcome(Struck(reports)) = Outcome(reports) /\ Rewarded(Struck(reports)) = Rewarded(reports)
<1>1. Cardinality(RevealedReports(Struck(reports))) = Cardinality(RevealedReports(reports))
  BY StrippedReveals, StrippedAreAsMany
<1>2. Outcome(Struck(reports)) = Outcome(reports)
  BY <1>1, StrippedAgreed DEF Outcome
<1>3. ASSUME NEW r \in RevealedReports(reports)
      PROVE  /\ AgreedOnMajority(Struck(reports), Stripped(r)) <=> AgreedOnMajority(reports, r)
             /\ Stripped(r).verifier = r.verifier
  <2>1. \A c : Stripped(r) \in Agreeing(Struck(reports), c) <=> r \in Agreeing(reports, c)
    BY StrippedMajority, StrippedReveals
  <2>2. {c \in ManifestClaims : Agreed(Struck(reports), c) /\ Stripped(r) \in Agreeing(Struck(reports), c)}
        = {c \in ManifestClaims : Agreed(reports, c) /\ r \in Agreeing(reports, c)}
    BY <2>1, StrippedAgreed
  <2> QED
    BY <2>2, StrippedIs, StrippedReveals DEF AgreedOnMajority
<1>4. {s \in RevealedReports(Struck(reports)) : AgreedOnMajority(Struck(reports), s)} =
        {Stripped(r) : r \in {s \in RevealedReports(reports) : AgreedOnMajority(reports, s)}}
  BY <1>3, StrippedReveals
<1>5. {r.verifier : r \in {s \in RevealedReports(Struck(reports)) : AgreedOnMajority(Struck(reports), s)}} =
      {r.verifier : r \in {s \in RevealedReports(reports) : AgreedOnMajority(reports, s)}}
  BY <1>3, <1>4
<1> QED
  BY <1>2, <1>5 DEF Rewarded

(* Two who agreed on most claims agreed on one of them together.              *)
LEMMA PaidTogether ==
  ASSUME IsFiniteSet(ManifestClaims), NEW reports, NEW v \in Rewarded(reports), NEW w \in Rewarded(reports)
  PROVE  \E c \in ManifestClaims, r, s \in RevealedReports(reports) :
            /\ r.verifier = v /\ s.verifier = w
            /\ Agreed(reports, c)
            /\ {r, s} \subseteq Agreeing(reports, c)
<1> DEFINE Sides(r) == {c \in ManifestClaims : Agreed(reports, c) /\ r \in Agreeing(reports, c)}
<1>1. PICK r \in RevealedReports(reports) : r.verifier = v /\ AgreedOnMajority(reports, r)
  BY DEF Rewarded
<1>2. PICK s \in RevealedReports(reports) : s.verifier = w /\ AgreedOnMajority(reports, s)
  BY DEF Rewarded
<1>3. /\ 2 * Cardinality(Sides(r)) > Cardinality(ManifestClaims)
      /\ 2 * Cardinality(Sides(s)) > Cardinality(ManifestClaims)
  BY <1>1, <1>2 DEF AgreedOnMajority
<1>4. Sides(r) \subseteq ManifestClaims /\ Sides(s) \subseteq ManifestClaims
  OBVIOUS
<1>5. Cardinality(Sides(r)) \in Nat /\ Cardinality(Sides(s)) \in Nat /\ Cardinality(ManifestClaims) \in Nat
  BY <1>4, FS_Subset, FS_CardinalityType
<1>6. Cardinality(Sides(r)) + Cardinality(Sides(s)) > Cardinality(ManifestClaims)
  BY <1>3, <1>5
<1>7. Sides(r) \cap Sides(s) # {}
  BY <1>4, <1>6, FS_MajoritiesIntersect, Zenon
<1> QED
  BY <1>1, <1>2, <1>7

LEMMA EngineOK ==
  EngineSpec => [](panel = NoPanel \/ (panel.reports \in Panels /\ panel.outcome = Outcome(panel.reports)))
<1> DEFINE OK == panel = NoPanel \/ (panel.reports \in Panels /\ panel.outcome = Outcome(panel.reports))
<1>1. EngineInit => OK
  BY DEF EngineInit
<1>2. OK /\ [EngineNext]_panel => OK'
  BY DEF EngineNext, EvaluateConsensus
<1> QED
  BY <1>1, <1>2, PTL DEF EngineSpec

LEMMA NobodyPaidByNone == Rewarded(NoPanel.reports) = {}
<1>1. RevealedReports({}) = {}
  BY DEF RevealedReports
<1> QED
  BY <1>1 DEF NoPanel, Rewarded

(* Nothing that no model produced decides an outcome or earns a share.       *)
THEOREM WeightOfDegraded == EngineSpec => []DegradedCarriesNoWeight
<1>1. (panel = NoPanel \/ (panel.reports \in Panels /\ panel.outcome = Outcome(panel.reports)))
        => DegradedCarriesNoWeight
  BY StrippedOutcome, EngineAssumption DEF DegradedCarriesNoWeight
<1> QED
  BY <1>1, EngineOK, PTL

(* Any two who are paid gave one verdict on a claim that was agreed on, by    *)
(* requiredAgreement of the panel and against no model's opposite.            *)
THEOREM PaidOfOneMind == EngineSpec => []PaidAgree
<1>1. PaidAgree
  BY PaidTogether, EngineAssumption DEF PaidAgree
<1> QED
  BY <1>1, PTL

-----------------------------------------------------------------------------
AdjInv ==
  /\ dispute = [status |-> dispute.status, reports |-> dispute.reports,
                challenger |-> dispute.challenger, named |-> dispute.named]
  /\ adjudicator = [at |-> adjudicator.at, read |-> adjudicator.read,
                    second |-> adjudicator.second, weighed |-> adjudicator.weighed,
                    upheld |-> adjudicator.upheld, revised |-> adjudicator.revised]
  /\ adjudicator.at \in {"store", "send", "over"} =>
       /\ DOMAIN adjudicator.second = Disputed
       /\ adjudicator.revised = Revised(adjudicator.read, adjudicator.second)
       /\ adjudicator.upheld \in BOOLEAN
       /\ adjudicator.upheld <=> Overturned(adjudicator.read, adjudicator.second) # {}
  /\ adjudicator.at = "over" <=> dispute.status \in {"upheld", "rejected"}
  /\ adjudicator.at = "over" => (dispute.status = "upheld" <=> adjudicator.upheld)
  /\ adjudicator.at # "idle" => dispute.status # "none"
  /\ dispute.status # "none" => dispute.reports \in DisputePanels
  /\ adjudicator.read \subseteq dispute.reports

LEMMA AdjInitOK == AdjInit => AdjInv
  BY DEF AdjInit, AdjInv, NoDispute, AdjIdle

LEMMA AdjStepOK == AdjInv /\ [AdjNext]_adjVars => AdjInv'
<1> SUFFICES ASSUME AdjInv, [AdjNext]_adjVars PROVE AdjInv'
  OBVIOUS
<1> USE DEF AdjInv
<1>1. CASE ChallengeOpened
  BY <1>1 DEF ChallengeOpened, NoDispute
<1>2. CASE ExpireDispute
  BY <1>2 DEF ExpireDispute, Disputed, Overturned
<1>3. CASE FindDisputed
  BY <1>3 DEF FindDisputed, AdjIdle
<1>4. CASE LoadChallenge \/ LoadDisputed \/ AdjTickFails
  BY <1>4 DEF LoadChallenge, LoadDisputed, AdjTickFails, Adj
<1>5. CASE LoadReports
  <2>1. dispute' = dispute /\ adjudicator.at = "reports"
    BY <1>5 DEF LoadReports
  <2>2. PICK told \in SUBSET dispute.reports :
                    \/ adjudicator' = AdjIdle
                    \/ adjudicator' = [adjudicator EXCEPT !.at = "score", !.read = told]
    BY <1>5 DEF LoadReports
  <2>3. CASE adjudicator' = AdjIdle
    BY <2>1, <2>3 DEF AdjIdle
  <2>4. CASE adjudicator' = [adjudicator EXCEPT !.at = "score", !.read = told]
    <3>1. PICK a : a = [adjudicator EXCEPT !.at = "score", !.read = told]
      OBVIOUS
    <3>2. a = [at |-> a.at, read |-> a.read, second |-> a.second, weighed |-> a.weighed,
               upheld |-> a.upheld, revised |-> a.revised] /\ a.at = "score" /\ a.read = told
      BY <3>1
    <3> QED
      BY <2>1, <2>4, <3>1, <3>2
  <2> QED
    BY <2>2, <2>3, <2>4
<1>6. CASE Resolve
  BY <1>6 DEF Resolve, Disputed
<1>7. CASE StoreDecision
  BY <1>7 DEF StoreDecision, Adj, Disputed, Overturned
<1>8. CASE SendDecision
  BY <1>8 DEF SendDecision, Adj, Disputed, ContractAccepts
<1>9. CASE UNCHANGED adjVars
  BY <1>9 DEF adjVars, Disputed
<1> QED
  BY <1>1, <1>2, <1>3, <1>4, <1>5, <1>6, <1>7, <1>8, <1>9 DEF AdjNext

(* Of a panel with one report per verifier a part is read.                    *)
LEMMA PartIsRead ==
  ASSUME NEW reports, NEW heard \in SUBSET reports,
         \A r, s \in reports : r.verifier = s.verifier => r = s
  PROVE  /\ \A c, v : Holders(heard, c, v) = Holders(reports, c, v) \cap heard
         /\ \A c, v : Holders(reports, c, v) \subseteq reports
<1>1. /\ \A r \in reports : r.bound => \A s \in reports : s.bound /\ s.verifier = r.verifier => s = r
      /\ \A r \in RevealedReports(reports) : r \in reports
  BY DEF RevealedReports
<1> QED
  BY <1>1 DEF Holders, Votes, RevealedReports

(* A majority that leads by more than what is missing is the majority of what *)
(* is read.                                                                   *)
LEMMA LeadStands ==
  ASSUME NEW reports \in DisputePanels, NEW heard \in SUBSET reports, NEW c,
         \/ reports \ heard = {}
         \/ \A v \in Labels \ {MajorityVerdict(reports, c)} :
              Cardinality(Holders(reports, c, MajorityVerdict(reports, c)))
                > Cardinality(Holders(reports, c, v)) + Cardinality(reports \ heard)
  PROVE  MajorityVerdict(heard, c) = MajorityVerdict(reports, c)
<1> DEFINE settled == MajorityVerdict(reports, c)
           size(v) == Cardinality(Holders(reports, c, v))
           seen(v) == Cardinality(Holders(heard, c, v))
           leads == {v \in Labels : \A w \in Labels \ {v} : seen(v) > seen(w)}
<1>1. CASE reports \ heard = {}
  <2>1. heard = reports
    BY <1>1
  <2> QED
    BY <2>1
<1>2. CASE \A v \in Labels \ {settled} : size(settled) > size(v) + Cardinality(reports \ heard)
  <2>1. /\ \A v : Holders(heard, c, v) = Holders(reports, c, v) \cap heard
        /\ \A v : Holders(reports, c, v) \subseteq reports
        /\ IsFiniteSet(reports)
    BY PartIsRead, AdjudicationAssumption DEF ArePanel
  <2>2. ASSUME NEW v PROVE /\ size(v) \in Nat /\ seen(v) \in Nat /\ seen(v) <= size(v)
                           /\ Cardinality(reports \ heard) \in Nat
                           /\ size(v) <= seen(v) + Cardinality(reports \ heard)
    <3>1. /\ IsFiniteSet(Holders(reports, c, v)) /\ IsFiniteSet(Holders(heard, c, v))
          /\ IsFiniteSet(reports \ heard)
      BY <2>1, FS_Subset
    <3>2. /\ size(v) \in Nat /\ seen(v) \in Nat /\ Cardinality(reports \ heard) \in Nat
          /\ seen(v) <= size(v)
      BY <2>1, <3>1, FS_CardinalityType, FS_Subset
    <3>3. Holders(reports, c, v) \subseteq Holders(heard, c, v) \cup (reports \ heard)
      BY <2>1
    <3>4. IsFiniteSet(Holders(heard, c, v) \cup (reports \ heard))
      BY <3>1, FS_Union
    <3>5. /\ size(v) <= Cardinality(Holders(heard, c, v) \cup (reports \ heard))
          /\ Cardinality(Holders(heard, c, v) \cup (reports \ heard)) \in Nat
          /\ Cardinality(Holders(heard, c, v) \cap (reports \ heard)) \in Nat
          /\ Cardinality(Holders(heard, c, v) \cup (reports \ heard))
               = seen(v) + Cardinality(reports \ heard)
                 - Cardinality(Holders(heard, c, v) \cap (reports \ heard))
      BY <3>1, <3>3, <3>4, FS_Subset, FS_CardinalityType, FS_Union, FS_Intersection
    <3> QED
      BY <3>2, <3>5
  <2>3. settled \in Labels
    BY DEF MajorityVerdict, Labels
  <2> HIDE DEF settled, size, seen
  <2>4. \A v \in Labels \ {settled} : seen(settled) > seen(v)
    BY <1>2, <2>2
  <2>5. leads = {settled}
    <3>1. settled \in leads
      BY <2>3, <2>4
    <3>2. ASSUME NEW v \in leads, v # settled PROVE FALSE
      BY <2>2, <2>3, <2>4, <3>2
    <3> QED
      BY <3>1, <3>2
  <2>6. MajorityVerdict(heard, c) = IF leads = {} THEN Abstention ELSE CHOOSE v \in leads : TRUE
    BY DEF MajorityVerdict, seen
  <2> QED
    BY <2>5, <2>6 DEF settled
<1> QED
  BY <1>1, <1>2

(* Whose verdict the second pass does not share is not paid, read or not.     *)
LEMMA OverturnedUnpaid ==
  ASSUME NEW reports \in DisputePanels, NEW heard \in SUBSET reports, NEW second,
         NEW c \in DOMAIN second, second[c] # MajorityVerdict(reports, c),
         NEW r \in Agreeing(reports, c)
  PROVE  r.verifier \notin Revised(heard, second)
<1>1. /\ r \in reports /\ c \in DOMAIN r.claims
      /\ r.claims[c].verdict = MajorityVerdict(reports, c)
  BY DEF Agreeing, Holders, Votes, RevealedReports
<1>2. \A s \in heard : s.verifier = r.verifier => s = r
  BY <1>1, AdjudicationAssumption
<1>3. ASSUME r \in heard
      PROVE  r \in {s \in heard : \E d \in DOMAIN second \cap DOMAIN s.claims :
                                    s.claims[d].verdict # second[d]}
  BY <1>1, <1>3
<1> QED
  BY <1>2, <1>3 DEF Revised

(* Where what is missing is too little to have made the majority, the dispute *)
(* is decided by what the task settled on, and an overturned verdict pays none *)
(* of those who gave it.                                                      *)
THEOREM DissentAlone == AdjSpec => []DissentDoesNotUphold
<1>1. ASSUME AdjInv PROVE DissentDoesNotUphold
  <2> SUFFICES ASSUME dispute.status \in {"upheld", "rejected"},
                      \A c \in Disputed : Unread = {} \/ Leads(c)
               PROVE  /\ dispute.status = "upheld" <=> OverturnedSettled # {}
                      /\ \A c \in OverturnedSettled :
                           {r.verifier : r \in Agreeing(dispute.reports, c)}
                             \cap adjudicator.revised = {}
    BY DEF DissentDoesNotUphold
  <2>1. /\ DOMAIN adjudicator.second = Disputed
        /\ dispute.status = "upheld" <=> Overturned(adjudicator.read, adjudicator.second) # {}
        /\ adjudicator.revised = Revised(adjudicator.read, adjudicator.second)
        /\ dispute.reports \in DisputePanels /\ adjudicator.read \subseteq dispute.reports
    BY <1>1 DEF AdjInv
  <2>2. \A c \in Disputed : MajorityVerdict(adjudicator.read, c) = MajorityVerdict(dispute.reports, c)
    BY <2>1, LeadStands DEF Leads, Unread
  <2>3. OverturnedSettled = Overturned(adjudicator.read, adjudicator.second)
    BY <2>1, <2>2 DEF OverturnedSettled, Overturned
  <2>4. ASSUME NEW c \in OverturnedSettled
        PROVE  {r.verifier : r \in Agreeing(dispute.reports, c)} \cap adjudicator.revised = {}
    <3>1. /\ c \in DOMAIN adjudicator.second
          /\ adjudicator.second[c] # MajorityVerdict(dispute.reports, c)
      BY <2>1 DEF OverturnedSettled
    <3>2. \A r \in Agreeing(dispute.reports, c) :
             r.verifier \notin Revised(adjudicator.read, adjudicator.second)
      BY <2>1, <3>1, OverturnedUnpaid
    <3> QED
      BY <2>1, <3>2
  <2> QED
    BY <2>1, <2>3, <2>4
<1> QED
  BY <1>1, AdjInitOK, AdjStepOK, PTL DEF AdjSpec

-----------------------------------------------------------------------------
(* The results, when there are any, and by whom.                             *)
ComputeInv ==
  /\ build = [at |-> build.at, driver |-> build.driver, depth |-> build.depth,
              corpus |-> build.corpus, attempt |-> build.attempt]
  /\ build.at \notin {"idle", "failed"} => build.depth \in Depths
  /\ build.at # "report" => results = [c \in Claims |-> NoResult]
  /\ build.at = "lexical" => build.driver = "local"
  /\ build.at = "chat" => build.driver # "local"
  /\ SupportIsWeighed

(* A degraded claim is never supported, and an assertion has a source.        *)
LEMMA ScoredClaim ==
  ASSUME NEW c, NEW texts, NEW depth, NEW facts, NEW conservative \in BOOLEAN
  PROVE  LET result == ScoreClaim(c, texts, depth, facts, conservative)
         IN  /\ result.verdict = "SUPPORTED" => ~conservative
             /\ result.verdict \in {"SUPPORTED", "CONTRADICTED"} => result.cites # 0
  BY DEF ScoreClaim, Judge

LEMMA ModelClaim ==
  ASSUME NEW given \in Rows, NEW depth \in Depths, NEW shown, Usable(given, shown)
  PROVE  LET result == FromModel(given, depth)
         IN  /\ result.verdict = given.verdict /\ ~result.degraded
             /\ result.verdict \in {"SUPPORTED", "CONTRADICTED"} => result.cites # 0
<1>1. given.spanIndexes \in Seq(Int) /\ depth \in Nat \ {0}
  BY ComputeAssumption
<1>2. given.verdict \in {"SUPPORTED", "CONTRADICTED"} => given.spanIndexes # <<>>
  BY DEF Usable, CitationsUsable
<1>3. given.verdict \in {"SUPPORTED", "CONTRADICTED"} => Len(given.spanIndexes) \in Nat \ {0}
  BY <1>1, <1>2, EmptySeq, LenProperties
<1> QED
  BY <1>1, <1>3 DEF FromModel, Lesser

LEMMA ComputeInitOK == ComputeInit => ComputeInv
  BY DEF ComputeInit, ComputeInv, SupportIsWeighed, NoResult

LEMMA ComputeStepOK == ComputeInv /\ [ComputeNext]_computeVars => ComputeInv'
<1> SUFFICES ASSUME ComputeInv, [ComputeNext]_computeVars PROVE ComputeInv'
  OBVIOUS
<1>1. ASSUME build' = [at |-> build'.at, driver |-> build'.driver, depth |-> build'.depth,
                       corpus |-> build'.corpus, attempt |-> build'.attempt],
             UNCHANGED <<results, answer>>, build.at # "report", build'.at # "report",
             build'.at \notin {"idle", "failed"} => build'.depth \in Depths,
             build'.at = "lexical" => build'.driver = "local",
             build'.at = "chat" => build'.driver # "local"
      PROVE  ComputeInv'
  BY <1>1 DEF ComputeInv, SupportIsWeighed, NoResult
<1>2. CASE LoadManifest
  BY <1>1, <1>2 DEF LoadManifest, ComputeInv, reported
<1>3. CASE NotWhatWasNamed
  BY <1>1, <1>3 DEF NotWhatWasNamed, ComputeInv, reported, At
<1>4. CASE LoadCorpus
  BY <1>1, <1>4 DEF LoadCorpus, ComputeInv, reported
<1>5. CASE ResolveProvider
  BY <1>1, <1>5 DEF ResolveProvider, ComputeInv, reported, At
<1>6. CASE GatherCandidates
  BY <1>1, <1>6 DEF GatherCandidates, ComputeInv, reported, At
<1>7. ASSUME NEW rows, NEW report, NEW named, Scored(rows, report, named),
             build.depth \in Depths, report = [c \in Claims |-> report[c]],
             \A c \in Claims :
               /\ report[c].verdict = "SUPPORTED" /\ build.driver # "local" =>
                     rows[c].verdict = "SUPPORTED" /\ ~report[c].degraded
               /\ report[c].verdict \in {"SUPPORTED", "CONTRADICTED"} => report[c].cites # 0
      PROVE  ComputeInv'
  <2>1. /\ build' = [build EXCEPT !.at = "report"] /\ answer' = rows /\ results' = report
    BY <1>7 DEF Scored, At
  <2>2. SupportIsWeighed'
    BY <1>7, <2>1 DEF SupportIsWeighed, ComputeInv
  <2> QED
    BY <1>7, <2>1, <2>2 DEF ComputeInv
<1>8. CASE ScoreLocally
  <2>1. PICK facts \in StatedFacts :
          Scored([c \in Claims |-> NoAnswerRow],
                 [c \in Claims |-> ScoreClaim(c, build.corpus, build.depth, facts[c], FALSE)],
                 [model |-> "local", verified |-> FALSE])
    BY <1>8 DEF ScoreLocally
  <2>2. build.driver = "local" /\ build.depth \in Depths
    BY <1>8 DEF ScoreLocally, ComputeInv
  <2>3. PICK report : report = [c \in Claims |-> ScoreClaim(c, build.corpus, build.depth, facts[c], FALSE)]
    OBVIOUS
  <2>4. \A c \in Claims : report[c].verdict \in {"SUPPORTED", "CONTRADICTED"} => report[c].cites # 0
    BY <2>3, ScoredClaim
  <2>5. report = [c \in Claims |-> report[c]]
    BY <2>3
  <2>6. Scored([c \in Claims |-> NoAnswerRow], report, [model |-> "local", verified |-> FALSE])
    BY <2>1, <2>3
  <2> QED
    BY <1>7, <2>2, <2>4, <2>5, <2>6
<1>9. CASE ChatFails
  <2>1. CASE build' = [build EXCEPT !.attempt = @ + 1] /\ UNCHANGED <<session, score, candidates, reported>>
    BY <1>1, <1>9, <2>1 DEF ChatFails, ComputeInv, reported
  <2>2. ASSUME NEW facts \in StatedFacts,
               Scored([c \in Claims |-> NoAnswerRow], Degraded(facts), [model |-> "local", verified |-> FALSE])
        PROVE  ComputeInv'
    <3>1. build.depth \in Depths
      BY <1>9 DEF ChatFails, ComputeInv
    <3>2. PICK report : report = Degraded(facts)
      OBVIOUS
    <3>3. \A c \in Claims : /\ report[c].verdict # "SUPPORTED"
                            /\ report[c].verdict \in {"SUPPORTED", "CONTRADICTED"} => report[c].cites # 0
      BY <3>2, ScoredClaim DEF Degraded
    <3>4. report = [c \in Claims |-> report[c]]
      BY <3>2 DEF Degraded
    <3> QED
      BY <1>7, <2>2, <3>1, <3>2, <3>3, <3>4
  <2> QED
    BY <1>9, <2>1, <2>2 DEF ChatFails
<1>10. CASE ChatAnswers
  <2>1. PICK rows \in SomeRows, facts \in StatedFacts, tee \in BOOLEAN :
          Scored(rows,
                 [c \in Claims |->
                    IF Usable(rows[c], Len(candidates[c])) THEN FromModel(rows[c], build.depth)
                    ELSE ScoreClaim(c, build.corpus, build.depth, facts[c], TRUE)],
                 [model |-> "model", verified |-> tee])
    BY <1>10 DEF ChatAnswers
  <2>2. build.depth \in Depths /\ \A c \in Claims : rows[c] \in Rows
    BY <1>10 DEF ChatAnswers, ComputeInv, SomeRows
  <2>3. ASSUME NEW c \in Claims
        PROVE  LET result == IF Usable(rows[c], Len(candidates[c])) THEN FromModel(rows[c], build.depth)
                             ELSE ScoreClaim(c, build.corpus, build.depth, facts[c], TRUE)
               IN  /\ result.verdict = "SUPPORTED" => rows[c].verdict = "SUPPORTED" /\ ~result.degraded
                   /\ result.verdict \in {"SUPPORTED", "CONTRADICTED"} => result.cites # 0
    <3>1. CASE Usable(rows[c], Len(candidates[c]))
      BY <2>2, <3>1, ModelClaim
    <3>2. CASE ~Usable(rows[c], Len(candidates[c]))
      BY <3>2, ScoredClaim
    <3> QED
      BY <3>1, <3>2
  <2>4. PICK report :
          report = [c \in Claims |->
                      IF Usable(rows[c], Len(candidates[c])) THEN FromModel(rows[c], build.depth)
                      ELSE ScoreClaim(c, build.corpus, build.depth, facts[c], TRUE)]
    OBVIOUS
  <2>5. \A c \in Claims :
          /\ report[c].verdict = "SUPPORTED" => rows[c].verdict = "SUPPORTED" /\ ~report[c].degraded
          /\ report[c].verdict \in {"SUPPORTED", "CONTRADICTED"} => report[c].cites # 0
    BY <2>3, <2>4
  <2>6. report = [c \in Claims |-> report[c]]
    BY <2>4
  <2>7. Scored(rows, report, [model |-> "model", verified |-> tee])
    BY <2>1, <2>4
  <2> QED
    BY <1>7, <2>2, <2>5, <2>6, <2>7
<1>11. CASE UNCHANGED computeVars
  BY <1>11 DEF computeVars, reported, ComputeInv, SupportIsWeighed
<1> QED
  BY <1>2, <1>3, <1>4, <1>5, <1>6, <1>8, <1>9, <1>10, <1>11 DEF ComputeNext

(* What is reported as supported a model supported, of this claim.           *)
THEOREM SupportWeighed == ComputeSpec => []SupportIsWeighed
<1>1. ComputeInv => SupportIsWeighed
  BY DEF ComputeInv
<1> QED
  BY <1>1, ComputeInitOK, ComputeStepOK, PTL DEF ComputeSpec

(* A verdict with weight was weighed, from the model's row to the panel.     *)
THEOREM Weighed == ComputeSpec /\ EngineSpec => []VerdictsAreWeighed
<1>1. SupportIsWeighed /\ DegradedCarriesNoWeight /\ PaidAgree => VerdictsAreWeighed
  BY DEF VerdictsAreWeighed
<1> QED
  BY <1>1, SupportWeighed, WeightOfDegraded, PaidOfOneMind, PTL

-----------------------------------------------------------------------------
(* Orders.  R holds the pairs of a strict total order of a finite set S.      *)

Orders(R, S) ==
  /\ IsFiniteSet(S)
  /\ \A s \in S : <<s, s>> \notin R
  /\ \A s, t \in S : s # t => <<s, t>> \in R \/ <<t, s>> \in R
  /\ \A s, t, u \in S : <<s, t>> \in R /\ <<t, u>> \in R => <<s, u>> \in R

Ahead(R, S, s) == {t \in S : <<t, s>> \in R}
Place(R, S, s) == Cardinality(Ahead(R, S, s))

(* Places are below the size of the set, and in the order of the elements.   *)
LEMMA PlaceIs ==
  ASSUME NEW S, NEW R, Orders(R, S)
  PROVE  /\ Cardinality(S) \in Nat
         /\ \A s \in S : Place(R, S, s) \in 0..(Cardinality(S) - 1)
         /\ \A s, t \in S : <<s, t>> \in R <=> Place(R, S, s) < Place(R, S, t)
         /\ \A s, t \in S : Place(R, S, s) = Place(R, S, t) => s = t
<1>1. IsFiniteSet(S) /\ Cardinality(S) \in Nat
  BY FS_CardinalityType DEF Orders
<1>2. ASSUME NEW s \in S
      PROVE  /\ IsFiniteSet(Ahead(R, S, s)) /\ Place(R, S, s) \in Nat
             /\ Place(R, S, s) < Cardinality(S)
  <2>1. Ahead(R, S, s) \in SUBSET S /\ s \notin Ahead(R, S, s)
    BY DEF Ahead, Orders
  <2>2. /\ IsFiniteSet(Ahead(R, S, s)) /\ Cardinality(Ahead(R, S, s)) <= Cardinality(S)
        /\ (Cardinality(S) = Cardinality(Ahead(R, S, s)) => S = Ahead(R, S, s))
    BY <1>1, <2>1, FS_Subset
  <2>3. Cardinality(Ahead(R, S, s)) \in Nat
    BY <2>2, FS_CardinalityType
  <2> QED
    BY <1>1, <2>1, <2>2, <2>3 DEF Place
<1>3. ASSUME NEW s \in S, NEW t \in S, <<s, t>> \in R
      PROVE  Place(R, S, s) < Place(R, S, t)
  <2>1. Ahead(R, S, s) \in SUBSET Ahead(R, S, t)
    BY <1>3 DEF Ahead, Orders
  <2>2. s \in Ahead(R, S, t) /\ s \notin Ahead(R, S, s)
    BY <1>3 DEF Ahead, Orders
  <2>3. IsFiniteSet(Ahead(R, S, t)) /\ Place(R, S, s) \in Nat /\ Place(R, S, t) \in Nat
    BY <1>2
  <2>4. Cardinality(Ahead(R, S, s)) <= Cardinality(Ahead(R, S, t))
        /\ (Cardinality(Ahead(R, S, t)) = Cardinality(Ahead(R, S, s)) => Ahead(R, S, t) = Ahead(R, S, s))
    BY <2>1, <2>3, FS_Subset
  <2> QED
    BY <2>2, <2>3, <2>4 DEF Place
<1>4. \A s \in S : Place(R, S, s) \in 0..(Cardinality(S) - 1)
  BY <1>1, <1>2
<1>5. ASSUME NEW s \in S, NEW t \in S
      PROVE  /\ <<s, t>> \in R <=> Place(R, S, s) < Place(R, S, t)
             /\ Place(R, S, s) = Place(R, S, t) => s = t
  <2>1. Place(R, S, s) \in Nat /\ Place(R, S, t) \in Nat
    BY <1>2
  <2>2. s = t \/ <<s, t>> \in R \/ <<t, s>> \in R
    BY DEF Orders
  <2>3. s = t => <<s, t>> \notin R
    BY DEF Orders
  <2> QED
    BY <1>3, <2>1, <2>2, <2>3
<1> QED
  BY <1>1, <1>4, <1>5

(* Every place below the size of the set is somebody's.                      *)
LEMMA PlacesAreTaken ==
  ASSUME NEW S, NEW R, Orders(R, S)
  PROVE  \A i \in 0..(Cardinality(S) - 1) : \E s \in S : Place(R, S, s) = i
<1> DEFINE N == Cardinality(S)
<1> DEFINE g == [s \in S |-> Place(R, S, s)]
<1>1. N \in Nat /\ IsFiniteSet(S)
  BY PlaceIs DEF Orders
<1>2. IsFiniteSet(0..(N - 1)) /\ Cardinality(0..(N - 1)) = N
  <2>1. IsFiniteSet(0..(N - 1)) /\ Cardinality(0..(N - 1)) = IF 0 > N - 1 THEN 0 ELSE (N - 1) - 0 + 1
    BY <1>1, FS_Interval
  <2> QED
    BY <1>1, <2>1
<1>3. g \in Injection(S, 0..(N - 1))
  BY PlaceIs DEF Injection, IsInjective
<1>4. g \in Surjection(S, 0..(N - 1))
  <2> HIDE DEF N, g
  <2>1. Cardinality(S) = N
    BY DEF N
  <2> QED
    BY <1>1, <1>2, <1>3, <2>1, FS_Injection
<1>5. \A n \in 0..(N - 1) : \E s \in S : g[s] = n
  BY <1>4 DEF Surjection
<1> QED
  BY <1>5

(* The first n are n, or all there are.                                      *)
LEMMA FirstAreAsMany ==
  ASSUME NEW S, NEW R, Orders(R, S), NEW n \in Nat, NEW T, T = {s \in S : Place(R, S, s) < n}
  PROVE  IsFiniteSet(T) /\ Cardinality(T) = Lesser(n, Cardinality(S))
<1> DEFINE N == Cardinality(S)
<1> DEFINE m == Lesser(n, N)
<1> DEFINE g == [s \in T |-> Place(R, S, s)]
<1>1. N \in Nat /\ IsFiniteSet(S) /\ m \in Nat /\ m <= N /\ m <= n
  BY PlaceIs DEF Orders, Lesser
<1>2. T \subseteq S /\ IsFiniteSet(T)
  BY <1>1, FS_Subset
<1>3. IsFiniteSet(0..(m - 1)) /\ Cardinality(0..(m - 1)) = m
  <2>1. 0 \in Int /\ m - 1 \in Int
    BY <1>1
  <2> HIDE DEF m
  <2>2. IsFiniteSet(0..(m - 1)) /\ Cardinality(0..(m - 1)) = IF 0 > m - 1 THEN 0 ELSE (m - 1) - 0 + 1
    BY <2>1, FS_Interval
  <2> QED
    BY <1>1, <2>2
<1>4. \A s \in T : g[s] = Place(R, S, s) /\ Place(R, S, s) \in 0..(N - 1) /\ Place(R, S, s) < n
  BY <1>2, PlaceIs
<1>5. \A s \in T : g[s] \in 0..(m - 1)
  BY <1>1, <1>4 DEF Lesser
<1>6. \A s, t \in T : g[s] = g[t] => s = t
  BY <1>2, <1>4, PlaceIs
<1>7. ASSUME NEW i \in 0..(m - 1) PROVE \E s \in T : g[s] = i
  <2>1. i \in 0..(N - 1) /\ i < n
    BY <1>1, <1>7
  <2>2. PICK s \in S : Place(R, S, s) = i
    BY <2>1, PlacesAreTaken
  <2> QED
    BY <2>1, <2>2
<1>8. g \in Bijection(T, 0..(m - 1))
  <2>1. g \in [T -> 0..(m - 1)]
    BY <1>5
  <2> HIDE DEF g, m
  <2> QED
    BY <2>1, <1>6, <1>7 DEF Bijection, Injection, Surjection, IsInjective
<1>9. IsFiniteSet(0..(m - 1)) /\ Cardinality(0..(m - 1)) = Cardinality(T)
  <2> HIDE DEF m, g
  <2>1. IsFiniteSet(T)
    BY <1>2
  <2> QED
    BY <2>1, <1>8, FS_Bijection DEF ExistsBijection
<1> QED
  BY <1>2, <1>3, <1>9

LEMMA FunctionIsSeq ==
  ASSUME NEW S, NEW n \in Nat, NEW q \in [1..n -> S]
  PROVE  q \in Seq(S) /\ Len(q) = n
OBVIOUS

Lists(q, R, S) ==
  q \in [1..Cardinality(S) -> S] /\ \A i \in 1..Cardinality(S) : Place(R, S, q[i]) = i - 1

(* A set in its order: a sequence of its elements and of all of them.        *)
LEMMA ListIs ==
  ASSUME NEW S, NEW R, Orders(R, S), NEW q, Lists(q, R, S)
  PROVE  /\ q \in Seq(S) /\ Len(q) = Cardinality(S)
         /\ \A s \in S : \E i \in 1..Cardinality(S) : q[i] = s
<1>1. Cardinality(S) \in Nat
  BY PlaceIs
<1>2. ASSUME NEW i \in 1..Cardinality(S)
      PROVE  q[i] \in S /\ Place(R, S, q[i]) = i - 1
  BY DEF Lists
<1>3. q \in [1..Cardinality(S) -> S]
  BY DEF Lists
<1>4. q \in Seq(S) /\ Len(q) = Cardinality(S)
  <2>1. PICK n : n = Cardinality(S)
    OBVIOUS
  <2>2. n \in Nat /\ q \in [1..n -> S]
    BY <1>1, <1>3, <2>1
  <2>3. q \in Seq(S) /\ Len(q) = n
    BY <2>2, FunctionIsSeq
  <2> QED
    BY <2>1, <2>3
<1>5. ASSUME NEW s \in S PROVE \E i \in 1..Cardinality(S) : q[i] = s
  <2>1. PICK i : i = Place(R, S, s) + 1
    OBVIOUS
  <2>2. Place(R, S, s) \in 0..(Cardinality(S) - 1)
    BY PlaceIs
  <2>3. i \in 1..Cardinality(S) /\ i - 1 = Place(R, S, s)
    BY <1>1, <2>1, <2>2
  <2>4. q[i] \in S /\ Place(R, S, q[i]) = Place(R, S, s)
    BY <1>2, <2>3
  <2>5. q[i] = s
    BY <2>4, PlaceIs
  <2> QED
    BY <2>3, <2>5
<1> QED
  BY <1>3, <1>4, <1>5

-----------------------------------------------------------------------------
(* Spans.                                                                    *)

LEMMA SpanIs ==
  ASSUME NEW x \in DOMAIN Sentences, NEW s \in SplitSpans(x)
  PROVE  /\ s.source = x /\ s.start \in 1..Sentences[x] /\ s.end \in Nat
         /\ s.start < s.end /\ s.end <= s.start + 2
         /\ s = [source |-> x, start |-> s.start, end |-> Lesser(s.start + 2, Sentences[x] + 1)]
<1>1. Sentences[x] \in Nat
  BY ComputeAssumption
<1>2. PICK i \in 1..Sentences[x] :
        s = [source |-> x, start |-> i, end |-> Lesser(i + 2, Sentences[x] + 1)]
  BY DEF SplitSpans
<1>3. PICK e : e = Lesser(i + 2, Sentences[x] + 1)
  OBVIOUS
<1>4. e \in Nat /\ i < e /\ e <= i + 2
  BY <1>1, <1>3 DEF Lesser
<1>5. s.source = x /\ s.start = i /\ s.end = e
  BY <1>2, <1>3
<1> QED
  BY <1>2, <1>3, <1>4, <1>5

LEMMA ImageIsFinite ==
  ASSUME NEW S, IsFiniteSet(S), NEW f
  PROVE  IsFiniteSet({f[x] : x \in S}) /\ Cardinality({f[x] : x \in S}) <= Cardinality(S)
<1> DEFINE T == {f[x] : x \in S}
<1>1. [x \in S |-> f[x]] \in Surjection(S, T)
  BY DEF Surjection
<1> HIDE DEF T
<1>2. IsFiniteSet(T) /\ Cardinality(T) <= Cardinality(S)
  BY <1>1, FS_Surjection
<1> QED
  BY <1>2 DEF T

LEMMA SpansAre ==
  /\ IsFiniteSet(DOMAIN Sentences) /\ IsFiniteSet(Spans)
  /\ \A s \in Spans : /\ s.source \in DOMAIN Sentences /\ s \in SplitSpans(s.source)
                      /\ s.source \in Int /\ s.start \in Int /\ s.end \in Int /\ s.start < s.end
                      /\ s.end <= s.start + 2
  /\ \A s, t \in Spans : s.source = t.source /\ s.start = t.start => s = t
  /\ \A x \in DOMAIN Sentences : SplitSpans(x) \subseteq Spans
<1>1. /\ Len(Sentences) \in Nat /\ DOMAIN Sentences = 1..Len(Sentences)
      /\ \A x \in DOMAIN Sentences : Sentences[x] \in Nat
  BY ComputeAssumption
<1>2. IsFiniteSet(DOMAIN Sentences)
  BY <1>1, FS_Interval
<1>3. ASSUME NEW x \in DOMAIN Sentences PROVE IsFiniteSet(SplitSpans(x))
  <2> DEFINE f == [i \in 1..Sentences[x] |->
                     [source |-> x, start |-> i, end |-> Lesser(i + 2, Sentences[x] + 1)]]
  <2>1. IsFiniteSet(1..Sentences[x])
    BY <1>1, FS_Interval
  <2>2. SplitSpans(x) = {f[i] : i \in 1..Sentences[x]}
    BY DEF SplitSpans
  <2> HIDE DEF f
  <2>3. PICK D, T : D = 1..Sentences[x] /\ T = SplitSpans(x)
    OBVIOUS
  <2>4. IsFiniteSet(D) /\ T = {f[i] : i \in D}
    BY <2>1, <2>2, <2>3
  <2>5. IsFiniteSet(T)
    BY <2>4, ImageIsFinite
  <2> QED
    BY <2>3, <2>5
<1>4. IsFiniteSet(Spans)
  <2> DEFINE f == [x \in DOMAIN Sentences |-> SplitSpans(x)]
  <2> DEFINE F == {f[x] : x \in DOMAIN Sentences}
  <2>1. IsFiniteSet(F)
    <3> HIDE DEF f
    <3> QED
      BY <1>2, ImageIsFinite
  <2>2. \A T \in F : IsFiniteSet(T)
    BY <1>3
  <2>3. Spans = UNION F
    BY DEF Spans
  <2> HIDE DEF F
  <2> QED
    BY <2>1, <2>2, <2>3, FS_UNION
<1>5. ASSUME NEW s \in Spans
      PROVE  /\ s.source \in DOMAIN Sentences /\ s \in SplitSpans(s.source)
             /\ s.source \in Int /\ s.start \in Int /\ s.end \in Int /\ s.start < s.end
             /\ s.end <= s.start + 2
             /\ s = [source |-> s.source, start |-> s.start,
                     end |-> Lesser(s.start + 2, Sentences[s.source] + 1)]
  <2>1. PICK x \in DOMAIN Sentences : s \in SplitSpans(x)
    BY DEF Spans
  <2>2. /\ s.source = x /\ s.start \in 1..Sentences[x] /\ s.end \in Nat
        /\ s.start < s.end /\ s.end <= s.start + 2
        /\ s = [source |-> x, start |-> s.start, end |-> Lesser(s.start + 2, Sentences[x] + 1)]
    BY <2>1, SpanIs
  <2> QED
    BY <1>1, <2>1, <2>2
<1>6. \A s, t \in Spans : s.source = t.source /\ s.start = t.start => s = t
  BY <1>5
<1>7. \A x \in DOMAIN Sentences : SplitSpans(x) \subseteq Spans
  BY DEF Spans
<1> QED
  BY <1>2, <1>4, <1>5, <1>6, <1>7

StrongerPairs(by) == {pair \in Spans \X Spans : Stronger(by, pair[1], pair[2])}

LEMMA StrongerIs ==
  ASSUME NEW by \in [Spans -> Nat], NEW s \in Spans, NEW t \in Spans
  PROVE  <<s, t>> \in StrongerPairs(by) <=>
           \/ by[s] > by[t]
           \/ by[s] = by[t] /\ (s.source < t.source \/ (s.source = t.source /\ s.start < t.start))
  BY DEF StrongerPairs, Stronger

(* The order in which spans are shown is one.                                *)
LEMMA StrongerOrders ==
  ASSUME NEW by \in [Spans -> Nat], NEW S \in SUBSET Spans
  PROVE  /\ Orders(StrongerPairs(by), S)
         /\ \A s \in S : Outranking(by, S, s) = Place(StrongerPairs(by), S, s)
<1>1. IsFiniteSet(S)
  BY SpansAre, FS_Subset
<1>2. \A s \in S : /\ s \in Spans /\ by[s] \in Nat /\ s.source \in Int /\ s.start \in Int
  BY SpansAre
<1>3. \A s \in S : <<s, s>> \notin StrongerPairs(by)
  BY <1>2, StrongerIs
<1>4. ASSUME NEW s \in S, NEW t \in S, s # t
      PROVE  <<s, t>> \in StrongerPairs(by) \/ <<t, s>> \in StrongerPairs(by)
  <2>1. s.source # t.source \/ s.start # t.start
    BY <1>2, <1>4, SpansAre
  <2> QED
    BY <1>2, <2>1, StrongerIs
<1>5. ASSUME NEW s \in S, NEW t \in S, NEW u \in S,
             <<s, t>> \in StrongerPairs(by), <<t, u>> \in StrongerPairs(by)
      PROVE  <<s, u>> \in StrongerPairs(by)
  BY <1>2, <1>5, StrongerIs
<1>6. ASSUME NEW s \in S PROVE Outranking(by, S, s) = Place(StrongerPairs(by), S, s)
  <2>1. \A t \in S : Stronger(by, t, s) <=> <<t, s>> \in StrongerPairs(by)
    BY <1>2, StrongerIs DEF Stronger
  <2> QED
    BY <2>1 DEF Outranking, Place, Ahead
<1> QED
  BY <1>1, <1>3, <1>4, <1>5, <1>6 DEF Orders

LEMMA RankedIs ==
  ASSUME NEW by \in [Spans -> Nat], NEW S \in SUBSET Spans
  PROVE  /\ IsFiniteSet(S) /\ Cardinality(S) \in Nat
         /\ Ranked(by, S) \in Seq(S) /\ Len(Ranked(by, S)) = Cardinality(S)
         /\ \A s \in S : \E i \in 1..Len(Ranked(by, S)) : Ranked(by, S)[i] = s
         /\ ToSet(Ranked(by, S)) = S
<1> DEFINE R == StrongerPairs(by)
<1> DEFINE q == Ranked(by, S)
<1>1. Orders(R, S) /\ \A s \in S : Outranking(by, S, s) = Place(R, S, s)
  BY StrongerOrders
<1>2. Cardinality(S) \in Nat
  BY <1>1, PlaceIs
<1>3. ASSUME NEW i \in 1..Cardinality(S)
      PROVE  q[i] \in S /\ Place(R, S, q[i]) = i - 1
  <2>1. i - 1 \in 0..(Cardinality(S) - 1)
    BY <1>2
  <2>2. \E s \in S : Place(R, S, s) = i - 1
    BY <1>1, <2>1, PlacesAreTaken
  <2>3. \E s \in S : Outranking(by, S, s) = i - 1
    BY <1>1, <2>2
  <2>4. q[i] = CHOOSE s \in S : Outranking(by, S, s) = i - 1
    BY DEF Ranked
  <2>5. q[i] \in S /\ Outranking(by, S, q[i]) = i - 1
    BY <2>3, <2>4
  <2> QED
    BY <1>1, <2>5
<1>4. q \in [1..Cardinality(S) -> S]
  BY <1>3 DEF Ranked
<1>5. /\ q \in Seq(S) /\ Len(q) = Cardinality(S) /\ DOMAIN q = 1..Cardinality(S)
      /\ \A s \in S : \E i \in 1..Cardinality(S) : q[i] = s
  <2> HIDE DEF R, q
  <2>1. Orders(R, S)
    BY <1>1
  <2>2. \A i \in 1..Cardinality(S) : Place(R, S, q[i]) = i - 1
    BY <1>3
  <2>5. Lists(q, R, S)
    BY <1>4, <2>2 DEF Lists
  <2>3. q \in Seq(S) /\ Len(q) = Cardinality(S) /\ \A s \in S : \E i \in 1..Cardinality(S) : q[i] = s
    BY <2>1, <2>5, ListIs
  <2>4. DOMAIN q = 1..Cardinality(S)
    BY <1>4
  <2> QED
    BY <2>3, <2>4
<1>6. IsFiniteSet(S) /\ Cardinality(S) \in Nat
  BY <1>1, PlaceIs DEF Orders
<1>7. ToSet(q) = S
  <2> HIDE DEF q
  <2>1. \A i \in 1..Cardinality(S) : q[i] \in S
    BY <1>5
  <2> QED
    BY <1>5, <2>1 DEF ToSet
<1> QED
  BY <1>5, <1>6, <1>7

LEMMA TopIs ==
  ASSUME NEW by \in [Spans -> Nat], NEW S \in SUBSET Spans, NEW n \in Nat
  PROVE  /\ Top(by, S, n) \subseteq S /\ IsFiniteSet(Top(by, S, n))
         /\ Cardinality(Top(by, S, n)) = Lesser(n, Cardinality(S))
<1>1. Orders(StrongerPairs(by), S) /\ \A s \in S : Outranking(by, S, s) = Place(StrongerPairs(by), S, s)
  BY StrongerOrders
<1>2. Top(by, S, n) = {s \in S : Place(StrongerPairs(by), S, s) < n}
  BY <1>1 DEF Top
<1> QED
  BY <1>1, <1>2, FirstAreAsMany

-----------------------------------------------------------------------------
(* Numbers.                                                                  *)

Less == {pair \in Nat \X Nat : pair[1] < pair[2]}

(* A set of naturals that has an element has a least one.                    *)
LEMMA LeastNatural ==
  ASSUME NEW S \in SUBSET Nat, S # {}
  PROVE  \E n \in S : \A m \in S : n <= m
<1>1. IsWellFoundedOn(Less, Nat)
  BY NatLessThanWellFounded DEF OpToRel, Less
<1>2. PICK x \in S : \A y \in S : <<y, x>> \notin Less
  BY <1>1, WFMin
<1>3. ASSUME NEW m \in S PROVE x <= m
  <2>1. <<m, x>> \in Nat \X Nat /\ <<m, x>>[1] = m /\ <<m, x>>[2] = x
    OBVIOUS
  <2> QED
    BY <1>2, <2>1 DEF Less
<1> QED
  BY <1>3

(* What holds at 0 and passes from each number to the next holds up to the last. *)
LEMMA UpTo ==
  ASSUME NEW last \in Nat, NEW S, 0 \in S, \A n \in 0..(last - 1) : n \in S => n + 1 \in S
  PROVE  last \in S
<1> DEFINE Missing == (0..last) \ S
<1>1. SUFFICES ASSUME Missing # {} PROVE FALSE
  OBVIOUS
<1>2. Missing \in SUBSET Nat
  OBVIOUS
<1> HIDE DEF Missing
<1>3. PICK n \in Missing : \A m \in Missing : n <= m
  BY <1>1, <1>2, LeastNatural
<1> USE DEF Missing
<1>4. n \in 0..last /\ n \notin S /\ n # 0
  BY <1>3
<1>5. n - 1 \in 0..(last - 1) /\ n - 1 \notin Missing
  BY <1>3, <1>4
<1>6. n - 1 \in S /\ (n - 1) + 1 = n
  BY <1>4, <1>5
<1> QED
  BY <1>4, <1>5, <1>6

-----------------------------------------------------------------------------
(* Filling the slots.                                                        *)

AreTaken(g, taken, rest, slots, fresh) ==
  g = [n \in 0..Len(rest) |-> IF n = 0 THEN taken ELSE Take(g[n - 1], rest[n], slots, fresh)]

LEMMA TakenExist ==
  ASSUME NEW taken, NEW rest, Len(rest) \in Nat, NEW slots, NEW fresh
  PROVE  \E g : AreTaken(g, taken, rest, slots, fresh)
<1> DEFINE Is(g, m) == g = [n \in 0..m |-> IF n = 0 THEN taken ELSE Take(g[n - 1], rest[n], slots, fresh)]
<1> DEFINE S == {m \in 0..Len(rest) : \E g : Is(g, m)}
<1>1. 0 \in S
  <2> DEFINE g == [n \in 0..0 |-> taken]
  <2>1. g = [n \in 0..0 |-> IF n = 0 THEN taken ELSE Take(g[n - 1], rest[n], slots, fresh)]
    OBVIOUS
  <2> HIDE DEF g
  <2>2. Is(g, 0)
    BY <2>1
  <2> HIDE DEF Is
  <2> QED
    BY <2>2
<1>2. ASSUME NEW m \in 0..(Len(rest) - 1), m \in S PROVE m + 1 \in S
  <2>1. m + 1 \in 0..Len(rest)
    BY <1>2
  <2>2. PICK g : Is(g, m)
    BY <1>2
  <2> DEFINE f == [n \in 0..(m + 1) |-> IF n = m + 1 THEN Take(g[m], rest[m + 1], slots, fresh) ELSE g[n]]
  <2>3. \A n \in 0..(m + 1) : f[n] = IF n = 0 THEN taken ELSE Take(f[n - 1], rest[n], slots, fresh)
    <3> SUFFICES ASSUME NEW n \in 0..(m + 1)
                 PROVE  f[n] = IF n = 0 THEN taken ELSE Take(f[n - 1], rest[n], slots, fresh)
      OBVIOUS
    <3>1. CASE n = m + 1
      <4>1. n # 0 /\ n - 1 = m /\ m \in 0..(m + 1) /\ m # m + 1
        BY <3>1
      <4>2. f[m] = g[m] /\ f[n] = Take(g[m], rest[n], slots, fresh)
        BY <3>1, <4>1
      <4> HIDE DEF f
      <4> QED
        BY <4>1, <4>2
    <3>2. CASE n # m + 1
      <4>1. n \in 0..m /\ f[n] = g[n]
        BY <3>2
      <4>2. g[n] = IF n = 0 THEN taken ELSE Take(g[n - 1], rest[n], slots, fresh)
        BY <2>2, <4>1
      <4>3. n # 0 => n - 1 \in 0..(m + 1) /\ n - 1 # m + 1
        BY <4>1
      <4>4. n # 0 => f[n - 1] = g[n - 1]
        BY <4>3
      <4> HIDE DEF f
      <4> QED
        BY <4>1, <4>2, <4>4
    <3> QED
      BY <3>1, <3>2
  <2>4. f = [n \in 0..(m + 1) |-> f[n]]
    OBVIOUS
  <2> HIDE DEF f
  <2>5. Is(f, m + 1)
    BY <2>3, <2>4
  <2> HIDE DEF Is
  <2> QED
    BY <2>1, <2>5
<1>3. Len(rest) \in S
  <2> HIDE DEF S
  <2> QED
    BY <1>1, <1>2, UpTo
<1> QED
  BY <1>3 DEF AreTaken

LEMMA FillIs ==
  ASSUME NEW taken, NEW rest, Len(rest) \in Nat, NEW slots, NEW fresh
  PROVE  \E g : /\ g[0] = taken /\ Fill(taken, rest, slots, fresh) = g[Len(rest)]
                /\ \A n \in 0..(Len(rest) - 1) : g[n + 1] = Take(g[n], rest[n + 1], slots, fresh)
<1> DEFINE T == CHOOSE g : AreTaken(g, taken, rest, slots, fresh)
<1>1. AreTaken(T, taken, rest, slots, fresh)
  BY TakenExist
<1>2. Fill(taken, rest, slots, fresh) = T[Len(rest)]
  BY DEF Fill, AreTaken
<1> HIDE DEF T
<1>3. \A n \in 0..Len(rest) : T[n] = IF n = 0 THEN taken ELSE Take(T[n - 1], rest[n], slots, fresh)
  BY <1>1 DEF AreTaken
<1>4. T[0] = taken
  BY <1>3
<1>5. ASSUME NEW n \in 0..(Len(rest) - 1) PROVE T[n + 1] = Take(T[n], rest[n + 1], slots, fresh)
  <2>1. n + 1 \in 0..Len(rest) /\ n + 1 # 0 /\ (n + 1) - 1 = n
    BY <1>5
  <2> QED
    BY <1>3, <2>1
<1> QED
  BY <1>2, <1>4, <1>5

(* No two of them overlap.                                                   *)
Disjoint(S) == \A s, t \in S : s # t => ~Overlap(s, t)

(* What filling leaves: within the slots, of what there was, still disjoint if *)
(* nothing but new text was let in, and if a slot is left there was nothing   *)
(* more to take.                                                              *)
Filled(T, taken, rest, m, slots, fresh) ==
  /\ taken \subseteq T /\ T \subseteq taken \cup {rest[i] : i \in 1..m}
  /\ T \subseteq Spans /\ Cardinality(T) <= slots
  /\ (fresh /\ Disjoint(taken)) => Disjoint(T)
  /\ Cardinality(T) < slots =>
       \A i \in 1..m : rest[i] \in T \/ (fresh /\ \E t \in T : Overlap(t, rest[i]))

LEMMA FillLeaves ==
  ASSUME NEW taken \in SUBSET Spans, NEW rest \in Seq(Spans), NEW slots \in Nat, NEW fresh \in BOOLEAN,
         Cardinality(taken) <= slots
  PROVE  Filled(Fill(taken, rest, slots, fresh), taken, rest, Len(rest), slots, fresh)
<1>1. Len(rest) \in Nat /\ \A i \in 1..Len(rest) : rest[i] \in Spans
  OBVIOUS
<1>2. PICK g : /\ g[0] = taken /\ Fill(taken, rest, slots, fresh) = g[Len(rest)]
               /\ \A n \in 0..(Len(rest) - 1) : g[n + 1] = Take(g[n], rest[n + 1], slots, fresh)
  BY <1>1, FillIs
<1> DEFINE S == {m \in 0..Len(rest) : Filled(g[m], taken, rest, m, slots, fresh)}
<1>3. 0 \in S
  BY <1>1, <1>2 DEF Filled
<1>4. ASSUME NEW m \in 0..(Len(rest) - 1), m \in S PROVE m + 1 \in S
  <2>1. PICK T, s, U : T = g[m] /\ s = rest[m + 1] /\ U = g[m + 1]
    OBVIOUS
  <2>2. m + 1 \in 1..Len(rest) /\ m + 1 \in 0..Len(rest) /\ 1..m \subseteq 1..(m + 1)
        /\ \A i \in 1..(m + 1) : i = m + 1 \/ i \in 1..m
    BY <1>1, <1>4
  <2>3. s \in Spans /\ Filled(T, taken, rest, m, slots, fresh) /\ U = Take(T, s, slots, fresh)
    BY <1>1, <1>2, <1>4, <2>1, <2>2
  <2>4. /\ IsFiniteSet(T) /\ Cardinality(T) \in Nat
        /\ Cardinality(T \cup {s}) = IF s \in T THEN Cardinality(T) ELSE Cardinality(T) + 1
    BY <2>3, SpansAre, FS_Subset, FS_CardinalityType, FS_AddElement DEF Filled
  <2>5. CASE U = T /\ (s \in T \/ Cardinality(T) >= slots \/ (fresh /\ \E t \in T : Overlap(t, s)))
    <3>1. T \subseteq taken \cup {rest[i] : i \in 1..(m + 1)}
      BY <2>2, <2>3 DEF Filled
    <3>2. Cardinality(T) < slots =>
            \A i \in 1..(m + 1) : rest[i] \in T \/ (fresh /\ \E t \in T : Overlap(t, rest[i]))
      <4> SUFFICES ASSUME Cardinality(T) < slots, NEW i \in 1..(m + 1)
                   PROVE  rest[i] \in T \/ (fresh /\ \E t \in T : Overlap(t, rest[i]))
        OBVIOUS
      <4>1. CASE i = m + 1
        BY <2>1, <2>4, <2>5, <4>1
      <4>2. CASE i \in 1..m
        BY <2>3, <4>2 DEF Filled
      <4> QED
        BY <2>2, <4>1, <4>2
    <3> QED
      BY <2>1, <2>2, <2>3, <2>5, <3>1, <3>2 DEF Filled
  <2>6. CASE /\ U = T \cup {s} /\ s \notin T /\ Cardinality(T) < slots
             /\ fresh => \A t \in T : ~Overlap(t, s)
    <3>1. taken \subseteq U /\ U \subseteq taken \cup {rest[i] : i \in 1..(m + 1)} /\ U \subseteq Spans
      BY <2>1, <2>2, <2>3, <2>6 DEF Filled
    <3>2. Cardinality(U) <= slots
      BY <2>4, <2>6
    <3>3. \A t \in T : Overlap(s, t) <=> Overlap(t, s)
      BY <2>3, SpansAre DEF Overlap, Filled
    <3>4. (fresh /\ Disjoint(taken)) => Disjoint(U)
      BY <2>3, <2>6, <3>3 DEF Filled, Disjoint
    <3>5. \A i \in 1..(m + 1) : rest[i] \in U \/ (fresh /\ \E t \in U : Overlap(t, rest[i]))
      BY <2>1, <2>2, <2>3, <2>6 DEF Filled
    <3> QED
      BY <2>1, <2>2, <3>1, <3>2, <3>4, <3>5 DEF Filled
  <2>7. \/ U = T /\ (s \in T \/ Cardinality(T) >= slots \/ (fresh /\ \E t \in T : Overlap(t, s)))
        \/ U = T \cup {s} /\ s \notin T /\ Cardinality(T) < slots /\ (fresh => \A t \in T : ~Overlap(t, s))
    BY <2>3, <2>4 DEF Take
  <2> QED
    BY <2>5, <2>6, <2>7
<1>5. Len(rest) \in S
  <2> HIDE DEF S
  <2> QED
    BY <1>1, <1>3, <1>4, UpTo
<1> QED
  BY <1>2, <1>5

-----------------------------------------------------------------------------
(* Selecting spans.                                                          *)

AllOf(texts) == UNION {SplitSpans(s) : s \in texts}
LeadersOf(by, texts) == UNION {Top(by, SplitSpans(s), 1) : s \in texts}
Cap(slots) == Greater(8 * slots, 32)
RetainedOf(by, texts, slots) == UNION {Top(by, SplitSpans(s), Cap(slots)) : s \in texts}
WithText(texts) == {s \in texts : Sentences[s] > 0}

(* Every source with a text has one leader.                                  *)
LEMMA LeadersAre ==
  ASSUME NEW by \in [Spans -> Nat], NEW texts \in SUBSET DOMAIN Sentences
  PROVE  /\ LeadersOf(by, texts) \subseteq AllOf(texts) /\ AllOf(texts) \subseteq Spans
         /\ \A s, t \in LeadersOf(by, texts) : s.source = t.source => s = t
         /\ \A x \in WithText(texts) : \E s \in LeadersOf(by, texts) : s.source = x
         /\ \A s \in AllOf(texts) : s.source \in WithText(texts)
<1>1. ASSUME NEW x \in texts
      PROVE  /\ SplitSpans(x) \subseteq Spans /\ IsFiniteSet(SplitSpans(x))
             /\ Top(by, SplitSpans(x), 1) \subseteq SplitSpans(x)
             /\ Cardinality(Top(by, SplitSpans(x), 1)) = Lesser(1, Cardinality(SplitSpans(x)))
             /\ IsFiniteSet(Top(by, SplitSpans(x), 1))
             /\ \A s \in SplitSpans(x) : s.source = x /\ Sentences[x] > 0
             /\ Sentences[x] > 0 => SplitSpans(x) # {}
  <2>1. SplitSpans(x) \subseteq Spans
    BY SpansAre
  <2>2. IsFiniteSet(SplitSpans(x))
    BY <2>1, SpansAre, FS_Subset
  <2>3. /\ Top(by, SplitSpans(x), 1) \subseteq SplitSpans(x) /\ IsFiniteSet(Top(by, SplitSpans(x), 1))
        /\ Cardinality(Top(by, SplitSpans(x), 1)) = Lesser(1, Cardinality(SplitSpans(x)))
    BY <2>1, TopIs
  <2>4. Sentences[x] \in Nat
    BY ComputeAssumption
  <2>5. \A s \in SplitSpans(x) : s.source = x /\ Sentences[x] > 0
    BY <2>4, SpanIs
  <2>6. Sentences[x] > 0 => SplitSpans(x) # {}
    <3>1. Sentences[x] > 0 => 1 \in 1..Sentences[x]
      BY <2>4
    <3>2. \A i \in 1..Sentences[x] :
            [source |-> x, start |-> i, end |-> Lesser(i + 2, Sentences[x] + 1)] \in SplitSpans(x)
      BY DEF SplitSpans
    <3> QED
      BY <3>1, <3>2
  <2> QED
    BY <2>1, <2>2, <2>3, <2>5, <2>6
<1>2. ASSUME NEW x \in texts, NEW s \in Top(by, SplitSpans(x), 1), NEW t \in Top(by, SplitSpans(x), 1)
      PROVE  s = t
  <2>1. PICK L, n : L = Top(by, SplitSpans(x), 1) /\ n = Cardinality(SplitSpans(x))
    OBVIOUS
  <2>2. /\ IsFiniteSet(L) /\ Cardinality(L) = Lesser(1, n) /\ n \in Nat
        /\ n = 0 => L = {}
    BY <1>1, <2>1, FS_CardinalityType, FS_EmptySet
  <2>3. Cardinality(L) = 1
    BY <1>2, <2>1, <2>2 DEF Lesser
  <2>4. \E y : L = {y}
    BY <2>2, <2>3, FS_Singleton
  <2> QED
    BY <1>2, <2>1, <2>4
<1>3. ASSUME NEW s \in LeadersOf(by, texts), NEW t \in LeadersOf(by, texts), s.source = t.source
      PROVE  s = t
  <2>1. PICK x \in texts : s \in Top(by, SplitSpans(x), 1)
    BY DEF LeadersOf
  <2>2. PICK y \in texts : t \in Top(by, SplitSpans(y), 1)
    BY DEF LeadersOf
  <2>3. x = y
    BY <1>1, <1>3, <2>1, <2>2
  <2> QED
    BY <1>2, <2>1, <2>2, <2>3
<1>4. ASSUME NEW x \in WithText(texts) PROVE \E s \in LeadersOf(by, texts) : s.source = x
  <2>1. x \in texts /\ SplitSpans(x) # {}
    BY <1>1 DEF WithText
  <2>2. PICK L, n : L = Top(by, SplitSpans(x), 1) /\ n = Cardinality(SplitSpans(x))
    OBVIOUS
  <2>3. IsFiniteSet(L) /\ Cardinality(L) = Lesser(1, n) /\ n \in Nat /\ n # 0
    BY <1>1, <2>1, <2>2, FS_CardinalityType, FS_EmptySet
  <2>4. Cardinality(L) = 1
    BY <2>3 DEF Lesser
  <2>5. L # {}
    BY <2>4, FS_EmptySet
  <2> QED
    BY <1>1, <2>1, <2>2, <2>5 DEF LeadersOf
<1>5. LeadersOf(by, texts) \subseteq AllOf(texts) /\ AllOf(texts) \subseteq Spans
  BY <1>1 DEF LeadersOf, AllOf
<1>6. \A s \in AllOf(texts) : s.source \in WithText(texts)
  BY <1>1 DEF AllOf, WithText
<1> QED
  BY <1>3, <1>4, <1>5, <1>6

(* A set of spans of which every source with a text is represented once.     *)
LEMMA OnePerSource ==
  ASSUME NEW S \in SUBSET Spans, \A s, t \in S : s.source = t.source => s = t
  PROVE  /\ IsFiniteSet(S) /\ Disjoint(S) /\ Cardinality({s.source : s \in S}) = Cardinality(S)
<1>1. IsFiniteSet(S)
  BY SpansAre, FS_Subset
<1>2. Disjoint(S)
  BY DEF Disjoint, Overlap
<1> DEFINE f == [s \in S |-> s.source]
<1> DEFINE T == {s.source : s \in S}
<1>3. f \in Bijection(S, T)
  BY DEF Bijection, Injection, Surjection, IsInjective
<1>4. Cardinality(T) = Cardinality(S)
  <2> HIDE DEF f, T
  <2> QED
    BY <1>1, <1>3, FS_Bijection DEF ExistsBijection
<1> QED
  BY <1>1, <1>2, <1>4

(* What is not retained of a source leaves at least the cap of it.           *)
LEMMA RetainedAre ==
  ASSUME NEW by \in [Spans -> Nat], NEW texts \in SUBSET DOMAIN Sentences, NEW slots \in Nat
  PROVE  /\ LeadersOf(by, texts) \subseteq RetainedOf(by, texts, slots)
         /\ RetainedOf(by, texts, slots) \subseteq AllOf(texts)
         /\ RetainedOf(by, texts, slots) # AllOf(texts) =>
              \E U \in SUBSET RetainedOf(by, texts, slots) : IsFiniteSet(U) /\ Cardinality(U) = Cap(slots)
<1>1. Cap(slots) \in Nat /\ Cap(slots) >= 32
  BY DEF Cap, Greater
<1>2. ASSUME NEW x \in texts
      PROVE  /\ SplitSpans(x) \subseteq Spans /\ IsFiniteSet(SplitSpans(x))
             /\ Top(by, SplitSpans(x), Cap(slots)) \subseteq SplitSpans(x)
             /\ Cardinality(Top(by, SplitSpans(x), Cap(slots))) = Lesser(Cap(slots), Cardinality(SplitSpans(x)))
             /\ IsFiniteSet(Top(by, SplitSpans(x), Cap(slots)))
             /\ Top(by, SplitSpans(x), 1) \subseteq Top(by, SplitSpans(x), Cap(slots))
  <2>1. SplitSpans(x) \subseteq Spans
    BY SpansAre
  <2>2. IsFiniteSet(SplitSpans(x))
    BY <2>1, SpansAre, FS_Subset
  <2>3. PICK S, n : S = SplitSpans(x) /\ n = Cap(slots)
    OBVIOUS
  <2>4. S \in SUBSET Spans /\ n \in Nat /\ n >= 32
    BY <1>1, <2>1, <2>3
  <2>5. Top(by, S, n) \subseteq S /\ IsFiniteSet(Top(by, S, n)) /\ Cardinality(Top(by, S, n)) = Lesser(n, Cardinality(S))
    BY <2>4, TopIs
  <2>6. \A s \in S : Outranking(by, S, s) \in Nat
    <3>1. Orders(StrongerPairs(by), S) /\ \A s \in S : Outranking(by, S, s) = Place(StrongerPairs(by), S, s)
      BY <2>4, StrongerOrders
    <3> QED
      BY <3>1, PlaceIs
  <2>7. Top(by, S, 1) \subseteq Top(by, S, n)
    BY <2>4, <2>6 DEF Top
  <2> QED
    BY <2>1, <2>2, <2>3, <2>5, <2>7
<1>3. LeadersOf(by, texts) \subseteq RetainedOf(by, texts, slots)
  BY <1>2 DEF LeadersOf, RetainedOf
<1>4. RetainedOf(by, texts, slots) \subseteq AllOf(texts)
  BY <1>2 DEF RetainedOf, AllOf
<1>5. ASSUME RetainedOf(by, texts, slots) # AllOf(texts)
      PROVE  \E U \in SUBSET RetainedOf(by, texts, slots) : IsFiniteSet(U) /\ Cardinality(U) = Cap(slots)
  <2>1. PICK s : s \in AllOf(texts) /\ s \notin RetainedOf(by, texts, slots)
    BY <1>4, <1>5
  <2>2. PICK x \in texts : s \in SplitSpans(x)
    BY <2>1 DEF AllOf
  <2>3. s \notin Top(by, SplitSpans(x), Cap(slots))
    BY <2>1 DEF RetainedOf
  <2>4. PICK S, U, n : S = SplitSpans(x) /\ U = Top(by, SplitSpans(x), Cap(slots)) /\ n = Cap(slots)
    OBVIOUS
  <2>5. /\ IsFiniteSet(S) /\ IsFiniteSet(U) /\ U \in SUBSET S /\ U # S /\ n \in Nat
        /\ Cardinality(U) = Lesser(n, Cardinality(S)) /\ Cardinality(S) \in Nat
    BY <1>1, <1>2, <2>2, <2>3, <2>4, FS_CardinalityType
  <2>6. Cardinality(S) # Cardinality(U)
    BY <2>5, FS_Subset
  <2>7. Cardinality(U) = n
    BY <2>5, <2>6 DEF Lesser
  <2>8. U \subseteq RetainedOf(by, texts, slots)
    BY <2>4 DEF RetainedOf
  <2> QED
    BY <2>4, <2>5, <2>7, <2>8
<1> QED
  BY <1>3, <1>4, <1>5

(* A window overlaps at most its two neighbours and itself.                  *)
LEMMA Covering ==
  ASSUME NEW T \in SUBSET Spans, NEW U \in SUBSET Spans, \A s \in U : \E t \in T : Overlap(t, s)
  PROVE  Cardinality(U) <= 3 * Cardinality(T) /\ Cardinality(T) \in Nat /\ Cardinality(U) \in Nat
<1>1. /\ IsFiniteSet(T) /\ IsFiniteSet(U) /\ Cardinality(T) \in Nat /\ Cardinality(U) \in Nat
  BY SpansAre, FS_Subset, FS_CardinalityType
<1>2. IsFiniteSet(0..2) /\ Cardinality(0..2) = 3
  <2>1. 0 \in Int /\ 2 \in Int
    OBVIOUS
  <2>2. IsFiniteSet(0..2) /\ Cardinality(0..2) = IF 0 > 2 THEN 0 ELSE 2 - 0 + 1
    BY <2>1, FS_Interval
  <2> QED
    BY <2>2
<1> DEFINE near == [s \in U |-> CHOOSE t \in T : Overlap(t, s)]
<1>3. \A s \in U : near[s] \in T /\ Overlap(near[s], s)
  OBVIOUS
<1> HIDE DEF near
<1>4. ASSUME NEW s \in U
      PROVE  /\ near[s] \in T /\ s.source = near[s].source
             /\ s.start - near[s].start + 1 \in 0..2 /\ s.start \in Int /\ near[s].start \in Int
  <2>1. PICK t : t = near[s]
    OBVIOUS
  <2>2. s \in Spans /\ t \in Spans /\ Overlap(t, s)
    BY <1>3, <2>1
  <2>3. /\ t.source = s.source /\ t.start < s.end /\ s.start < t.end /\ s.start \in Int /\ t.start \in Int
        /\ s.end \in Int /\ t.end \in Int /\ s.end <= s.start + 2 /\ t.end <= t.start + 2
    BY <2>2, SpansAre DEF Overlap
  <2>4. s.start - t.start + 1 \in 0..2
    BY <2>3
  <2> QED
    BY <1>3, <2>1, <2>3, <2>4
<1> DEFINE f == [s \in U |-> <<near[s], s.start - near[s].start + 1>>]
<1>5. f \in [U -> T \X (0..2)]
  BY <1>4
<1>6. ASSUME NEW s \in U, NEW t \in U, f[s] = f[t] PROVE s = t
  <2>1. near[s] = near[t] /\ s.start - near[s].start + 1 = t.start - near[t].start + 1
    BY <1>6
  <2>2. s.source = t.source /\ s.start = t.start
    BY <1>4, <2>1
  <2> QED
    BY <2>2, SpansAre
<1>7. IsFiniteSet(T \X (0..2)) /\ Cardinality(T \X (0..2)) = Cardinality(T) * 3
  BY <1>1, <1>2, FS_Product
<1> HIDE DEF f
<1>8. f \in Injection(U, T \X (0..2))
  BY <1>5, <1>6 DEF Injection, IsInjective
<1>9. PICK P : P = T \X (0..2)
  OBVIOUS
<1>10. IsFiniteSet(P) /\ f \in Injection(U, P)
  BY <1>7, <1>8, <1>9
<1>11. Cardinality(U) <= Cardinality(P)
  BY <1>10, FS_Injection
<1> QED
  BY <1>1, <1>7, <1>9, <1>11

(* The span that comes next is of the best match's source, after it: at most one. *)
LEMMA FollowingIs ==
  ASSUME NEW by \in [Spans -> Nat], NEW seats \in SUBSET Spans, NEW rest \in SUBSET Spans,
         \A s, t \in seats : s.source = t.source => s = t,
         NEW next, next = seats \cup Following(Top(by, seats, 1), rest)
  PROVE  /\ next \subseteq seats \cup rest /\ IsFiniteSet(next) /\ Disjoint(next)
         /\ Cardinality(next) <= Cardinality(seats) + 1 /\ Cardinality(seats) \in Nat
<1>1. IsFiniteSet(seats) /\ Cardinality(seats) \in Nat /\ Disjoint(seats)
  BY OnePerSource, FS_CardinalityType
<1>2. PICK tops : tops = Top(by, seats, 1)
  OBVIOUS
<1>3. tops \subseteq seats /\ IsFiniteSet(tops) /\ Cardinality(tops) = Lesser(1, Cardinality(seats))
  BY <1>2, TopIs
<1>4. Cardinality(tops) = 0 \/ Cardinality(tops) = 1
  BY <1>1, <1>3 DEF Lesser
<1>5. \A s, t \in tops : s = t
  BY <1>3, <1>4, FS_EmptySet, FS_Singleton
<1>6. PICK after : after = Following(tops, rest)
  OBVIOUS
<1>7. \A s \in after : /\ s \in rest /\ \E top \in tops : s.source = top.source /\ s.start >= top.end
                       /\ \A t \in after : s.start <= t.start
  BY <1>6 DEF Following
<1>8. ASSUME NEW s \in after, NEW t \in after PROVE s = t
  <2>1. s \in Spans /\ t \in Spans /\ s.start \in Int /\ t.start \in Int
    BY <1>7, SpansAre
  <2>2. s.source = t.source /\ s.start <= t.start /\ t.start <= s.start
    BY <1>5, <1>7
  <2> QED
    BY <2>1, <2>2, SpansAre
<1>9. ASSUME NEW s \in seats, NEW t \in after PROVE ~Overlap(s, t) /\ ~Overlap(t, s)
  <2>1. PICK top \in tops : t.source = top.source /\ t.start >= top.end
    BY <1>7
  <2>2. s.source = t.source => s = top
    BY <1>3, <2>1
  <2>3. t.start \in Int /\ s.end \in Int
    BY <1>7, SpansAre
  <2> QED
    BY <2>1, <2>2, <2>3 DEF Overlap
<1>10. next = seats \cup after /\ after \subseteq rest
  BY <1>2, <1>6, <1>7
<1>11. Disjoint(next)
  BY <1>1, <1>8, <1>9, <1>10 DEF Disjoint
<1>12. IsFiniteSet(next) /\ Cardinality(next) <= Cardinality(seats) + 1
  <2>1. PICK n, k : n = next /\ k = Cardinality(seats)
    OBVIOUS
  <2>2. k \in Nat
    BY <1>1, <2>1
  <2>3. CASE after = {}
    <3>1. n = seats
      BY <1>10, <2>1, <2>3
    <3>2. IsFiniteSet(n) /\ Cardinality(n) = k
      BY <1>1, <2>1, <3>1
    <3> QED
      BY <2>1, <2>2, <3>2
  <2>4. CASE after # {}
    <3>1. PICK x : x \in after
      BY <2>4
    <3>2. n = seats \cup {x}
      BY <1>8, <1>10, <2>1, <3>1
    <3>3. /\ IsFiniteSet(seats \cup {x})
          /\ Cardinality(seats \cup {x}) = IF x \in seats THEN Cardinality(seats) ELSE Cardinality(seats) + 1
      BY <1>1, FS_AddElement
    <3>4. IsFiniteSet(n) /\ Cardinality(n) = IF x \in seats THEN k ELSE k + 1
      BY <2>1, <3>2, <3>3
    <3> QED
      BY <2>1, <2>2, <3>4
  <2> QED
    BY <2>3, <2>4
<1> QED
  BY <1>1, <1>10, <1>11, <1>12

(* What is shown of the texts, given the slots.                              *)
Fair(shown, texts, slots) ==
  /\ Cardinality(shown) = Lesser(slots, Cardinality(AllOf(texts)))
  /\ Cardinality({s.source : s \in shown}) = Lesser(slots, Cardinality(WithText(texts)))
  /\ (\E s, t \in shown : s # t /\ Overlap(s, t)) =>
        \A s \in AllOf(texts) \ shown : \E t \in shown : Overlap(s, t)

(* With as many sources as slots each slot goes to a source of its own.      *)
LEMMA AllSeated ==
  ASSUME NEW by \in [Spans -> Nat], NEW texts \in SUBSET DOMAIN Sentences, NEW slots \in Nat,
         NEW shown \in SUBSET LeadersOf(by, texts), Cardinality(shown) = slots
  PROVE  Fair(shown, texts, slots)
<1>1. PICK L, A, W : L = LeadersOf(by, texts) /\ A = AllOf(texts) /\ W = WithText(texts)
  OBVIOUS
<1>2. /\ shown \subseteq L /\ L \subseteq A /\ A \subseteq Spans /\ \A s, t \in L : s.source = t.source => s = t
      /\ \A s \in A : s.source \in W
  BY <1>1, LeadersAre
<1>3. PICK S : S = {s.source : s \in shown}
  OBVIOUS
<1>4. Disjoint(shown) /\ Cardinality(S) = slots
  BY <1>2, <1>3, OnePerSource
<1>5. IsFiniteSet(W)
  BY <1>1, SpansAre, FS_Subset DEF WithText
<1>6. Cardinality(S) <= Cardinality(W) /\ Cardinality(W) \in Nat
  BY <1>2, <1>3, <1>5, FS_Subset, FS_CardinalityType
<1>7. IsFiniteSet(A) /\ Cardinality(A) \in Nat
  BY <1>2, SpansAre, FS_Subset, FS_CardinalityType
<1>8. Cardinality(shown) <= Cardinality(A)
  BY <1>2, <1>7, FS_Subset
<1>9. Cardinality(shown) = Lesser(slots, Cardinality(A)) /\ Cardinality(S) = Lesser(slots, Cardinality(W))
  BY <1>4, <1>6, <1>7, <1>8 DEF Lesser
<1>10. ~\E s, t \in shown : s # t /\ Overlap(s, t)
  BY <1>4 DEF Disjoint
<1> QED
  BY <1>1, <1>3, <1>9, <1>10 DEF Fair

(* Otherwise all leaders are seated, and the slots left are filled.          *)
LEMMA SeatsLeft ==
  ASSUME NEW by \in [Spans -> Nat], NEW texts \in SUBSET DOMAIN Sentences, NEW slots \in Nat,
         Cardinality(LeadersOf(by, texts)) < slots,
         NEW rest \in Seq(Spans),
         \A s : s \in RetainedOf(by, texts, slots) \ LeadersOf(by, texts) <=>
                  \E i \in 1..Len(rest) : rest[i] = s,
         NEW next \in SUBSET RetainedOf(by, texts, slots), LeadersOf(by, texts) \subseteq next, Disjoint(next),
         NEW fresh, Filled(fresh, next, rest, Len(rest), slots, TRUE),
         NEW shown, Filled(shown, fresh, rest, Len(rest), slots, FALSE)
  PROVE  Fair(shown, texts, slots)
<1>1. PICK L, A, W, K, c :
        /\ L = LeadersOf(by, texts) /\ A = AllOf(texts) /\ W = WithText(texts)
        /\ K = RetainedOf(by, texts, slots) /\ c = Cap(slots)
  OBVIOUS
<1>2. /\ L \subseteq A /\ A \subseteq Spans /\ L \subseteq K /\ K \subseteq A
      /\ \A s, t \in L : s.source = t.source => s = t
      /\ \A s \in A : s.source \in W
      /\ \A x \in W : \E s \in L : s.source = x
      /\ K # A => \E U \in SUBSET K : IsFiniteSet(U) /\ Cardinality(U) = c
  BY <1>1, LeadersAre, RetainedAre
<1>3. c \in Nat /\ c >= 8 * slots /\ c >= 32
  BY <1>1 DEF Cap, Greater
<1>4. /\ L \subseteq next /\ next \subseteq K /\ next \subseteq fresh /\ fresh \subseteq K /\ fresh \subseteq shown
      /\ shown \subseteq K
  BY <1>1 DEF Filled
<1>5. /\ IsFiniteSet(A) /\ IsFiniteSet(shown) /\ IsFiniteSet(fresh)
      /\ Cardinality(A) \in Nat /\ Cardinality(shown) \in Nat /\ Cardinality(fresh) \in Nat
      /\ Cardinality(shown) <= Cardinality(A)
  BY <1>2, <1>4, SpansAre, FS_Subset, FS_CardinalityType
<1>6. Cardinality(shown) <= slots /\ Cardinality(fresh) <= slots /\ Disjoint(fresh)
  BY DEF Filled
<1>7. Cardinality(shown) < slots => shown = A
  <2>1. SUFFICES ASSUME Cardinality(shown) < slots PROVE shown = A
    OBVIOUS
  <2>2. \A i \in 1..Len(rest) : rest[i] \in shown
    BY <2>1 DEF Filled
  <2>3. K \subseteq shown
    BY <1>1, <1>4, <2>2
  <2>4. CASE K # A
    <3>1. PICK U \in SUBSET K : IsFiniteSet(U) /\ Cardinality(U) = c
      BY <1>2, <2>4
    <3>2. Cardinality(U) <= Cardinality(shown)
      BY <1>5, <2>3, <3>1, FS_Subset
    <3> QED
      BY <1>3, <1>5, <2>1, <3>1, <3>2
  <2> QED
    BY <1>4, <2>3, <2>4
<1>8. Cardinality(shown) = Lesser(slots, Cardinality(A))
  BY <1>5, <1>6, <1>7 DEF Lesser
<1>9. {s.source : s \in shown} = W
  BY <1>2, <1>4
<1>10. Cardinality(W) = Lesser(slots, Cardinality(W))
  <2>1. {s.source : s \in L} = W
    BY <1>2
  <2>2. L \in SUBSET Spans
    BY <1>2
  <2>3. Cardinality({s.source : s \in L}) = Cardinality(L) /\ IsFiniteSet(L)
    BY <1>2, <2>2, OnePerSource
  <2>4. Cardinality(L) \in Nat /\ Cardinality(L) < slots
    BY <1>1, <2>3, FS_CardinalityType
  <2>5. Cardinality(W) \in Nat /\ Cardinality(W) < slots
    BY <2>1, <2>3, <2>4
  <2> QED
    BY <2>5 DEF Lesser
<1>11. ASSUME NEW s \in shown, NEW t \in shown, s # t, Overlap(s, t), NEW u \in A \ shown
       PROVE  \E w \in shown : Overlap(u, w)
  <2>1. Cardinality(fresh) < slots
    <3>1. SUFFICES ASSUME Cardinality(fresh) = slots PROVE FALSE
      BY <1>5, <1>6
    <3>2. shown = fresh
      BY <1>4, <1>5, <1>6, <3>1, FS_Subset
    <3> QED
      BY <1>6, <1>11, <3>2 DEF Disjoint
  <2>2. \A r \in K : \E w \in fresh : Overlap(w, r) /\ Overlap(r, w)
    <3> SUFFICES ASSUME NEW r \in K PROVE \E w \in fresh : Overlap(w, r) /\ Overlap(r, w)
      OBVIOUS
    <3>1. r \in Spans /\ \A w \in fresh : w \in Spans
      BY <1>2, <1>4
    <3>2. Overlap(r, r) /\ \A w \in fresh : Overlap(w, r) => Overlap(r, w)
      BY <3>1, SpansAre DEF Overlap
    <3>3. CASE r \in L
      BY <1>4, <3>2, <3>3
    <3>4. CASE r \notin L
      <4>1. PICK i \in 1..Len(rest) : rest[i] = r
        BY <1>1, <3>4
      <4>2. r \in fresh \/ \E w \in fresh : Overlap(w, r)
        BY <2>1, <4>1 DEF Filled
      <4> QED
        BY <3>2, <4>2
    <3> QED
      BY <3>3, <3>4
  <2>3. K = A
    <3>1. SUFFICES ASSUME K # A PROVE FALSE
      OBVIOUS
    <3>2. PICK U \in SUBSET K : IsFiniteSet(U) /\ Cardinality(U) = c
      BY <1>2, <3>1
    <3>3. fresh \in SUBSET Spans /\ U \in SUBSET Spans /\ \A r \in U : \E w \in fresh : Overlap(w, r)
      BY <1>2, <1>4, <2>2, <3>2
    <3>4. Cardinality(U) <= 3 * Cardinality(fresh)
      BY <3>3, Covering
    <3> QED
      BY <1>3, <1>5, <2>1, <3>2, <3>4
  <2> QED
    BY <1>4, <2>2, <2>3
<1> QED
  BY <1>1, <1>8, <1>9, <1>10, <1>11 DEF Fair

(* Which spans a claim is judged against: as many as there are, up to the     *)
(* slots, of as many sources as can be, and of overlapping text only if there *)
(* is no other.  What is not retained of a long source costs none of it.      *)
LEMMA SelectionIsFair ==
  ASSUME NEW by \in [Spans -> Nat], NEW texts \in SUBSET DOMAIN Sentences, NEW limit \in Nat
  PROVE  Fair(ToSet(SelectSpans(by, texts, limit)), texts, Greater(1, limit))
<1>1. PICK slots, K, L, seated, rest, next, list, fresh, shown :
        /\ slots = Greater(1, limit) /\ K = RetainedOf(by, texts, slots) /\ L = LeadersOf(by, texts)
        /\ seated = Top(by, L, slots) /\ rest = K \ L
        /\ next = IF Cardinality(seated) < slots
                  THEN seated \cup Following(Top(by, seated, 1), rest) ELSE seated
        /\ list = Ranked(by, rest) /\ fresh = Fill(next, list, slots, TRUE)
        /\ shown = Fill(fresh, list, slots, FALSE)
  OBVIOUS
<1>2. SelectSpans(by, texts, limit) = Ranked(by, shown)
  BY <1>1 DEF SelectSpans, RetainedOf, LeadersOf, Cap
<1>3. slots \in Nat /\ slots >= 1
  BY <1>1 DEF Greater
<1>4. /\ L \subseteq AllOf(texts) /\ AllOf(texts) \subseteq Spans /\ L \subseteq K /\ K \subseteq AllOf(texts)
      /\ \A s, t \in L : s.source = t.source => s = t
  BY <1>1, <1>3, LeadersAre, RetainedAre
<1>5. /\ seated \subseteq L /\ IsFiniteSet(seated) /\ Cardinality(seated) = Lesser(slots, Cardinality(L))
      /\ IsFiniteSet(L) /\ Cardinality(L) \in Nat
  BY <1>1, <1>3, <1>4, TopIs, SpansAre, FS_Subset, FS_CardinalityType
<1>6. /\ list \in Seq(rest) /\ \A s \in rest : \E i \in 1..Len(list) : list[i] = s
  <2>1. rest \in SUBSET Spans
    BY <1>1, <1>4
  <2>2. /\ Ranked(by, rest) \in Seq(rest)
        /\ \A s \in rest : \E i \in 1..Len(Ranked(by, rest)) : Ranked(by, rest)[i] = s
    BY <2>1, RankedIs
  <2> QED
    BY <1>1, <2>2
<1>7. /\ list \in Seq(Spans) /\ \A s : s \in rest <=> \E i \in 1..Len(list) : list[i] = s
  <2>1. Len(list) \in Nat /\ \A i \in 1..Len(list) : list[i] \in rest
    BY <1>6
  <2>2. rest \subseteq Spans
    BY <1>1, <1>4
  <2>3. list \in Seq(Spans)
    BY <1>6, <2>2, SeqMonotonic
  <2> QED
    BY <1>6, <2>1, <2>3
<1>8. ASSUME next \in SUBSET Spans, Cardinality(next) <= slots
      PROVE  /\ Filled(fresh, next, list, Len(list), slots, TRUE)
             /\ Filled(shown, fresh, list, Len(list), slots, FALSE)
             /\ ToSet(SelectSpans(by, texts, limit)) = shown
  <2>1. Filled(fresh, next, list, Len(list), slots, TRUE)
    BY <1>1, <1>3, <1>7, <1>8, FillLeaves
  <2>2. fresh \in SUBSET Spans /\ Cardinality(fresh) <= slots
    BY <2>1 DEF Filled
  <2>3. Filled(shown, fresh, list, Len(list), slots, FALSE)
    BY <1>1, <1>3, <1>7, <2>2, FillLeaves
  <2>4. ToSet(Ranked(by, shown)) = shown
    BY <2>3, RankedIs DEF Filled
  <2> QED
    BY <1>2, <2>1, <2>3, <2>4
<1>9. CASE Cardinality(L) >= slots
  <2>1. Cardinality(seated) = slots /\ next = seated
    BY <1>1, <1>3, <1>5, <1>9 DEF Lesser
  <2>2. next \in SUBSET Spans /\ Cardinality(next) <= slots
    BY <1>3, <1>4, <1>5, <2>1
  <2>3. /\ Filled(fresh, next, list, Len(list), slots, TRUE)
        /\ Filled(shown, fresh, list, Len(list), slots, FALSE)
        /\ ToSet(SelectSpans(by, texts, limit)) = shown
    BY <1>8, <2>2
  <2>4. /\ next \in SUBSET shown /\ IsFiniteSet(shown) /\ Cardinality(shown) <= slots
    BY <2>3, SpansAre, FS_Subset DEF Filled
  <2>5. shown = next
    <3>1. Cardinality(shown) \in Nat /\ Cardinality(next) <= Cardinality(shown)
      BY <2>4, FS_Subset, FS_CardinalityType
    <3>2. Cardinality(shown) = Cardinality(next)
      BY <1>3, <2>1, <2>4, <3>1
    <3> QED
      BY <2>4, <3>2, FS_Subset
  <2>6. shown \in SUBSET LeadersOf(by, texts) /\ Cardinality(shown) = slots
    BY <1>1, <1>5, <2>1, <2>5
  <2>7. Fair(shown, texts, slots)
    BY <1>3, <2>6, AllSeated
  <2> QED
    BY <1>1, <2>3, <2>7
<1>10. CASE Cardinality(L) < slots
  <2>1. seated = L
    <3>1. Cardinality(seated) = Cardinality(L)
      BY <1>3, <1>5, <1>10 DEF Lesser
    <3> QED
      BY <1>5, <3>1, FS_Subset
  <2>2. next = L \cup Following(Top(by, L, 1), rest)
    BY <1>1, <1>10, <2>1
  <2>3. L \in SUBSET Spans /\ rest \in SUBSET Spans
    BY <1>1, <1>4
  <2>4. /\ next \subseteq L \cup rest /\ IsFiniteSet(next) /\ Disjoint(next)
        /\ Cardinality(next) <= Cardinality(L) + 1
    BY <1>4, <2>2, <2>3, FollowingIs
  <2>5. L \subseteq next /\ next \in SUBSET K /\ next \in SUBSET Spans
    BY <1>1, <1>4, <2>2, <2>4
  <2>6. Cardinality(next) \in Nat /\ Cardinality(next) <= slots
    BY <1>3, <1>5, <1>10, <2>4, FS_CardinalityType
  <2>7. /\ Filled(fresh, next, list, Len(list), slots, TRUE)
        /\ Filled(shown, fresh, list, Len(list), slots, FALSE)
        /\ ToSet(SelectSpans(by, texts, limit)) = shown
    BY <1>8, <2>5, <2>6
  <2>8. \A s : s \in K \ L <=> \E i \in 1..Len(list) : list[i] = s
    BY <1>1, <1>7
  <2>9. Fair(shown, texts, slots)
    BY <1>1, <1>3, <1>7, <1>10, <2>4, <2>5, <2>7, <2>8, SeatsLeft
  <2> QED
    BY <1>1, <2>7, <2>9
<1> QED
  BY <1>3, <1>5, <1>9, <1>10

-----------------------------------------------------------------------------
(* What the model is shown, while it is asked.                               *)

SpanInv ==
  /\ build = [at |-> build.at, driver |-> build.driver, depth |-> build.depth,
              corpus |-> build.corpus, attempt |-> build.attempt]
  /\ build.depth \in Nat /\ build.corpus \subseteq DOMAIN Sentences
  /\ build.at = "chat" =>
       \A c \in Claims : Fair(ToSet(candidates[c]), build.corpus, Greater(build.depth, 3))

LEMMA SpanInvFair == SpanInv => SpansAreFair
<1> SUFFICES ASSUME SpanInv, build.at = "chat", NEW c \in Claims
             PROVE  LET slots == Greater(build.depth, 3)
                        shown == ToSet(candidates[c])
                        texts == {s \in build.corpus : Sentences[s] > 0}
                        spans == UNION {SplitSpans(s) : s \in texts}
                    IN  /\ Cardinality(shown) = Lesser(slots, Cardinality(spans))
                        /\ Cardinality({s.source : s \in shown}) = Lesser(slots, Cardinality(texts))
                        /\ (\E s, t \in shown : s # t /\ Overlap(s, t)) =>
                              \A s \in spans \ shown : \E t \in shown : Overlap(s, t)
  BY DEF SpansAreFair
<1>1. PICK texts, shown, slots :
        texts = build.corpus /\ shown = ToSet(candidates[c]) /\ slots = Greater(build.depth, 3)
  OBVIOUS
<1>2. texts \in SUBSET DOMAIN Sentences /\ Fair(shown, texts, slots)
  BY <1>1 DEF SpanInv
<1>3. ASSUME NEW x \in texts PROVE Sentences[x] > 0 \/ SplitSpans(x) = {}
  <2>1. Sentences[x] \in Nat
    BY <1>2, ComputeAssumption
  <2> QED
    BY <2>1 DEF SplitSpans
<1>4. AllOf(texts) = UNION {SplitSpans(s) : s \in {t \in texts : Sentences[t] > 0}}
  BY <1>3 DEF AllOf
<1>5. WithText(texts) = {s \in texts : Sentences[s] > 0}
  BY DEF WithText
<1> QED
  BY <1>1, <1>2, <1>4, <1>5 DEF Fair

LEMMA SpanInitOK == ComputeInit => SpanInv
  BY DEF ComputeInit, SpanInv

LEMMA SpanStepOK == SpanInv /\ [ComputeNext]_computeVars => SpanInv'
<1> SUFFICES ASSUME SpanInv, [ComputeNext]_computeVars PROVE SpanInv'
  OBVIOUS
<1>1. ASSUME build' = [at |-> build'.at, driver |-> build'.driver, depth |-> build'.depth,
                       corpus |-> build'.corpus, attempt |-> build'.attempt],
             build'.depth \in Nat, build'.corpus \subseteq DOMAIN Sentences, build'.at # "chat"
      PROVE  SpanInv'
  BY <1>1 DEF SpanInv
<1>2. CASE LoadManifest
  <2>1. PICK driver \in {"local", "router", "broker"}, depth \in Depths :
          build' = [build EXCEPT !.at = "corpus", !.driver = driver, !.depth = depth]
    BY <1>2 DEF LoadManifest
  <2>2. depth \in Nat
    BY ComputeAssumption
  <2> QED
    BY <1>1, <2>1, <2>2 DEF SpanInv
<1>3. CASE NotWhatWasNamed
  BY <1>1, <1>3 DEF NotWhatWasNamed, SpanInv, At
<1>4. CASE LoadCorpus
  BY <1>1, <1>4 DEF LoadCorpus, SpanInv
<1>5. CASE ResolveProvider
  BY <1>1, <1>5 DEF ResolveProvider, SpanInv, At
<1>6. CASE GatherCandidates
  <2>1. PICK corpus, depth : corpus = build.corpus /\ depth = build.depth
    OBVIOUS
  <2>2. /\ score' \in Scorings
        /\ candidates' = [c \in Claims |-> SelectSpans(score'[c], corpus, Greater(depth, 3))]
        /\ build' = [build EXCEPT !.at = IF build.driver = "local" THEN "lexical" ELSE "chat"]
    BY <1>6, <2>1 DEF GatherCandidates, ScoreSpans, At
  <2>3. /\ corpus \in SUBSET DOMAIN Sentences /\ depth \in Nat
        /\ build'.depth = depth /\ build'.corpus = corpus
        /\ build' = [at |-> build'.at, driver |-> build'.driver, depth |-> build'.depth,
                     corpus |-> build'.corpus, attempt |-> build'.attempt]
    BY <2>1, <2>2 DEF SpanInv
  <2>4. ASSUME NEW c \in Claims
        PROVE  Fair(ToSet(candidates'[c]), corpus, Greater(depth, 3))
    <3>1. PICK by, limit : by = score'[c] /\ limit = Greater(depth, 3)
      OBVIOUS
    <3>2. by \in [Spans -> Nat]
      BY <2>2, <3>1, ComputeAssumption
    <3>3. limit \in Nat /\ Greater(1, limit) = limit
      BY <2>3, <3>1 DEF Greater
    <3>4. Fair(ToSet(SelectSpans(by, corpus, limit)), corpus, limit)
      BY <2>3, <3>2, <3>3, SelectionIsFair
    <3>5. candidates'[c] = SelectSpans(by, corpus, limit)
      BY <2>2, <3>1
    <3> QED
      BY <3>1, <3>4, <3>5
  <2> QED
    BY <2>3, <2>4 DEF SpanInv
<1>7. ASSUME NEW rows, NEW report, NEW named, Scored(rows, report, named) PROVE SpanInv'
  BY <1>1, <1>7 DEF Scored, At, SpanInv
<1>8. CASE ScoreLocally
  BY <1>7, <1>8 DEF ScoreLocally
<1>9. CASE ChatFails
  <2>1. CASE build' = [build EXCEPT !.attempt = @ + 1] /\ UNCHANGED candidates
    BY <2>1 DEF SpanInv
  <2>2. CASE \E facts \in StatedFacts :
               Scored([c \in Claims |-> NoAnswerRow], Degraded(facts), [model |-> "local", verified |-> FALSE])
    BY <1>7, <2>2
  <2> QED
    BY <1>9, <2>1, <2>2 DEF ChatFails
<1>10. CASE ChatAnswers
  BY <1>7, <1>10 DEF ChatAnswers
<1>11. CASE UNCHANGED computeVars
  BY <1>11 DEF computeVars, SpanInv
<1> QED
  BY <1>2, <1>3, <1>4, <1>5, <1>6, <1>8, <1>9, <1>10, <1>11 DEF ComputeNext

(* For any texts, scores and depth, the model is shown as many spans as there  *)
(* are, up to the slots, of as many sources as can be, and overlapping text    *)
(* only when no other is left, whatever was not retained of a long source.     *)
THEOREM SpansFair == ComputeSpec => []SpansAreFair
  BY SpanInvFair, SpanInitOK, SpanStepOK, PTL DEF ComputeSpec

-----------------------------------------------------------------------------
(* Texts.  What is in a text comes from a page, in its order, a space apart.  *)

From(out, page, from) ==
  /\ \A i \in 1..Len(out) : out[i] # Space => \E k \in from..Len(page) : page[k] = out[i]
  /\ \A i, j \in 1..Len(out) :
       i < j /\ out[i] # Space /\ out[j] # Space =>
         \E k, l \in from..Len(page) : k < l /\ page[k] = out[i] /\ page[l] = out[j]

(* No block of the element begins in the text.                               *)
Shut(out, element) ==
  \A i, j \in 1..Len(out) : i < j /\ out[j] = ">" => out[i] # Opening[element]

(* Each cut is of what is left of the page.                                  *)
CutsFit(page, cut) ==
  \A from \in 1..(Len(page) + 1) :
    cut[from] = NoCut \/ (/\ cut[from].first \in from..Len(page)
                          /\ cut[from].last \in cut[from].first..Len(page))

AreLeft(g, page, cut) ==
  g = [from \in 1..(Len(page) + 1) |->
         IF cut[from] = NoCut THEN SubSeq(page, from, Len(page))
         ELSE Append(SubSeq(page, from, cut[from].first - 1), Space) \o g[cut[from].last + 1]]

Left(g, page, cut, from) ==
  IF cut[from] = NoCut THEN SubSeq(page, from, Len(page))
  ELSE Append(SubSeq(page, from, cut[from].first - 1), Space) \o g[cut[from].last + 1]

LEMMA LeftExist ==
  ASSUME NEW page, Len(page) \in Nat, NEW cut, CutsFit(page, cut)
  PROVE  \E g : AreLeft(g, page, cut)
<1> DEFINE N == Len(page) + 1
<1> DEFINE Is(g, m) == g = [from \in (N - m)..N |-> Left(g, page, cut, from)]
<1> DEFINE S == {m \in 0..Len(page) : \E g : Is(g, m)}
<1>1. 0 \in S
  <2> DEFINE g == [from \in N..N |-> SubSeq(page, from, Len(page))]
  <2>1. \A from \in N..N : from = N /\ cut[from] = NoCut
    BY DEF CutsFit
  <2>2. g = [from \in (N - 0)..N |-> Left(g, page, cut, from)]
    BY <2>1 DEF Left
  <2> HIDE DEF g
  <2>3. Is(g, 0)
    BY <2>2
  <2> HIDE DEF Is
  <2> QED
    BY <2>3
<1>2. ASSUME NEW m \in 0..(Len(page) - 1), m \in S PROVE m + 1 \in S
  <2>1. m + 1 \in 0..Len(page)
    BY <1>2
  <2>2. PICK g : Is(g, m)
    BY <1>2
  <2> DEFINE K == N - (m + 1)
  <2> DEFINE f == [from \in K..N |-> IF from = K THEN Left(g, page, cut, K) ELSE g[from]]
  <2>3. \A from \in K..N : f[from] = Left(f, page, cut, from)
    <3> SUFFICES ASSUME NEW from \in K..N PROVE f[from] = Left(f, page, cut, from)
      OBVIOUS
    <3>1. CASE cut[from] = NoCut
      <4>1. Left(f, page, cut, from) = Left(g, page, cut, from)
        BY <3>1 DEF Left
      <4>2. from # K => from \in (N - m)..N
        BY <2>1
      <4>3. from # K => g[from] = Left(g, page, cut, from)
        BY <2>2, <4>2
      <4> QED
        BY <4>1, <4>3
    <3>2. CASE cut[from] # NoCut
      <4>1. /\ cut[from].first \in from..Len(page)
            /\ cut[from].last \in cut[from].first..Len(page)
        BY <2>1, <3>2 DEF CutsFit
      <4>2. PICK l : l = cut[from].last + 1
        OBVIOUS
      <4>3. l \in K..N /\ l # K
        BY <2>1, <4>1, <4>2
      <4>4. f[l] = g[l]
        BY <4>3
      <4> HIDE DEF f
      <4>5. Left(f, page, cut, from) = Left(g, page, cut, from)
        BY <4>2, <4>4 DEF Left
      <4>6. from # K => from \in (N - m)..N
        BY <2>1
      <4>7. from # K => g[from] = Left(g, page, cut, from)
        BY <2>2, <4>6
      <4>8. f[from] = IF from = K THEN Left(g, page, cut, K) ELSE g[from]
        BY DEF f
      <4> QED
        BY <4>5, <4>7, <4>8
    <3> QED
      BY <3>1, <3>2
  <2>4. f = [from \in K..N |-> f[from]]
    OBVIOUS
  <2> HIDE DEF f
  <2>5. f = [from \in K..N |-> Left(f, page, cut, from)]
    BY <2>3, <2>4
  <2>6. Is(f, m + 1)
    BY <2>5
  <2> HIDE DEF Is
  <2> QED
    BY <2>1, <2>6
<1>3. Len(page) \in S
  <2> HIDE DEF S
  <2> QED
    BY <1>1, <1>2, UpTo
<1>4. N - Len(page) = 1
  OBVIOUS
<1> QED
  BY <1>3, <1>4 DEF AreLeft, Left

Sliced(g, page, cut, from) ==
  IF cut[from] = NoCut THEN SubSeq(page, from, Len(page))
  ELSE Append(Slice(page, from, cut[from].first - 1), Space) \o g[cut[from].last + 1]

(* What is left is as the scan says, from each place on.                     *)
LEMMA WithoutCutsIs ==
  ASSUME NEW page, Len(page) \in Nat, NEW cut, CutsFit(page, cut),
         DOMAIN cut = 1..(Len(page) + 1)
  PROVE  \E g : /\ WithoutCuts(page, cut) = g[1]
                /\ \A from \in 1..(Len(page) + 1) : g[from] = Left(g, page, cut, from)
<1>1. ASSUME NEW g, NEW from \in DOMAIN cut
      PROVE  Sliced(g, page, cut, from) = Left(g, page, cut, from)
  <2>1. CASE cut[from] = NoCut
    BY <2>1 DEF Sliced, Left
  <2>2. CASE cut[from] # NoCut
    <3>1. cut[from].first \in from..Len(page)
      BY <1>1, <2>2 DEF CutsFit
    <3>2. cut[from].first - 1 <= Len(page)
      BY <1>1, <3>1
    <3>3. Slice(page, from, cut[from].first - 1) = SubSeq(page, from, cut[from].first - 1)
      BY <3>2 DEF Slice
    <3> QED
      BY <2>2, <3>3 DEF Sliced, Left
  <2> QED
    BY <2>1, <2>2
<1>2. PICK g : AreLeft(g, page, cut)
  BY LeftExist
<1>3. g = [from \in DOMAIN cut |-> Left(g, page, cut, from)]
  BY <1>2 DEF AreLeft, Left
<1>4. g = [from \in DOMAIN cut |-> Sliced(g, page, cut, from)]
  BY <1>1, <1>3
<1> DEFINE T == CHOOSE h : h = [from \in DOMAIN cut |-> Sliced(h, page, cut, from)]
<1>5. T = [from \in DOMAIN cut |-> Sliced(T, page, cut, from)]
  BY <1>4
<1>6. WithoutCuts(page, cut) = T[1]
  BY DEF WithoutCuts, Sliced
<1> HIDE DEF T
<1>7. \A from \in DOMAIN cut : T[from] = Sliced(T, page, cut, from)
  BY <1>5
<1>8. \A from \in 1..(Len(page) + 1) : T[from] = Left(T, page, cut, from)
  BY <1>1, <1>7
<1> QED
  BY <1>6, <1>8

LEMMA Stretch ==
  ASSUME NEW page \in Seq(PlainTokens), NEW from \in 1..(Len(page) + 1), NEW to \in (from - 1)..Len(page)
  PROVE  /\ SubSeq(page, from, to) \in Seq(PlainTokens)
         /\ Len(SubSeq(page, from, to)) = to - from + 1
         /\ \A i \in 1..(to - from + 1) : SubSeq(page, from, to)[i] = page[from + i - 1]
OBVIOUS

(* A stretch, a space, and a tail.                                           *)
LEMMA Glued ==
  ASSUME NEW page \in Seq(PlainTokens), NEW from \in 1..(Len(page) + 1),
         NEW first \in from..Len(page), NEW tail \in Seq(PlainTokens),
         NEW out, out = Append(SubSeq(page, from, first - 1), Space) \o tail,
         NEW n, n = first - from
  PROVE  /\ out \in Seq(PlainTokens) /\ Len(out) \in Nat /\ n \in Nat
         /\ \A i \in 1..Len(out) :
              \/ i <= n /\ out[i] = page[from + i - 1]
              \/ i = n + 1 /\ out[i] = Space
              \/ i > n + 1 /\ i - (n + 1) \in 1..Len(tail) /\ out[i] = tail[i - (n + 1)]
<1>1. PICK h : h = SubSeq(page, from, first - 1)
  OBVIOUS
<1>3. n \in Nat /\ first - 1 \in (from - 1)..Len(page) /\ (first - 1) - from + 1 = n
  OBVIOUS
<1>4. h \in Seq(PlainTokens) /\ Len(h) = n /\ \A i \in 1..n : h[i] = page[from + i - 1]
  BY <1>1, <1>3, Stretch
<1>5. Space \in PlainTokens
  BY DEF Space, PlainTokens, Tokens
<1>6. PICK k : k = Append(h, Space)
  OBVIOUS
<1>7. k \in Seq(PlainTokens) /\ Len(k) = n + 1 /\ k[n + 1] = Space /\ \A i \in 1..n : k[i] = h[i]
  <2>1. /\ Append(h, Space) \in Seq(PlainTokens) /\ Len(Append(h, Space)) = Len(h) + 1
        /\ \A i \in 1..Len(h) : Append(h, Space)[i] = h[i]
        /\ Append(h, Space)[Len(h) + 1] = Space
    BY <1>4, <1>5, AppendProperties
  <2> QED
    BY <1>4, <1>6, <2>1
<1>8. out = k \o tail
  BY <1>1, <1>6
<1>9. /\ out \in Seq(PlainTokens) /\ Len(out) = n + 1 + Len(tail)
      /\ \A i \in 1..Len(out) : out[i] = IF i <= n + 1 THEN k[i] ELSE tail[i - (n + 1)]
  <2>1. /\ k \o tail \in Seq(PlainTokens) /\ Len(k \o tail) = Len(k) + Len(tail)
        /\ \A i \in 1..(Len(k) + Len(tail)) :
             (k \o tail)[i] = IF i <= Len(k) THEN k[i] ELSE tail[i - Len(k)]
    BY <1>7, ConcatProperties
  <2> QED
    BY <1>7, <1>8, <2>1
<1>10. ASSUME NEW i \in 1..Len(out)
       PROVE  \/ i <= n /\ out[i] = page[from + i - 1]
              \/ i = n + 1 /\ out[i] = Space
              \/ i > n + 1 /\ i - (n + 1) \in 1..Len(tail) /\ out[i] = tail[i - (n + 1)]
  <2>1. Len(tail) \in Nat /\ i \in Int /\ i <= n + 1 + Len(tail) /\ 1 <= i
    BY <1>3, <1>9
  <2>2. out[i] = IF i <= n + 1 THEN k[i] ELSE tail[i - (n + 1)]
    BY <1>9
  <2>3. CASE i <= n
    <3>1. i \in 1..n /\ i <= n + 1
      BY <1>3, <2>1, <2>3
    <3> QED
      BY <1>4, <1>7, <2>2, <2>3, <3>1
  <2>4. CASE i = n + 1
    BY <1>7, <2>2, <2>4
  <2>5. CASE i > n + 1
    <3>1. i - (n + 1) \in 1..Len(tail) /\ ~(i <= n + 1)
      BY <1>3, <2>1, <2>5
    <3> QED
      BY <2>2, <2>5, <3>1
  <2> QED
    BY <1>3, <2>1, <2>3, <2>4, <2>5
<1>11. Len(out) \in Nat
  BY <1>9
<1> QED
  BY <1>3, <1>9, <1>10, <1>11

LEMMA GluedIsFrom ==
  ASSUME NEW page \in Seq(PlainTokens), NEW from \in 1..(Len(page) + 1),
         NEW first \in from..Len(page), NEW last \in first..Len(page),
         NEW tail \in Seq(PlainTokens), From(tail, page, last + 1),
         NEW out, out = Append(SubSeq(page, from, first - 1), Space) \o tail
  PROVE  From(out, page, from)
<1>1. PICK n : n = first - from
  OBVIOUS
<1>2. /\ \A i \in 1..Len(out) :
           \/ i <= n /\ out[i] = page[from + i - 1]
           \/ i = n + 1 /\ out[i] = Space
           \/ i > n + 1 /\ i - (n + 1) \in 1..Len(tail) /\ out[i] = tail[i - (n + 1)]
      /\ n \in Nat /\ Len(out) \in Nat
  BY <1>1, Glued
<1>3. /\ \A k \in from..(first - 1) : k \in from..Len(page)
      /\ \A k \in (last + 1)..Len(page) : k \in from..Len(page) /\ k > first
  OBVIOUS
<1>4. ASSUME NEW i \in 1..Len(out), out[i] # Space, i <= n
      PROVE  from + i - 1 \in from..(first - 1) /\ page[from + i - 1] = out[i]
  BY <1>1, <1>2, <1>4
<1>5. ASSUME NEW i \in 1..Len(out), out[i] # Space, i > n
      PROVE  i - (n + 1) \in 1..Len(tail) /\ tail[i - (n + 1)] = out[i]
  <2>1. i \in Int /\ ~(i <= n)
    BY <1>2, <1>5
  <2> QED
    BY <1>2, <1>5, <2>1
<1>6. ASSUME NEW i \in 1..Len(out), out[i] # Space, i > n
      PROVE  \E k \in (last + 1)..Len(page) : page[k] = out[i]
  <2>1. i - (n + 1) \in 1..Len(tail) /\ tail[i - (n + 1)] = out[i]
    BY <1>5, <1>6
  <2>2. PICK m : m = i - (n + 1)
    OBVIOUS
  <2>3. m \in 1..Len(tail) /\ tail[m] = out[i]
    BY <2>1, <2>2
  <2> QED
    BY <1>6, <2>3 DEF From
<1>7. ASSUME NEW i \in 1..Len(out), out[i] # Space
      PROVE  \E k \in from..Len(page) : page[k] = out[i]
  <2>1. CASE i <= n
    <3>1. PICK k : k = from + i - 1
      OBVIOUS
    <3>2. k \in from..(first - 1) /\ page[k] = out[i]
      BY <1>4, <1>7, <2>1, <3>1
    <3>3. k \in from..Len(page)
      BY <1>3, <3>2
    <3> QED
      BY <3>2, <3>3
  <2>2. CASE i > n
    <3>1. PICK k \in (last + 1)..Len(page) : page[k] = out[i]
      BY <1>6, <1>7, <2>2
    <3>2. k \in from..Len(page)
      BY <1>3
    <3> QED
      BY <3>1, <3>2
  <2>3. i <= n \/ i > n
    BY <1>2
  <2> QED
    BY <2>1, <2>2, <2>3
<1>8. ASSUME NEW i \in 1..Len(out), NEW j \in 1..Len(out), i < j, out[i] # Space, out[j] # Space
      PROVE  \E k, l \in from..Len(page) : k < l /\ page[k] = out[i] /\ page[l] = out[j]
  <2>1. CASE j <= n
    <3>1. i <= n
      BY <1>2, <1>8, <2>1
    <3>2. PICK k, l : k = from + i - 1 /\ l = from + j - 1
      OBVIOUS
    <3>3. k \in from..(first - 1) /\ page[k] = out[i] /\ l \in from..(first - 1) /\ page[l] = out[j]
      BY <1>4, <1>8, <2>1, <3>1, <3>2
    <3>4. k < l
      BY <1>2, <1>8, <3>2
    <3>5. k \in from..Len(page) /\ l \in from..Len(page)
      BY <1>3, <3>3
    <3> QED
      BY <3>3, <3>4, <3>5
  <2>2. CASE i <= n /\ j > n
    <3>1. PICK k : k = from + i - 1
      OBVIOUS
    <3>2. k \in from..(first - 1) /\ page[k] = out[i]
      BY <1>4, <1>8, <2>2, <3>1
    <3>3. PICK l \in (last + 1)..Len(page) : page[l] = out[j]
      BY <1>6, <1>8, <2>2
    <3>4. k \in from..Len(page) /\ k < first
      BY <1>3, <3>2
    <3>5. l \in from..Len(page) /\ l > first
      BY <1>3
    <3>6. k < l
      BY <3>4, <3>5
    <3> QED
      BY <3>2, <3>3, <3>4, <3>5, <3>6
  <2>3. CASE i > n /\ j > n
    <3>1. PICK k, l : k = i - (n + 1) /\ l = j - (n + 1)
      OBVIOUS
    <3>2. k \in 1..Len(tail) /\ tail[k] = out[i] /\ l \in 1..Len(tail) /\ tail[l] = out[j]
      BY <1>5, <1>8, <2>3, <3>1
    <3>3. k < l
      BY <1>2, <1>8, <3>1, <3>2
    <3>4. PICK a, b \in (last + 1)..Len(page) : a < b /\ page[a] = tail[k] /\ page[b] = tail[l]
      BY <1>8, <3>2, <3>3 DEF From
    <3>5. a \in from..Len(page) /\ b \in from..Len(page)
      BY <3>4
    <3> QED
      BY <3>2, <3>4, <3>5
  <2>4. i \in Int /\ j \in Int /\ n \in Int
    BY <1>2
  <2>5. j <= n \/ (i <= n /\ j > n) \/ (i > n /\ j > n)
    BY <1>8, <2>4
  <2> QED
    BY <2>1, <2>2, <2>3, <2>5
<1> QED
  BY <1>7, <1>8 DEF From

LEMMA StretchIsFrom ==
  ASSUME NEW page \in Seq(PlainTokens), NEW from \in 1..(Len(page) + 1),
         NEW out, out = SubSeq(page, from, Len(page))
  PROVE  out \in Seq(PlainTokens) /\ From(out, page, from)
<1>1. Len(page) \in (from - 1)..Len(page)
  OBVIOUS
<1>2. /\ out \in Seq(PlainTokens) /\ Len(out) = Len(page) - from + 1
      /\ \A i \in 1..Len(out) : from + i - 1 \in from..Len(page) /\ out[i] = page[from + i - 1]
  BY <1>1, Stretch
<1>3. \A i, j \in 1..Len(out) : i < j => from + i - 1 < from + j - 1
  OBVIOUS
<1> QED
  BY <1>2, <1>3 DEF From

(* From each place on, what is left comes from the page.                     *)
LEMMA LeftIsFrom ==
  ASSUME NEW page \in Seq(PlainTokens), NEW cut, CutsFit(page, cut), NEW g,
         \A from \in 1..(Len(page) + 1) : g[from] = Left(g, page, cut, from)
  PROVE  \A from \in 1..(Len(page) + 1) : g[from] \in Seq(PlainTokens) /\ From(g[from], page, from)
<1> DEFINE N == Len(page) + 1
<1> DEFINE S == {m \in 0..Len(page) :
                   \A from \in (N - m)..N : g[from] \in Seq(PlainTokens) /\ From(g[from], page, from)}
<1>1. ASSUME NEW from \in 1..N, cut[from] = NoCut
      PROVE  g[from] \in Seq(PlainTokens) /\ From(g[from], page, from)
  <2>1. g[from] = SubSeq(page, from, Len(page))
    BY <1>1 DEF Left
  <2> QED
    BY <2>1, StretchIsFrom
<1>2. ASSUME NEW from \in 1..N, cut[from] # NoCut,
             \A k \in (from + 1)..N : g[k] \in Seq(PlainTokens) /\ From(g[k], page, k)
      PROVE  g[from] \in Seq(PlainTokens) /\ From(g[from], page, from)
  <2>1. PICK first, last : first = cut[from].first /\ last = cut[from].last
    OBVIOUS
  <2>2. first \in from..Len(page) /\ last \in first..Len(page)
    BY <1>2, <2>1 DEF CutsFit
  <2>3. last + 1 \in (from + 1)..N
    BY <2>2
  <2>4. PICK tail : tail = g[last + 1]
    OBVIOUS
  <2>5. tail \in Seq(PlainTokens) /\ From(tail, page, last + 1)
    BY <1>2, <2>3, <2>4
  <2>6. PICK out : out = g[from]
    OBVIOUS
  <2>7. out = Append(SubSeq(page, from, first - 1), Space) \o tail
    BY <1>2, <2>1, <2>4, <2>6 DEF Left
  <2>8. out \in Seq(PlainTokens) /\ From(out, page, from)
    BY <2>2, <2>5, <2>7, Glued, GluedIsFrom
  <2> QED
    BY <2>6, <2>8
<1>3. 0 \in S
  <2>1. \A from \in N..N : from \in 1..N /\ cut[from] = NoCut
    BY DEF CutsFit
  <2> QED
    BY <1>1, <2>1
<1>4. ASSUME NEW m \in 0..(Len(page) - 1), m \in S PROVE m + 1 \in S
  <2>1. SUFFICES ASSUME NEW from \in (N - (m + 1))..N
                 PROVE  g[from] \in Seq(PlainTokens) /\ From(g[from], page, from)
    OBVIOUS
  <2>2. from \in 1..N /\ \A k \in (from + 1)..N : k \in (N - m)..N
    OBVIOUS
  <2>3. \A k \in (from + 1)..N : g[k] \in Seq(PlainTokens) /\ From(g[k], page, k)
    BY <1>4, <2>2
  <2> QED
    BY <1>1, <1>2, <2>2, <2>3
<1>5. Len(page) \in S
  <2> HIDE DEF S
  <2>1. Len(page) \in Nat
    OBVIOUS
  <2> QED
    BY <1>3, <1>4, <2>1, UpTo
<1> QED
  BY <1>5

-----------------------------------------------------------------------------
(* What is cut.                                                              *)

LEMMA LeastIs ==
  ASSUME NEW S \in SUBSET Nat, S # {}
  PROVE  Least(S) \in S /\ \A i \in S : Least(S) <= i
<1>1. \E n \in S : \A m \in S : n <= m
  BY LeastNatural
<1> QED
  BY <1>1 DEF Least

LEMMA PositionsAre ==
  ASSUME NEW page, Len(page) \in Nat, NEW token, NEW from \in Nat
  PROVE  /\ PositionsOf(page, token, from) \in SUBSET Nat
         /\ \A i : i \in PositionsOf(page, token, from) <=> i \in from..Len(page) /\ page[i] = token
BY DEF PositionsOf

LEMMA TagsClose ==
  ASSUME NEW page, Len(page) \in Nat, NEW element, NEW from \in Nat
  PROVE  \A i \in ClosingTags(page, element, from) : i \in (from + 1)..Len(page)
BY DEF ClosingTags, PositionsOf

(* The first block from a place on: none begins before it, and there is none *)
(* when nothing is cut.                                                      *)
LEMMA BlockIs ==
  ASSUME NEW page, Len(page) \in Nat, NEW element, NEW from \in 1..(Len(page) + 1),
         NEW c, c = BlockFrom(page, element, from)
  PROVE  \/ /\ c = NoCut
            /\ \A i, j \in from..Len(page) : i < j /\ page[j] = ">" => page[i] # Opening[element]
         \/ /\ c.first \in from..Len(page) /\ c.last \in c.first..Len(page)
            /\ \A i \in from..(c.first - 1) : page[i] # Opening[element]
<1> DEFINE opens == PositionsOf(page, Opening[element], from)
<1> DEFINE ends == PositionsOf(page, ">", Least(opens) + 1)
<1> DEFINE closes == ClosingTags(page, element, Least(ends) + 1)
<1>1. c = IF opens = {} \/ ends = {} THEN NoCut
          ELSE Cut(Least(opens), IF closes = {} THEN Len(page) ELSE Least(closes))
  BY DEF BlockFrom
<1>2. /\ opens \in SUBSET Nat
      /\ \A i : i \in opens <=> i \in from..Len(page) /\ page[i] = Opening[element]
  BY PositionsAre
<1> HIDE DEF opens
<1>3. CASE opens = {}
  <2>1. c = NoCut
    BY <1>1, <1>3
  <2> QED
    BY <1>2, <1>3, <2>1
<1>4. CASE opens # {}
  <2>1. PICK o : o = Least(opens)
    OBVIOUS
  <2>2. o \in opens /\ \A i \in opens : o <= i
    BY <1>2, <1>4, <2>1, LeastIs
  <2>3. o \in from..Len(page) /\ o + 1 \in Nat
    BY <1>2, <2>2
  <2>4. /\ ends \in SUBSET Nat
        /\ \A i : i \in ends <=> i \in (o + 1)..Len(page) /\ page[i] = ">"
    BY <2>1, <2>3, PositionsAre
  <2> HIDE DEF ends
  <2>5. CASE ends = {}
    <3>1. c = NoCut
      BY <1>1, <2>5
    <3>2. ASSUME NEW i \in from..Len(page), NEW j \in from..Len(page), i < j, page[j] = ">",
                 page[i] = Opening[element]
          PROVE  FALSE
      <4>1. i \in opens
        BY <1>2, <3>2
      <4>2. o <= i
        BY <2>2, <4>1
      <4>3. j \in (o + 1)..Len(page)
        BY <2>3, <3>2, <4>2
      <4> QED
        BY <2>4, <2>5, <3>2, <4>3
    <3> QED
      BY <3>1, <3>2
  <2>6. CASE ends # {}
    <3>1. PICK e : e = Least(ends)
      OBVIOUS
    <3>2. e \in (o + 1)..Len(page)
      BY <2>4, <2>6, <3>1, LeastIs
    <3>3. \A i \in closes : i \in (e + 2)..Len(page)
      <4>1. e + 1 \in Nat
        BY <2>3, <3>2
      <4>2. \A i \in closes : i \in ((e + 1) + 1)..Len(page)
        BY <3>1, <4>1, TagsClose
      <4> QED
        BY <2>3, <3>2, <4>2
    <3> HIDE DEF closes
    <3>4. PICK l : l = IF closes = {} THEN Len(page) ELSE Least(closes)
      OBVIOUS
    <3>5. l \in o..Len(page)
      <4>1. CASE closes = {}
        BY <2>3, <3>4, <4>1
      <4>2. CASE closes # {}
        <5>1. closes \in SUBSET Nat
          BY <2>3, <3>2, <3>3
        <5>2. l \in closes
          BY <3>4, <4>2, <5>1, LeastIs
        <5> QED
          BY <2>3, <3>2, <3>3, <5>2
      <4> QED
        BY <4>1, <4>2
    <3>6. c = [first |-> o, last |-> l]
      BY <1>1, <1>4, <2>1, <2>6, <3>4 DEF Cut
    <3>7. c.first = o /\ c.last = l
      BY <3>6
    <3>8. ASSUME NEW i \in from..(o - 1) PROVE page[i] # Opening[element]
      <4>1. i \in from..Len(page) /\ ~(o <= i)
        BY <2>3
      <4> QED
        BY <1>2, <2>2, <4>1
    <3> QED
      BY <2>3, <3>5, <3>7, <3>8
  <2> QED
    BY <2>5, <2>6
<1> QED
  BY <1>3, <1>4

LEMMA TagIs ==
  ASSUME NEW page, Len(page) \in Nat, NEW from \in 1..(Len(page) + 1),
         NEW c, c = TagFrom(page, from)
  PROVE  c = NoCut \/ (c.first \in from..Len(page) /\ c.last \in c.first..Len(page))
<1> DEFINE opens == {i \in from..Len(page) : page[i] \in {"<script", "</script", "<style", "</style"}}
<1> DEFINE ends == PositionsOf(page, ">", Least(opens) + 1)
<1>1. c = IF opens = {} THEN NoCut
          ELSE Cut(Least(opens), IF ends = {} THEN Len(page) ELSE Least(ends))
  BY DEF TagFrom
<1>2. opens \in SUBSET Nat /\ \A i \in opens : i \in from..Len(page)
  OBVIOUS
<1> HIDE DEF opens
<1>3. CASE opens = {}
  BY <1>1, <1>3
<1>4. CASE opens # {}
  <2>1. PICK o : o = Least(opens)
    OBVIOUS
  <2>2. o \in from..Len(page) /\ o + 1 \in Nat
    <3>1. o \in opens
      BY <1>2, <1>4, <2>1, LeastIs
    <3> QED
      BY <1>2, <3>1
  <2>3. /\ ends \in SUBSET Nat /\ \A i \in ends : i \in (o + 1)..Len(page)
    BY <2>1, <2>2, PositionsAre
  <2> HIDE DEF ends
  <2>4. PICK l : l = IF ends = {} THEN Len(page) ELSE Least(ends)
    OBVIOUS
  <2>5. l \in o..Len(page)
    <3>1. CASE ends = {}
      BY <2>2, <2>4, <3>1
    <3>2. CASE ends # {}
      <4>1. l \in ends
        BY <2>3, <2>4, <3>2, LeastIs
      <4> QED
        BY <2>2, <2>3, <4>1
    <3> QED
      BY <3>1, <3>2
  <2>6. c = [first |-> o, last |-> l]
    BY <1>1, <1>4, <2>1, <2>4 DEF Cut
  <2> QED
    BY <2>2, <2>5, <2>6
<1> QED
  BY <1>3, <1>4

-----------------------------------------------------------------------------
(* What is left.                                                             *)

(* What comes from a text in which no block begins has none.                 *)
LEMMA StaysShut ==
  ASSUME NEW page, NEW out, From(out, page, 1), NEW element \in Elements, Shut(page, element)
  PROVE  Shut(out, element)
<1>1. Opening[element] # Space /\ ">" # Space
  BY DEF Elements, Opening, Space
<1> QED
  BY <1>1 DEF From, Shut

(* A tail without a block has none with what comes before its first.         *)
LEMMA GluedIsShut ==
  ASSUME NEW page \in Seq(PlainTokens), NEW from \in 1..(Len(page) + 1),
         NEW first \in from..Len(page), NEW element \in Elements,
         \A i \in from..(first - 1) : page[i] # Opening[element],
         NEW tail \in Seq(PlainTokens), Shut(tail, element),
         NEW out, out = Append(SubSeq(page, from, first - 1), Space) \o tail
  PROVE  Shut(out, element)
<1>1. PICK n : n = first - from
  OBVIOUS
<1>2. /\ \A i \in 1..Len(out) :
           \/ i <= n /\ out[i] = page[from + i - 1]
           \/ i = n + 1 /\ out[i] = Space
           \/ i > n + 1 /\ i - (n + 1) \in 1..Len(tail) /\ out[i] = tail[i - (n + 1)]
      /\ n \in Nat /\ Len(out) \in Nat
  BY <1>1, Glued
<1>3. Opening[element] # Space /\ ">" # Space
  BY DEF Elements, Opening, Space
<1>4. ASSUME NEW i \in 1..Len(out), NEW j \in 1..Len(out), i < j, out[j] = ">",
             out[i] = Opening[element]
      PROVE  FALSE
  <2>1. i \in Int /\ j \in Int /\ 1 <= i
    BY <1>2
  <2>2. CASE i <= n
    <3>1. out[i] = page[from + i - 1]
      <4>1. i # n + 1 /\ ~(i > n + 1)
        BY <1>2, <2>1, <2>2
      <4> QED
        BY <1>2, <4>1
    <3>2. from + i - 1 \in from..(first - 1)
      BY <1>1, <2>1, <2>2
    <3> QED
      BY <1>4, <3>1, <3>2
  <2>3. CASE i = n + 1
    <3>1. out[i] = Space
      BY <1>2, <2>1, <2>3
    <3> QED
      BY <1>3, <1>4, <3>1
  <2>4. CASE i > n + 1
    <3>1. j > n + 1
      BY <1>2, <1>4, <2>1, <2>4
    <3>2. PICK k, l : k = i - (n + 1) /\ l = j - (n + 1)
      OBVIOUS
    <3>3. k \in 1..Len(tail) /\ out[i] = tail[k]
      <4>1. i # n + 1 /\ ~(i <= n)
        BY <1>2, <2>1, <2>4
      <4> QED
        BY <1>2, <3>2, <4>1
    <3>4. l \in 1..Len(tail) /\ out[j] = tail[l]
      <4>1. j # n + 1 /\ ~(j <= n)
        BY <1>2, <2>1, <3>1
      <4> QED
        BY <1>2, <3>2, <4>1
    <3>5. k < l
      BY <1>2, <1>4, <2>1, <3>2
    <3> QED
      BY <1>4, <3>3, <3>4, <3>5 DEF Shut
  <2> QED
    BY <1>2, <2>1, <2>2, <2>3, <2>4
<1> QED
  BY <1>4 DEF Shut

(* Without letters that grow, the lower-cased text has each token in its place. *)
LEMMA PlainIsLowered ==
  ASSUME NEW page \in Seq(PlainTokens)
  PROVE  Lowered(page) = page
<1> DEFINE Grown(i) == Cardinality({k \in 1..(i - 1) : page[k] = "U+0130"})
<1> DEFINE Now(i) == i + Grown(i)
<1> DEFINE Stay(k) == {i \in DOMAIN page : page[i] # "U+0130" /\ Now(i) = k}
<1>1. Len(page) \in Nat /\ DOMAIN page = 1..Len(page)
  OBVIOUS
<1>2. \A i \in 1..Len(page) : page[i] # "U+0130"
  <2>1. \A i \in 1..Len(page) : page[i] \in PlainTokens
    OBVIOUS
  <2> QED
    BY <2>1 DEF PlainTokens
<1>3. ASSUME NEW i \in 1..(Len(page) + 1) PROVE Now(i) = i
  <2>1. {k \in 1..(i - 1) : page[k] = "U+0130"} = {}
    BY <1>1, <1>2
  <2>2. Grown(i) = 0
    BY <2>1, FS_EmptySet
  <2> QED
    BY <2>2
<1>4. ASSUME NEW k \in 1..Len(page) PROVE Stay(k) = {k}
  <2>1. \A i \in 1..Len(page) : Now(i) = i
    BY <1>1, <1>3
  <2> HIDE DEF Now
  <2> QED
    BY <1>1, <1>2, <2>1
<1>5. Now(Len(page) + 1) - 1 = Len(page)
  BY <1>1, <1>3
<1>6. Lowered(page) = [k \in 1..(Now(Len(page) + 1) - 1) |->
                         IF Stay(k) = {} THEN "text" ELSE page[CHOOSE i \in Stay(k) : TRUE]]
  BY DEF Lowered
<1> HIDE DEF Stay, Now
<1>7. Lowered(page) = [k \in 1..Len(page) |-> page[k]]
  <2>1. \A k \in 1..Len(page) : Stay(k) # {} /\ (CHOOSE i \in Stay(k) : TRUE) = k
    BY <1>4
  <2> QED
    BY <1>5, <1>6, <2>1
<1> QED
  BY <1>1, <1>7

BlockCuts(page, element) == [from \in 1..(Len(page) + 1) |-> BlockFrom(page, element, from)]

LEMMA BlocksFit ==
  ASSUME NEW page, Len(page) \in Nat, NEW element
  PROVE  CutsFit(page, BlockCuts(page, element))
<1>1. SUFFICES ASSUME NEW from \in 1..(Len(page) + 1)
               PROVE  \/ BlockCuts(page, element)[from] = NoCut
                      \/ /\ BlockCuts(page, element)[from].first \in from..Len(page)
                         /\ BlockCuts(page, element)[from].last
                              \in BlockCuts(page, element)[from].first..Len(page)
  BY DEF CutsFit
<1>2. PICK c : c = BlockFrom(page, element, from)
  OBVIOUS
<1>3. c = NoCut \/ (c.first \in from..Len(page) /\ c.last \in c.first..Len(page))
  BY <1>2, BlockIs
<1> QED
  BY <1>2, <1>3 DEF BlockCuts

(* No block of the element is left in the text, and what was not is not.     *)
LEMMA StrippedText ==
  ASSUME NEW page \in Seq(PlainTokens), NEW element \in Elements
  PROVE  /\ StripTagBlocks(page, element) \in Seq(PlainTokens)
         /\ From(StripTagBlocks(page, element), page, 1)
         /\ Shut(StripTagBlocks(page, element), element)
<1> DEFINE N == Len(page) + 1
<1>1. Len(page) \in Nat
  OBVIOUS
<1>2. PICK cut : cut = BlockCuts(page, element)
  OBVIOUS
<1>3. CutsFit(page, cut)
  BY <1>1, <1>2, BlocksFit
<1>4. PICK g : /\ WithoutCuts(page, cut) = g[1]
               /\ \A from \in 1..(Len(page) + 1) : g[from] = Left(g, page, cut, from)
  <2>1. DOMAIN cut = 1..(Len(page) + 1)
    BY <1>2 DEF BlockCuts
  <2> QED
    BY <1>1, <1>3, <2>1, WithoutCutsIs
<1>5. \A from \in 1..N : g[from] \in Seq(PlainTokens) /\ From(g[from], page, from)
  BY <1>3, <1>4, LeftIsFrom
<1> DEFINE S == {m \in 0..Len(page) : \A from \in (N - m)..N : Shut(g[from], element)}
<1>6. ASSUME NEW from \in 1..N, cut[from] = NoCut PROVE Shut(g[from], element)
  <2>1. \A i, j \in from..Len(page) : i < j /\ page[j] = ">" => page[i] # Opening[element]
    <3>1. PICK c : c = BlockFrom(page, element, from)
      OBVIOUS
    <3>2. c = NoCut
      BY <1>2, <1>6, <3>1 DEF BlockCuts
    <3>3. ~(c.first \in from..Len(page))
      BY <3>2 DEF NoCut, Cut
    <3> QED
      BY <1>1, <3>1, <3>3, BlockIs
  <2>2. g[from] = SubSeq(page, from, Len(page))
    BY <1>4, <1>6 DEF Left
  <2>3. Len(page) \in (from - 1)..Len(page)
    BY <1>1
  <2>4. /\ Len(g[from]) = Len(page) - from + 1
        /\ \A i \in 1..Len(g[from]) : g[from][i] = page[from + i - 1]
    BY <2>2, <2>3, Stretch
  <2>5. ASSUME NEW i \in 1..Len(g[from]), NEW j \in 1..Len(g[from]), i < j, g[from][j] = ">"
        PROVE  g[from][i] # Opening[element]
    <3>1. PICK k, l : k = from + i - 1 /\ l = from + j - 1
      OBVIOUS
    <3>2. k \in from..Len(page) /\ l \in from..Len(page) /\ k < l
      BY <1>1, <2>4, <2>5, <3>1
    <3>3. g[from][i] = page[k] /\ g[from][j] = page[l]
      BY <2>4, <3>1
    <3> QED
      BY <2>1, <2>5, <3>2, <3>3
  <2> QED
    BY <2>5 DEF Shut
<1>7. ASSUME NEW from \in 1..N, cut[from] # NoCut, \A k \in (from + 1)..N : Shut(g[k], element)
      PROVE  Shut(g[from], element)
  <2>1. PICK c : c = BlockFrom(page, element, from)
    OBVIOUS
  <2>2. c = cut[from]
    BY <1>2, <2>1 DEF BlockCuts
  <2>3. /\ c.first \in from..Len(page) /\ c.last \in c.first..Len(page)
        /\ \A i \in from..(c.first - 1) : page[i] # Opening[element]
    BY <1>1, <1>7, <2>1, <2>2, BlockIs
  <2>4. PICK first, last : first = c.first /\ last = c.last
    OBVIOUS
  <2>5. /\ first \in from..Len(page) /\ last + 1 \in (from + 1)..N
        /\ \A i \in from..(first - 1) : page[i] # Opening[element]
    BY <1>1, <2>3, <2>4
  <2>6. PICK tail : tail = g[last + 1]
    OBVIOUS
  <2>7. tail \in Seq(PlainTokens) /\ Shut(tail, element)
    BY <1>5, <1>7, <2>5, <2>6
  <2>8. PICK out : out = g[from]
    OBVIOUS
  <2>9. out = Append(SubSeq(page, from, first - 1), Space) \o tail
    BY <1>4, <1>7, <2>2, <2>4, <2>6, <2>8 DEF Left
  <2>10. Shut(out, element)
    BY <2>5, <2>7, <2>9, GluedIsShut
  <2> QED
    BY <2>8, <2>10
<1>8. 0 \in S
  <2>1. \A from \in N..N : from \in 1..N /\ cut[from] = NoCut
    BY <1>1, <1>3 DEF CutsFit
  <2> QED
    BY <1>1, <1>6, <2>1
<1>9. ASSUME NEW m \in 0..(Len(page) - 1), m \in S PROVE m + 1 \in S
  <2>1. SUFFICES ASSUME NEW from \in (N - (m + 1))..N PROVE Shut(g[from], element)
    BY <1>1
  <2>2. from \in 1..N /\ \A k \in (from + 1)..N : k \in (N - m)..N
    BY <1>1
  <2>3. \A k \in (from + 1)..N : Shut(g[k], element)
    BY <1>9, <2>2
  <2> QED
    BY <1>6, <1>7, <2>2, <2>3
<1>10. Len(page) \in S
  <2> HIDE DEF S
  <2> QED
    BY <1>1, <1>8, <1>9, UpTo
<1>11. Shut(g[1], element) /\ g[1] \in Seq(PlainTokens) /\ From(g[1], page, 1)
  <2>1. 1 \in (N - Len(page))..N /\ 1 \in 1..N
    BY <1>1
  <2> QED
    BY <1>5, <1>10, <2>1
<1>12. StripTagBlocks(page, element) = g[1]
  <2>1. Lowered(page) = page
    BY PlainIsLowered
  <2> QED
    BY <1>2, <1>4, <2>1 DEF StripTagBlocks, BlockCuts
<1> QED
  BY <1>11, <1>12

(* What StripActiveMarkup leaves is inert, whatever it is given.             *)
LEMMA StripIsInert ==
  ASSUME NEW page \in Seq(PlainTokens)
  PROVE  StripActiveMarkup(page) \in Seq(PlainTokens) /\ Inert(StripActiveMarkup(page))
<1>1. PICK once : once = StripTagBlocks(page, "script")
  OBVIOUS
<1>2. PICK twice : twice = StripTagBlocks(once, "style")
  OBVIOUS
<1>3. "script" \in Elements /\ "style" \in Elements
  BY DEF Elements
<1>4. once \in Seq(PlainTokens) /\ Shut(once, "script")
  BY <1>1, <1>3, StrippedText
<1>5. twice \in Seq(PlainTokens) /\ From(twice, once, 1) /\ Shut(twice, "style")
  BY <1>2, <1>3, <1>4, StrippedText
<1>6. Shut(twice, "script")
  BY <1>3, <1>4, <1>5, StaysShut
<1>7. DOMAIN twice = 1..Len(twice)
  BY <1>5
<1>8. Inert(twice)
  BY <1>5, <1>6, <1>7 DEF Inert, Shut, Elements
<1> QED
  BY <1>1, <1>2, <1>5, <1>8 DEF StripActiveMarkup

LEMMA DecodedIs ==
  ASSUME NEW page \in Seq(PlainTokens)
  PROVE  DecodeEntities(page) \in Seq(PlainTokens)
<1>1. PICK n \in Nat : page \in [1..n -> PlainTokens]
  <2>1. Len(page) \in Nat /\ page \in [1..Len(page) -> PlainTokens]
    OBVIOUS
  <2> QED
    BY <2>1
<1>2. \A i \in 1..n : DecodeEntities(page)[i] \in PlainTokens
  BY <1>1 DEF DecodeEntities, PlainTokens, Tokens
<1>3. DecodeEntities(page) \in [1..n -> PlainTokens]
  BY <1>1, <1>2 DEF DecodeEntities
<1>4. PICK q : q = DecodeEntities(page)
  OBVIOUS
<1>5. q \in Seq(PlainTokens)
  BY <1>3, <1>4, FunctionIsSeq
<1> QED
  BY <1>4, <1>5

LEMMA WithoutTagsIs ==
  ASSUME NEW page \in Seq(PlainTokens)
  PROVE  WithoutTags(page) \in Seq(PlainTokens)
<1>1. Len(page) \in Nat
  OBVIOUS
<1>2. PICK cut : cut = [from \in 1..(Len(page) + 1) |-> TagFrom(page, from)]
  OBVIOUS
<1>3. ASSUME NEW from \in 1..(Len(page) + 1)
      PROVE  \/ cut[from] = NoCut
             \/ cut[from].first \in from..Len(page) /\ cut[from].last \in cut[from].first..Len(page)
  <2>1. PICK c : c = TagFrom(page, from)
    OBVIOUS
  <2>2. c = cut[from]
    BY <1>2, <2>1
  <2>3. c = NoCut \/ (c.first \in from..Len(page) /\ c.last \in c.first..Len(page))
    BY <1>1, <2>1, TagIs
  <2> QED
    BY <2>2, <2>3
<1>4. CutsFit(page, cut)
  BY <1>3 DEF CutsFit
<1>5. PICK g : /\ WithoutCuts(page, cut) = g[1]
               /\ \A from \in 1..(Len(page) + 1) : g[from] = Left(g, page, cut, from)
  <2>1. DOMAIN cut = 1..(Len(page) + 1)
    BY <1>2
  <2> QED
    BY <1>1, <1>4, <2>1, WithoutCutsIs
<1>6. g[1] \in Seq(PlainTokens)
  <2>1. 1 \in 1..(Len(page) + 1)
    BY <1>1
  <2> QED
    BY <1>4, <1>5, <2>1, LeftIsFrom
<1> QED
  BY <1>2, <1>5, <1>6 DEF WithoutTags

(* No stored text is active but that of a page with letters that grow.       *)
LEMMA StoredAreInert == StoredTexts \subseteq {"inert", "slipped"}
<1>1. ASSUME NEW page \in Pages, NEW html \in BOOLEAN, page \in Seq(PlainTokens)
      PROVE  Inert(ToStoredText(page, html))
  <2>1. page \in Seq(PlainTokens)
    BY <1>1
  <2>2. PICK a : a = StripActiveMarkup(page)
    OBVIOUS
  <2>3. a \in Seq(PlainTokens) /\ Inert(a)
    BY <2>1, <2>2, StripIsInert
  <2>4. PICK b : b = WithoutTags(a)
    OBVIOUS
  <2>5. PICK c : c = DecodeEntities(b)
    OBVIOUS
  <2>6. b \in Seq(PlainTokens)
    BY <2>3, <2>4, WithoutTagsIs
  <2>7. c \in Seq(PlainTokens)
    BY <2>5, <2>6, DecodedIs
  <2>8. Inert(StripActiveMarkup(c))
    BY <2>7, StripIsInert
  <2>9. HtmlToText(page) = StripActiveMarkup(c)
    BY <2>2, <2>4, <2>5 DEF HtmlToText
  <2> QED
    BY <2>2, <2>3, <2>8, <2>9 DEF ToStoredText
<1> QED
  BY <1>1 DEF StoredTexts

-----------------------------------------------------------------------------
(* Matches.                                                                  *)

LEMMA RankIs ==
  /\ \A k \in DOMAIN Rank : Rank[k] \in Int
  /\ \A k, l \in DOMAIN Rank : Rank[k] = Rank[l] => k = l
  /\ \A k \in DOMAIN Rank : k \in BlockingKinds <=> Rank[k] >= 3
  /\ BlockingKinds \subseteq DOMAIN Rank /\ "none" \notin DOMAIN Rank
BY DEF Rank, BlockingKinds

LEMMA KindIs ==
  ASSUME NEW f \in Finds
  PROVE  KindOf(f) \in DOMAIN Rank \cup {"none"}
<1>1. f.shape \in Shapes
  BY PrepareAssumption
<1>2. NumericKind(f) \in {"payment_card", "national_id", "phone", "none"}
  BY DEF NumericKind
<1>3. DOMAIN Rank = {"private_key", "payment_card", "national_id", "email", "phone"}
  BY DEF Rank
<1> QED
  BY <1>1, <1>2, <1>3 DEF KindOf, Shapes

(* A scan of one field.                                                      *)
IsScan(spans) ==
  /\ IsFiniteSet(spans)
  /\ \A s \in spans : s.kind \in DOMAIN Rank /\ s.from \in Int /\ s.to \in Int
  /\ \A s, t \in spans : s.kind = t.kind /\ s.from = t.from /\ s.to = t.to => s = t

LEMMA ScanIs ==
  ASSUME NEW finds \in SUBSET Finds, IsFiniteSet(finds), NEW name, \A f \in finds : f.field = name
  PROVE  /\ IsScan(ScanField(finds))
         /\ \A f \in finds : KindOf(f) # "none" => \E s \in ScanField(finds) : s.kind = KindOf(f)
<1> DEFINE G == {g \in finds : KindOf(g) # "none"}
<1> DEFINE h == [f \in G |-> [kind |-> KindOf(f), field |-> f.field, from |-> f.from, to |-> f.to]]
<1>1. ScanField(finds) = {h[f] : f \in G}
  BY DEF ScanField
<1>2. IsFiniteSet(G)
  BY FS_Subset
<1>3. \A f \in G : /\ h[f].kind = KindOf(f) /\ h[f].field = name /\ h[f].from = f.from /\ h[f].to = f.to
                   /\ h[f] = [kind |-> KindOf(f), field |-> name, from |-> f.from, to |-> f.to]
  OBVIOUS
<1>4. \A f \in G : KindOf(f) \in DOMAIN Rank /\ f.from \in Nat /\ f.to \in Nat
  BY KindIs, PrepareAssumption
<1>5. IsFiniteSet({h[f] : f \in G})
  <2> HIDE DEF h, G
  <2> QED
    BY <1>2, ImageIsFinite
<1> HIDE DEF h
<1>6. \A s \in ScanField(finds) : \E f \in G : s = h[f]
  BY <1>1
<1>7. \A s \in ScanField(finds) : s.kind \in DOMAIN Rank /\ s.from \in Int /\ s.to \in Int
  <2>1. SUFFICES ASSUME NEW f \in G
                 PROVE  h[f].kind \in DOMAIN Rank /\ h[f].from \in Int /\ h[f].to \in Int
    BY <1>6
  <2> HIDE DEF G
  <2>2. h[f].kind = KindOf(f) /\ h[f].from = f.from /\ h[f].to = f.to
    BY <1>3
  <2>3. KindOf(f) \in DOMAIN Rank /\ f.from \in Nat /\ f.to \in Nat
    BY <1>4
  <2> QED
    BY <2>2, <2>3
<1>8. ASSUME NEW s \in ScanField(finds), NEW t \in ScanField(finds),
             s.kind = t.kind, s.from = t.from, s.to = t.to
      PROVE  s = t
  <2>1. PICK f \in G, g \in G : s = h[f] /\ t = h[g]
    BY <1>6
  <2>2. KindOf(f) = KindOf(g) /\ f.from = g.from /\ f.to = g.to
    BY <1>3, <1>8, <2>1
  <2> HIDE DEF G
  <2>3. /\ h[f] = [kind |-> KindOf(f), field |-> name, from |-> f.from, to |-> f.to]
        /\ h[g] = [kind |-> KindOf(g), field |-> name, from |-> g.from, to |-> g.to]
    BY <1>3
  <2>4. h[f] = h[g]
    BY <2>2, <2>3, Zenon
  <2> QED
    BY <2>1, <2>4
<1>9. \A f \in finds : KindOf(f) # "none" => \E s \in ScanField(finds) : s.kind = KindOf(f)
  BY <1>1, <1>3
<1> QED
  BY <1>1, <1>5, <1>7, <1>8, <1>9 DEF IsScan

EarlierPairs(spans) == {pair \in spans \X spans : Earlier(pair[1], pair[2])}

LEMMA EarlierIs ==
  ASSUME NEW spans, NEW s \in spans, NEW t \in spans
  PROVE  <<s, t>> \in EarlierPairs(spans) <=>
           \/ s.from < t.from
           \/ s.from = t.from /\ Rank[s.kind] > Rank[t.kind]
           \/ s.from = t.from /\ s.kind = t.kind /\ s.to - s.from > t.to - t.from
BY DEF EarlierPairs, Earlier, Longer

LEMMA EarlierOrders ==
  ASSUME NEW spans, IsScan(spans)
  PROVE  Orders(EarlierPairs(spans), spans)
<1>1. /\ IsFiniteSet(spans)
      /\ \A s \in spans : s.kind \in DOMAIN Rank /\ s.from \in Int /\ s.to \in Int
      /\ \A s, t \in spans : s.kind = t.kind /\ s.from = t.from /\ s.to = t.to => s = t
  BY DEF IsScan
<1>2. \A s \in spans : Rank[s.kind] \in Int
  BY <1>1, RankIs
<1>3. \A s \in spans : <<s, s>> \notin EarlierPairs(spans)
  BY <1>1, <1>2, EarlierIs
<1>4. ASSUME NEW s \in spans, NEW t \in spans, s # t
      PROVE  <<s, t>> \in EarlierPairs(spans) \/ <<t, s>> \in EarlierPairs(spans)
  <2>1. s.from # t.from \/ s.kind # t.kind \/ s.to # t.to
    BY <1>1, <1>4
  <2>2. s.kind # t.kind => Rank[s.kind] # Rank[t.kind]
    BY <1>1, RankIs
  <2>3. s.from \in Int /\ t.from \in Int /\ s.to \in Int /\ t.to \in Int
    BY <1>1
  <2> QED
    BY <1>2, <2>1, <2>2, <2>3, EarlierIs
<1>5. ASSUME NEW s \in spans, NEW t \in spans, NEW u \in spans,
             <<s, t>> \in EarlierPairs(spans), <<t, u>> \in EarlierPairs(spans)
      PROVE  <<s, u>> \in EarlierPairs(spans)
  <2>1. /\ s.from \in Int /\ t.from \in Int /\ u.from \in Int
        /\ s.to \in Int /\ t.to \in Int /\ u.to \in Int
        /\ Rank[s.kind] \in Int /\ Rank[t.kind] \in Int /\ Rank[u.kind] \in Int
    BY <1>1, <1>2
  <2>2. \/ s.from < t.from
        \/ s.from = t.from /\ Rank[s.kind] > Rank[t.kind]
        \/ s.from = t.from /\ s.kind = t.kind /\ s.to - s.from > t.to - t.from
    BY <1>5, EarlierIs
  <2>3. \/ t.from < u.from
        \/ t.from = u.from /\ Rank[t.kind] > Rank[u.kind]
        \/ t.from = u.from /\ t.kind = u.kind /\ t.to - t.from > u.to - u.from
    BY <1>5, EarlierIs
  <2>4. \/ s.from < u.from
        \/ s.from = u.from /\ Rank[s.kind] > Rank[u.kind]
        \/ s.from = u.from /\ s.kind = u.kind /\ s.to - s.from > u.to - u.from
    BY <2>1, <2>2, <2>3
  <2> QED
    BY <2>4, EarlierIs
<1> QED
  BY <1>1, <1>3, <1>4, <1>5 DEF Orders

LEMMA InOrderIs ==
  ASSUME NEW spans, IsScan(spans)
  PROVE  /\ Cardinality(spans) \in Nat
         /\ \A i \in 1..Cardinality(spans) : InOrder(spans)[i] \in spans
         /\ \A s \in spans : \E i \in 1..Cardinality(spans) : InOrder(spans)[i] = s
<1> DEFINE R == EarlierPairs(spans)
<1> DEFINE q == InOrder(spans)
<1>1. Orders(R, spans)
  BY EarlierOrders
<1>2. Cardinality(spans) \in Nat
  BY <1>1, PlaceIs
<1>3. \A s \in spans : Cardinality({t \in spans : Earlier(t, s)}) = Place(R, spans, s)
  <2>1. SUFFICES ASSUME NEW s \in spans
                 PROVE  Cardinality({t \in spans : Earlier(t, s)}) = Place(R, spans, s)
    OBVIOUS
  <2>2. \A t \in spans : Earlier(t, s) <=> <<t, s>> \in R
    BY DEF EarlierPairs
  <2> QED
    BY <2>2 DEF Place, Ahead
<1>4. ASSUME NEW i \in 1..Cardinality(spans)
      PROVE  q[i] \in spans /\ Place(R, spans, q[i]) = i - 1
  <2>1. i - 1 \in 0..(Cardinality(spans) - 1)
    BY <1>2
  <2>2. \E s \in spans : Place(R, spans, s) = i - 1
    BY <1>1, <2>1, PlacesAreTaken
  <2>3. \E s \in spans : Cardinality({t \in spans : Earlier(t, s)}) = i - 1
    BY <1>3, <2>2
  <2>4. q[i] = CHOOSE s \in spans : Cardinality({t \in spans : Earlier(t, s)}) = i - 1
    BY DEF InOrder
  <2>5. q[i] \in spans /\ Cardinality({t \in spans : Earlier(t, q[i])}) = i - 1
    BY <2>3, <2>4
  <2> QED
    BY <1>3, <2>5
<1>5. q \in [1..Cardinality(spans) -> spans]
  BY <1>4 DEF InOrder
<1>6. Lists(q, R, spans)
  BY <1>4, <1>5 DEF Lists
<1> HIDE DEF q, R
<1>7. \A s \in spans : \E i \in 1..Cardinality(spans) : q[i] = s
  BY <1>1, <1>6, ListIs
<1> QED
  BY <1>2, <1>4, <1>7 DEF q

AreResolved(g, spans) ==
  g = [n \in 0..Cardinality(spans) |-> IF n = 0 THEN {} ELSE KeepSpan(g[n - 1], InOrder(spans)[n])]

LEMMA ResolvedExist ==
  ASSUME NEW spans, Cardinality(spans) \in Nat
  PROVE  \E g : AreResolved(g, spans)
<1> DEFINE Is(g, m) == g = [n \in 0..m |-> IF n = 0 THEN {} ELSE KeepSpan(g[n - 1], InOrder(spans)[n])]
<1> DEFINE S == {m \in 0..Cardinality(spans) : \E g : Is(g, m)}
<1>1. 0 \in S
  <2> DEFINE g == [n \in 0..0 |-> {}]
  <2>1. g = [n \in 0..0 |-> IF n = 0 THEN {} ELSE KeepSpan(g[n - 1], InOrder(spans)[n])]
    OBVIOUS
  <2> HIDE DEF g
  <2>2. Is(g, 0)
    BY <2>1
  <2> HIDE DEF Is
  <2> QED
    BY <2>2
<1>2. ASSUME NEW m \in 0..(Cardinality(spans) - 1), m \in S PROVE m + 1 \in S
  <2>1. m + 1 \in 0..Cardinality(spans)
    BY <1>2
  <2>2. PICK g : Is(g, m)
    BY <1>2
  <2> DEFINE f == [n \in 0..(m + 1) |-> IF n = m + 1 THEN KeepSpan(g[m], InOrder(spans)[m + 1]) ELSE g[n]]
  <2>3. \A n \in 0..(m + 1) : f[n] = IF n = 0 THEN {} ELSE KeepSpan(f[n - 1], InOrder(spans)[n])
    <3> SUFFICES ASSUME NEW n \in 0..(m + 1)
                 PROVE  f[n] = IF n = 0 THEN {} ELSE KeepSpan(f[n - 1], InOrder(spans)[n])
      OBVIOUS
    <3>1. CASE n = m + 1
      <4>1. n # 0 /\ n - 1 = m /\ m \in 0..(m + 1) /\ m # m + 1
        BY <3>1
      <4>2. f[m] = g[m] /\ f[n] = KeepSpan(g[m], InOrder(spans)[n])
        BY <3>1, <4>1
      <4> HIDE DEF f
      <4> QED
        BY <4>1, <4>2
    <3>2. CASE n # m + 1
      <4>1. n \in 0..m /\ f[n] = g[n]
        BY <3>2
      <4>2. g[n] = IF n = 0 THEN {} ELSE KeepSpan(g[n - 1], InOrder(spans)[n])
        BY <2>2, <4>1
      <4>3. n # 0 => n - 1 \in 0..(m + 1) /\ n - 1 # m + 1
        BY <4>1
      <4>4. n # 0 => f[n - 1] = g[n - 1]
        BY <4>3
      <4> HIDE DEF f
      <4> QED
        BY <4>1, <4>2, <4>4
    <3> QED
      BY <3>1, <3>2
  <2>4. f = [n \in 0..(m + 1) |-> f[n]]
    OBVIOUS
  <2> HIDE DEF f
  <2>5. Is(f, m + 1)
    BY <2>3, <2>4
  <2> HIDE DEF Is
  <2> QED
    BY <2>1, <2>5
<1>3. Cardinality(spans) \in S
  <2> HIDE DEF S
  <2> QED
    BY <1>1, <1>2, UpTo
<1> QED
  BY <1>3 DEF AreResolved

LEMMA ResolveIs ==
  ASSUME NEW spans, Cardinality(spans) \in Nat
  PROVE  \E g : /\ g[0] = {} /\ ResolveOverlaps(spans) = g[Cardinality(spans)]
                /\ \A n \in 0..(Cardinality(spans) - 1) :
                      g[n + 1] = KeepSpan(g[n], InOrder(spans)[n + 1])
<1> DEFINE T == CHOOSE g : AreResolved(g, spans)
<1>1. AreResolved(T, spans)
  BY ResolvedExist
<1>2. ResolveOverlaps(spans) = T[Cardinality(spans)]
  BY DEF ResolveOverlaps, AreResolved
<1> HIDE DEF T
<1>3. \A n \in 0..Cardinality(spans) :
        T[n] = IF n = 0 THEN {} ELSE KeepSpan(T[n - 1], InOrder(spans)[n])
  BY <1>1 DEF AreResolved
<1>4. ASSUME NEW n \in 0..(Cardinality(spans) - 1)
      PROVE  T[n + 1] = KeepSpan(T[n], InOrder(spans)[n + 1])
  <2>1. n + 1 \in 0..Cardinality(spans) /\ n + 1 # 0 /\ (n + 1) - 1 = n
    BY <1>4
  <2>2. PICK m : m = n + 1
    OBVIOUS
  <2>3. T[m] = KeepSpan(T[m - 1], InOrder(spans)[m]) /\ m - 1 = n
    BY <1>3, <2>1, <2>2
  <2> QED
    BY <2>2, <2>3
<1>5. T[0] = {}
  BY <1>3
<1> QED
  BY <1>2, <1>4, <1>5

(* What is kept speaks for a match when it is as grave.                      *)
Spoken(kept, s) == \E k \in kept : Rank[k.kind] >= Rank[s.kind]

(* Keeping one match more leaves nobody unspoken for.                        *)
LEMMA KeepSpeaks ==
  ASSUME NEW spans, IsScan(spans), NEW kept \in SUBSET spans, NEW s \in spans
  PROVE  /\ KeepSpan(kept, s) \in SUBSET spans
         /\ Spoken(KeepSpan(kept, s), s)
         /\ \A t \in spans : Spoken(kept, t) => Spoken(KeepSpan(kept, s), t)
<1> DEFINE clash == {o \in kept : Clash(s, o)}
<1>1. \A t \in spans : t.kind \in DOMAIN Rank /\ Rank[t.kind] \in Int
  BY RankIs DEF IsScan
<1>2. PICK other : other = CHOOSE o \in clash : TRUE
  OBVIOUS
<1>3. PICK next : next = KeepSpan(kept, s)
  OBVIOUS
<1>4. next = IF clash = {} THEN kept \cup {s}
             ELSE IF Prevails(s, other) THEN (kept \ {other}) \cup {s}
             ELSE kept
  BY <1>2, <1>3 DEF KeepSpan
<1>5. clash # {} => other \in kept
  BY <1>2
<1> HIDE DEF clash
<1>6. next \in SUBSET spans
  BY <1>4
<1>7. CASE clash = {}
  <2>1. next = kept \cup {s}
    BY <1>4, <1>7
  <2>2. Rank[s.kind] >= Rank[s.kind]
    BY <1>1
  <2> QED
    BY <1>3, <1>6, <2>1, <2>2 DEF Spoken
<1>8. CASE clash # {} /\ Prevails(s, other)
  <2>1. next = (kept \ {other}) \cup {s} /\ other \in kept
    BY <1>4, <1>5, <1>8
  <2>2. Rank[s.kind] >= Rank[s.kind] /\ Rank[s.kind] >= Rank[other.kind]
    <3>1. Rank[s.kind] \in Int /\ Rank[other.kind] \in Int
      BY <1>1, <2>1
    <3>2. Rank[s.kind] > Rank[other.kind] \/ s.kind = other.kind
      BY <1>8 DEF Prevails
    <3> QED
      BY <3>1, <3>2
  <2>3. ASSUME NEW t \in spans, NEW k \in kept, Rank[k.kind] >= Rank[t.kind]
        PROVE  \E l \in next : Rank[l.kind] >= Rank[t.kind]
    <3>1. CASE k = other
      <4>1. Rank[s.kind] \in Int /\ Rank[other.kind] \in Int /\ Rank[t.kind] \in Int
        BY <1>1, <2>1
      <4>2. Rank[s.kind] >= Rank[t.kind]
        BY <2>2, <2>3, <3>1, <4>1
      <4> QED
        BY <2>1, <4>2
    <3>2. CASE k # other
      BY <2>1, <2>3, <3>2
    <3> QED
      BY <3>1, <3>2
  <2> QED
    BY <1>3, <1>6, <2>1, <2>2, <2>3 DEF Spoken
<1>9. CASE clash # {} /\ ~Prevails(s, other)
  <2>1. next = kept /\ other \in kept
    BY <1>4, <1>5, <1>9
  <2>2. Rank[other.kind] >= Rank[s.kind]
    <3>1. Rank[s.kind] \in Int /\ Rank[other.kind] \in Int
      BY <1>1, <2>1
    <3>2. ~(Rank[s.kind] > Rank[other.kind])
      BY <1>9 DEF Prevails
    <3> QED
      BY <3>1, <3>2
  <2> QED
    BY <1>3, <1>6, <2>1, <2>2 DEF Spoken
<1> QED
  BY <1>7, <1>8, <1>9

(* The gravest of what overlaps is kept.                                     *)
LEMMA ResolveSpeaks ==
  ASSUME NEW spans, IsScan(spans)
  PROVE  /\ ResolveOverlaps(spans) \in SUBSET spans
         /\ \A s \in spans : Spoken(ResolveOverlaps(spans), s)
<1>1. PICK N : N = Cardinality(spans)
  OBVIOUS
<1>2. PICK q : q = InOrder(spans)
  OBVIOUS
<1>3. /\ N \in Nat /\ \A i \in 1..N : q[i] \in spans
      /\ \A s \in spans : \E i \in 1..N : q[i] = s
  BY <1>1, <1>2, InOrderIs
<1>4. PICK g : /\ g[0] = {} /\ ResolveOverlaps(spans) = g[N]
               /\ \A n \in 0..(N - 1) : g[n + 1] = KeepSpan(g[n], q[n + 1])
  BY <1>1, <1>2, <1>3, ResolveIs
<1> DEFINE S == {n \in 0..N : g[n] \in SUBSET spans /\ \A i \in 1..n : Spoken(g[n], q[i])}
<1>5. 0 \in S
  BY <1>3, <1>4
<1>6. ASSUME NEW n \in 0..(N - 1), n \in S PROVE n + 1 \in S
  <2>1. PICK m : m = n + 1
    OBVIOUS
  <2>2. m \in 1..N /\ m \in 0..N
    BY <1>3, <2>1
  <2>3. PICK s : s = q[m]
    OBVIOUS
  <2>4. s \in spans /\ g[n] \in SUBSET spans /\ \A i \in 1..n : Spoken(g[n], q[i])
    BY <1>3, <1>6, <2>2, <2>3
  <2>5. g[m] = KeepSpan(g[n], s)
    BY <1>4, <2>1, <2>3
  <2>6. PICK kept : kept = g[n]
    OBVIOUS
  <2>7. /\ KeepSpan(kept, s) \in SUBSET spans /\ Spoken(KeepSpan(kept, s), s)
        /\ \A t \in spans : Spoken(kept, t) => Spoken(KeepSpan(kept, s), t)
    BY <2>4, <2>6, KeepSpeaks
  <2>8. ASSUME NEW i \in 1..m PROVE Spoken(g[m], q[i])
    <3>1. CASE i = m
      BY <2>3, <2>5, <2>6, <2>7, <3>1
    <3>2. CASE i # m
      <4>1. i \in 1..n /\ i \in 1..N
        BY <1>3, <2>1, <3>2
      <4>2. Spoken(kept, q[i]) /\ q[i] \in spans
        BY <1>3, <2>4, <2>6, <4>1
      <4> QED
        BY <2>5, <2>6, <2>7, <4>2
    <3> QED
      BY <3>1, <3>2
  <2> QED
    BY <2>1, <2>2, <2>5, <2>6, <2>7, <2>8
<1>7. N \in S
  <2> HIDE DEF S
  <2> QED
    BY <1>3, <1>5, <1>6, UpTo
<1> QED
  BY <1>3, <1>4, <1>7

(* What is found is screened, by a match that is as grave.                   *)
LEMMA ScreenedSpeaks ==
  ASSUME NEW finds \in SUBSET Finds, IsFiniteSet(finds),
         NEW f \in finds, ~f.deep, KindOf(f) # "none"
  PROVE  \E m \in Screened(finds) : m.kind \in DOMAIN Rank /\ Rank[m.kind] >= Rank[KindOf(f)]
<1>1. PICK shallow : shallow = {g \in finds : ~g.deep}
  OBVIOUS
<1>2. PICK these : these = {g \in shallow : g.field = f.field}
  OBVIOUS
<1>3. these \in SUBSET finds /\ f \in these
  BY <1>1, <1>2
<1>4. these \in SUBSET Finds /\ IsFiniteSet(these) /\ \A g \in these : g.field = f.field
  BY <1>2, <1>3, FS_Subset
<1>5. PICK name : name = f.field
  OBVIOUS
<1>6. /\ IsScan(ScanField(these))
      /\ \A g \in these : KindOf(g) # "none" => \E s \in ScanField(these) : s.kind = KindOf(g)
  BY <1>4, <1>5, ScanIs
<1>7. PICK spans : spans = ScanField(these)
  OBVIOUS
<1>8. PICK s \in spans : s.kind = KindOf(f)
  BY <1>3, <1>6, <1>7
<1>9. PICK m \in ResolveOverlaps(spans) : Rank[m.kind] >= Rank[s.kind]
  BY <1>6, <1>7, ResolveSpeaks DEF Spoken
<1>10. m.kind \in DOMAIN Rank
  <2>1. m \in spans
    BY <1>6, <1>7, ResolveSpeaks
  <2> QED
    BY <1>6, <1>7, <2>1 DEF IsScan
<1>11. m \in Screened(finds)
  <2>1. f \in shallow
    BY <1>1
  <2>2. ScreenForPersonalData(shallow) =
          UNION {ResolveOverlaps(ScanField({g \in shallow : g.field = n})) :
                   n \in {g.field : g \in shallow}}
    BY DEF ScreenForPersonalData
  <2>3. m \in ResolveOverlaps(ScanField({g \in shallow : g.field = f.field}))
    BY <1>2, <1>7, <1>9
  <2>4. f.field \in {g.field : g \in shallow}
    BY <2>1
  <2>5. m \in ScreenForPersonalData(shallow)
    BY <2>2, <2>3, <2>4
  <2> QED
    BY <1>1, <2>5 DEF Screened
<1> QED
  BY <1>8, <1>9, <1>10, <1>11

LEMMA ScreenedIs ==
  ASSUME NEW finds \in SUBSET Finds, IsFiniteSet(finds)
  PROVE  /\ Screened(finds) = {} => Kinds(finds) = {}
         /\ (\A m \in Screened(finds) : m.kind \notin BlockingKinds) =>
              \A part \in SUBSET finds : Kinds(part) \cap BlockingKinds = {}
<1>1. ASSUME NEW kind \in Kinds(finds)
      PROVE  \E m \in Screened(finds) : m.kind \in DOMAIN Rank /\ Rank[m.kind] >= Rank[kind]
  <2>1. PICK f \in finds : ~f.deep /\ kind = KindOf(f) /\ kind # "none"
    BY DEF Kinds
  <2> QED
    BY <2>1, ScreenedSpeaks
<1>2. ASSUME NEW part \in SUBSET finds, NEW kind \in Kinds(part), kind \in BlockingKinds
      PROVE  \E m \in Screened(finds) : m.kind \in BlockingKinds
  <2>1. kind \in Kinds(finds)
    BY DEF Kinds
  <2>2. PICK m \in Screened(finds) : m.kind \in DOMAIN Rank /\ Rank[m.kind] >= Rank[kind]
    BY <1>1, <2>1
  <2>3. Rank[kind] >= 3 /\ Rank[kind] \in Int /\ Rank[m.kind] \in Int
    BY <1>2, <2>2, RankIs
  <2>4. Rank[m.kind] >= 3
    BY <2>2, <2>3
  <2> QED
    BY <2>2, <2>4, RankIs
<1> QED
  BY <1>1, <1>2

-----------------------------------------------------------------------------
(* A request.                                                                *)

Snaps ==
  [status : {"OK", "TRUNCATED", "REJECTED", "SOURCE_UNAVAILABLE"},
   text : {"inert", "slipped", "empty"},
   finds : {F \in SUBSET Finds : IsFiniteSet(F)}]

Askings ==
  [what : {"none", "task", "challenge"},
   at : {"idle", "chain", "source", "redirect", "resolve", "connected", "screen", "upload", "over"},
   left : Int,
   answer : {"none", "PERSONAL_DATA_REJECTED", "CHAIN_UNAVAILABLE", "VALIDATION_FAILED",
             "TASK_NOT_FOUND", "STORAGE_UPLOAD_FAILED", "prepared"}]

Clean(object) ==
  /\ object.text # "active"
  /\ Kinds({f \in object.finds : f.field = "body" \/ object.status # "REJECTED"})
       \cap BlockingKinds = {}

Vouches(object) == object.status = "manifest" /\ object.publicDataOnly

(* A manifest that vouches ends the request, and what it vouches for stays.  *)
PrepareInv ==
  /\ asking \in Askings /\ snapshots \in Seq(Snaps)
  /\ asking.at = "upload" => asking.left \in 0..Len(snapshots)
  /\ \A object \in published : object.status \notin {"manifest", "evidence"} => Clean(object)
  /\ \A object \in published : Vouches(object) =>
       asking.at = "over" /\ \A i \in DOMAIN snapshots : Kinds(snapshots[i].finds) = {}

LEMMA PrepareStarts == PrepareInit => PrepareInv
<1> SUFFICES ASSUME PrepareInit PROVE PrepareInv
  OBVIOUS
<1> QED
  BY DEF PrepareInit, PrepareInv, Askings

(* A step that stores nothing and fetches nothing.                           *)
LEMMA OnlyAsks ==
  ASSUME PrepareInv, asking.at # "over", asking' \in Askings, asking'.at # "upload",
         UNCHANGED <<snapshots, published>>
  PROVE  PrepareInv'
BY DEF PrepareInv

LEMMA PlacesAreAsked ==
  ASSUME asking \in Askings
  PROVE  /\ \A at \in {"source", "redirect", "resolve", "connected", "screen"} :
              Stands(at) => asking' \in Askings /\ asking'.at = at
         /\ \A told \in {"CHAIN_UNAVAILABLE", "VALIDATION_FAILED", "TASK_NOT_FOUND",
                         "STORAGE_UPLOAD_FAILED", "prepared"} :
              Fails(told) => asking' \in Askings /\ asking'.at = "over"
BY DEF Askings, Stands, Fails

LEMMA FinishKeeps ==
  ASSUME PrepareInv, asking.at # "over",
         NEW status \in {"OK", "TRUNCATED", "REJECTED", "SOURCE_UNAVAILABLE"},
         NEW text \in {"inert", "slipped", "empty"}, Finish(status, text)
  PROVE  PrepareInv'
<1>1. asking \in Askings /\ snapshots \in Seq(Snaps)
  BY DEF PrepareInv
<1>2. asking' \in Askings /\ asking'.at # "upload"
  <2>2. PICK l, at : l = asking.left - 1 /\ at = NextSource(l)
    OBVIOUS
  <2>3. asking' = [asking EXCEPT !.left = l, !.at = at]
    BY <2>2 DEF Finish
  <2>4. l \in Int
    BY <1>1, <2>2 DEF Askings
  <2>5. at \in {"screen", "source"}
    BY <2>2 DEF NextSource
  <2> QED
    BY <1>1, <2>3, <2>4, <2>5 DEF Askings
<1>3. snapshots' \in Seq(Snaps)
  <2>1. IsFiniteSet({})
    BY FS_EmptySet
  <2>2. [status |-> status, text |-> text, finds |-> {}] \in Snaps
    BY <2>1 DEF Snaps
  <2>3. snapshots' = Append(snapshots, [status |-> status, text |-> text, finds |-> {}])
    BY DEF Finish
  <2> QED
    BY <1>1, <2>2, <2>3, AppendProperties
<1>4. published' = published
  BY DEF Finish
<1> QED
  BY <1>2, <1>3, <1>4 DEF PrepareInv

LEMMA ScreenKeeps ==
  ASSUME PrepareInv, NEW carried \in [DOMAIN snapshots -> FewFinds], ScreenSnapshots(carried)
  PROVE  PrepareInv'
<1>1. asking \in Askings /\ snapshots \in Seq(Snaps) /\ asking.at # "over"
  BY DEF PrepareInv, ScreenSnapshots
<1>2. PICK n \in Nat : n = Len(snapshots) /\ DOMAIN snapshots = 1..n
  BY <1>1
<1>3. \A i \in 1..n : snapshots[i] \in Snaps
  BY <1>1, <1>2
<1>4. ASSUME NEW i \in 1..n PROVE snapshots'[i] \in Snaps
  <2>1. PICK F : F = {f \in carried[i] : IF f.field = "headers" THEN snapshots[i].status # "REJECTED"
                                     ELSE snapshots[i].text # "empty"}
    OBVIOUS
  <2>2. carried[i] \in SUBSET Finds /\ IsFiniteSet(carried[i])
    BY <1>2 DEF FewFinds
  <2>3. F \in SUBSET Finds /\ IsFiniteSet(F)
    BY <2>1, <2>2, FS_Subset
  <2>4. snapshots'[i] = [snapshots[i] EXCEPT !.finds = F]
    BY <1>2, <2>1 DEF ScreenSnapshots
  <2> QED
    BY <1>3, <2>3, <2>4 DEF Snaps
<1>5. snapshots' \in Seq(Snaps) /\ Len(snapshots') = n
  <2>1. PICK q : q = snapshots'
    OBVIOUS
  <2>2. q \in [1..n -> Snaps]
    BY <1>2, <1>4, <2>1 DEF ScreenSnapshots
  <2>3. q \in Seq(Snaps) /\ Len(q) = n
    BY <2>2, FunctionIsSeq
  <2> QED
    BY <2>1, <2>3
<1>6. asking' \in Askings /\ asking'.left = n
  <2>1. asking' = [asking EXCEPT !.at = "upload", !.left = n]
    BY <1>2 DEF ScreenSnapshots
  <2>2. asking' \in Askings
    <3>1. n \in Int /\ asking \in Askings
      BY <1>1
    <3> QED
      BY <2>1, <3>1 DEF Askings
  <2>3. asking'.left = n
    <3>1. "left" \in DOMAIN asking
      BY <1>1 DEF Askings
    <3> QED
      BY <2>1, <3>1
  <2> QED
    BY <2>2, <2>3
<1>7. published' = published
  BY DEF ScreenSnapshots
<1> QED
  BY <1>1, <1>5, <1>6, <1>7 DEF PrepareInv

LEMMA UploadedIsClean ==
  ASSUME NEW next \in Snaps
  PROVE  /\ ~Blocked(next) => Clean(next)
         /\ Clean(Emptied(next)) /\ Emptied(next).status = "REJECTED"
         /\ next.status \notin {"manifest", "evidence"}
<1>1. /\ next.finds \in SUBSET Finds /\ IsFiniteSet(next.finds) /\ next.text # "active"
      /\ next.status \notin {"manifest", "evidence"}
  BY DEF Snaps
<1>2. ASSUME ~Blocked(next) PROVE Clean(next)
  <2>1. PICK finds, part : finds = next.finds /\ part = {f \in next.finds : f.field = "body" \/ next.status # "REJECTED"}
    OBVIOUS
  <2>2. \A m \in Screened(finds) : m.kind \notin BlockingKinds
    BY <1>2, <2>1 DEF Blocked
  <2>3. part \in SUBSET finds
    BY <2>1
  <2>4. Kinds(part) \cap BlockingKinds = {}
    BY <1>1, <2>1, <2>2, <2>3, ScreenedIs
  <2> QED
    BY <1>1, <2>1, <2>4 DEF Clean
<1>3. Clean(Emptied(next)) /\ Emptied(next).status = "REJECTED"
  <2>1. /\ Emptied(next).status = "REJECTED" /\ Emptied(next).text = "empty"
        /\ Emptied(next).finds = {f \in next.finds : f.field = "headers"}
    BY DEF Emptied, Snaps
  <2>2. {f \in Emptied(next).finds : f.field = "body" \/ Emptied(next).status # "REJECTED"} = {}
    BY <2>1
  <2>3. Kinds({}) = {}
    BY DEF Kinds
  <2> QED
    BY <2>1, <2>2, <2>3 DEF Clean
<1> QED
  BY <1>1, <1>2, <1>3

LEMMA UploadKeeps ==
  ASSUME PrepareInv, UploadSnapshot
  PROVE  PrepareInv'
<1>1. /\ asking \in Askings /\ snapshots \in Seq(Snaps) /\ asking.at = "upload"
      /\ asking.left \in 1..Len(snapshots)
  BY DEF PrepareInv, UploadSnapshot, Askings
<1>2. PICK next : next = snapshots[Len(snapshots) - asking.left + 1]
  OBVIOUS
<1>3. next \in Snaps
  <2>1. Len(snapshots) - asking.left + 1 \in 1..Len(snapshots)
    BY <1>1
  <2> QED
    BY <1>1, <1>2, <2>1
<1>4. PICK object : object = IF Blocked(next) THEN Emptied(next) ELSE next
  OBVIOUS
<1>5. published' = published \cup {object} /\ snapshots' = snapshots
  BY <1>2, <1>4 DEF UploadSnapshot
<1>6. Clean(object) /\ object.status \notin {"manifest", "evidence"}
  BY <1>3, <1>4, UploadedIsClean
<1>7. asking' \in Askings /\ asking'.left \in 0..Len(snapshots)
  BY <1>1 DEF UploadSnapshot, Askings
<1> QED
  BY <1>1, <1>5, <1>6, <1>7 DEF PrepareInv, Vouches

LEMMA StoreKeeps ==
  ASSUME PrepareInv, StoreManifest \/ StoreEvidence
  PROVE  PrepareInv'
<1>1. asking \in Askings /\ snapshots \in Seq(Snaps) /\ asking.at = "upload"
  BY DEF PrepareInv, StoreManifest, StoreEvidence
<1>2. asking' \in Askings /\ asking'.at = "over" /\ snapshots' = snapshots
  BY <1>1, PlacesAreAsked DEF StoreManifest, StoreEvidence
<1>3. \A i \in DOMAIN snapshots : snapshots[i].finds \in SUBSET Finds /\ IsFiniteSet(snapshots[i].finds)
  <2>1. \A i \in DOMAIN snapshots : snapshots[i] \in Snaps
    BY <1>1
  <2> QED
    BY <2>1 DEF Snaps
<1>4. PublicDataOnly => \A i \in DOMAIN snapshots : Kinds(snapshots[i].finds) = {}
  <2> SUFFICES ASSUME PublicDataOnly, NEW i \in DOMAIN snapshots
               PROVE  Kinds(snapshots[i].finds) = {}
    OBVIOUS
  <2>1. PICK finds : finds = snapshots[i].finds
    OBVIOUS
  <2>2. Screened(finds) = {} /\ finds \in SUBSET Finds /\ IsFiniteSet(finds)
    BY <1>3, <2>1 DEF PublicDataOnly
  <2> QED
    BY <2>1, <2>2, ScreenedIs
<1>5. CASE StoreManifest
  <2>1. PICK object : object = [status |-> "manifest", publicDataOnly |-> PublicDataOnly]
    OBVIOUS
  <2>2. published' = published \cup {object}
    BY <1>5, <2>1 DEF StoreManifest
  <2>3. object.status = "manifest" /\ (object.publicDataOnly => PublicDataOnly)
    BY <2>1
  <2> QED
    BY <1>1, <1>2, <1>4, <2>2, <2>3 DEF PrepareInv, Vouches
<1>6. CASE StoreEvidence
  <2>1. published' = published \cup {[status |-> "evidence"]}
    BY <1>6 DEF StoreEvidence
  <2> QED
    BY <1>1, <1>2, <2>1 DEF PrepareInv, Vouches
<1> QED
  BY <1>5, <1>6

LEMMA PrepareStep == PrepareInv /\ [PrepareNext]_prepareVars => PrepareInv'
<1> SUFFICES ASSUME PrepareInv, [PrepareNext]_prepareVars PROVE PrepareInv'
  OBVIOUS
<1>0. asking \in Askings
  BY DEF PrepareInv
<1>1. ASSUME NEW what \in {"task", "challenge"}, NEW n \in 0..MaxSources, NEW typed \in FewFinds,
             PrepareRequest(what, n, typed)
      PROVE  PrepareInv'
  <2>1. asking' \in Askings /\ asking'.at # "upload"
    <3>1. \/ asking' = [what |-> what, at |-> "chain", left |-> n, answer |-> "none"]
          \/ asking' = [what |-> what, at |-> "over", left |-> 0, answer |-> "PERSONAL_DATA_REJECTED"]
      BY <1>1 DEF PrepareRequest
    <3>2. n \in Int
      BY PrepareAssumption
    <3> QED
      BY <3>1, <3>2 DEF Askings
  <2> QED
    BY <1>1, <2>1, OnlyAsks DEF PrepareRequest
<1>2. CASE ReadChain
  <2>1. asking.at # "over" /\ UNCHANGED <<snapshots, published>>
    BY <1>2 DEF ReadChain
  <2>2. asking' \in Askings /\ asking'.at # "upload"
    <3>1. NextSource(asking.left) \in {"screen", "source"}
      BY DEF NextSource
    <3>2. \/ Stands(NextSource(asking.left))
          \/ Fails("CHAIN_UNAVAILABLE") \/ Fails("VALIDATION_FAILED") \/ Fails("TASK_NOT_FOUND")
      BY <1>2 DEF ReadChain
    <3> QED
      BY <1>0, <3>1, <3>2, PlacesAreAsked
  <2> QED
    BY <2>1, <2>2, OnlyAsks
<1>3. CASE ParseTarget
  <2>1. asking.at # "over"
    BY <1>3 DEF ParseTarget
  <2>2. (Stands("resolve") /\ UNCHANGED <<hop, snapshots, published>>) \/ Finish("REJECTED", "empty")
    BY <1>3 DEF ParseTarget
  <2>3. CASE Stands("resolve") /\ UNCHANGED <<hop, snapshots, published>>
    BY <1>0, <2>1, <2>3, PlacesAreAsked, OnlyAsks
  <2> QED
    BY <2>1, <2>2, <2>3, FinishKeeps
<1>4. CASE DoesNotResolve
  BY <1>4, FinishKeeps DEF DoesNotResolve
<1>5. CASE NoAnswer
  BY <1>5, FinishKeeps DEF NoAnswer
<1>6. CASE Redirected
  <2>1. asking.at # "over"
    BY <1>6 DEF Redirected
  <2>2. (Stands("redirect") /\ UNCHANGED <<snapshots, published>>) \/ Finish("REJECTED", "empty")
    BY <1>6 DEF Redirected
  <2>3. CASE Stands("redirect") /\ UNCHANGED <<snapshots, published>>
    BY <1>0, <2>1, <2>3, PlacesAreAsked, OnlyAsks
  <2> QED
    BY <2>1, <2>2, <2>3, FinishKeeps
<1>7. ASSUME NEW answers \in Answers, ResolveTarget(answers) PROVE PrepareInv'
  <2>1. asking.at # "over"
    BY <1>7 DEF ResolveTarget
  <2>2. \/ Stands("connected") /\ UNCHANGED <<hop, snapshots, published>>
        \/ Finish("REJECTED", "empty")
    BY <1>7 DEF ResolveTarget
  <2>3. CASE Stands("connected") /\ UNCHANGED <<hop, snapshots, published>>
    BY <1>0, <2>1, <2>3, PlacesAreAsked, OnlyAsks
  <2> QED
    BY <2>1, <2>2, <2>3, FinishKeeps
<1>8. ASSUME NEW text \in StoredTexts, NEW truncated \in BOOLEAN,
             InlineSnapshot(text, truncated) \/ ReadBody(text, truncated)
      PROVE  PrepareInv'
  <2>1. text \in {"inert", "slipped", "empty"}
    BY StoredAreInert
  <2>2. PICK status : status = IF truncated THEN "TRUNCATED" ELSE "OK"
    OBVIOUS
  <2>3. asking.at # "over" /\ Finish(status, text)
    BY <1>8, <2>2 DEF InlineSnapshot, ReadBody
  <2>4. status \in {"OK", "TRUNCATED", "REJECTED", "SOURCE_UNAVAILABLE"}
    BY <2>2
  <2> QED
    BY <2>1, <2>3, <2>4, FinishKeeps
<1>9. CASE UploadFails
  <2>1. asking.at # "over" /\ Fails("STORAGE_UPLOAD_FAILED") /\ UNCHANGED <<snapshots, published>>
    BY <1>9 DEF UploadFails
  <2>2. asking' \in Askings /\ asking'.at # "upload"
    BY <1>0, <2>1, PlacesAreAsked
  <2> QED
    BY <2>1, <2>2, OnlyAsks
<1>10. CASE UNCHANGED prepareVars
  BY <1>10 DEF prepareVars, PrepareInv
<1> QED
  BY <1>1, <1>2, <1>3, <1>4, <1>5, <1>6, <1>7, <1>8, <1>9, <1>10, ScreenKeeps, UploadKeeps, StoreKeeps
     DEF PrepareNext

LEMMA PrepareInvIsClean == PrepareInv => PublishedIsClean
BY DEF PrepareInv, PublishedIsClean, Vouches, Clean

(* No body that was screened is stored with grave personal data in it, nor   *)
(* the headers of a source that was not refused; no stored text holds a      *)
(* block of script or style, of pages without letters that are longer in     *)
(* lower case; and a manifest vouches only for sources in which nothing was  *)
(* found (prepare-service.ts, source-fetcher.ts, safety.ts): whatever the    *)
(* pages and the finds are.                                                  *)
THEOREM PublishedClean == PrepareSpec => []PublishedIsClean
<1>1. PrepareSpec => []PrepareInv
  BY PrepareStarts, PrepareStep, PTL DEF PrepareSpec
<1> QED
  BY <1>1, PrepareInvIsClean, PTL

(* Evidence is stored and shown fairly: no body is published with grave      *)
(* personal data found in it, nor are headers unless their source was        *)
(* refused, nor active markup unless its page has letters that are longer in *)
(* lower case; and the model is shown as many spans as there are, of as many *)
(* sources as can be (prepare-service.ts, source-fetcher.ts, selection.ts).  *)
THEOREM EvidenceFair == PrepareSpec /\ ComputeSpec => []EvidenceIsFair
  BY PublishedClean, SpansFair, PTL DEF EvidenceIsFair
=============================================================================

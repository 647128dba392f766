-------------------------- MODULE MCAdjudication --------------------------
(* Panels for TLC to judge: what verifiers may say of two claims, the      *)
(* panels of up to four reports made of it, and four that are disputed.    *)
EXTENDS Adjudication, Sequences

ClaimEntry(v, p, h, d) == [verdict |-> v, confidence |-> p, sources |-> h, degraded |-> d]
Supports == ClaimEntry("SUPPORTED", 90, {1}, FALSE)
Contradicts == ClaimEntry("CONTRADICTED", 90, {1}, FALSE)
Abstains == ClaimEntry(Abstention, 30, {}, FALSE)
Degrades == ClaimEntry("SUPPORTED", 90, {1}, TRUE)
Elsewhere == ClaimEntry("SUPPORTED", 90, {2}, FALSE)
Unsure == ClaimEntry("CONTRADICTED", 40, {1}, FALSE)
MCReport(v, a) == [verifier |-> v, bound |-> TRUE, hash |-> v, claims |-> a]

MCEntries == <<Supports, Contradicts, Abstains, Degrades, Elsewhere, Unsure>>
MCAnswers == [1..2 -> 1..4] \cup {<<1, 5>>, <<1, 6>>}
MCRank(a) == 10 * a[1] + a[2]
(* One panel of those that differ in the order of the verifiers only.      *)
MCPanels ==
  {{MCReport(v, [c \in 1..2 |-> MCEntries[f[v][c]]]) : v \in DOMAIN f} :
     f \in UNION {{g \in [1..n -> MCAnswers] :
                     \A v \in 1..(n - 1) : MCRank(g[v]) <= MCRank(g[v + 1])} : n \in 1..4}}

(* One dissents, of three or of four, one is half degraded, and two disagree *)
(* on a claim.                                                             *)
MCDisputePanels ==
  {{MCReport(1, <<Supports, Supports>>), MCReport(2, <<Supports, Supports>>),
    MCReport(3, <<Contradicts, Abstains>>)},
   {MCReport(1, <<Supports, Supports>>), MCReport(2, <<Supports, Supports>>),
    MCReport(3, <<Contradicts, Contradicts>>), MCReport(4, <<Supports, Abstains>>)},
   {MCReport(1, <<Supports, Abstains>>), MCReport(2, <<Supports, Abstains>>),
    MCReport(3, <<Abstains, Degrades>>)},
   {MCReport(1, <<Contradicts, Contradicts>>), MCReport(2, <<Contradicts, Supports>>)}}

(* The adjudicator alone: no panel is evaluated.                           *)
TribunalSpec == AdjInit /\ EngineInit /\ [][AdjNext /\ UNCHANGED panel]_<<adjVars, panel>>
=============================================================================

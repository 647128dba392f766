---------------------------- MODULE Adjudication ----------------------------
(***************************************************************************)
(* The adjudicator (workers/adjudicator/src/adjudicator.ts) on one dispute: *)
(* every tick that finds it open reads the challenge, the snapshots and the *)
(* revealed reports again, scores the disputed claims by a second pass,     *)
(* compares it with what the reports come to, stores its decision and       *)
(* submits it.  Any call of a tick may fail, and anyone may expire the      *)
(* dispute once its window is over.                                         *)
(***************************************************************************)
EXTENDS Engine

CONSTANTS
  DisputePanels,   \* what had been revealed when the task was finalized
  Challengers,
  NamedClaims,     \* what a challenge may name, of the manifest or not
  MaxTicksFailed   \* bound

(* The chain holds one report of a verifier, and loadReports drops those that *)
(* name another.                                                              *)
ASSUME AdjudicationAssumption ==
  \A reports \in DisputePanels :
    ArePanel(reports) /\ \A r, s \in reports : r.verifier = s.verifier => r = s

VARIABLES
  dispute,       \* its reports, challenger and claims, and where it stands
  adjudicator,   \* where the tick stands, what it has read and decided
  ticksFailed

adjVars == <<dispute, adjudicator, ticksFailed>>

NoDispute == [status |-> "none", reports |-> {}, challenger |-> 0, named |-> {}]
AdjIdle == [at |-> "idle", read |-> {}, second |-> <<>>, weighed |-> TRUE,
            upheld |-> FALSE, revised |-> {}]

AdjInit == dispute = NoDispute /\ adjudicator = AdjIdle /\ ticksFailed = 0

Disputed == dispute.named \cap ManifestClaims
Adj(at) == adjudicator' = [adjudicator EXCEPT !.at = at]

-----------------------------------------------------------------------------
ChallengeOpened ==
  /\ dispute = NoDispute
  /\ \E reports \in DisputePanels, challenger \in Challengers, named \in SUBSET NamedClaims :
        dispute' = [status |-> "open", reports |-> reports, challenger |-> challenger,
                    named |-> named]
  /\ UNCHANGED <<adjudicator, ticksFailed>>

ExpireDispute ==
  /\ dispute.status = "open" /\ dispute' = [dispute EXCEPT !.status = "expired"]
  /\ UNCHANGED <<adjudicator, ticksFailed>>

(* tick, findDisputed: in the logs of the look-back, and open on the chain.   *)
FindDisputed ==
  /\ adjudicator.at = "idle" /\ dispute.status = "open"
  /\ adjudicator' = [AdjIdle EXCEPT !.at = "load"]
  /\ UNCHANGED <<dispute, ticksFailed>>

LoadChallenge ==
  /\ adjudicator.at = "load" /\ Adj("corpus")
  /\ UNCHANGED <<dispute, ticksFailed>>

(* loadManifest, loadCorpus: every snapshot it kept, each as it was named: one *)
(* that is not fails the tick, it is never left out.                          *)
LoadDisputed ==
  /\ adjudicator.at = "corpus" /\ Adj("reports")
  /\ UNCHANGED <<dispute, ticksFailed>>

(* loadReports: one that cannot be fetched, or is not what the chain names, is *)
(* left out; without any, or when the challenge names no claim of the manifest,*)
(* the dispute is left to expire.                                             *)
LoadReports ==
  /\ adjudicator.at = "reports"
  /\ \E read \in SUBSET dispute.reports :
        adjudicator' = IF read = {} \/ Disputed = {} THEN AdjIdle
                       ELSE [adjudicator EXCEPT !.at = "score", !.read = read]
  /\ UNCHANGED <<dispute, ticksFailed>>

(* Mutant: the second pass is compared with each report. *)
Overturned_AnyReport(read, second) ==
  {c \in DOMAIN second : \E r \in Votes(read, c) : r.claims[c].verdict # second[c]}

(* Compared with what the reports that were read come to.                     *)
Overturned(read, second) == {c \in DOMAIN second : MajorityVerdict(read, c) # second[c]}

(* Who is paid: those whose reports never differ from the second pass.        *)
Revised(read, second) ==
  {r.verifier : r \in read} \
    {r.verifier : r \in {s \in read : \E c \in DOMAIN second \cap DOMAIN s.claims :
                                         s.claims[c].verdict # second[c]}}

(* The second pass, by a model or by what stands in for it, and the decision. *)
Resolve ==
  /\ adjudicator.at = "score"
  /\ \E second \in [Disputed -> Labels], weighed \in BOOLEAN :
        /\ ~weighed => \A c \in Disputed : second[c] # "SUPPORTED"
        /\ adjudicator' = [adjudicator EXCEPT !.at = "store", !.second = second, !.weighed = weighed,
                             !.upheld = Overturned(adjudicator.read, second) # {},
                             !.revised = Revised(adjudicator.read, second)]
  /\ UNCHANGED <<dispute, ticksFailed>>

StoreDecision ==
  /\ adjudicator.at = "store" /\ Adj("send")
  /\ UNCHANGED <<dispute, ticksFailed>>

(* The contract does not pay a rejected challenger a share of its own bond.   *)
ContractAccepts ==
  /\ dispute.status = "open"
  /\ adjudicator.upheld \/ dispute.challenger \notin adjudicator.revised

SendDecision ==
  /\ adjudicator.at = "send"
  /\ IF ContractAccepts
     THEN /\ dispute' = [dispute EXCEPT !.status = IF adjudicator.upheld THEN "upheld" ELSE "rejected"]
          /\ Adj("over")
     ELSE Adj("idle") /\ UNCHANGED dispute
  /\ UNCHANGED ticksFailed

(* A fetch or an RPC of the tick fails, or a snapshot is not the one named:    *)
(* the loop logs it and looks again at the next tick.                         *)
AdjTickFails ==
  /\ adjudicator.at \notin {"idle", "over"} /\ ticksFailed < MaxTicksFailed
  /\ Adj("idle") /\ ticksFailed' = ticksFailed + 1
  /\ UNCHANGED dispute

AdjNext ==
  \/ ChallengeOpened \/ ExpireDispute \/ FindDisputed \/ LoadChallenge \/ LoadDisputed \/ LoadReports
  \/ Resolve \/ StoreDecision \/ SendDecision \/ AdjTickFails

AdjSpec == AdjInit /\ [][AdjNext]_adjVars

-----------------------------------------------------------------------------
OverturnedSettled == {c \in Disputed : adjudicator.second[c] # MajorityVerdict(dispute.reports, c)}
Unread == dispute.reports \ adjudicator.read

(* What the reports settled on leads by more than the reports that could not  *)
(* be read: whatever these said, they are too few to have made the majority.  *)
Leads(c) ==
  LET size(v) == Cardinality(Holders(dispute.reports, c, v))
      settled == MajorityVerdict(dispute.reports, c)
  IN \A v \in Labels \ {settled} : size(settled) > size(v) + Cardinality(Unread)

(* "A challenge is upheld when the second pass overturns the verdict the task *)
(* settled on, not when it disagrees with some individual report", although   *)
(* reports may be missing when it is weighed, as long as they are too few to  *)
(* have made the majority of a disputed claim; and then the bounty leaves     *)
(* those who made the verdict that was overturned, read or not.               *)
DissentDoesNotUphold ==
  /\ dispute.status \in {"upheld", "rejected"}
  /\ \A c \in Disputed : Unread = {} \/ Leads(c)
  => /\ dispute.status = "upheld" <=> OverturnedSettled # {}
     /\ \A c \in OverturnedSettled :
          {r.verifier : r \in Agreeing(dispute.reports, c)} \cap adjudicator.revised = {}

(* adjudicator.ts: "overturns the verdict the task actually SETTLED on".      *)
UpheldOverturnsSettled == dispute.status = "upheld" => OverturnedSettled # {}

(* engine.ts: "A verdict the verifier's model never produced does not count". *)
UpheldIsWeighed == dispute.status = "upheld" => adjudicator.weighed
=============================================================================

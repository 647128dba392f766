------------------------------ MODULE Services ------------------------------
(***************************************************************************)
(* What the parts that answer one request or one page promise together.    *)
(* They share no state: each promise is the conjunction of what its parts  *)
(* keep of it, and holds of any composition in which each of them moves by *)
(* its own actions.                                                        *)
(***************************************************************************)
EXTENDS SignIn, Sponsor, Prepare, Compute, Adjudication, Lists, TaskView, ShareCard

(* What is granted is granted once and to whom it belongs: one session per  *)
(* nonce and for the wallet that was challenged, requests that act as the   *)
(* connected wallet, sponsorships within the quotas and each the            *)
(* requester's own task (siwe.ts, session.ts, sponsor-service.ts).          *)
GrantedToItsOwner ==
  OneSessionPerNonce /\ ActsAsConnected /\ WithinQuota /\ GrantedIsTheirs

(* Evidence is stored and shown fairly: no body is published with what must  *)
(* not be, nor are headers unless their source was refused, and the model is *)
(* shown as many spans as there are, of as many sources as can be           *)
(* (prepare-service.ts, source-fetcher.ts, local.ts).                       *)
EvidenceIsFair == PublishedIsClean /\ SpansAreFair

(* A verdict with weight was weighed: a support names spans that the model  *)
(* saw, what was degraded decides nothing in the engine, and those it pays  *)
(* agree (llm.ts, engine.ts).                                               *)
VerdictsAreWeighed ==
  SupportIsWeighed /\ DegradedCarriesNoWeight /\ PaidAgree

(* What a page shows is so: a detail covers the counts of its own row, a    *)
(* reader of a list misses no row that was there throughout, and a card     *)
(* draws what its page says (task-service.ts, cursor.ts, og.ts).            *)
ShownIsTrue == CountsAreCovered /\ NothingSkipped /\ CardDrawsTheTask
=============================================================================

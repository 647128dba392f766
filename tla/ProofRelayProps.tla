--------------------------- MODULE ProofRelayProps ---------------------------
(***************************************************************************)
(* What the escrow contract promises: its type invariant, the accounting    *)
(* of its four liability buckets, the rules of the commit/reveal round, of  *)
(* disputes and of roles, and the promise that no escrow can be trapped.    *)
(***************************************************************************)
EXTENDS ProofRelay

TaskType == [bounty : Nat, verifierCount : Nat, commitDeadline : Nat,
             revealDeadline : Nat, disputeWindow : Nat, consensusAt : Nat,
             committedCount : Nat, revealedCount : Nat, rewardBps : Nat,
             status : Statuses, outcome : Outcomes]
ReportType == [commitment : Commitments, revealed : BOOLEAN]
DisputeType == [challenger : Accounts \cup {NoAccount}, bond : Nat,
                deadline : Nat, resolved : BOOLEAN,
                outcome : {"None", "Upheld", "Rejected", "Expired"}]
VerifierType == [registered : BOOLEAN, approved : BOOLEAN, active : BOOLEAN,
                 stake : Nat]

(* Every variable holds what its Solidity type can hold; in particular no   *)
(* liability bucket is ever negative.                                       *)
TypeOK ==
  /\ task \in [TaskIds -> TaskType]
  /\ report \in [TaskIds -> [Accounts -> ReportType]]
  /\ dispute \in [TaskIds -> DisputeType]
  /\ verifier \in [Accounts -> VerifierType]
  /\ roles \in [Roles -> SUBSET Accounts]
  /\ paused \in BOOLEAN
  /\ creatorNonce \in [Accounts -> Nat]
  /\ allocation \in [TaskIds -> [Accounts -> Nat]]
  /\ pendingWithdrawals \in [Accounts -> Nat]
  /\ {escrowed, allocated, pending, staked, balance} \subseteq Nat
  /\ callee \in Accounts \cup {NoAccount}
  /\ now \in Nat

-----------------------------------------------------------------------------
(* Money. *)

(* The contract holds exactly what totalLiabilities() says it owes, in the  *)
(* middle of a withdrawal too.                                              *)
Solvent == balance = escrowed + allocated + pending + staked

(* What a task keeps in escrow, outside its allocations. *)
Held(id) == CASE task[id].status \in Unsettled   -> task[id].bounty
              [] task[id].status = "Disputed"    -> dispute[id].bond
              [] OTHER                           -> 0

AllocatedTo(id) == Total(allocation[id], Accounts)

(* Each bucket is the sum of the claims it stands for: no path moves money   *)
(* between buckets without moving the entry it belongs to.                  *)
Accounted ==
  /\ escrowed = Total([id \in TaskIds |-> Held(id)], TaskIds)
  /\ allocated = Total([id \in TaskIds |-> AllocatedTo(id)], TaskIds)
  /\ pending = Total(pendingWithdrawals, Accounts)
  /\ staked = Total([a \in Accounts |-> verifier[a].stake], Accounts)

(* While a classification can still be overturned its allocations are the   *)
(* whole bounty, which is what _settleUpheld unwinds and deals out again.   *)
ProvisionalIsWhole ==
  \A id \in TaskIds :
    task[id].status \in {"Consensus", "Disputed"} => AllocatedTo(id) = task[id].bounty

(* The two counters the guards use are the sizes of the sets they count.    *)
CountsAgree ==
  \A id \in TaskIds :
    /\ task[id].committedCount = Cardinality(TaskVerifiers(id))
    /\ task[id].revealedCount = Cardinality(Revealers(id))
    /\ task[id].committedCount <= task[id].verifierCount

(* The books: every bucket, the allocations of a contestable task and the     *)
(* counters of a round are what they stand for.                             *)
BooksBalance == Accounted /\ ProvisionalIsWhole /\ CountsAgree

(* Only the creator, the challenger and verifiers that opened a commitment  *)
(* of their own are ever owed anything by a task: a copied one never pays.  *)
PartiesOnly ==
  \A id \in TaskIds, a \in Accounts :
    allocation[id][a] > 0 =>
      \/ report[id][a] = [commitment |-> "own", revealed |-> TRUE]
      \/ a \in {CreatorOf(id), dispute[id].challenger}

(* Provisional allocations are frozen: one shrinks only by a claim on a     *)
(* settled task or by an upheld challenge.                                  *)
FrozenStep ==
  \A id \in TaskIds, a \in Accounts :
    allocation'[id][a] < allocation[id][a] =>
      \/ task[id].status \in Terminal
      \/ task[id].status = "Consensus" /\ now > DisputeDeadline(id)
      \/ dispute'[id].outcome = "Upheld" /\ task[id].status = "Disputed"
FrozenWhileContestable == [][FrozenStep]_vars

(* A keeper picks a classification, never an amount: a consensus pays the   *)
(* verifiers the whole bounty, but for what does not divide.                *)
ConsensusPaysInFull ==
  \A id \in TaskIds :
    /\ task[id].status \in {"Consensus", "Disputed"}
    /\ task[id].outcome = "Consensus"
    /\ CreatorOf(id) \notin Revealers(id)
    => allocation[id][CreatorOf(id)] < task[id].verifierCount

-----------------------------------------------------------------------------
(* The round. *)

(* Once one report is readable nobody can commit any more, and nobody who   *)
(* still had a slot and time to use it was shut out by that reveal.         *)
SealedRound ==
  \A id \in TaskIds :
    task[id].revealedCount > 0 =>
      /\ \/ task[id].committedCount = task[id].verifierCount
         \/ now > task[id].commitDeadline
      /\ task[id].status \notin {"None", "Open", "Committing"}

(* A settled task is settled for good: its status and verdict stay and its  *)
(* allocations only shrink.                                                 *)
SettledStep ==
  \A id \in TaskIds :
    task[id].status \in Terminal =>
      /\ task'[id] = task[id]
      /\ dispute'[id] = dispute[id]
      /\ \A a \in Accounts : allocation'[id][a] <= allocation[id][a]
SettledForGood == [][SettledStep]_vars

(* Neither a contestable allocation nor a settled task is touched again.     *)
AllocationsHold == FrozenWhileContestable /\ SettledForGood

-----------------------------------------------------------------------------
(* Disputes and roles. *)

(* The first half of a dispute window belongs to the creator.               *)
CreatorFirst ==
  \A id \in TaskIds :
    /\ task[id].status = "Disputed"
    /\ now <= task[id].consensusAt + task[id].disputeWindow \div 2
    => dispute[id].challenger = CreatorOf(id)

(* A failed challenge never moves the bounty: no allocation shrinks, the    *)
(* bond is all that is dealt out, and a rejected challenger that is not the *)
(* creator gets none of it.                                                 *)
FailedChallengeStep ==
  \A id \in TaskIds :
    /\ ~dispute[id].resolved
    /\ dispute'[id].resolved
    /\ dispute'[id].outcome # "Upheld"
    => /\ \A a \in Accounts : allocation'[id][a] >= allocation[id][a]
       /\ Total(allocation'[id], Accounts) = AllocatedTo(id) + dispute[id].bond
       /\ LET c == dispute[id].challenger IN
          dispute'[id].outcome = "Rejected" /\ c # CreatorOf(id)
            => allocation'[id][c] = allocation[id][c]
FailedChallengeMovesOnlyBond == [][FailedChallengeStep]_vars

(* The verdict on a settled task is the one its money followed.             *)
VerdictFollowsMoney ==
  \A id \in TaskIds :
    /\ (task[id].outcome = "Consensus") <=> (task[id].rewardBps = BPS_DENOMINATOR)
    /\ dispute[id].outcome = "Upheld" => task[id].outcome = "Conflict"
    /\ task[id].outcome = "NoQuorum" /\ dispute[id].challenger = NoAccount =>
         \A a \in Accounts \ {CreatorOf(id)} : allocation[id][a] = 0

(* A task pays parties that opened a report of their own, in full, and as its *)
(* verdict says.                                                            *)
PaidAsDecided == PartiesOnly /\ ConsensusPaysInFull /\ VerdictFollowsMoney

ResolvesAs(id, outcome) ==
  ~dispute[id].resolved /\ dispute'[id].resolved /\ dispute'[id].outcome = outcome

(* Nobody holding the admin, keeper or adjudicator role gains from a set of *)
(* beneficiaries that somebody chose, whoever holds a role at that moment:   *)
(* not from a consensus the keeper names, not from what the adjudicator     *)
(* deals out again when a challenge is upheld, and from a forfeited bond    *)
(* only as one of all the verifiers the challenge froze, each of whom then  *)
(* gains as much.                                                           *)
ChosenStep(excluded) ==
  \A id \in TaskIds, role \in excluded :
    \A a \in roles[role] \ {CreatorOf(id)} :
      /\ task[id].status \in Unsettled /\ task'[id].outcome = "Consensus" =>
           allocation'[id][a] = 0
      /\ ResolvesAs(id, "Upheld") /\ a # dispute[id].challenger =>
           allocation'[id][a] = 0
      /\ ResolvesAs(id, "Rejected") =>
           \/ allocation'[id][a] = allocation[id][a]
           \/ /\ a \in Defamed(id)
              /\ \A b \in Defamed(id) :
                    allocation'[id][b] - allocation[id][b]
                      >= allocation'[id][a] - allocation[id][a]
NoRoleHolderChosen ==
  [][ChosenStep({"DEFAULT_ADMIN", "KEEPER", "ADJUDICATOR"})]_vars

(* The same for every role, as the natspec of _requireRevealedSet puts it:  *)
(* no role holder may be a chosen beneficiary at all.                       *)
NoRoleHolderAtAll == [][ChosenStep(Roles)]_vars

(* There is always an admin to approve verifiers, grant roles and unpause.  *)
AdminNeverLost == roles["DEFAULT_ADMIN"] # {}

-----------------------------------------------------------------------------
(* The contract implements the abstract escrow: a task holds its escrow and *)
(* its allocations, and an account's credit is its pending withdrawals.     *)
PhaseOf(id) ==
  CASE task[id].status = "None"        -> "absent"
    [] task[id].status \in Unsettled  -> "collecting"
    [] task[id].status = "Consensus"   -> "provisional"
    [] task[id].status = "Disputed"    -> "contested"
    [] OTHER                           -> "closed"

Escrow == INSTANCE TaskEscrow WITH
  Tasks   <- TaskIds,
  Parties <- Accounts,
  phase   <- [id \in TaskIds |-> PhaseOf(id)],
  held    <- [id \in TaskIds |-> Held(id) + AllocatedTo(id)],
  credit  <- pendingWithdrawals

(* Money leaves a task only as it closes, to a party's credit, unit by unit. *)
ImplementsEscrow == Escrow!Spec

-----------------------------------------------------------------------------
(* Liveness.  Time passes, someone takes the permissionless exits (the      *)
(* keeper's fallback loop does), calls return, and beneficiaries collect.   *)
Fairness ==
  /\ WF_vars(Tick)
  /\ WF_vars(CallReturns)
  /\ \A id \in TaskIds :
       WF_vars(FinalizeTask(id) \/ ExpireTask(id) \/ ExpireDispute(id))
  /\ \A id \in TaskIds, a \in Accounts : WF_vars(ClaimReward(a, id))
  /\ \A a \in Accounts : WF_vars(Withdraw(a))

(* No one can trap escrow: whatever the keeper, the adjudicator, the pauser *)
(* and the other parties do or fail to do, a task settles.                  *)
EveryTaskSettles ==
  \A id \in TaskIds : task[id].status # "None" ~> task[id].status \in Terminal

(* And what it owes is paid out. *)
EveryoneIsPaid ==
  \A a \in Accounts :
    /\ pendingWithdrawals[a] > 0 ~> pendingWithdrawals[a] = 0
    /\ \A id \in TaskIds : allocation[id][a] > 0 ~> allocation[id][a] = 0
=============================================================================

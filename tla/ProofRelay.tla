----------------------------- MODULE ProofRelay -----------------------------
(***************************************************************************)
(* The escrow contract contracts/src/ProofRelay.sol.  Every external        *)
(* function is one action whose parameters are the caller and the           *)
(* arguments that decide its outcome; a revert is a step that does not      *)
(* exist, so the revert conditions are the guards.                          *)
(*                                                                         *)
(* A definition whose comment starts with "Mutant" is not part of the         *)
(* specification: it is a mistake the definition that follows it avoids, and *)
(* PROJECT.json names the property that finds it.                            *)
(*                                                                         *)
(* Data the contract only stores (hashes, pointers, rule ids, timestamps    *)
(* nobody reads back) is left out.  A commitment hash is abstracted to what *)
(* computeCommitment lets a reveal tell apart: "own" opens for the account  *)
(* that sent it, "copied" is another verifier's hash or garbage and opens   *)
(* for nobody, "none" is the zero word.                                     *)
(*                                                                         *)
(* withdraw and refundCreator hand control to the payee before they return: *)
(* callee is the account whose code is running inside such a call, and any  *)
(* function without the lock may be called until CallReturns.  A payee      *)
(* that reverts undoes the whole transaction, which is no step at all.      *)
(***************************************************************************)
EXTENDS Integers, FiniteSets

CONSTANTS
  Accounts,            \* addresses other than zero
  NoAccount,           \* address(0)
  InitialAdmin, InitialKeeper, InitialAdjudicator,  \* constructor arguments
  \* The contract's own constants and the params its constructor pins.
  MinWindow, MaxWindow, MaxDisputeWindow, MinVerifiers, MaxVerifiers,
  ConflictRateBps, ChallengeBondBps, ChallengerRewardBps,
  AdjudicatorSplitBps, MinBounty, MinVerifierStake, KeeperGracePeriod,
  AdjudicationWindow,
  Uint32Size, Uint96Size,  \* 2^32 and 2^96, the widths of the casts
  \* The inputs the callers choose from, and the bounds of the model.
  Creators,            \* accounts that call createTask
  Registrants,         \* accounts that register or are approved as verifiers
  TaskSpecs,           \* arguments of createTask
  Bounties, Stakes,    \* values sent with createTask and registerVerifier
  RewardRates,         \* rewardBps arguments of finalizeConsensus
  MaxNonce,            \* tasks one creator opens
  MaxTime              \* block.timestamp stops here

BPS_DENOMINATOR == 10000

TaskSpec == [verifierCount : Nat, commitWindowSec : Nat,
             revealWindowSec : Nat, disputeWindowSec : Nat]

ASSUME AccountsAssumption ==
  /\ IsFiniteSet(Accounts)
  /\ NoAccount \notin Accounts
  /\ InitialAdmin \in Accounts
  /\ {InitialKeeper, InitialAdjudicator} \subseteq Accounts \cup {NoAccount}
  /\ Creators \subseteq Accounts
  /\ Registrants \subseteq Accounts

ASSUME ParamsAssumption ==
  /\ {ConflictRateBps, ChallengeBondBps, ChallengerRewardBps,
      AdjudicatorSplitBps} \subseteq 0..BPS_DENOMINATOR
  /\ {MinWindow, MaxWindow, MaxDisputeWindow, MinVerifiers, MaxVerifiers,
      MinBounty, MinVerifierStake, KeeperGracePeriod,
      AdjudicationWindow} \subseteq Nat
  /\ MinVerifiers > 0
  /\ {Uint32Size, Uint96Size} \subseteq Nat \ {0}

ASSUME InputsAssumption ==
  /\ TaskSpecs \subseteq TaskSpec
  /\ Bounties \subseteq Nat
  /\ Stakes \subseteq Nat
  /\ RewardRates \subseteq Nat
  /\ MaxNonce \in Nat
  /\ MaxTime \in Nat

(* A task id is keccak256(chainid, contract, creator, nonce): injective in  *)
(* the creator and the nonce.                                               *)
TaskIds == Creators \X (0..(MaxNonce - 1))

Roles == {"DEFAULT_ADMIN", "KEEPER", "ADJUDICATOR", "PAUSER"}
Statuses == {"None", "Open", "Committing", "Revealing", "Consensus",
             "Disputed", "Finalized", "Expired", "Cancelled"}
Outcomes == {"None", "Consensus", "Conflict", "NoQuorum", "Expired",
             "Cancelled"}
Commitments == {"none", "own", "copied"}

Unsettled == {"Open", "Committing", "Revealing"}
Terminal  == {"Finalized", "Expired", "Cancelled"}

VARIABLES
  task,                \* _tasks
  report,              \* _reports and, by its committed entries, _taskVerifiers
  dispute,             \* _disputes
  verifier,            \* _verifiers
  roles,               \* _roles
  paused,
  creatorNonce,
  allocation,          \* _allocations
  pendingWithdrawals,
  escrowed, allocated, pending, staked,   \* the four liability buckets
  balance,             \* address(this).balance
  callee,              \* whose code runs inside withdraw; _lock = 2 iff not NoAccount
  now                  \* block.timestamp

rounds   == <<task, report, dispute, creatorNonce>>
registry == <<verifier, roles, paused>>
buckets  == <<escrowed, allocated, pending, staked>>
ledger   == <<allocation, pendingWithdrawals, buckets, balance>>
vars     == <<rounds, registry, ledger, callee, now>>

-----------------------------------------------------------------------------
(* Amounts. *)

Bps(amount, rate) == (amount * rate) \div BPS_DENOMINATOR

(* The sum of f over S, as the number of its units: written by counting     *)
(* rather than by recursion so that its laws can be proved.                 *)
Units(f, S) == UNION {{a} \X (1..f[a]) : a \in S}
Total(f, S) == Cardinality(Units(f, S))

(* An even share of pool for each member of S; what does not divide stays.  *)
Share(S, pool) == IF S = {} THEN 0 ELSE pool \div Cardinality(S)

(* The allocations f of one task after pool is split over S and the rest    *)
(* of amount is allocated to one account.                                   *)
Split(f, S, pool, rest, amount) ==
  [a \in Accounts |->
     f[a] + (IF a \in S THEN Share(S, pool) ELSE 0)
          + (IF a = rest THEN amount - Share(S, pool) * Cardinality(S) ELSE 0)]

(* Mutant: the sign is wrong. *)
Credit_Debits(f, a, amount) == [f EXCEPT ![a] = @ - amount]

Credit(f, a, amount) == [f EXCEPT ![a] = @ + amount]

-----------------------------------------------------------------------------
(* What the guards read. *)

NoTask == [bounty |-> 0, verifierCount |-> 0, commitDeadline |-> 0,
           revealDeadline |-> 0, disputeWindow |-> 0, consensusAt |-> 0,
           committedCount |-> 0, revealedCount |-> 0, rewardBps |-> 0,
           status |-> "None", outcome |-> "None"]
NoReport == [commitment |-> "none", revealed |-> FALSE]
NoDispute == [challenger |-> NoAccount, bond |-> 0, deadline |-> 0,
              resolved |-> FALSE, outcome |-> "None"]
NoVerifier == [registered |-> FALSE, approved |-> FALSE, active |-> FALSE,
               stake |-> 0]

CreatorOf(id) == id[1]
TaskVerifiers(id) == {a \in Accounts : report[id][a].commitment # "none"}
Revealers(id) == {a \in TaskVerifiers(id) : report[id][a].revealed}

DisputeDeadline(id) == task[id].consensusAt + task[id].disputeWindow
(* Mutant: no part of the window is the creator's alone. *)
CreatorPriorityDeadline_None(id) == task[id].consensusAt - 1

CreatorPriorityDeadline(id) ==
  task[id].consensusAt + task[id].disputeWindow \div 2

(* Mutant: reveals open at the commit deadline, not after it. *)
CommitOpen_EndsEarly(id) ==
  /\ task[id].committedCount < task[id].verifierCount
  /\ now < task[id].commitDeadline

CommitOpen(id) ==
  /\ task[id].committedCount < task[id].verifierCount
  /\ now <= task[id].commitDeadline
RevealOpen(id) ==
  /\ task[id].revealedCount < task[id].verifierCount
  /\ now <= task[id].revealDeadline
WindowElapsed(id) ==
  task[id].status = "Consensus" /\ now > DisputeDeadline(id)

(* Mutants: a silent verifier can be paid; only the caller is refused. *)
RequireRevealedSet_Committed(sender, id, beneficiaries) ==
  /\ Cardinality(beneficiaries) <= task[id].verifierCount
  /\ sender \notin beneficiaries
  /\ beneficiaries \subseteq TaskVerifiers(id)
RequireRevealedSet_CallerOnly(sender, id, beneficiaries) ==
  /\ Cardinality(beneficiaries) <= task[id].verifierCount
  /\ sender \notin beneficiaries
  /\ beneficiaries \subseteq Revealers(id)

(* The beneficiaries a keeper or an adjudicator may name. *)
RequireRevealedSet(sender, id, beneficiaries) ==
  /\ Cardinality(beneficiaries) <= task[id].verifierCount
  /\ sender \notin beneficiaries
  /\ \A role \in {"DEFAULT_ADMIN", "KEEPER", "ADJUDICATOR"} :
        roles[role] \cap beneficiaries = {}
  /\ beneficiaries \subseteq Revealers(id)

-----------------------------------------------------------------------------
(* The deployed contract, with a given verifier registry. *)
Deployed(registered) ==
  /\ task = [id \in TaskIds |-> NoTask]
  /\ report = [id \in TaskIds |-> [a \in Accounts |-> NoReport]]
  /\ dispute = [id \in TaskIds |-> NoDispute]
  /\ verifier = registered
  /\ roles = [r \in Roles |->
                CASE r = "KEEPER"      -> {InitialKeeper} \ {NoAccount}
                  [] r = "ADJUDICATOR" -> {InitialAdjudicator} \ {NoAccount}
                  [] OTHER             -> {InitialAdmin}]
  /\ paused = FALSE
  /\ creatorNonce = [a \in Accounts |-> 0]
  /\ allocation = [id \in TaskIds |-> [a \in Accounts |-> 0]]
  /\ pendingWithdrawals = [a \in Accounts |-> 0]
  /\ escrowed = 0 /\ allocated = 0 /\ pending = 0 /\ staked = 0
  /\ balance = 0
  /\ callee = NoAccount
  /\ now = 0

Init == Deployed([a \in Accounts |-> NoVerifier])

-----------------------------------------------------------------------------
(* The commit/reveal round. *)

CreateTask(sender, spec, value) ==
  LET id == <<sender, creatorNonce[sender]>>
      commitDeadline == now + spec.commitWindowSec
      revealDeadline == commitDeadline + spec.revealWindowSec
  IN
  /\ ~paused
  /\ spec.verifierCount \in MinVerifiers..MaxVerifiers
  /\ {spec.commitWindowSec, spec.revealWindowSec} \subseteq MinWindow..MaxWindow
  /\ spec.disputeWindowSec \in MinWindow..MaxDisputeWindow
  /\ value >= MinBounty /\ value < Uint96Size
  /\ creatorNonce[sender] < MaxNonce
  /\ task[id].status = "None"
  /\ revealDeadline < Uint32Size
  /\ creatorNonce' = [creatorNonce EXCEPT ![sender] = @ + 1]
  /\ task' = [task EXCEPT ![id] =
       [NoTask EXCEPT !.bounty = value,
                      !.verifierCount = spec.verifierCount,
                      !.commitDeadline = commitDeadline,
                      !.revealDeadline = revealDeadline,
                      !.disputeWindow = spec.disputeWindowSec,
                      !.status = "Open"]]
  /\ escrowed' = escrowed + value
  /\ balance' = balance + value
  /\ UNCHANGED <<report, dispute, registry, allocation, pendingWithdrawals,
                 allocated, pending, staked, callee, now>>

CancelTask(sender, id) ==
  LET bounty == task[id].bounty IN
  /\ sender = CreatorOf(id)
  /\ task[id].status \in {"Open", "Committing"}
  /\ task[id].revealedCount = 0
  /\ now <= task[id].commitDeadline
  /\ bounty <= escrowed
  /\ task' = [task EXCEPT ![id].status = "Cancelled",
                          ![id].outcome = "Cancelled"]
  /\ escrowed' = escrowed - bounty
  /\ pending' = pending + bounty
  /\ pendingWithdrawals' = Credit(pendingWithdrawals, sender, bounty)
  /\ UNCHANGED <<report, dispute, creatorNonce, registry, allocation,
                 allocated, staked, balance, callee, now>>

CommitReport(sender, id, commitment) ==
  /\ ~paused
  /\ task[id].status \in {"Open", "Committing"}
  /\ now <= task[id].commitDeadline
  /\ commitment # "none"
  /\ verifier[sender].registered
  /\ verifier[sender].approved
  /\ verifier[sender].active
  /\ report[id][sender].commitment = "none"
  /\ task[id].committedCount < task[id].verifierCount
  /\ report' = [report EXCEPT ![id][sender].commitment = commitment]
  /\ task' = [task EXCEPT ![id].committedCount = @ + 1,
                          ![id].status = "Committing"]
  /\ UNCHANGED <<dispute, creatorNonce, registry, ledger, callee, now>>

RevealReport(sender, id) ==
  /\ ~paused
  /\ task[id].status \in {"Committing", "Revealing"}
  /\ ~CommitOpen(id)
  /\ now <= task[id].revealDeadline
  /\ ~report[id][sender].revealed
  /\ report[id][sender].commitment = "own"
  /\ report' = [report EXCEPT ![id][sender].revealed = TRUE]
  /\ task' = [task EXCEPT ![id].revealedCount = @ + 1,
                          ![id].status = "Revealing"]
  /\ UNCHANGED <<dispute, creatorNonce, registry, ledger, callee, now>>

-----------------------------------------------------------------------------
(* Settlement.  Every allocation moves its amount from escrow. *)

Allocate(id, S, pool, rest, amount) ==
  /\ Share(S, pool) * Cardinality(S) <= amount
  /\ amount <= escrowed
  /\ allocation' = [allocation EXCEPT ![id] = Split(@, S, pool, rest, amount)]
  /\ escrowed' = escrowed - amount
  /\ allocated' = allocated + amount

(* finalizeConsensus: the keeper names an outcome; its three branches differ *)
(* in who shares which part of the bounty.                                   *)
Classify(sender, id, outcome, rewardBps, S, pool) ==
  /\ sender \in roles["KEEPER"]
  /\ task[id].status \in Unsettled
  /\ ~RevealOpen(id)
  /\ Allocate(id, S, pool, CreatorOf(id), task[id].bounty)
  /\ task' = [task EXCEPT ![id].outcome = outcome,
                          ![id].rewardBps = rewardBps,
                          ![id].consensusAt = now % Uint32Size,
                          ![id].status = "Consensus"]
  /\ UNCHANGED <<report, dispute, creatorNonce, registry, pendingWithdrawals,
                 pending, staked, balance, callee, now>>

FinalizeAsConsensus(sender, id, beneficiaries, rewardBps) ==
  /\ rewardBps = BPS_DENOMINATOR
  /\ beneficiaries # {}
  /\ RequireRevealedSet(sender, id, beneficiaries)
  /\ Classify(sender, id, "Consensus", rewardBps, beneficiaries,
              Bps(task[id].bounty, rewardBps))

FinalizeAsConflict(sender, id) ==
  Classify(sender, id, "Conflict", 0, Revealers(id),
           Bps(task[id].bounty, ConflictRateBps))

FinalizeAsNoQuorum(sender, id) ==
  Classify(sender, id, "NoQuorum", 0, {}, 0)

OpenChallenge(sender, id) ==
  LET bond == Bps(task[id].bounty, ChallengeBondBps) IN
  /\ task[id].status = "Consensus"
  /\ now <= DisputeDeadline(id)
  /\ \/ sender = CreatorOf(id)
     \/ /\ report[id][sender].commitment # "none"
        /\ now > CreatorPriorityDeadline(id)
  /\ dispute[id].challenger = NoAccount
  /\ now + AdjudicationWindow < Uint32Size
  /\ dispute' = [dispute EXCEPT ![id] =
       [NoDispute EXCEPT !.challenger = sender,
                         !.bond = bond,
                         !.deadline = now + AdjudicationWindow]]
  /\ task' = [task EXCEPT ![id].status = "Disputed"]
  /\ escrowed' = escrowed + bond
  /\ balance' = balance + bond
  /\ UNCHANGED <<report, creatorNonce, registry, allocation,
                 pendingWithdrawals, allocated, pending, staked, callee, now>>

(* Mutant: a pause closes the exits of a dispute. *)
Disputed_NotPaused(id) ==
  /\ ~paused
  /\ task[id].status = "Disputed"
  /\ dispute[id].challenger # NoAccount
  /\ ~dispute[id].resolved

(* What every way out of a dispute asks, and what it records. *)
Disputed(id) ==
  /\ task[id].status = "Disputed"
  /\ dispute[id].challenger # NoAccount
  /\ ~dispute[id].resolved

CloseDispute(id, outcome) ==
  dispute' = [dispute EXCEPT ![id].resolved = TRUE, ![id].outcome = outcome]

(* An upheld challenge moves the verdict with the money. *)
OverturnedTask(id) == [task[id] EXCEPT !.outcome = "Conflict",
                                       !.rewardBps = 0,
                                       !.status = "Finalized"]

(* Mutant: a challenger that revealed shares its own forfeit. *)
Defamed_WithChallenger(id) == Revealers(id)

(* The verifiers a challenge froze, whom a forfeited bond compensates. *)
Defamed(id) == Revealers(id) \ {dispute[id].challenger}

(* resolveDispute(upheld = true): every allocation of the task goes back to  *)
(* escrow, and the bounty and the bond are dealt out again.                  *)
ResolveUpheld(sender, id, beneficiaries) ==
  LET challenger == dispute[id].challenger
      bond       == dispute[id].bond
      parties    == TaskVerifiers(id) \cup {CreatorOf(id), challenger}
      reclaimed  == Total(allocation[id], parties)
      toChallenger == bond + Bps(task[id].bounty, ChallengerRewardBps)
      remainder  == reclaimed + bond - toChallenger
      cleared    == [a \in Accounts |->
                       IF a \in parties THEN 0 ELSE allocation[id][a]]
  IN
  /\ sender \in roles["ADJUDICATOR"]
  /\ Disputed(id)
  /\ challenger # sender
  /\ beneficiaries # {} => RequireRevealedSet(sender, id, beneficiaries)
  /\ remainder >= 0
  /\ reclaimed <= allocated
  /\ bond <= escrowed
  /\ allocation' = [allocation EXCEPT ![id] =
       Credit(Split(cleared, beneficiaries, remainder, CreatorOf(id), remainder),
              challenger, toChallenger)]
  /\ escrowed' = escrowed - bond
  /\ allocated' = allocated + bond
  /\ CloseDispute(id, "Upheld")
  /\ task' = [task EXCEPT ![id] = OverturnedTask(id)]
  /\ UNCHANGED <<report, creatorNonce, registry, pendingWithdrawals, pending,
                 staked, balance, callee, now>>

(* resolveDispute(upheld = false): only the forfeited bond moves. *)
ResolveRejected(sender, id, beneficiaries) ==
  LET challenger == dispute[id].challenger
      bond       == dispute[id].bond
      defended   == IF beneficiaries # {} THEN beneficiaries ELSE Defamed(id)
  IN
  /\ sender \in roles["ADJUDICATOR"]
  /\ Disputed(id)
  /\ challenger # sender
  /\ challenger \notin beneficiaries
  /\ beneficiaries # {} => RequireRevealedSet(sender, id, beneficiaries)
  /\ Allocate(id, defended, Bps(bond, AdjudicatorSplitBps), CreatorOf(id), bond)
  /\ CloseDispute(id, "Rejected")
  /\ task' = [task EXCEPT ![id].status = "Finalized"]
  /\ UNCHANGED <<report, creatorNonce, registry, pendingWithdrawals, pending,
                 staked, balance, callee, now>>

FinalizeTask(id) ==
  /\ WindowElapsed(id)
  /\ task' = [task EXCEPT ![id].status = "Finalized"]
  /\ UNCHANGED <<report, dispute, creatorNonce, registry, ledger, callee, now>>

ExpireTask(id) ==
  /\ task[id].status \in Unsettled
  /\ now > task[id].revealDeadline + KeeperGracePeriod
  /\ Allocate(id, IF task[id].revealedCount > 0 THEN Revealers(id) ELSE {},
              Bps(task[id].bounty, ConflictRateBps),
              CreatorOf(id), task[id].bounty)
  /\ task' = [task EXCEPT ![id].status = "Expired",
                          ![id].outcome = IF task[id].revealedCount > 0
                                          THEN "Conflict" ELSE "Expired"]
  /\ UNCHANGED <<report, dispute, creatorNonce, registry, pendingWithdrawals,
                 pending, staked, balance, callee, now>>

ExpireDispute(id) ==
  LET challenger == dispute[id].challenger
      bond       == dispute[id].bond
  IN
  /\ Disputed(id)
  /\ now > dispute[id].deadline
  /\ Allocate(id, Defamed(id), Bps(bond, AdjudicatorSplitBps),
              challenger, bond)
  /\ CloseDispute(id, "Expired")
  /\ task' = [task EXCEPT ![id].status = "Finalized"]
  /\ UNCHANGED <<report, creatorNonce, registry, pendingWithdrawals, pending,
                 staked, balance, callee, now>>

-----------------------------------------------------------------------------
(* Payout.  A claim finalizes a task whose dispute window has passed. *)

(* Mutants: provisional allocations can be claimed; expired ones cannot. *)
Claimable_Provisional(id, account) ==
  /\ task[id].status # "None"
  /\ allocation[id][account] > 0
  /\ allocation[id][account] <= allocated
Claimable_FinalizedOnly(id, account) ==
  /\ task[id].status = "Finalized" \/ WindowElapsed(id)
  /\ allocation[id][account] > 0
  /\ allocation[id][account] <= allocated

Claimable(id, account) ==
  /\ task[id].status \in Terminal \/ WindowElapsed(id)
  /\ allocation[id][account] > 0
  /\ allocation[id][account] <= allocated

(* Mutant: a claim pays without finalizing. *)
FinalizedForClaim_Not(id) == task

FinalizedForClaim(id) ==
  IF WindowElapsed(id) THEN [task EXCEPT ![id].status = "Finalized"] ELSE task

ClaimReward(sender, id) ==
  LET amount == allocation[id][sender] IN
  /\ Claimable(id, sender)
  /\ task' = FinalizedForClaim(id)
  /\ allocation' = [allocation EXCEPT ![id][sender] = 0]
  /\ allocated' = allocated - amount
  /\ pending' = pending + amount
  /\ pendingWithdrawals' = Credit(pendingWithdrawals, sender, amount)
  /\ UNCHANGED <<report, dispute, creatorNonce, registry, escrowed, staked,
                 balance, callee, now>>

Unlocked == callee = NoAccount

(* Mutant: the credit survives its payment. *)
PayOut_KeepsCredit(sender, amount) ==
  /\ Unlocked
  /\ amount > 0
  /\ amount <= balance
  /\ pendingWithdrawals' = pendingWithdrawals
  /\ balance' = balance - amount
  /\ callee' = sender

(* The payee's whole balance leaves, and its code starts to run. *)
PayOut(sender, amount) ==
  /\ Unlocked
  /\ amount > 0
  /\ amount <= balance
  /\ pendingWithdrawals' = [pendingWithdrawals EXCEPT ![sender] = 0]
  /\ balance' = balance - amount
  /\ callee' = sender

RefundCreator(sender, id) ==
  LET share  == allocation[id][sender]
      amount == pendingWithdrawals[sender] + share
  IN
  /\ task[id].status # "None"
  /\ sender = CreatorOf(id)
  /\ share > 0 => Claimable(id, sender)
  /\ amount <= pending + share
  /\ task' = IF share > 0 THEN FinalizedForClaim(id) ELSE task
  /\ allocation' = [allocation EXCEPT ![id][sender] = 0]
  /\ allocated' = allocated - share
  /\ pending' = pending + share - amount
  /\ PayOut(sender, amount)
  /\ UNCHANGED <<report, dispute, creatorNonce, registry, escrowed, staked, now>>

(* Mutant: the bucket keeps what was paid. *)
Withdraw_KeepsBucket(sender) ==
  /\ PayOut(sender, pendingWithdrawals[sender])
  /\ UNCHANGED <<rounds, registry, allocation, buckets, now>>

Withdraw(sender) ==
  /\ pendingWithdrawals[sender] <= pending
  /\ pending' = pending - pendingWithdrawals[sender]
  /\ PayOut(sender, pendingWithdrawals[sender])
  /\ UNCHANGED <<rounds, registry, allocation, escrowed, allocated, staked, now>>

CallReturns ==
  /\ ~Unlocked
  /\ callee' = NoAccount
  /\ UNCHANGED <<rounds, registry, ledger, now>>

-----------------------------------------------------------------------------
(* The verifier registry and the roles. *)

RegisterVerifier(sender, value) ==
  LET stake == verifier[sender].stake + value IN
  /\ ~paused
  /\ stake < Uint96Size
  /\ stake >= MinVerifierStake
  /\ verifier' = [verifier EXCEPT
       ![sender].active = @ \/ ~verifier[sender].registered,
       ![sender].registered = TRUE,
       ![sender].stake = stake]
  /\ staked' = staked + value
  /\ balance' = balance + value
  /\ UNCHANGED <<rounds, roles, paused, allocation, pendingWithdrawals,
                 escrowed, allocated, pending, callee, now>>

SetVerifierActive(sender, active) ==
  /\ verifier[sender].registered
  /\ verifier' = [verifier EXCEPT ![sender].active = active]
  /\ UNCHANGED <<rounds, roles, paused, ledger, callee, now>>

SetVerifierApproval(sender, account, approved) ==
  /\ sender \in roles["DEFAULT_ADMIN"]
  /\ verifier' = [verifier EXCEPT ![account].approved = approved]
  /\ UNCHANGED <<rounds, roles, paused, ledger, callee, now>>

WithdrawStake(sender, amount) ==
  LET v == verifier[sender] IN
  /\ amount > 0 /\ amount <= v.stake
  /\ v.approved \/ v.active => v.stake - amount >= MinVerifierStake
  /\ amount <= staked
  /\ verifier' = [verifier EXCEPT ![sender].stake = @ - amount]
  /\ staked' = staked - amount
  /\ pending' = pending + amount
  /\ pendingWithdrawals' = Credit(pendingWithdrawals, sender, amount)
  /\ UNCHANGED <<rounds, roles, paused, allocation, escrowed, allocated,
                 balance, callee, now>>

SetPaused(sender, value) ==
  /\ sender \in roles["PAUSER"]
  /\ paused' = value
  /\ UNCHANGED <<rounds, verifier, roles, ledger, callee, now>>

GrantRole(sender, role, account) ==
  /\ sender \in roles["DEFAULT_ADMIN"]
  /\ roles' = [roles EXCEPT ![role] = @ \cup {account}]
  /\ UNCHANGED <<rounds, verifier, paused, ledger, callee, now>>

(* Mutant: an admin can revoke its own role. *)
RevokeRole_Own(sender, role, account) ==
  /\ sender \in roles["DEFAULT_ADMIN"]
  /\ roles' = [roles EXCEPT ![role] = @ \ {account}]
  /\ UNCHANGED <<rounds, verifier, paused, ledger, callee, now>>

RevokeRole(sender, role, account) ==
  /\ sender \in roles["DEFAULT_ADMIN"]
  /\ ~(role = "DEFAULT_ADMIN" /\ account = sender)
  /\ roles' = [roles EXCEPT ![role] = @ \ {account}]
  /\ UNCHANGED <<rounds, verifier, paused, ledger, callee, now>>

(* Time passes between transactions, never inside one. *)
Tick ==
  /\ Unlocked
  /\ now < MaxTime
  /\ now' = now + 1
  /\ UNCHANGED <<rounds, registry, ledger, callee>>

-----------------------------------------------------------------------------
RoundNext ==
  \/ \E c \in Creators, spec \in TaskSpecs, value \in Bounties :
        CreateTask(c, spec, value)
  \/ \E id \in TaskIds, a \in Accounts :
        \/ CancelTask(a, id)
        \/ \E commitment \in Commitments : CommitReport(a, id, commitment)
        \/ RevealReport(a, id)

KeeperNext ==
  \E id \in TaskIds, a \in Accounts :
    \/ \E B \in SUBSET Accounts, rate \in RewardRates :
          FinalizeAsConsensus(a, id, B, rate)
    \/ FinalizeAsConflict(a, id)
    \/ FinalizeAsNoQuorum(a, id)

DisputeNext ==
  \E id \in TaskIds, a \in Accounts :
    \/ OpenChallenge(a, id)
    \/ \E B \in SUBSET Accounts :
          \/ ResolveUpheld(a, id, B)
          \/ ResolveRejected(a, id, B)

(* The exits that need no role: anyone may take them. *)
FallbackNext ==
  \E id \in TaskIds :
    \/ FinalizeTask(id)
    \/ ExpireTask(id)
    \/ ExpireDispute(id)

PayoutNext ==
  \/ \E a \in Accounts :
        \/ Withdraw(a)
        \/ \E id \in TaskIds : ClaimReward(a, id) \/ RefundCreator(a, id)
  \/ CallReturns

RegistryNext ==
  \/ \E a \in Registrants, value \in Stakes : RegisterVerifier(a, value)
  \/ \E a \in Accounts :
        \/ \E active \in BOOLEAN : SetVerifierActive(a, active)
        \/ \E b \in Registrants, approved \in BOOLEAN :
              SetVerifierApproval(a, b, approved)
        \/ \E amount \in 1..verifier[a].stake : WithdrawStake(a, amount)

AdminNext ==
  \E a \in Accounts :
    \/ \E value \in BOOLEAN : SetPaused(a, value)
    \/ \E role \in Roles, b \in Accounts :
          GrantRole(a, role, b) \/ RevokeRole(a, role, b)

Next ==
  \/ RoundNext
  \/ KeeperNext
  \/ DisputeNext
  \/ FallbackNext
  \/ PayoutNext
  \/ RegistryNext
  \/ AdminNext
  \/ Tick

Spec == Init /\ [][Next]_vars
=============================================================================

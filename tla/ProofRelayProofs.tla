-------------------------- MODULE ProofRelayProofs --------------------------
(***************************************************************************)
(* Theorems about the escrow contract, for every value of its constants.    *)
(***************************************************************************)
EXTENDS ProofRelayProps, FiniteSetTheorems, TLAPS

-----------------------------------------------------------------------------
(* The arithmetic of shares. *)

LEMMA BpsType ==
  ASSUME NEW x \in Nat, NEW r \in Nat
  PROVE  Bps(x, r) \in Nat
  BY SMT DEF Bps, BPS_DENOMINATOR

(* A rate of at most 100% takes at most the whole. *)
LEMMA BpsBound ==
  ASSUME NEW x \in Nat, NEW r \in 0..BPS_DENOMINATOR
  PROVE  Bps(x, r) \in 0..x
<1>1. x * r \in Nat /\ x * r <= x * BPS_DENOMINATOR
  BY SMT DEF BPS_DENOMINATOR
<1>2. ASSUME NEW n \in Nat, n <= x * BPS_DENOMINATOR
      PROVE  n \div BPS_DENOMINATOR \in 0..x
  BY <1>2, SMT DEF BPS_DENOMINATOR
<1> QED
  BY <1>1, <1>2 DEF Bps

(* The set of units of f over S is finite, so its size is a natural number. *)
LEMMA UnitsFinite ==
  ASSUME NEW S, IsFiniteSet(S), NEW f, \A a \in S : f[a] \in Nat
  PROVE  IsFiniteSet(Units(f, S)) /\ Total(f, S) \in Nat
<1> DEFINE g == [a \in S |-> {a} \X (1..f[a])]
           T == {{a} \X (1..f[a]) : a \in S}
<1>1. g \in Surjection(S, T)
  BY DEF Surjection
<1>2. IsFiniteSet(T)
  BY <1>1, FS_Surjection
<1>3. ASSUME NEW a \in S
      PROVE  IsFiniteSet({a} \X (1..f[a]))
  <2>1. IsFiniteSet({a})
    BY FS_Singleton
  <2>2. IsFiniteSet(1..f[a])
    BY <1>3, FS_Interval
  <2> QED
    BY <2>1, <2>2, FS_Product
<1>4. IsFiniteSet(UNION T)
  BY <1>2, <1>3, FS_UNION
<1> QED
  BY <1>4, FS_CardinalityType DEF Units, Total

LEMMA ShareType ==
  ASSUME NEW S, IsFiniteSet(S), NEW pool \in Nat
  PROVE  Share(S, pool) \in Nat
<1>1. CASE S = {}
  BY <1>1 DEF Share
<1>2. CASE S # {}
  <2>1. Cardinality(S) \in Nat \ {0}
    BY <1>2, FS_CardinalityType, FS_EmptySet
  <2> QED
    BY <1>2, <2>1, SMT DEF Share
<1> QED
  BY <1>1, <1>2

LEMMA SplitType ==
  ASSUME NEW f \in [Accounts -> Nat], NEW S \in SUBSET Accounts,
         NEW pool \in Nat, NEW rest, NEW amount \in Nat,
         Share(S, pool) * Cardinality(S) <= amount
  PROVE  Split(f, S, pool, rest, amount) \in [Accounts -> Nat]
<1>1. IsFiniteSet(S)
  BY AccountsAssumption, FS_Subset
<1>2. Share(S, pool) \in Nat /\ Cardinality(S) \in Nat
  BY <1>1, ShareType, FS_CardinalityType
<1>3. Share(S, pool) * Cardinality(S) \in Nat
  BY <1>2, SMT
<1> DEFINE c == Share(S, pool) * Cardinality(S)
           s == Share(S, pool)
<1>4. ASSUME NEW a \in Accounts
      PROVE  f[a] + (IF a \in S THEN s ELSE 0)
                  + (IF a = rest THEN amount - c ELSE 0) \in Nat
  <2>1. f[a] \in Nat /\ s \in Nat /\ c \in Nat /\ c <= amount
    BY <1>2, <1>3
  <2> HIDE DEF c, s
  <2> QED
    BY <2>1, SMT
<1> QED
  BY <1>4 DEF Split

(* Even shares never exceed what is shared. *)
LEMMA ShareBound ==
  ASSUME NEW S, IsFiniteSet(S), NEW pool \in Nat
  PROVE  Share(S, pool) * Cardinality(S) \in 0..pool
<1>1. CASE S = {}
  BY <1>1, FS_EmptySet DEF Share
<1>2. CASE S # {}
  <2>1. Cardinality(S) \in Nat \ {0}
    BY <1>2, FS_CardinalityType, FS_EmptySet
  <2>2. ASSUME NEW n \in Nat \ {0}
        PROVE  (pool \div n) * n \in 0..pool
    BY <2>2, SMT
  <2> QED
    BY <1>2, <2>1, <2>2 DEF Share
<1> QED
  BY <1>1, <1>2

-----------------------------------------------------------------------------
(* Updates of records and of functions of two arguments keep their types. *)

LEMMA Update2 ==
  ASSUME NEW I, NEW J, NEW R, NEW f \in [I -> [J -> R]], NEW i \in I, NEW j \in J,
         NEW v \in R
  PROVE  [f EXCEPT ![i][j] = v] \in [I -> [J -> R]]
  OBVIOUS

LEMMA CreditType ==
  ASSUME NEW f \in [Accounts -> Nat], NEW a \in Accounts, NEW n \in Nat
  PROVE  Credit(f, a, n) \in [Accounts -> Nat]
  BY SMT DEF Credit

LEMMA TaskStatusType ==
  ASSUME NEW f \in [TaskIds -> TaskType], NEW id \in TaskIds, NEW s \in Statuses
  PROVE  [f EXCEPT ![id].status = s] \in [TaskIds -> TaskType]
  BY DEF TaskType

LEMMA TaskVerdictType ==
  ASSUME NEW f \in [TaskIds -> TaskType], NEW id \in TaskIds, NEW s \in Statuses,
         NEW o \in Outcomes
  PROVE  [f EXCEPT ![id].status = s, ![id].outcome = o] \in [TaskIds -> TaskType]
  BY DEF TaskType

LEMMA TaskCommittedType ==
  ASSUME NEW f \in [TaskIds -> TaskType], NEW id \in TaskIds, NEW s \in Statuses
  PROVE  [f EXCEPT ![id].committedCount = @ + 1, ![id].status = s]
           \in [TaskIds -> TaskType]
<1>1. f[id].committedCount + 1 \in Nat
  BY DEF TaskType
<1>2. ASSUME NEW n \in Nat
      PROVE  [f EXCEPT ![id].committedCount = n, ![id].status = s]
               \in [TaskIds -> TaskType]
  BY <1>2 DEF TaskType
<1> QED
  BY <1>1, <1>2

LEMMA TaskRevealedType ==
  ASSUME NEW f \in [TaskIds -> TaskType], NEW id \in TaskIds, NEW s \in Statuses
  PROVE  [f EXCEPT ![id].revealedCount = @ + 1, ![id].status = s]
           \in [TaskIds -> TaskType]
<1>1. f[id].revealedCount + 1 \in Nat
  BY DEF TaskType
<1>2. ASSUME NEW n \in Nat
      PROVE  [f EXCEPT ![id].revealedCount = n, ![id].status = s]
               \in [TaskIds -> TaskType]
  BY <1>2 DEF TaskType
<1> QED
  BY <1>1, <1>2

-----------------------------------------------------------------------------
(* Type correctness. *)

THEOREM TypeInit == Init => TypeOK
<1> SUFFICES ASSUME Init PROVE TypeOK
  OBVIOUS
<1> USE DEF Init, Deployed
<1>1. task \in [TaskIds -> TaskType]
  BY DEF NoTask, TaskType, Statuses, Outcomes
<1>2. report \in [TaskIds -> [Accounts -> ReportType]]
  BY DEF NoReport, ReportType, Commitments
<1>3. dispute \in [TaskIds -> DisputeType]
  BY DEF NoDispute, DisputeType
<1>4. verifier \in [Accounts -> VerifierType]
  BY DEF NoVerifier, VerifierType
<1>5. roles \in [Roles -> SUBSET Accounts]
  <2>1. {InitialAdmin} \subseteq Accounts
    BY AccountsAssumption
  <2>2. {InitialKeeper} \ {NoAccount} \subseteq Accounts
    BY AccountsAssumption
  <2>3. {InitialAdjudicator} \ {NoAccount} \subseteq Accounts
    BY AccountsAssumption
  <2>4. roles = [r \in Roles |->
                CASE r = "KEEPER"      -> {InitialKeeper} \ {NoAccount}
                  [] r = "ADJUDICATOR" -> {InitialAdjudicator} \ {NoAccount}
                  [] OTHER             -> {InitialAdmin}]
    OBVIOUS
  <2> QED
    BY ONLY <2>1, <2>2, <2>3, <2>4, SMT DEF Roles
<1>6. /\ allocation \in [TaskIds -> [Accounts -> Nat]]
      /\ creatorNonce \in [Accounts -> Nat]
      /\ pendingWithdrawals \in [Accounts -> Nat]
  OBVIOUS
<1>7. /\ {escrowed, allocated, pending, staked, balance} \subseteq Nat
      /\ now \in Nat
      /\ callee \in Accounts \cup {NoAccount}
      /\ paused \in BOOLEAN
  <2>1. /\ escrowed = 0 /\ allocated = 0 /\ pending = 0 /\ staked = 0
        /\ balance = 0 /\ now = 0 /\ callee = NoAccount /\ paused = FALSE
    OBVIOUS
  <2>2. {escrowed, allocated, pending, staked, balance} \subseteq Nat /\ now \in Nat
    BY ONLY <2>1, SMT
  <2>3. callee \in Accounts \cup {NoAccount} /\ paused \in BOOLEAN
    BY ONLY <2>1
  <2> QED
    BY ONLY <2>2, <2>3
<1> QED
  BY <1>1, <1>2, <1>3, <1>4, <1>5, <1>6, <1>7 DEF TypeOK

LEMMA CreateTaskType ==
  ASSUME TypeOK, NEW c \in Creators, NEW spec \in TaskSpecs, NEW value \in Bounties,
         CreateTask(c, spec, value)
  PROVE  TypeOK'
<1> DEFINE id == <<c, creatorNonce[c]>>
           t  == [NoTask EXCEPT !.bounty = value,
                      !.verifierCount = spec.verifierCount,
                      !.commitDeadline = now + spec.commitWindowSec,
                      !.revealDeadline = now + spec.commitWindowSec + spec.revealWindowSec,
                      !.disputeWindow = spec.disputeWindowSec,
                      !.status = "Open"]
<1>1. /\ creatorNonce[c] < MaxNonce
      /\ creatorNonce' = [creatorNonce EXCEPT ![c] = @ + 1]
      /\ task' = [task EXCEPT ![id] = t]
      /\ escrowed' = escrowed + value
      /\ balance' = balance + value
      /\ UNCHANGED <<report, dispute, registry, allocation, pendingWithdrawals,
                     allocated, pending, staked, callee, now>>
  BY DEF CreateTask
<1>2. c \in Accounts /\ creatorNonce \in [Accounts -> Nat] /\ now \in Nat
  BY AccountsAssumption DEF TypeOK
<1>3. id \in TaskIds
  BY <1>1, <1>2, InputsAssumption, SMT DEF TaskIds
<1>4. value \in Nat /\ spec \in TaskSpec
  BY InputsAssumption
<1>5. t \in TaskType
  <2>1. ASSUME NEW v \in Nat, NEW n \in Nat, NEW d \in Nat, NEW e \in Nat, NEW w \in Nat
        PROVE  [NoTask EXCEPT !.bounty = v, !.verifierCount = n, !.commitDeadline = d,
                  !.revealDeadline = e, !.disputeWindow = w, !.status = "Open"] \in TaskType
    BY <2>1 DEF NoTask, TaskType, Statuses, Outcomes
  <2>2. /\ spec.verifierCount \in Nat /\ spec.disputeWindowSec \in Nat
        /\ now + spec.commitWindowSec \in Nat
        /\ now + spec.commitWindowSec + spec.revealWindowSec \in Nat
    BY <1>2, <1>4 DEF TaskSpec
  <2> QED
    BY <1>4, <2>1, <2>2
<1>6. task' \in [TaskIds -> TaskType]
  <2> HIDE DEF t, id
  <2> QED
    BY <1>1, <1>3, <1>5 DEF TypeOK
<1>7. creatorNonce' \in [Accounts -> Nat]
  BY <1>1, <1>2
<1>8. escrowed' \in Nat /\ balance' \in Nat
  BY <1>1, <1>4 DEF TypeOK
<1> QED
  BY <1>1, <1>6, <1>7, <1>8 DEF TypeOK, registry

LEMMA CancelTaskType ==
  ASSUME TypeOK, NEW id \in TaskIds, NEW a \in Accounts, CancelTask(a, id)
  PROVE  TypeOK'
<1>1. /\ task' = [task EXCEPT ![id].status = "Cancelled", ![id].outcome = "Cancelled"]
      /\ task[id].bounty <= escrowed
      /\ escrowed' = escrowed - task[id].bounty
      /\ pending' = pending + task[id].bounty
      /\ pendingWithdrawals' = Credit(pendingWithdrawals, a, task[id].bounty)
      /\ UNCHANGED <<report, dispute, creatorNonce, registry, allocation,
                     allocated, staked, balance, callee, now>>
  BY DEF CancelTask
<1>2. task' \in [TaskIds -> TaskType]
  BY <1>1, TaskVerdictType DEF TypeOK, Statuses, Outcomes
<1>3. task[id].bounty \in Nat
  BY DEF TypeOK, TaskType
<1>4. escrowed' \in Nat /\ pending' \in Nat
  BY <1>1, <1>3 DEF TypeOK
<1>5. pendingWithdrawals' \in [Accounts -> Nat]
  BY <1>1, <1>3, CreditType DEF TypeOK
<1> QED
  BY <1>1, <1>2, <1>4, <1>5 DEF TypeOK, registry

LEMMA CommitReportType ==
  ASSUME TypeOK, NEW id \in TaskIds, NEW a \in Accounts, NEW commitment \in Commitments,
         CommitReport(a, id, commitment)
  PROVE  TypeOK'
<1>1. /\ report' = [report EXCEPT ![id][a].commitment = commitment]
      /\ task' = [task EXCEPT ![id].committedCount = @ + 1, ![id].status = "Committing"]
      /\ UNCHANGED <<dispute, creatorNonce, registry, ledger, callee, now>>
  BY DEF CommitReport
<1>2. task' \in [TaskIds -> TaskType]
  BY <1>1, TaskCommittedType DEF TypeOK, Statuses
<1>3. report' \in [TaskIds -> [Accounts -> ReportType]]
  <2>1. [report[id][a] EXCEPT !.commitment = commitment] \in ReportType
    <3>1. report[id][a] \in ReportType
      BY DEF TypeOK
    <3> QED
      BY <3>1 DEF ReportType
  <2>2. report' = [report EXCEPT ![id][a] = [report[id][a] EXCEPT !.commitment = commitment]]
    BY <1>1
  <2> QED
    BY <2>1, <2>2, Update2 DEF TypeOK
<1> QED
  BY <1>1, <1>2, <1>3 DEF TypeOK, registry, ledger, buckets

LEMMA RevealReportType ==
  ASSUME TypeOK, NEW id \in TaskIds, NEW a \in Accounts, RevealReport(a, id)
  PROVE  TypeOK'
<1>1. /\ report' = [report EXCEPT ![id][a].revealed = TRUE]
      /\ task' = [task EXCEPT ![id].revealedCount = @ + 1, ![id].status = "Revealing"]
      /\ UNCHANGED <<dispute, creatorNonce, registry, ledger, callee, now>>
  BY DEF RevealReport
<1>2. task' \in [TaskIds -> TaskType]
  BY <1>1, TaskRevealedType DEF TypeOK, Statuses
<1>3. report' \in [TaskIds -> [Accounts -> ReportType]]
  <2>1. [report[id][a] EXCEPT !.revealed = TRUE] \in ReportType
    <3>1. report[id][a] \in ReportType
      BY DEF TypeOK
    <3> QED
      BY <3>1 DEF ReportType
  <2>2. report' = [report EXCEPT ![id][a] = [report[id][a] EXCEPT !.revealed = TRUE]]
    BY <1>1
  <2> QED
    BY <2>1, <2>2, Update2 DEF TypeOK
<1> QED
  BY <1>1, <1>2, <1>3 DEF TypeOK, registry, ledger, buckets

LEMMA AllocateType ==
  ASSUME TypeOK, NEW id \in TaskIds, NEW S \in SUBSET Accounts, NEW pool \in Nat,
         NEW rest, NEW amount \in Nat, Allocate(id, S, pool, rest, amount)
  PROVE  /\ allocation' \in [TaskIds -> [Accounts -> Nat]]
         /\ escrowed' \in Nat
         /\ allocated' \in Nat
<1>1. /\ Share(S, pool) * Cardinality(S) <= amount
      /\ amount <= escrowed
      /\ allocation' = [allocation EXCEPT ![id] = Split(@, S, pool, rest, amount)]
      /\ escrowed' = escrowed - amount
      /\ allocated' = allocated + amount
  BY DEF Allocate
<1>2. allocation[id] \in [Accounts -> Nat]
  BY DEF TypeOK
<1>3. Split(allocation[id], S, pool, rest, amount) \in [Accounts -> Nat]
  BY <1>1, <1>2, SplitType
<1>4. allocation' \in [TaskIds -> [Accounts -> Nat]]
  BY <1>1, <1>3 DEF TypeOK
<1>5. escrowed' \in Nat /\ allocated' \in Nat
  BY <1>1 DEF TypeOK
<1> QED
  BY <1>4, <1>5

LEMMA PartiesType ==
  ASSUME NEW id
  PROVE  /\ TaskVerifiers(id) \in SUBSET Accounts
         /\ Revealers(id) \in SUBSET Accounts
         /\ Defamed(id) \in SUBSET Accounts
  BY DEF TaskVerifiers, Revealers, Defamed

LEMMA ClassifyType ==
  ASSUME TypeOK, NEW id \in TaskIds, NEW a, NEW outcome \in Outcomes,
         NEW rate \in Nat, NEW S \in SUBSET Accounts, NEW pool \in Nat,
         Classify(a, id, outcome, rate, S, pool)
  PROVE  TypeOK'
<1>1. /\ Allocate(id, S, pool, CreatorOf(id), task[id].bounty)
      /\ task' = [task EXCEPT ![id].outcome = outcome,
                              ![id].rewardBps = rate,
                              ![id].consensusAt = now % Uint32Size,
                              ![id].status = "Consensus"]
      /\ UNCHANGED <<report, dispute, creatorNonce, registry, pendingWithdrawals,
                     pending, staked, balance, callee, now>>
  BY DEF Classify
<1>2. task[id].bounty \in Nat
  BY DEF TypeOK, TaskType
<1>3. now % Uint32Size \in Nat
  BY ParamsAssumption, SMT DEF TypeOK
<1>4. task' \in [TaskIds -> TaskType]
  <2>1. ASSUME NEW n \in Nat
        PROVE  [task EXCEPT ![id].outcome = outcome, ![id].rewardBps = rate,
                  ![id].consensusAt = n, ![id].status = "Consensus"]
                 \in [TaskIds -> TaskType]
    <3>1. task \in [TaskIds -> TaskType] /\ "Consensus" \in Statuses
      BY DEF TypeOK, Statuses
    <3> QED
      BY <2>1, <3>1 DEF TaskType
  <2> QED
    BY <1>1, <1>3, <2>1
<1>5. /\ allocation' \in [TaskIds -> [Accounts -> Nat]]
      /\ escrowed' \in Nat
      /\ allocated' \in Nat
  BY <1>1, <1>2, AllocateType
<1> QED
  BY <1>1, <1>4, <1>5 DEF TypeOK, registry

LEMMA KeeperType ==
  ASSUME TypeOK, KeeperNext
  PROVE  TypeOK'
<1> PICK id \in TaskIds, a \in Accounts :
        \/ \E B \in SUBSET Accounts, rate \in RewardRates :
              FinalizeAsConsensus(a, id, B, rate)
        \/ FinalizeAsConflict(a, id)
        \/ FinalizeAsNoQuorum(a, id)
  BY DEF KeeperNext
<1>1. task[id].bounty \in Nat
  BY DEF TypeOK, TaskType
<1>2. ASSUME NEW B \in SUBSET Accounts, NEW rate \in RewardRates,
             FinalizeAsConsensus(a, id, B, rate)
      PROVE  TypeOK'
  <2>1. rate \in Nat
    BY InputsAssumption
  <2>2. Bps(task[id].bounty, rate) \in Nat
    BY <1>1, <2>1, BpsType
  <2> QED
    BY <1>2, <2>1, <2>2, ClassifyType DEF FinalizeAsConsensus, Outcomes
<1>3. CASE FinalizeAsConflict(a, id)
  <2>1. Bps(task[id].bounty, ConflictRateBps) \in Nat
    BY <1>1, BpsBound, ParamsAssumption
  <2> QED
    BY <1>3, <2>1, PartiesType, ClassifyType DEF FinalizeAsConflict, Outcomes
<1>4. CASE FinalizeAsNoQuorum(a, id)
  BY <1>4, ClassifyType DEF FinalizeAsNoQuorum, Outcomes
<1> QED
  BY <1>2, <1>3, <1>4

LEMMA DisputeUpdateType ==
  ASSUME NEW id \in TaskIds, TypeOK, NEW o \in {"Upheld", "Rejected", "Expired"},
         CloseDispute(id, o)
  PROVE  dispute' \in [TaskIds -> DisputeType]
<1>1. dispute \in [TaskIds -> DisputeType]
  BY DEF TypeOK
<1> QED
  BY <1>1 DEF CloseDispute, DisputeType

LEMMA OpenChallengeType ==
  ASSUME TypeOK, NEW id \in TaskIds, NEW a \in Accounts, OpenChallenge(a, id)
  PROVE  TypeOK'
<1> DEFINE bond == Bps(task[id].bounty, ChallengeBondBps)
<1>1. /\ dispute' = [dispute EXCEPT ![id] =
           [NoDispute EXCEPT !.challenger = a, !.bond = bond,
                             !.deadline = now + AdjudicationWindow]]
      /\ task' = [task EXCEPT ![id].status = "Disputed"]
      /\ escrowed' = escrowed + bond
      /\ balance' = balance + bond
      /\ UNCHANGED <<report, creatorNonce, registry, allocation,
                     pendingWithdrawals, allocated, pending, staked, callee, now>>
  BY DEF OpenChallenge
<1>2. bond \in Nat
  <2>1. task[id].bounty \in Nat
    BY DEF TypeOK, TaskType
  <2> QED
    BY <2>1, BpsBound, ParamsAssumption
<1>3. task' \in [TaskIds -> TaskType]
  BY <1>1, TaskStatusType DEF TypeOK, Statuses
<1>4. dispute' \in [TaskIds -> DisputeType]
  <2>1. ASSUME NEW b \in Nat, NEW d \in Nat
        PROVE  [NoDispute EXCEPT !.challenger = a, !.bond = b, !.deadline = d] \in DisputeType
    BY <2>1 DEF NoDispute, DisputeType
  <2>2. now + AdjudicationWindow \in Nat
    BY ParamsAssumption DEF TypeOK
  <2> HIDE DEF bond
  <2> QED
    BY <1>1, <1>2, <2>1, <2>2 DEF TypeOK
<1>5. escrowed' \in Nat /\ balance' \in Nat
  BY <1>1, <1>2 DEF TypeOK
<1> QED
  BY <1>1, <1>3, <1>4, <1>5 DEF TypeOK, registry

LEMMA ResolveUpheldType ==
  ASSUME TypeOK, NEW id \in TaskIds, NEW a \in Accounts, NEW B \in SUBSET Accounts,
         ResolveUpheld(a, id, B)
  PROVE  TypeOK'
<1> DEFINE challenger   == dispute[id].challenger
           bond         == dispute[id].bond
           parties      == TaskVerifiers(id) \cup {CreatorOf(id), challenger}
           reclaimed    == Total(allocation[id], parties)
           toChallenger == bond + Bps(task[id].bounty, ChallengerRewardBps)
           remainder    == reclaimed + bond - toChallenger
           cleared      == [x \in Accounts |-> IF x \in parties THEN 0 ELSE allocation[id][x]]
           dealt        == Split(cleared, B, remainder, CreatorOf(id), remainder)
<1>1. /\ Disputed(id)
      /\ remainder >= 0
      /\ bond <= escrowed
      /\ allocation' = [allocation EXCEPT ![id] = Credit(dealt, challenger, toChallenger)]
      /\ escrowed' = escrowed - bond
      /\ allocated' = allocated + bond
      /\ CloseDispute(id, "Upheld")
      /\ task' = [task EXCEPT ![id] = OverturnedTask(id)]
      /\ UNCHANGED <<report, creatorNonce, registry, pendingWithdrawals, pending,
                     staked, balance, callee, now>>
  BY DEF ResolveUpheld
<1>2. /\ task[id] \in TaskType
      /\ dispute[id] \in DisputeType
      /\ allocation[id] \in [Accounts -> Nat]
  BY DEF TypeOK
<1>3. bond \in Nat /\ challenger \in Accounts
  BY <1>1, <1>2 DEF Disputed, DisputeType
<1>4. toChallenger \in Nat
  <2>1. task[id].bounty \in Nat
    BY <1>2 DEF TaskType
  <2>2. Bps(task[id].bounty, ChallengerRewardBps) \in Nat
    BY <2>1, BpsBound, ParamsAssumption
  <2> QED
    BY <1>3, <2>2
<1>5. parties \in SUBSET Accounts
  <2>1. CreatorOf(id) \in Accounts
    BY AccountsAssumption DEF TaskIds, CreatorOf
  <2> QED
    BY <1>3, <2>1, PartiesType
<1>6. reclaimed \in Nat
  <2>1. IsFiniteSet(parties)
    BY <1>5, AccountsAssumption, FS_Subset
  <2>2. \A x \in parties : allocation[id][x] \in Nat
    BY <1>2, <1>5
  <2> QED
    BY <2>1, <2>2, UnitsFinite
<1>7. remainder \in Nat
  <2> HIDE DEF reclaimed, toChallenger, bond
  <2> QED
    BY <1>1, <1>3, <1>4, <1>6, SMT
<1>8. dealt \in [Accounts -> Nat]
  <2>1. IsFiniteSet(B)
    BY AccountsAssumption, FS_Subset
  <2>2. Share(B, remainder) * Cardinality(B) <= remainder
    BY <1>7, <2>1, ShareBound
  <2>3. cleared \in [Accounts -> Nat]
    BY <1>2
  <2> HIDE DEF remainder, cleared
  <2> QED
    BY <1>7, <2>2, <2>3, SplitType
<1>9. allocation' \in [TaskIds -> [Accounts -> Nat]]
  <2> HIDE DEF dealt, challenger, toChallenger
  <2>1. Credit(dealt, challenger, toChallenger) \in [Accounts -> Nat]
    BY <1>3, <1>4, <1>8, CreditType
  <2> QED
    BY <1>1, <2>1 DEF TypeOK
<1>10. task' \in [TaskIds -> TaskType]
  <2>1. OverturnedTask(id) \in TaskType
    BY <1>2 DEF OverturnedTask, TaskType, Statuses, Outcomes
  <2> QED
    BY <1>1, <2>1 DEF TypeOK
<1>11. dispute' \in [TaskIds -> DisputeType]
  BY <1>1, DisputeUpdateType
<1>12. escrowed' \in Nat /\ allocated' \in Nat
  <2> HIDE DEF bond
  <2> QED
    BY <1>1, <1>3 DEF TypeOK
<1> QED
  BY <1>1, <1>9, <1>10, <1>11, <1>12 DEF TypeOK, registry

(* A dispute that closes by dealing out its bond. *)
LEMMA BondType ==
  ASSUME TypeOK, NEW id \in TaskIds, NEW S \in SUBSET Accounts, NEW rest,
         NEW o \in {"Rejected", "Expired"},
         Allocate(id, S, Bps(dispute[id].bond, AdjudicatorSplitBps), rest, dispute[id].bond),
         CloseDispute(id, o),
         task' = [task EXCEPT ![id].status = "Finalized"],
         UNCHANGED <<report, creatorNonce, registry, pendingWithdrawals, pending,
                     staked, balance, callee, now>>
  PROVE  TypeOK'
<1>1. dispute[id].bond \in Nat
  BY DEF TypeOK, DisputeType
<1>2. Bps(dispute[id].bond, AdjudicatorSplitBps) \in Nat
  BY <1>1, BpsBound, ParamsAssumption
<1>3. /\ allocation' \in [TaskIds -> [Accounts -> Nat]]
      /\ escrowed' \in Nat
      /\ allocated' \in Nat
  BY <1>1, <1>2, AllocateType
<1>4. task' \in [TaskIds -> TaskType]
  BY TaskStatusType DEF TypeOK, Statuses
<1>5. dispute' \in [TaskIds -> DisputeType]
  BY DisputeUpdateType
<1> QED
  BY <1>3, <1>4, <1>5 DEF TypeOK, registry

LEMMA DisputeStepType ==
  ASSUME TypeOK, DisputeNext
  PROVE  TypeOK'
<1> PICK id \in TaskIds, a \in Accounts :
        \/ OpenChallenge(a, id)
        \/ \E B \in SUBSET Accounts : ResolveUpheld(a, id, B) \/ ResolveRejected(a, id, B)
  BY DEF DisputeNext
<1>1. CASE OpenChallenge(a, id)
  BY <1>1, OpenChallengeType
<1>2. ASSUME NEW B \in SUBSET Accounts, ResolveUpheld(a, id, B)
      PROVE  TypeOK'
  BY <1>2, ResolveUpheldType
<1>3. ASSUME NEW B \in SUBSET Accounts, ResolveRejected(a, id, B)
      PROVE  TypeOK'
  <2> DEFINE defended == IF B # {} THEN B ELSE Defamed(id)
  <2>1. defended \in SUBSET Accounts
    BY PartiesType
  <2> QED
    BY <1>3, <2>1, BondType DEF ResolveRejected
<1> QED
  BY <1>1, <1>2, <1>3

LEMMA ExpireTaskType ==
  ASSUME TypeOK, NEW id \in TaskIds, ExpireTask(id)
  PROVE  TypeOK'
<1> DEFINE S == IF task[id].revealedCount > 0 THEN Revealers(id) ELSE {}
           o == IF task[id].revealedCount > 0 THEN "Conflict" ELSE "Expired"
<1>1. /\ Allocate(id, S, Bps(task[id].bounty, ConflictRateBps), CreatorOf(id),
                  task[id].bounty)
      /\ task' = [task EXCEPT ![id].status = "Expired", ![id].outcome = o]
      /\ UNCHANGED <<report, dispute, creatorNonce, registry, pendingWithdrawals,
                     pending, staked, balance, callee, now>>
  BY DEF ExpireTask
<1>2. S \in SUBSET Accounts
  BY PartiesType
<1>3. task[id].bounty \in Nat
  BY DEF TypeOK, TaskType
<1>4. Bps(task[id].bounty, ConflictRateBps) \in Nat
  BY <1>3, BpsBound, ParamsAssumption
<1>5. /\ allocation' \in [TaskIds -> [Accounts -> Nat]]
      /\ escrowed' \in Nat
      /\ allocated' \in Nat
  <2> HIDE DEF S
  <2> QED
    BY <1>1, <1>2, <1>3, <1>4, AllocateType
<1>6. task' \in [TaskIds -> TaskType]
  <2>1. o \in Outcomes /\ "Expired" \in Statuses
    BY DEF Outcomes, Statuses
  <2> HIDE DEF o
  <2> QED
    BY <1>1, <2>1, TaskVerdictType DEF TypeOK
<1> QED
  BY <1>1, <1>5, <1>6 DEF TypeOK, registry

LEMMA FallbackType ==
  ASSUME TypeOK, FallbackNext
  PROVE  TypeOK'
<1> PICK id \in TaskIds : FinalizeTask(id) \/ ExpireTask(id) \/ ExpireDispute(id)
  BY DEF FallbackNext
<1>1. CASE FinalizeTask(id)
  <2>1. task' \in [TaskIds -> TaskType]
    BY <1>1, TaskStatusType DEF FinalizeTask, TypeOK, Statuses
  <2> QED
    BY <1>1, <2>1 DEF FinalizeTask, TypeOK, registry, ledger, buckets
<1>2. CASE ExpireTask(id)
  BY <1>2, ExpireTaskType
<1>3. CASE ExpireDispute(id)
  BY <1>3, PartiesType, BondType DEF ExpireDispute
<1> QED
  BY <1>1, <1>2, <1>3

LEMMA FinalizedForClaimType ==
  ASSUME TypeOK, NEW id \in TaskIds
  PROVE  FinalizedForClaim(id) \in [TaskIds -> TaskType]
  BY TaskStatusType DEF FinalizedForClaim, TypeOK, Statuses

LEMMA ClaimRewardType ==
  ASSUME TypeOK, NEW id \in TaskIds, NEW a \in Accounts, ClaimReward(a, id)
  PROVE  TypeOK'
<1>1. /\ allocation[id][a] <= allocated
      /\ task' = FinalizedForClaim(id)
      /\ allocation' = [allocation EXCEPT ![id][a] = 0]
      /\ allocated' = allocated - allocation[id][a]
      /\ pending' = pending + allocation[id][a]
      /\ pendingWithdrawals' = Credit(pendingWithdrawals, a, allocation[id][a])
      /\ UNCHANGED <<report, dispute, creatorNonce, registry, escrowed, staked,
                     balance, callee, now>>
  BY DEF ClaimReward, Claimable
<1>2. allocation[id][a] \in Nat
  BY DEF TypeOK
<1>3. allocation' \in [TaskIds -> [Accounts -> Nat]]
  BY <1>1, Update2 DEF TypeOK
<1>4. pendingWithdrawals' \in [Accounts -> Nat]
  BY <1>1, <1>2, CreditType DEF TypeOK
<1>5. allocated' \in Nat /\ pending' \in Nat
  BY <1>1, <1>2 DEF TypeOK
<1>6. task' \in [TaskIds -> TaskType]
  BY <1>1, FinalizedForClaimType
<1> QED
  BY <1>1, <1>3, <1>4, <1>5, <1>6 DEF TypeOK, registry

LEMMA PayOutType ==
  ASSUME TypeOK, NEW a \in Accounts, NEW amount \in Nat, PayOut(a, amount)
  PROVE  /\ pendingWithdrawals' \in [Accounts -> Nat]
         /\ balance' \in Nat
         /\ callee' \in Accounts \cup {NoAccount}
<1>1. /\ amount <= balance
      /\ pendingWithdrawals' = [pendingWithdrawals EXCEPT ![a] = 0]
      /\ balance' = balance - amount
      /\ callee' = a
  BY DEF PayOut
<1> QED
  BY <1>1 DEF TypeOK

LEMMA RefundCreatorType ==
  ASSUME TypeOK, NEW id \in TaskIds, NEW a \in Accounts, RefundCreator(a, id)
  PROVE  TypeOK'
<1> DEFINE share  == allocation[id][a]
           amount == pendingWithdrawals[a] + share
<1>1. /\ share > 0 => share <= allocated
      /\ amount <= pending + share
      /\ task' = IF share > 0 THEN FinalizedForClaim(id) ELSE task
      /\ allocation' = [allocation EXCEPT ![id][a] = 0]
      /\ allocated' = allocated - share
      /\ pending' = pending + share - amount
      /\ PayOut(a, amount)
      /\ UNCHANGED <<report, dispute, creatorNonce, registry, escrowed, staked, now>>
  BY DEF RefundCreator, Claimable
<1>2. share \in Nat /\ pendingWithdrawals[a] \in Nat
  BY DEF TypeOK
<1>3. amount \in Nat
  BY <1>2
<1>4. allocation' \in [TaskIds -> [Accounts -> Nat]]
  BY <1>1, Update2 DEF TypeOK
<1>5. allocated' \in Nat /\ pending' \in Nat
  <2>1. allocated \in Nat /\ pending \in Nat
    BY DEF TypeOK
  <2> HIDE DEF share, amount
  <2> QED
    BY <1>1, <1>2, <1>3, <2>1, SMT
<1>6. task' \in [TaskIds -> TaskType]
  BY <1>1, FinalizedForClaimType DEF TypeOK
<1>7. /\ pendingWithdrawals' \in [Accounts -> Nat]
      /\ balance' \in Nat
      /\ callee' \in Accounts \cup {NoAccount}
  BY <1>1, <1>3, PayOutType
<1> QED
  BY <1>1, <1>4, <1>5, <1>6, <1>7 DEF TypeOK, registry

LEMMA PayoutType ==
  ASSUME TypeOK, PayoutNext
  PROVE  TypeOK'
<1>1. ASSUME NEW a \in Accounts, Withdraw(a)
      PROVE  TypeOK'
  <2>1. /\ pendingWithdrawals[a] <= pending
        /\ pending' = pending - pendingWithdrawals[a]
        /\ PayOut(a, pendingWithdrawals[a])
        /\ UNCHANGED <<rounds, registry, allocation, escrowed, allocated, staked, now>>
    BY <1>1 DEF Withdraw
  <2>2. pendingWithdrawals[a] \in Nat
    BY DEF TypeOK
  <2>3. /\ pendingWithdrawals' \in [Accounts -> Nat]
        /\ balance' \in Nat
        /\ callee' \in Accounts \cup {NoAccount}
    BY <2>1, <2>2, PayOutType
  <2>4. pending' \in Nat
    BY <2>1, <2>2 DEF TypeOK
  <2> QED
    BY <2>1, <2>3, <2>4 DEF TypeOK, registry, rounds
<1>2. ASSUME NEW a \in Accounts, NEW id \in TaskIds, ClaimReward(a, id)
      PROVE  TypeOK'
  BY <1>2, ClaimRewardType
<1>3. ASSUME NEW a \in Accounts, NEW id \in TaskIds, RefundCreator(a, id)
      PROVE  TypeOK'
  BY <1>3, RefundCreatorType
<1>4. CASE CallReturns
  BY <1>4 DEF CallReturns, TypeOK, rounds, registry, ledger, buckets
<1> QED
  BY <1>1, <1>2, <1>3, <1>4 DEF PayoutNext

LEMMA VerifierUpdateType ==
  ASSUME TypeOK, NEW a \in Accounts, NEW v \in VerifierType,
         verifier' = [verifier EXCEPT ![a] = v]
  PROVE  verifier' \in [Accounts -> VerifierType]
  BY DEF TypeOK

LEMMA RegisterVerifierType ==
  ASSUME TypeOK, NEW a \in Accounts, NEW value \in Nat, RegisterVerifier(a, value)
  PROVE  TypeOK'
<1> DEFINE v == verifier[a]
           w == [v EXCEPT !.active = @ \/ ~v.registered, !.registered = TRUE,
                          !.stake = v.stake + value]
<1>1. /\ verifier' = [verifier EXCEPT ![a].active = @ \/ ~v.registered,
                                      ![a].registered = TRUE,
                                      ![a].stake = v.stake + value]
      /\ staked' = staked + value
      /\ balance' = balance + value
      /\ UNCHANGED <<rounds, roles, paused, allocation, pendingWithdrawals,
                     escrowed, allocated, pending, callee, now>>
  BY DEF RegisterVerifier
<1>2. v \in VerifierType
  BY DEF TypeOK
<1>3. w \in VerifierType
  <2>1. ASSUME NEW b \in BOOLEAN, NEW n \in Nat
        PROVE  [v EXCEPT !.active = b, !.registered = TRUE, !.stake = n] \in VerifierType
    BY <1>2, <2>1 DEF VerifierType
  <2>2. v.stake + value \in Nat
    BY <1>2 DEF VerifierType
  <2>3. (v.active \/ ~v.registered) \in BOOLEAN
    OBVIOUS
  <2> QED
    BY <2>1, <2>2, <2>3
<1>4. verifier' = [verifier EXCEPT ![a] = w]
  BY <1>1
<1>5. verifier' \in [Accounts -> VerifierType]
  BY <1>3, <1>4, VerifierUpdateType
<1>6. staked' \in Nat /\ balance' \in Nat
  BY <1>1 DEF TypeOK
<1> QED
  BY <1>1, <1>5, <1>6 DEF TypeOK, rounds

LEMMA RegistryType ==
  ASSUME TypeOK, RegistryNext
  PROVE  TypeOK'
<1>1. ASSUME NEW a \in Registrants, NEW value \in Stakes, RegisterVerifier(a, value)
      PROVE  TypeOK'
  BY <1>1, AccountsAssumption, InputsAssumption, RegisterVerifierType
<1>2. ASSUME NEW a \in Accounts, NEW active \in BOOLEAN, SetVerifierActive(a, active)
      PROVE  TypeOK'
  <2>1. verifier' \in [Accounts -> VerifierType]
    BY <1>2 DEF SetVerifierActive, TypeOK, VerifierType
  <2> QED
    BY <1>2, <2>1 DEF SetVerifierActive, TypeOK, rounds, ledger, buckets
<1>3. ASSUME NEW a \in Accounts, NEW b \in Registrants, NEW approved \in BOOLEAN,
             SetVerifierApproval(a, b, approved)
      PROVE  TypeOK'
  <2>1. verifier' \in [Accounts -> VerifierType]
    BY <1>3, AccountsAssumption DEF SetVerifierApproval, TypeOK, VerifierType
  <2> QED
    BY <1>3, <2>1 DEF SetVerifierApproval, TypeOK, rounds, ledger, buckets
<1>4. ASSUME NEW a \in Accounts, NEW amount \in 1..verifier[a].stake,
             WithdrawStake(a, amount)
      PROVE  TypeOK'
  <2>1. /\ amount <= verifier[a].stake
        /\ amount <= staked
        /\ verifier' = [verifier EXCEPT ![a].stake = @ - amount]
        /\ staked' = staked - amount
        /\ pending' = pending + amount
        /\ pendingWithdrawals' = Credit(pendingWithdrawals, a, amount)
        /\ UNCHANGED <<rounds, roles, paused, allocation, escrowed, allocated,
                       balance, callee, now>>
    BY <1>4 DEF WithdrawStake
  <2>2. verifier[a] \in VerifierType
    BY DEF TypeOK
  <2>3. verifier[a].stake \in Nat /\ amount \in Nat
    BY <2>2 DEF VerifierType
  <2>4. verifier[a].stake - amount \in Nat
    BY <2>1, <2>3
  <2>5. [verifier[a] EXCEPT !.stake = verifier[a].stake - amount] \in VerifierType
    BY <2>2, <2>4 DEF VerifierType
  <2>6. verifier' \in [Accounts -> VerifierType]
    BY <2>1, <2>5 DEF TypeOK
  <2>7. staked' \in Nat /\ pending' \in Nat
    BY <2>1, <2>3 DEF TypeOK
  <2>8. pendingWithdrawals' \in [Accounts -> Nat]
    BY <2>1, <2>3, CreditType DEF TypeOK
  <2> QED
    BY <2>1, <2>6, <2>7, <2>8 DEF TypeOK, rounds
<1> QED
  BY <1>1, <1>2, <1>3, <1>4 DEF RegistryNext

LEMMA AdminType ==
  ASSUME TypeOK, AdminNext
  PROVE  TypeOK'
<1>1. ASSUME NEW a \in Accounts, NEW value \in BOOLEAN, SetPaused(a, value)
      PROVE  TypeOK'
  BY <1>1 DEF SetPaused, TypeOK, rounds, ledger, buckets
<1>2. ASSUME NEW a \in Accounts, NEW role \in Roles, NEW b \in Accounts,
             GrantRole(a, role, b) \/ RevokeRole(a, role, b)
      PROVE  TypeOK'
  <2>1. roles' \in [Roles -> SUBSET Accounts]
    BY <1>2 DEF GrantRole, RevokeRole, TypeOK
  <2> QED
    BY <1>2, <2>1 DEF GrantRole, RevokeRole, TypeOK, rounds, ledger, buckets
<1> QED
  BY <1>1, <1>2 DEF AdminNext

(* Every step keeps every variable in its type; the checked subtractions of  *)
(* the four buckets are what keeps them natural numbers.                     *)
THEOREM TypeStep == TypeOK /\ [Next]_vars => TypeOK'
<1> SUFFICES ASSUME TypeOK, [Next]_vars PROVE TypeOK'
  OBVIOUS
<1>1. CASE RoundNext
  BY <1>1, CreateTaskType, CancelTaskType, CommitReportType, RevealReportType DEF RoundNext
<1>2. CASE KeeperNext
  BY <1>2, KeeperType
<1>3. CASE DisputeNext
  BY <1>3, DisputeStepType
<1>4. CASE FallbackNext
  BY <1>4, FallbackType
<1>5. CASE PayoutNext
  BY <1>5, PayoutType
<1>6. CASE RegistryNext
  BY <1>6, RegistryType
<1>7. CASE AdminNext
  BY <1>7, AdminType
<1>8. CASE Tick
  BY <1>8 DEF Tick, TypeOK, rounds, registry, ledger, buckets
<1>9. CASE UNCHANGED vars
  BY <1>9 DEF vars, TypeOK, rounds, registry, ledger, buckets
<1> QED
  BY <1>1, <1>2, <1>3, <1>4, <1>5, <1>6, <1>7, <1>8, <1>9 DEF Next

(* Type correctness: every variable always holds what its Solidity type can *)
(* hold, and no liability bucket is ever negative.                          *)
THEOREM TypeCorrect == Spec => []TypeOK
  BY TypeInit, TypeStep, PTL DEF Spec

-----------------------------------------------------------------------------
(* Solvency. *)

LEMMA RestSolvent ==
  ASSUME Solvent, UNCHANGED <<buckets, balance>>
  PROVE  Solvent'
  BY DEF Solvent, buckets

LEMMA AllocateSolvent ==
  ASSUME TypeOK, Solvent, NEW id, NEW S, NEW pool, NEW rest, NEW amount \in Nat,
         Allocate(id, S, pool, rest, amount),
         UNCHANGED <<pending, staked, balance>>
  PROVE  Solvent'
<1>1. escrowed' = escrowed - amount /\ allocated' = allocated + amount
  BY DEF Allocate
<1> QED
  BY <1>1 DEF TypeOK, Solvent

LEMMA KeeperSolvent ==
  ASSUME TypeOK, Solvent, KeeperNext
  PROVE  Solvent'
<1>1. ASSUME NEW id \in TaskIds, NEW a, NEW o, NEW rate, NEW S, NEW pool,
             Classify(a, id, o, rate, S, pool)
      PROVE  Solvent'
  <2>1. task[id].bounty \in Nat
    BY DEF TypeOK, TaskType
  <2> QED
    BY <1>1, <2>1, AllocateSolvent DEF Classify
<1> QED
  BY <1>1 DEF KeeperNext, FinalizeAsConsensus, FinalizeAsConflict, FinalizeAsNoQuorum

LEMMA DisputeSolvent ==
  ASSUME TypeOK, Solvent, DisputeNext
  PROVE  Solvent'
<1> PICK id \in TaskIds, a \in Accounts :
        \/ OpenChallenge(a, id)
        \/ \E B \in SUBSET Accounts : ResolveUpheld(a, id, B) \/ ResolveRejected(a, id, B)
  BY DEF DisputeNext
<1>1. dispute[id].bond \in Nat
  BY DEF TypeOK, DisputeType
<1>2. CASE OpenChallenge(a, id)
  <2> DEFINE bond == Bps(task[id].bounty, ChallengeBondBps)
  <2>1. bond \in Nat
    <3>1. task[id].bounty \in Nat
      BY DEF TypeOK, TaskType
    <3> QED
      BY <3>1, BpsBound, ParamsAssumption
  <2>2. /\ escrowed' = escrowed + bond /\ balance' = balance + bond
        /\ UNCHANGED <<allocated, pending, staked>>
    BY <1>2 DEF OpenChallenge
  <2> HIDE DEF bond
  <2> QED
    BY <2>1, <2>2 DEF TypeOK, Solvent
<1>3. ASSUME NEW B, ResolveUpheld(a, id, B)
      PROVE  Solvent'
  <2>1. /\ escrowed' = escrowed - dispute[id].bond
        /\ allocated' = allocated + dispute[id].bond
        /\ UNCHANGED <<pending, staked, balance>>
    BY <1>3 DEF ResolveUpheld
  <2> QED
    BY <1>1, <2>1 DEF TypeOK, Solvent
<1>4. ASSUME NEW B, ResolveRejected(a, id, B)
      PROVE  Solvent'
  BY <1>1, <1>4, AllocateSolvent DEF ResolveRejected
<1> QED
  BY <1>2, <1>3, <1>4

LEMMA FallbackSolvent ==
  ASSUME TypeOK, Solvent, FallbackNext
  PROVE  Solvent'
<1> PICK id \in TaskIds : FinalizeTask(id) \/ ExpireTask(id) \/ ExpireDispute(id)
  BY DEF FallbackNext
<1>1. task[id].bounty \in Nat /\ dispute[id].bond \in Nat
  BY DEF TypeOK, TaskType, DisputeType
<1>2. CASE FinalizeTask(id)
  BY <1>2, RestSolvent DEF FinalizeTask, ledger
<1>3. CASE ExpireTask(id)
  BY <1>1, <1>3, AllocateSolvent DEF ExpireTask
<1>4. CASE ExpireDispute(id)
  BY <1>1, <1>4, AllocateSolvent DEF ExpireDispute
<1> QED
  BY <1>2, <1>3, <1>4

LEMMA PayoutSolvent ==
  ASSUME TypeOK, Solvent, PayoutNext
  PROVE  Solvent'
<1>1. ASSUME NEW a \in Accounts, Withdraw(a)
      PROVE  Solvent'
  <2>1. pendingWithdrawals[a] \in Nat
    BY DEF TypeOK
  <2>2. /\ pending' = pending - pendingWithdrawals[a]
        /\ balance' = balance - pendingWithdrawals[a]
        /\ UNCHANGED <<escrowed, allocated, staked>>
    BY <1>1 DEF Withdraw, PayOut
  <2> QED
    BY <2>1, <2>2 DEF TypeOK, Solvent
<1>2. ASSUME NEW a \in Accounts, NEW id \in TaskIds, ClaimReward(a, id)
      PROVE  Solvent'
  <2>1. allocation[id][a] \in Nat
    BY DEF TypeOK
  <2>2. /\ allocated' = allocated - allocation[id][a]
        /\ pending' = pending + allocation[id][a]
        /\ UNCHANGED <<escrowed, staked, balance>>
    BY <1>2 DEF ClaimReward
  <2> QED
    BY <2>1, <2>2 DEF TypeOK, Solvent
<1>3. ASSUME NEW a \in Accounts, NEW id \in TaskIds, RefundCreator(a, id)
      PROVE  Solvent'
  <2>1. allocation[id][a] \in Nat /\ pendingWithdrawals[a] \in Nat
    BY DEF TypeOK
  <2>2. /\ allocated' = allocated - allocation[id][a]
        /\ pending' = pending + allocation[id][a] - (pendingWithdrawals[a] + allocation[id][a])
        /\ balance' = balance - (pendingWithdrawals[a] + allocation[id][a])
        /\ UNCHANGED <<escrowed, staked>>
    BY <1>3 DEF RefundCreator, PayOut
  <2> QED
    BY <2>1, <2>2 DEF TypeOK, Solvent
<1>4. CASE CallReturns
  BY <1>4, RestSolvent DEF CallReturns, ledger
<1> QED
  BY <1>1, <1>2, <1>3, <1>4 DEF PayoutNext

LEMMA RegistrySolvent ==
  ASSUME TypeOK, Solvent, RegistryNext
  PROVE  Solvent'
<1>1. ASSUME NEW a \in Registrants, NEW value \in Stakes, RegisterVerifier(a, value)
      PROVE  Solvent'
  <2>1. /\ staked' = staked + value /\ balance' = balance + value
        /\ UNCHANGED <<escrowed, allocated, pending>>
    BY <1>1 DEF RegisterVerifier
  <2>2. value \in Nat
    BY InputsAssumption
  <2> QED
    BY <2>1, <2>2 DEF TypeOK, Solvent
<1>2. ASSUME NEW a \in Accounts, NEW active \in BOOLEAN, SetVerifierActive(a, active)
      PROVE  Solvent'
  BY <1>2, RestSolvent DEF SetVerifierActive, ledger
<1>3. ASSUME NEW a \in Accounts, NEW b \in Registrants, NEW approved \in BOOLEAN,
             SetVerifierApproval(a, b, approved)
      PROVE  Solvent'
  BY <1>3, RestSolvent DEF SetVerifierApproval, ledger
<1>4. ASSUME NEW a \in Accounts, NEW amount \in 1..verifier[a].stake, WithdrawStake(a, amount)
      PROVE  Solvent'
  <2>1. /\ staked' = staked - amount /\ pending' = pending + amount
        /\ UNCHANGED <<escrowed, allocated, balance>>
    BY <1>4 DEF WithdrawStake
  <2> QED
    BY <2>1 DEF TypeOK, Solvent
<1> QED
  BY <1>1, <1>2, <1>3, <1>4 DEF RegistryNext

THEOREM SolventStep == TypeOK /\ Solvent /\ [Next]_vars => Solvent'
<1> SUFFICES ASSUME TypeOK, Solvent, [Next]_vars PROVE Solvent'
  OBVIOUS
<1>1. CASE RoundNext
  <2>1. ASSUME NEW c \in Creators, NEW spec \in TaskSpecs, NEW value \in Bounties,
               CreateTask(c, spec, value)
        PROVE  Solvent'
    <3>1. /\ escrowed' = escrowed + value /\ balance' = balance + value
          /\ UNCHANGED <<allocated, pending, staked>>
      BY <2>1 DEF CreateTask
    <3>2. value \in Nat
      BY InputsAssumption
    <3> QED
      BY <3>1, <3>2 DEF TypeOK, Solvent
  <2>2. ASSUME NEW id \in TaskIds, NEW a \in Accounts, CancelTask(a, id)
        PROVE  Solvent'
    <3>1. task[id].bounty \in Nat
      BY DEF TypeOK, TaskType
    <3>2. /\ escrowed' = escrowed - task[id].bounty
          /\ pending' = pending + task[id].bounty
          /\ UNCHANGED <<allocated, staked, balance>>
      BY <2>2 DEF CancelTask
    <3> QED
      BY <3>1, <3>2 DEF TypeOK, Solvent
  <2>3. ASSUME NEW id \in TaskIds, NEW a \in Accounts,
               \/ \E commitment \in Commitments : CommitReport(a, id, commitment)
               \/ RevealReport(a, id)
        PROVE  Solvent'
    BY <2>3, RestSolvent DEF CommitReport, RevealReport, ledger
  <2> QED
    BY <1>1, <2>1, <2>2, <2>3 DEF RoundNext
<1>2. CASE KeeperNext
  BY <1>2, KeeperSolvent
<1>3. CASE DisputeNext
  BY <1>3, DisputeSolvent
<1>4. CASE FallbackNext
  BY <1>4, FallbackSolvent
<1>5. CASE PayoutNext
  BY <1>5, PayoutSolvent
<1>6. CASE RegistryNext
  BY <1>6, RegistrySolvent
<1>7. CASE AdminNext
  BY <1>7, RestSolvent DEF AdminNext, SetPaused, GrantRole, RevokeRole, ledger
<1>8. CASE Tick
  BY <1>8, RestSolvent DEF Tick, ledger
<1>9. CASE UNCHANGED vars
  BY <1>9, RestSolvent DEF vars, ledger
<1> QED
  BY <1>1, <1>2, <1>3, <1>4, <1>5, <1>6, <1>7, <1>8, <1>9 DEF Next

(* The contract always holds exactly what totalLiabilities() reports: no     *)
(* sequence of calls, re-entered or not, leaves a debt unfunded.             *)
THEOREM Solvency == Spec => []Solvent
<1>1. Init => Solvent
  BY DEF Init, Deployed, Solvent
<1> QED
  BY <1>1, TypeCorrect, SolventStep, PTL DEF Spec

-----------------------------------------------------------------------------
(* The life of a task, of a dispute and of the admin role. All of it rests on *)
(* TaskStep: whatever call is made, each task stays as it is, opens, takes a   *)
(* commitment, takes a reveal, or moves towards its settlement.                *)

Stays(id) == task'[id] = task[id]

Opens(id) ==
  /\ task[id].status = "None"
  /\ task'[id].status = "Open"
  /\ task'[id].committedCount = 0
  /\ task'[id].revealedCount = 0

Commits(id) ==
  /\ task[id].status \in {"Open", "Committing"}
  /\ task[id].committedCount < task[id].verifierCount
  /\ task'[id] = [task[id] EXCEPT !.committedCount = task[id].committedCount + 1,
                                  !.status = "Committing"]

Reveals(id) ==
  /\ task[id].status \in {"Committing", "Revealing"}
  /\ ~CommitOpen(id)
  /\ task'[id] = [task[id] EXCEPT !.revealedCount = task[id].revealedCount + 1,
                                  !.status = "Revealing"]

SameRound(id) ==
  /\ task'[id].verifierCount = task[id].verifierCount
  /\ task'[id].commitDeadline = task[id].commitDeadline
  /\ task'[id].committedCount = task[id].committedCount
  /\ task'[id].revealedCount = task[id].revealedCount

Advances(id) ==
  /\ task[id].status \in Unsettled \cup {"Consensus", "Disputed"}
  /\ task'[id].status \in {"Consensus", "Disputed"} \cup Terminal
  /\ SameRound(id)

TaskMoves(id) ==
  Stays(id) \/ Opens(id) \/ Commits(id) \/ Reveals(id) \/ Advances(id)

-----------------------------------------------------------------------------
(* An update of one task leaves the others, and has its own shape there.    *)
LEMMA OneTask ==
  ASSUME TypeOK, NEW id \in TaskIds, NEW r, task' = [task EXCEPT ![id] = r],
         task'[id] = r => TaskMoves(id)
  PROVE  \A i \in TaskIds : TaskMoves(i)
<1>1. task \in [TaskIds -> TaskType]
  BY DEF TypeOK
<1>2. task'[id] = r
  BY <1>1
<1>3. ASSUME NEW i \in TaskIds, i # id
      PROVE  Stays(i)
  BY <1>1, <1>3 DEF Stays
<1> QED
  BY <1>2, <1>3 DEF TaskMoves

LEMMA TaskRests ==
  ASSUME UNCHANGED task
  PROVE  \A i \in TaskIds : TaskMoves(i)
  BY DEF TaskMoves, Stays

(* A step that sets a status past the round, leaving the round's counters.  *)
LEMMA StatusAdvances ==
  ASSUME TypeOK, NEW id \in TaskIds,
         task[id].status \in Unsettled \cup {"Consensus", "Disputed"},
         NEW s \in {"Consensus", "Disputed"} \cup Terminal,
         task' = [task EXCEPT ![id].status = s]
  PROVE  \A i \in TaskIds : TaskMoves(i)
<1> DEFINE r == [task[id] EXCEPT !.status = s]
<1>1. task[id] \in TaskType
  BY DEF TypeOK
<1>2. task' = [task EXCEPT ![id] = r]
  BY DEF TypeOK
<1>3. ASSUME task'[id] = r
      PROVE  Advances(id)
  BY <1>1, <1>3 DEF Advances, SameRound, TaskType
<1> HIDE DEF r
<1> QED
  BY <1>2, <1>3, OneTask DEF TaskMoves

LEMMA RoundMoves ==
  ASSUME TypeOK, RoundNext
  PROVE  \A i \in TaskIds : TaskMoves(i)
<1>1. ASSUME NEW c \in Creators, NEW spec \in TaskSpecs, NEW value \in Bounties,
             CreateTask(c, spec, value)
      PROVE  \A i \in TaskIds : TaskMoves(i)
  <2> DEFINE id == <<c, creatorNonce[c]>>
             r  == [NoTask EXCEPT !.bounty = value,
                      !.verifierCount = spec.verifierCount,
                      !.commitDeadline = now + spec.commitWindowSec,
                      !.revealDeadline = now + spec.commitWindowSec + spec.revealWindowSec,
                      !.disputeWindow = spec.disputeWindowSec,
                      !.status = "Open"]
  <2>1. /\ creatorNonce[c] < MaxNonce
        /\ task[id].status = "None"
        /\ task' = [task EXCEPT ![id] = r]
    BY <1>1 DEF CreateTask
  <2>2. id \in TaskIds
    <3>1. c \in Accounts /\ creatorNonce \in [Accounts -> Nat]
      BY AccountsAssumption DEF TypeOK
    <3> QED
      BY <2>1, <3>1, InputsAssumption, SMT DEF TaskIds
  <2>3. r.status = "Open" /\ r.committedCount = 0 /\ r.revealedCount = 0
    BY DEF NoTask
  <2>4. ASSUME task'[id] = r PROVE Opens(id)
    BY <2>1, <2>3, <2>4 DEF Opens
  <2> HIDE DEF id, r
  <2> QED
    BY <2>1, <2>2, <2>4, OneTask DEF TaskMoves
<1>2. ASSUME NEW id \in TaskIds, NEW a \in Accounts, CancelTask(a, id)
      PROVE  \A i \in TaskIds : TaskMoves(i)
  <2> DEFINE r == [task[id] EXCEPT !.status = "Cancelled", !.outcome = "Cancelled"]
  <2>1. /\ task[id].status \in {"Open", "Committing"}
        /\ task' = [task EXCEPT ![id].status = "Cancelled", ![id].outcome = "Cancelled"]
    BY <1>2 DEF CancelTask
  <2>2. task[id] \in TaskType /\ task' = [task EXCEPT ![id] = r]
    BY <2>1 DEF TypeOK
  <2>3. ASSUME task'[id] = r PROVE Advances(id)
    BY <2>1, <2>2, <2>3 DEF Advances, SameRound, TaskType, Unsettled, Terminal
  <2> HIDE DEF r
  <2> QED
    BY <2>2, <2>3, OneTask DEF TaskMoves
<1>3. ASSUME NEW id \in TaskIds, NEW a \in Accounts, NEW m \in Commitments,
             CommitReport(a, id, m)
      PROVE  \A i \in TaskIds : TaskMoves(i)
  <2> DEFINE r == [task[id] EXCEPT !.committedCount = task[id].committedCount + 1,
                                   !.status = "Committing"]
  <2>1. /\ task[id].status \in {"Open", "Committing"}
        /\ task[id].committedCount < task[id].verifierCount
        /\ task' = [task EXCEPT ![id].committedCount = @ + 1, ![id].status = "Committing"]
    BY <1>3 DEF CommitReport
  <2>2. task' = [task EXCEPT ![id] = r]
    BY <2>1 DEF TypeOK
  <2>3. ASSUME task'[id] = r PROVE Commits(id)
    BY <2>1, <2>3 DEF Commits
  <2> HIDE DEF r
  <2> QED
    BY <2>2, <2>3, OneTask DEF TaskMoves
<1>4. ASSUME NEW id \in TaskIds, NEW a \in Accounts, RevealReport(a, id)
      PROVE  \A i \in TaskIds : TaskMoves(i)
  <2> DEFINE r == [task[id] EXCEPT !.revealedCount = task[id].revealedCount + 1,
                                   !.status = "Revealing"]
  <2>1. /\ task[id].status \in {"Committing", "Revealing"}
        /\ ~CommitOpen(id)
        /\ task' = [task EXCEPT ![id].revealedCount = @ + 1, ![id].status = "Revealing"]
    BY <1>4 DEF RevealReport
  <2>2. task' = [task EXCEPT ![id] = r]
    BY <2>1 DEF TypeOK
  <2>3. ASSUME task'[id] = r PROVE Reveals(id)
    BY <2>1, <2>3 DEF Reveals
  <2> HIDE DEF r
  <2> QED
    BY <2>2, <2>3, OneTask DEF TaskMoves
<1> QED
  BY <1>1, <1>2, <1>3, <1>4 DEF RoundNext

LEMMA KeeperMoves ==
  ASSUME TypeOK, KeeperNext
  PROVE  \A i \in TaskIds : TaskMoves(i)
<1>1. ASSUME NEW id \in TaskIds, NEW a, NEW o, NEW rate, NEW S, NEW pool,
             Classify(a, id, o, rate, S, pool)
      PROVE  \A i \in TaskIds : TaskMoves(i)
  <2> DEFINE r == [task[id] EXCEPT !.outcome = o, !.rewardBps = rate,
                     !.consensusAt = now % Uint32Size, !.status = "Consensus"]
  <2>1. /\ task[id].status \in Unsettled
        /\ task' = [task EXCEPT ![id].outcome = o, ![id].rewardBps = rate,
                      ![id].consensusAt = now % Uint32Size, ![id].status = "Consensus"]
    BY <1>1 DEF Classify
  <2>2. task[id] \in TaskType /\ task' = [task EXCEPT ![id] = r]
    BY <2>1 DEF TypeOK
  <2>3. ASSUME task'[id] = r PROVE Advances(id)
    BY <2>1, <2>2, <2>3 DEF Advances, SameRound, TaskType
  <2> HIDE DEF r
  <2> QED
    BY <2>2, <2>3, OneTask DEF TaskMoves
<1> QED
  BY <1>1 DEF KeeperNext, FinalizeAsConsensus, FinalizeAsConflict, FinalizeAsNoQuorum

LEMMA DisputeMoves ==
  ASSUME TypeOK, DisputeNext
  PROVE  \A i \in TaskIds : TaskMoves(i)
<1> PICK id \in TaskIds, a \in Accounts :
        \/ OpenChallenge(a, id)
        \/ \E B \in SUBSET Accounts : ResolveUpheld(a, id, B) \/ ResolveRejected(a, id, B)
  BY DEF DisputeNext
<1>1. CASE OpenChallenge(a, id)
  BY <1>1, StatusAdvances DEF OpenChallenge
<1>2. ASSUME NEW B, ResolveUpheld(a, id, B)
      PROVE  \A i \in TaskIds : TaskMoves(i)
  <2>1. /\ task[id].status = "Disputed"
        /\ task' = [task EXCEPT ![id] = OverturnedTask(id)]
    BY <1>2 DEF ResolveUpheld, Disputed
  <2>2. task[id] \in TaskType
    BY DEF TypeOK
  <2>3. ASSUME task'[id] = OverturnedTask(id) PROVE Advances(id)
    BY <2>1, <2>2, <2>3 DEF Advances, SameRound, TaskType, OverturnedTask, Terminal
  <2> QED
    BY <2>1, <2>3, OneTask DEF TaskMoves
<1>3. ASSUME NEW B, ResolveRejected(a, id, B)
      PROVE  \A i \in TaskIds : TaskMoves(i)
  BY <1>3, StatusAdvances DEF ResolveRejected, Disputed, Terminal
<1> QED
  BY <1>1, <1>2, <1>3

LEMMA FallbackMoves ==
  ASSUME TypeOK, FallbackNext
  PROVE  \A i \in TaskIds : TaskMoves(i)
<1> PICK id \in TaskIds : FinalizeTask(id) \/ ExpireTask(id) \/ ExpireDispute(id)
  BY DEF FallbackNext
<1>1. CASE FinalizeTask(id)
  BY <1>1, StatusAdvances DEF FinalizeTask, WindowElapsed, Terminal
<1>2. CASE ExpireTask(id)
  <2> DEFINE o == IF task[id].revealedCount > 0 THEN "Conflict" ELSE "Expired"
             r == [task[id] EXCEPT !.status = "Expired", !.outcome = o]
  <2>1. /\ task[id].status \in Unsettled
        /\ task' = [task EXCEPT ![id].status = "Expired", ![id].outcome = o]
    BY <1>2 DEF ExpireTask
  <2> HIDE DEF o
  <2>2. task[id] \in TaskType /\ task' = [task EXCEPT ![id] = r]
    BY <2>1 DEF TypeOK
  <2>3. ASSUME task'[id] = r PROVE Advances(id)
    BY <2>1, <2>2, <2>3 DEF Advances, SameRound, TaskType, Terminal
  <2> HIDE DEF r
  <2> QED
    BY <2>2, <2>3, OneTask DEF TaskMoves
<1>3. CASE ExpireDispute(id)
  BY <1>3, StatusAdvances DEF ExpireDispute, Disputed, Terminal
<1> QED
  BY <1>1, <1>2, <1>3

LEMMA PayoutMoves ==
  ASSUME TypeOK, PayoutNext
  PROVE  \A i \in TaskIds : TaskMoves(i)
<1>1. ASSUME NEW id \in TaskIds, task' = FinalizedForClaim(id)
      PROVE  \A i \in TaskIds : TaskMoves(i)
  <2>1. CASE WindowElapsed(id)
    BY <1>1, <2>1, StatusAdvances DEF FinalizedForClaim, WindowElapsed, Terminal
  <2>2. CASE ~WindowElapsed(id)
    BY <1>1, <2>2, TaskRests DEF FinalizedForClaim
  <2> QED
    BY <2>1, <2>2
<1>2. UNCHANGED task \/ \E id \in TaskIds : task' = FinalizedForClaim(id)
  BY DEF PayoutNext, Withdraw, ClaimReward, RefundCreator, CallReturns, rounds
<1> QED
  BY <1>1, <1>2, TaskRests

(* Whatever call is made, each task makes one of five moves. *)
THEOREM TaskStep ==
  ASSUME TypeOK, [Next]_vars
  PROVE  \A i \in TaskIds : TaskMoves(i)
<1>1. CASE RegistryNext \/ AdminNext \/ Tick \/ UNCHANGED vars
  BY <1>1, TaskRests
  DEF RegistryNext, RegisterVerifier, SetVerifierActive, SetVerifierApproval,
      WithdrawStake, AdminNext, SetPaused, GrantRole, RevokeRole, Tick, vars, rounds
<1> QED
  BY <1>1, RoundMoves, KeeperMoves, DisputeMoves, FallbackMoves, PayoutMoves DEF Next

-----------------------------------------------------------------------------
(* What a classification, a dispute and the exits leave alone. *)
LEMMA KeeperFrame ==
  ASSUME KeeperNext
  PROVE  UNCHANGED <<registry, now>>
<1>1. ASSUME NEW id, NEW a, NEW outcome, NEW rate, NEW S, NEW pool,
             Classify(a, id, outcome, rate, S, pool)
      PROVE  UNCHANGED <<registry, now>>
  BY <1>1 DEF Classify
<1> QED
  BY <1>1 DEF KeeperNext, FinalizeAsConsensus, FinalizeAsConflict, FinalizeAsNoQuorum

LEMMA DisputeFrame ==
  ASSUME DisputeNext
  PROVE  UNCHANGED <<registry, now>>
<1>1. ASSUME NEW id, NEW a, OpenChallenge(a, id)
      PROVE  UNCHANGED <<registry, now>>
  BY <1>1 DEF OpenChallenge
<1>2. ASSUME NEW id, NEW a, NEW B, ResolveUpheld(a, id, B)
      PROVE  UNCHANGED <<registry, now>>
  BY <1>2 DEF ResolveUpheld
<1>3. ASSUME NEW id, NEW a, NEW B, ResolveRejected(a, id, B)
      PROVE  UNCHANGED <<registry, now>>
  BY <1>3 DEF ResolveRejected
<1> QED
  BY <1>1, <1>2, <1>3 DEF DisputeNext

LEMMA FallbackFrame ==
  ASSUME FallbackNext
  PROVE  UNCHANGED <<registry, now>>
<1>1. ASSUME NEW id, FinalizeTask(id)
      PROVE  UNCHANGED <<registry, now>>
  BY <1>1 DEF FinalizeTask
<1>2. ASSUME NEW id, ExpireTask(id)
      PROVE  UNCHANGED <<registry, now>>
  BY <1>2 DEF ExpireTask
<1>3. ASSUME NEW id, ExpireDispute(id)
      PROVE  UNCHANGED <<registry, now>>
  BY <1>3 DEF ExpireDispute
<1> QED
  BY <1>1, <1>2, <1>3 DEF FallbackNext

-----------------------------------------------------------------------------
(* The clock never runs backwards. *)
LEMMA ClockStep ==
  ASSUME TypeOK, [Next]_vars
  PROVE  now' \in Nat /\ now' >= now
<1>1. now \in Nat
  BY DEF TypeOK
<1>2. now' = now \/ now' = now + 1
  <2>1. CASE RoundNext
    BY <2>1 DEF RoundNext, CreateTask, CancelTask, CommitReport, RevealReport
  <2>2. CASE KeeperNext
    BY <2>2, KeeperFrame DEF registry
  <2>3. CASE DisputeNext
    BY <2>3, DisputeFrame DEF registry
  <2>4. CASE FallbackNext
    BY <2>4, FallbackFrame DEF registry
  <2>5. CASE PayoutNext
    BY <2>5 DEF PayoutNext, Withdraw, ClaimReward, RefundCreator, CallReturns
  <2>6. CASE RegistryNext
    BY <2>6 DEF RegistryNext, RegisterVerifier, SetVerifierActive,
                SetVerifierApproval, WithdrawStake
  <2>7. CASE AdminNext
    BY <2>7 DEF AdminNext, SetPaused, GrantRole, RevokeRole
  <2>8. CASE Tick \/ UNCHANGED vars
    BY <2>8 DEF Tick, vars
  <2> QED
    BY <2>1, <2>2, <2>3, <2>4, <2>5, <2>6, <2>7, <2>8 DEF Next
<1> QED
  BY <1>1, <1>2

(* No task takes more commitments than it has slots: what SealedRound needs  *)
(* to be inductive, since a round with every slot taken may reveal early.    *)
SlotsBound ==
  \A id \in TaskIds : task[id].committedCount <= task[id].verifierCount

SealInv == SealedRound /\ SlotsBound

LEMMA SealInit == Init => SealInv
  BY DEF Init, Deployed, SealInv, SealedRound, SlotsBound, NoTask

LEMMA SealStep ==
  ASSUME TypeOK, SealInv, [Next]_vars
  PROVE  SealInv'
<1> SUFFICES ASSUME NEW id \in TaskIds
             PROVE  /\ task'[id].committedCount <= task'[id].verifierCount
                    /\ task'[id].revealedCount > 0 =>
                         /\ \/ task'[id].committedCount = task'[id].verifierCount
                            \/ now' > task'[id].commitDeadline
                         /\ task'[id].status \notin {"None", "Open", "Committing"}
  BY DEF SealInv, SealedRound, SlotsBound
<1> DEFINE t == task[id]
           u == task'[id]
<1>1. t \in TaskType /\ u \in TaskType /\ now \in Nat
  BY TypeStep DEF TypeOK
<1>2. now' \in Nat /\ now' >= now
  BY ClockStep
<1>3. /\ t.committedCount <= t.verifierCount
      /\ t.revealedCount > 0 =>
           /\ t.committedCount = t.verifierCount \/ now > t.commitDeadline
           /\ t.status \notin {"None", "Open", "Committing"}
  BY DEF SealInv, SealedRound, SlotsBound
<1>4. TaskMoves(id)
  BY TaskStep
<1>5. /\ t.committedCount \in Nat /\ t.verifierCount \in Nat /\ t.revealedCount \in Nat
      /\ t.commitDeadline \in Nat
      /\ u.verifierCount \in Nat
  BY <1>1 DEF TaskType
<1>6. CASE Stays(id)
  <2>1. u = t
    BY <1>6 DEF Stays
  <2>2. now > t.commitDeadline => now' > t.commitDeadline
    BY <1>2, <1>1, <1>5
  <2> QED
    BY <1>3, <2>1, <2>2
<1>7. CASE Opens(id)
  BY <1>5, <1>7 DEF Opens
<1>8. CASE Commits(id)
  <2>1. t.revealedCount = 0
    BY <1>3, <1>5, <1>8 DEF Commits
  <2>2. /\ u.committedCount = t.committedCount + 1
        /\ u.verifierCount = t.verifierCount
        /\ u.revealedCount = t.revealedCount
        /\ t.committedCount < t.verifierCount
    BY <1>1, <1>8 DEF Commits, TaskType
  <2> QED
    BY <1>5, <2>1, <2>2
<1>9. CASE Reveals(id)
  <2>1. /\ u.committedCount = t.committedCount
        /\ u.verifierCount = t.verifierCount
        /\ u.commitDeadline = t.commitDeadline
        /\ u.status = "Revealing"
        /\ ~(t.committedCount < t.verifierCount /\ now <= t.commitDeadline)
    BY <1>1, <1>9 DEF Reveals, TaskType, CommitOpen
  <2>2. now > t.commitDeadline => now' > t.commitDeadline
    BY <1>2, <1>1, <1>5
  <2>3. ~(t.committedCount < t.verifierCount) => t.committedCount = t.verifierCount
    BY <1>3, <1>5
  <2>4. ~(now <= t.commitDeadline) => now > t.commitDeadline
    BY <1>1, <1>5
  <2> QED
    BY <1>3, <2>1, <2>2, <2>3, <2>4
<1>10. CASE Advances(id)
  <2>1. /\ u.committedCount = t.committedCount
        /\ u.verifierCount = t.verifierCount
        /\ u.commitDeadline = t.commitDeadline
        /\ u.revealedCount = t.revealedCount
        /\ u.status \notin {"None", "Open", "Committing"}
    BY <1>10 DEF Advances, SameRound, Terminal
  <2>2. now > t.commitDeadline => now' > t.commitDeadline
    BY <1>2, <1>1, <1>5
  <2>3. ~(t.committedCount < t.verifierCount) => t.committedCount = t.verifierCount
    BY <1>3, <1>5
  <2>4. ~(now <= t.commitDeadline) => now > t.commitDeadline
    BY <1>1, <1>5
  <2> QED
    BY <1>3, <2>1, <2>2, <2>3, <2>4
<1> QED
  BY <1>4, <1>6, <1>7, <1>8, <1>9, <1>10 DEF TaskMoves

(* The anti-copying rule: once one report of a task is readable, nobody can  *)
(* commit to that task any more, and nobody was shut out of a slot early.    *)
THEOREM Sealed == Spec => []SealedRound
<1>1. TypeOK /\ SealInv /\ [Next]_vars => SealInv'
  BY SealStep
<1>2. SealInv => SealedRound
  BY DEF SealInv
<1> QED
  BY SealInit, TypeCorrect, <1>1, <1>2, PTL DEF Spec

-----------------------------------------------------------------------------
(* Who may open a dispute, and when.  A step leaves a task's dispute as it    *)
(* is, or leaves the task not disputed, or is the challenge that opens it.    *)
DisputeRests(i) == task'[i] = task[i] /\ dispute'[i] = dispute[i]

NotDisputed(i) == task'[i].status # "Disputed"

Challenged(i) ==
  /\ now' = now
  /\ task'[i].consensusAt = task[i].consensusAt
  /\ task'[i].disputeWindow = task[i].disputeWindow
  /\ dispute'[i].challenger = CreatorOf(i) \/ now > CreatorPriorityDeadline(i)

Contests(i) == DisputeRests(i) \/ NotDisputed(i) \/ Challenged(i)

LEMMA NothingContests ==
  ASSUME UNCHANGED <<task, dispute>>
  PROVE  \A i \in TaskIds : Contests(i)
  BY DEF Contests, DisputeRests

(* A step that gives one task a status other than Disputed. *)
LEMMA LeavesDispute ==
  ASSUME NEW id \in TaskIds, task'[id].status # "Disputed",
         \A i \in TaskIds \ {id} : task'[i] = task[i] /\ dispute'[i] = dispute[i]
  PROVE  \A i \in TaskIds : Contests(i)
  BY DEF Contests, DisputeRests, NotDisputed

(* What EXCEPT leaves in the entry it updates. *)
LEMMA SetsStatus ==
  ASSUME TypeOK, NEW id \in TaskIds, NEW s, task' = [task EXCEPT ![id].status = s]
  PROVE  /\ task'[id].status = s
         /\ task'[id].consensusAt = task[id].consensusAt
         /\ task'[id].disputeWindow = task[id].disputeWindow
         /\ \A i \in TaskIds \ {id} : task'[i] = task[i]
<1>1. task \in [TaskIds -> TaskType] /\ task[id] \in TaskType
  BY DEF TypeOK
<1>2. task'[id] = [task[id] EXCEPT !.status = s]
  BY <1>1
<1> QED
  BY <1>1, <1>2 DEF TaskType

LEMMA RoundContests ==
  ASSUME TypeOK, RoundNext
  PROVE  \A i \in TaskIds : Contests(i)
<1>1. task \in [TaskIds -> TaskType]
  BY DEF TypeOK
<1>2. ASSUME NEW c \in Creators, NEW spec \in TaskSpecs, NEW value \in Bounties,
             CreateTask(c, spec, value)
      PROVE  \A i \in TaskIds : Contests(i)
  <2> DEFINE id == <<c, creatorNonce[c]>>
             r  == [NoTask EXCEPT !.bounty = value,
                      !.verifierCount = spec.verifierCount,
                      !.commitDeadline = now + spec.commitWindowSec,
                      !.revealDeadline = now + spec.commitWindowSec + spec.revealWindowSec,
                      !.disputeWindow = spec.disputeWindowSec,
                      !.status = "Open"]
  <2>1. creatorNonce[c] < MaxNonce /\ task' = [task EXCEPT ![id] = r] /\ UNCHANGED dispute
    BY <1>2 DEF CreateTask
  <2>2. id \in TaskIds
    <3>1. c \in Accounts /\ creatorNonce \in [Accounts -> Nat]
      BY AccountsAssumption DEF TypeOK
    <3> QED
      BY <2>1, <3>1, InputsAssumption, SMT DEF TaskIds
  <2>3. r.status = "Open"
    BY DEF NoTask
  <2> HIDE DEF id, r
  <2>4. task'[id] = r /\ \A i \in TaskIds \ {id} : task'[i] = task[i]
    BY <1>1, <2>1, <2>2
  <2> QED
    BY <2>1, <2>2, <2>3, <2>4, LeavesDispute
<1>3. ASSUME NEW id \in TaskIds, NEW a \in Accounts, CancelTask(a, id)
      PROVE  \A i \in TaskIds : Contests(i)
  <2>1. /\ task' = [task EXCEPT ![id].status = "Cancelled", ![id].outcome = "Cancelled"]
        /\ UNCHANGED dispute
    BY <1>3 DEF CancelTask
  <2>2. task'[id].status = "Cancelled" /\ \A i \in TaskIds \ {id} : task'[i] = task[i]
    BY <1>1, <2>1 DEF TaskType
  <2> QED
    BY <2>1, <2>2, LeavesDispute
<1>4. ASSUME NEW id \in TaskIds, NEW a \in Accounts, NEW m \in Commitments,
             CommitReport(a, id, m)
      PROVE  \A i \in TaskIds : Contests(i)
  <2>1. /\ task' = [task EXCEPT ![id].committedCount = @ + 1, ![id].status = "Committing"]
        /\ UNCHANGED dispute
    BY <1>4 DEF CommitReport
  <2>2. task'[id].status = "Committing" /\ \A i \in TaskIds \ {id} : task'[i] = task[i]
    BY <1>1, <2>1 DEF TaskType
  <2> QED
    BY <2>1, <2>2, LeavesDispute
<1>5. ASSUME NEW id \in TaskIds, NEW a \in Accounts, RevealReport(a, id)
      PROVE  \A i \in TaskIds : Contests(i)
  <2>1. /\ task' = [task EXCEPT ![id].revealedCount = @ + 1, ![id].status = "Revealing"]
        /\ UNCHANGED dispute
    BY <1>5 DEF RevealReport
  <2>2. task'[id].status = "Revealing" /\ \A i \in TaskIds \ {id} : task'[i] = task[i]
    BY <1>1, <2>1 DEF TaskType
  <2> QED
    BY <2>1, <2>2, LeavesDispute
<1> QED
  BY <1>2, <1>3, <1>4, <1>5 DEF RoundNext

LEMMA KeeperContests ==
  ASSUME TypeOK, KeeperNext
  PROVE  \A i \in TaskIds : Contests(i)
<1>1. ASSUME NEW id \in TaskIds, NEW a, NEW o, NEW rate, NEW S, NEW pool,
             Classify(a, id, o, rate, S, pool)
      PROVE  \A i \in TaskIds : Contests(i)
  <2>1. /\ task' = [task EXCEPT ![id].outcome = o, ![id].rewardBps = rate,
                      ![id].consensusAt = now % Uint32Size, ![id].status = "Consensus"]
        /\ UNCHANGED dispute
    BY <1>1 DEF Classify
  <2>2. task \in [TaskIds -> TaskType]
    BY DEF TypeOK
  <2>3. task'[id].status = "Consensus" /\ \A i \in TaskIds \ {id} : task'[i] = task[i]
    BY <2>1, <2>2 DEF TaskType
  <2> QED
    BY <2>1, <2>3, LeavesDispute
<1> QED
  BY <1>1 DEF KeeperNext, FinalizeAsConsensus, FinalizeAsConflict, FinalizeAsNoQuorum

LEMMA DisputeContests ==
  ASSUME TypeOK, DisputeNext
  PROVE  \A i \in TaskIds : Contests(i)
<1> PICK id \in TaskIds, a \in Accounts :
        \/ OpenChallenge(a, id)
        \/ \E B \in SUBSET Accounts : ResolveUpheld(a, id, B) \/ ResolveRejected(a, id, B)
  BY DEF DisputeNext
<1>1. dispute \in [TaskIds -> DisputeType] /\ task \in [TaskIds -> TaskType]
  BY DEF TypeOK
<1>2. ASSUME OpenChallenge(a, id) PROVE \A i \in TaskIds : Contests(i)
  <2> DEFINE d == [NoDispute EXCEPT !.challenger = a,
                     !.bond = Bps(task[id].bounty, ChallengeBondBps),
                     !.deadline = now + AdjudicationWindow]
  <2>1. /\ a = CreatorOf(id) \/ now > CreatorPriorityDeadline(id)
        /\ dispute' = [dispute EXCEPT ![id] = d]
        /\ task' = [task EXCEPT ![id].status = "Disputed"]
        /\ now' = now
    BY <1>2 DEF OpenChallenge
  <2>2. d.challenger = a
    BY DEF NoDispute
  <2> HIDE DEF d
  <2>3. dispute'[id] = d /\ \A i \in TaskIds \ {id} : dispute'[i] = dispute[i]
    BY <1>1, <2>1
  <2>4. Challenged(id)
    BY <2>1, <2>2, <2>3, SetsStatus DEF Challenged
  <2>5. \A i \in TaskIds \ {id} : DisputeRests(i)
    BY <2>1, <2>3, SetsStatus DEF DisputeRests
  <2> QED
    BY <2>4, <2>5 DEF Contests
<1>3. ASSUME NEW B, ResolveUpheld(a, id, B) PROVE \A i \in TaskIds : Contests(i)
  <2>1. /\ task' = [task EXCEPT ![id] = OverturnedTask(id)]
        /\ CloseDispute(id, "Upheld")
    BY <1>3 DEF ResolveUpheld
  <2>2. task'[id].status = "Finalized" /\ \A i \in TaskIds \ {id} : task'[i] = task[i]
    BY <1>1, <2>1 DEF OverturnedTask, TaskType
  <2>3. \A i \in TaskIds \ {id} : dispute'[i] = dispute[i]
    BY <1>1, <2>1 DEF CloseDispute
  <2> QED
    BY <2>2, <2>3, LeavesDispute
<1>4. ASSUME NEW B, ResolveRejected(a, id, B) PROVE \A i \in TaskIds : Contests(i)
  <2>1. task' = [task EXCEPT ![id].status = "Finalized"] /\ CloseDispute(id, "Rejected")
    BY <1>4 DEF ResolveRejected
  <2>2. \A i \in TaskIds \ {id} : dispute'[i] = dispute[i]
    BY <1>1, <2>1 DEF CloseDispute
  <2> QED
    BY <2>1, <2>2, SetsStatus, LeavesDispute
<1> QED
  BY <1>2, <1>3, <1>4

LEMMA FallbackContests ==
  ASSUME TypeOK, FallbackNext
  PROVE  \A i \in TaskIds : Contests(i)
<1> PICK id \in TaskIds : FinalizeTask(id) \/ ExpireTask(id) \/ ExpireDispute(id)
  BY DEF FallbackNext
<1>1. dispute \in [TaskIds -> DisputeType] /\ task \in [TaskIds -> TaskType]
  BY DEF TypeOK
<1>2. ASSUME FinalizeTask(id) PROVE \A i \in TaskIds : Contests(i)
  BY <1>2, SetsStatus, LeavesDispute DEF FinalizeTask
<1>3. ASSUME ExpireTask(id) PROVE \A i \in TaskIds : Contests(i)
  <2> DEFINE o == IF task[id].revealedCount > 0 THEN "Conflict" ELSE "Expired"
  <2>1. /\ task' = [task EXCEPT ![id].status = "Expired", ![id].outcome = o]
        /\ UNCHANGED dispute
    BY <1>3 DEF ExpireTask
  <2> HIDE DEF o
  <2>2. task'[id].status = "Expired" /\ \A i \in TaskIds \ {id} : task'[i] = task[i]
    BY <1>1, <2>1 DEF TaskType
  <2> QED
    BY <2>1, <2>2, LeavesDispute
<1>4. ASSUME ExpireDispute(id) PROVE \A i \in TaskIds : Contests(i)
  <2>1. task' = [task EXCEPT ![id].status = "Finalized"] /\ CloseDispute(id, "Expired")
    BY <1>4 DEF ExpireDispute
  <2>2. \A i \in TaskIds \ {id} : dispute'[i] = dispute[i]
    BY <1>1, <2>1 DEF CloseDispute
  <2> QED
    BY <2>1, <2>2, SetsStatus, LeavesDispute
<1> QED
  BY <1>2, <1>3, <1>4

LEMMA PayoutContests ==
  ASSUME TypeOK, PayoutNext
  PROVE  \A i \in TaskIds : Contests(i)
<1>1. ASSUME NEW id \in TaskIds, task' = FinalizedForClaim(id), UNCHANGED dispute
      PROVE  \A i \in TaskIds : Contests(i)
  <2>1. CASE WindowElapsed(id)
    BY <1>1, <2>1, SetsStatus, LeavesDispute DEF FinalizedForClaim
  <2>2. CASE ~WindowElapsed(id)
    BY <1>1, <2>2, NothingContests DEF FinalizedForClaim
  <2> QED
    BY <2>1, <2>2
<1>2. /\ UNCHANGED dispute
      /\ UNCHANGED task \/ \E id \in TaskIds : task' = FinalizedForClaim(id)
  BY DEF PayoutNext, Withdraw, ClaimReward, RefundCreator, CallReturns, rounds
<1> QED
  BY <1>1, <1>2, NothingContests

LEMMA EveryStepContests ==
  ASSUME TypeOK, [Next]_vars
  PROVE  \A i \in TaskIds : Contests(i)
<1>1. CASE RegistryNext \/ AdminNext \/ Tick \/ UNCHANGED vars
  BY <1>1, NothingContests
  DEF RegistryNext, RegisterVerifier, SetVerifierActive, SetVerifierApproval,
      WithdrawStake, AdminNext, SetPaused, GrantRole, RevokeRole, Tick, vars, rounds
<1> QED
  BY <1>1, RoundContests, KeeperContests, DisputeContests, FallbackContests, PayoutContests
  DEF Next

(* In the first half of a dispute window nobody but the creator can hold the *)
(* one challenge a task ever has.                                            *)
THEOREM CreatorIsFirst == Spec => []CreatorFirst
<1>1. Init => CreatorFirst
  BY DEF Init, Deployed, CreatorFirst, NoTask
<1>2. TypeOK /\ CreatorFirst /\ [Next]_vars => CreatorFirst'
  <2> SUFFICES ASSUME TypeOK, CreatorFirst, [Next]_vars, NEW i \in TaskIds,
                      task'[i].status = "Disputed",
                      now' <= task'[i].consensusAt + task'[i].disputeWindow \div 2
               PROVE  dispute'[i].challenger = CreatorOf(i)
    BY DEF CreatorFirst
  <2>1. now \in Nat /\ now' \in Nat /\ now' >= now
    BY ClockStep DEF TypeOK
  <2>2. task[i].consensusAt \in Nat /\ task[i].disputeWindow \in Nat
    BY DEF TypeOK, TaskType
  <2>3. task[i].consensusAt + task[i].disputeWindow \div 2 \in Nat
    BY <2>2
  <2>4. Contests(i)
    BY EveryStepContests
  <2>5. CASE DisputeRests(i)
    BY <2>1, <2>3, <2>5 DEF DisputeRests, CreatorFirst
  <2>6. CASE Challenged(i)
    BY <2>1, <2>3, <2>6 DEF Challenged, CreatorPriorityDeadline
  <2> QED
    BY <2>4, <2>5, <2>6 DEF Contests, NotDisputed
<1> QED
  BY TypeCorrect, <1>1, <1>2, PTL DEF Spec

-----------------------------------------------------------------------------
(* The admin role. *)

LEMMA RolesRest ==
  ASSUME [Next]_vars, ~AdminNext
  PROVE  UNCHANGED roles
<1>1. CASE RoundNext
  BY <1>1 DEF RoundNext, CreateTask, CancelTask, CommitReport, RevealReport, registry
<1>2. CASE KeeperNext
  BY <1>2, KeeperFrame DEF registry
<1>3. CASE DisputeNext
  BY <1>3, DisputeFrame DEF registry
<1>4. CASE FallbackNext
  BY <1>4, FallbackFrame DEF registry
<1>5. CASE PayoutNext
  BY <1>5 DEF PayoutNext, Withdraw, ClaimReward, RefundCreator, CallReturns, registry
<1>6. CASE RegistryNext
  BY <1>6 DEF RegistryNext, RegisterVerifier, SetVerifierActive,
              SetVerifierApproval, WithdrawStake
<1>7. CASE Tick \/ UNCHANGED vars
  BY <1>7 DEF Tick, vars, registry
<1> QED
  BY <1>1, <1>2, <1>3, <1>4, <1>5, <1>6, <1>7 DEF Next

LEMMA AdminStep ==
  ASSUME TypeOK, AdminNeverLost, [Next]_vars
  PROVE  AdminNeverLost'
<1>1. CASE ~AdminNext
  BY <1>1, RolesRest DEF AdminNeverLost
<1>2. CASE AdminNext
  <2>1. roles \in [Roles -> SUBSET Accounts] /\ "DEFAULT_ADMIN" \in Roles
    BY DEF TypeOK, Roles
  <2>2. ASSUME NEW a \in Accounts, NEW role \in Roles, NEW b \in Accounts,
               GrantRole(a, role, b)
        PROVE  roles'["DEFAULT_ADMIN"] # {}
    BY <2>1, <2>2 DEF GrantRole, AdminNeverLost
  <2>3. ASSUME NEW a \in Accounts, NEW role \in Roles, NEW b \in Accounts,
               RevokeRole(a, role, b)
        PROVE  roles'["DEFAULT_ADMIN"] # {}
    <3>1. a \in roles'["DEFAULT_ADMIN"]
      BY <2>1, <2>3 DEF RevokeRole
    <3> QED
      BY <3>1
  <2>4. ASSUME NEW a \in Accounts, NEW value \in BOOLEAN, SetPaused(a, value)
        PROVE  roles'["DEFAULT_ADMIN"] # {}
    BY <2>4 DEF SetPaused, AdminNeverLost
  <2> QED
    BY <1>2, <2>2, <2>3, <2>4 DEF AdminNext, AdminNeverLost
<1> QED
  BY <1>1, <1>2

(* However roles are granted and revoked, in whatever order and by however   *)
(* many admins, the contract never loses its last admin.                     *)
THEOREM AdminKept == Spec => []AdminNeverLost
<1>1. Init => AdminNeverLost
  BY DEF Init, Deployed, AdminNeverLost, Roles
<1>2. TypeOK /\ AdminNeverLost /\ [Next]_vars => AdminNeverLost'
  BY AdminStep
<1> QED
  BY TypeCorrect, <1>1, <1>2, PTL DEF Spec
=============================================================================

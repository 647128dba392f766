--------------------------- MODULE ProofRelayBooks ---------------------------
(***************************************************************************)
(* The money of the escrow contract, for any accounts, tasks and inputs.    *)
(*                                                                         *)
(* The books: every liability bucket is the sum of the entries it stands    *)
(* for, what a classification has set aside is the whole bounty, and the    *)
(* counters of a round are the sizes of the sets they count. Total counts   *)
(* units, so its laws are laws of Cardinality.                              *)
(*                                                                         *)
(* On the books rest the rest: what one step may do to the money of a task, *)
(* whom a keeper can have paid, what a failed challenge moves, that the     *)
(* contract implements TaskEscrow, and who is paid under which verdict.     *)
(***************************************************************************)
EXTENDS ProofRelayProofs

-----------------------------------------------------------------------------
(* Sums. *)

LEMMA TotalSame ==
  ASSUME NEW S, NEW f, NEW g, \A a \in S : f[a] = g[a]
  PROVE  Total(f, S) = Total(g, S)
<1>1. {{a} \X (1..f[a]) : a \in S} = {{a} \X (1..g[a]) : a \in S}
  OBVIOUS
<1> QED
  BY <1>1 DEF Total, Units

(* A unit of f over S, told by its parts. *)
LEMMA UnitsMember ==
  ASSUME NEW S, NEW f, NEW u
  PROVE  u \in Units(f, S) <=> \E a \in S : \E n \in 1..f[a] : u = <<a, n>>
  BY DEF Units

(* The whole is the sum of its parts. *)
LEMMA TotalParts ==
  ASSUME NEW T, IsFiniteSet(T), NEW S \in SUBSET T, NEW f, \A a \in T : f[a] \in Nat
  PROVE  Total(f, T) = Total(f, S) + Total(f, T \ S)
<1>1. IsFiniteSet(S) /\ IsFiniteSet(T \ S)
  BY FS_Subset
<1>2. /\ IsFiniteSet(Units(f, S)) /\ IsFiniteSet(Units(f, T \ S))
      /\ Total(f, S) \in Nat /\ Total(f, T \ S) \in Nat
  BY <1>1, UnitsFinite
<1>3. Units(f, T) = Units(f, S) \cup Units(f, T \ S)
  BY DEF Units
<1>4. Units(f, S) \cap Units(f, T \ S) = {}
  BY UnitsMember
<1>5. Cardinality(Units(f, S) \cap Units(f, T \ S)) = 0
  BY <1>4, FS_EmptySet
<1>6. Cardinality(Units(f, T)) =
        Cardinality(Units(f, S)) + Cardinality(Units(f, T \ S)) - 0
  BY <1>2, <1>3, <1>5, FS_Union
<1> QED
  BY <1>2, <1>6 DEF Total

(* The same amount for each member of S, and nothing for the others. *)
LEMMA TotalEven ==
  ASSUME NEW T, IsFiniteSet(T), NEW S \in SUBSET T, NEW c \in Nat, NEW f,
         \A a \in T : f[a] = IF a \in S THEN c ELSE 0
  PROVE  Total(f, T) = c * Cardinality(S)
<1>1. IsFiniteSet(S) /\ Cardinality(S) \in Nat
  BY FS_Subset, FS_CardinalityType
<1>2. IsFiniteSet(1..c) /\ Cardinality(1..c) = c
  BY FS_Interval
<1>3. Units(f, T) = S \X (1..c)
  <2>1. ASSUME NEW a \in T, a \notin S PROVE 1..f[a] = {}
    BY <2>1
  <2>2. ASSUME NEW a \in S PROVE f[a] = c /\ a \in T
    OBVIOUS
  <2>3. ASSUME NEW u \in Units(f, T) PROVE u \in S \X (1..c)
    BY <2>1, <2>2, <2>3, UnitsMember
  <2>4. ASSUME NEW u \in S \X (1..c) PROVE u \in Units(f, T)
    BY <2>2, <2>4, UnitsMember
  <2> QED
    BY <2>3, <2>4
<1>4. Cardinality(S \X (1..c)) = Cardinality(S) * c
  BY <1>1, <1>2, FS_Product
<1> QED
  BY <1>1, <1>3, <1>4, SMT DEF Total

LEMMA TotalOne ==
  ASSUME NEW T, IsFiniteSet(T), NEW a \in T, NEW f, \A b \in T : f[b] \in Nat
  PROVE  Total(f, T) = f[a] + Total(f, T \ {a})
<1>1. IsFiniteSet({a}) /\ Cardinality({a}) = 1
  BY FS_Singleton
<1>2. Total(f, {a}) = f[a] * Cardinality({a})
  BY <1>1, TotalEven
<1>3. Total(f, {a}) = f[a]
  BY <1>1, <1>2
<1> QED
  BY <1>3, TotalParts

(* A sum whose summand changes at one place. *)
LEMMA TotalAt ==
  ASSUME NEW T, IsFiniteSet(T), NEW a \in T, NEW f, NEW g,
         \A b \in T : f[b] \in Nat /\ g[b] \in Nat,
         \A b \in T \ {a} : g[b] = f[b]
  PROVE  Total(g, T) = Total(f, T) - f[a] + g[a]
<1>1. Total(f, T) = f[a] + Total(f, T \ {a}) /\ Total(g, T) = g[a] + Total(g, T \ {a})
  BY TotalOne
<1>2. Total(g, T \ {a}) = Total(f, T \ {a})
  BY TotalSame
<1>3. IsFiniteSet(T \ {a})
  BY FS_Subset
<1>4. Total(f, T \ {a}) \in Nat
  BY <1>3, UnitsFinite
<1> QED
  BY <1>1, <1>2, <1>4

(* A sum of sums: the units of g follow those of f in those of h. *)
LEMMA TotalPlus ==
  ASSUME NEW T, IsFiniteSet(T), NEW f, NEW g, NEW h,
         \A a \in T : f[a] \in Nat /\ g[a] \in Nat /\ h[a] = f[a] + g[a]
  PROVE  Total(h, T) = Total(f, T) + Total(g, T)
<1> DEFINE U == Units(f, T)
           V == Units(g, T)
           W == Units(h, T)
           shift == [v \in V |-> <<v[1], v[2] + f[v[1]]>>]
<1>1. \A a \in T : h[a] \in Nat
  OBVIOUS
<1>2. /\ IsFiniteSet(U) /\ IsFiniteSet(V) /\ IsFiniteSet(W)
      /\ Total(f, T) \in Nat /\ Total(g, T) \in Nat
  BY <1>1, UnitsFinite
<1>3. U \subseteq W
  <2> SUFFICES ASSUME NEW a \in T, NEW n \in 1..f[a] PROVE n \in 1..h[a]
    BY UnitsMember
  <2> QED
    OBVIOUS
<1>4. shift \in Bijection(V, W \ U)
  <2>1. ASSUME NEW v \in V PROVE shift[v] \in W \ U
    <3>1. PICK a \in T : \E n \in 1..g[a] : v = <<a, n>>
      BY UnitsMember
    <3>2. PICK n \in 1..g[a] : v = <<a, n>>
      BY <3>1
    <3>3. shift[v] = <<a, n + f[a]>>
      BY <3>2
    <3>4. n + f[a] \in 1..h[a] /\ n + f[a] \notin 1..f[a]
      OBVIOUS
    <3>5. <<a, n + f[a]>> \in W
      BY <3>4, UnitsMember
    <3>6. <<a, n + f[a]>> \notin U
      BY <3>4, UnitsMember
    <3> QED
      BY <3>3, <3>5, <3>6
  <2>2. ASSUME NEW v \in V, NEW w \in V, shift[v] = shift[w] PROVE v = w
    <3>1. PICK a \in T : \E n \in 1..g[a] : v = <<a, n>>
      BY UnitsMember
    <3>2. PICK n \in 1..g[a] : v = <<a, n>>
      BY <3>1
    <3>3. PICK b \in T : \E m \in 1..g[b] : w = <<b, m>>
      BY UnitsMember
    <3>4. PICK m \in 1..g[b] : w = <<b, m>>
      BY <3>3
    <3>5. <<a, n + f[a]>> = <<b, m + f[b]>>
      BY <2>2, <3>2, <3>4
    <3>6. a = b /\ n + f[a] = m + f[a]
      BY <3>5
    <3> QED
      BY <3>2, <3>4, <3>6
  <2>3. ASSUME NEW w \in W \ U PROVE \E v \in V : shift[v] = w
    <3>1. PICK a \in T : \E n \in 1..h[a] : w = <<a, n>>
      BY UnitsMember
    <3>2. PICK n \in 1..h[a] : w = <<a, n>>
      BY <3>1
    <3>3. n \notin 1..f[a]
      BY <3>2, UnitsMember
    <3>4. n - f[a] \in 1..g[a] /\ (n - f[a]) + f[a] = n
      BY <3>3
    <3>5. <<a, n - f[a]>> \in V
      BY <3>4, UnitsMember
    <3>6. shift[<<a, n - f[a]>>] = w
      BY <3>2, <3>4, <3>5
    <3> QED
      BY <3>5, <3>6
  <2>4. shift = [v \in V |-> shift[v]]
    OBVIOUS
  <2> HIDE DEF shift, V, W, U
  <2>5. shift \in [V -> W \ U]
    BY <2>1, <2>4
  <2>6. shift \in Injection(V, W \ U) /\ shift \in Surjection(V, W \ U)
    BY <2>2, <2>3, <2>5 DEF Injection, IsInjective, Surjection
  <2> QED
    BY <2>6 DEF Bijection
<1>5. Cardinality(W \ U) = Cardinality(V)
  <2> HIDE DEF shift, V, W, U
  <2> QED
    BY <1>2, <1>4, FS_Bijection DEF ExistsBijection
<1>6. Cardinality(W \ U) = Cardinality(W) - Cardinality(U)
  <2>1. Cardinality(W \ U) = Cardinality(W) - Cardinality(W \cap U)
    BY <1>2, FS_Difference
  <2>2. W \cap U = U
    BY <1>3
  <2> QED
    BY <2>1, <2>2
<1>7. Cardinality(W) \in Nat
  BY <1>2, FS_CardinalityType
<1>8. Total(f, T) = Cardinality(U) /\ Total(g, T) = Cardinality(V) /\ Total(h, T) = Cardinality(W)
  BY DEF Total
<1> HIDE DEF shift, U, V, W
<1> QED
  BY <1>2, <1>5, <1>6, <1>7, <1>8

(* What Split deals out over S and to one account is the whole amount. *)
LEMMA TotalSplit ==
  ASSUME NEW f \in [Accounts -> Nat], NEW S \in SUBSET Accounts, NEW pool \in Nat,
         NEW rest \in Accounts, NEW amount \in Nat,
         Share(S, pool) * Cardinality(S) <= amount
  PROVE  /\ Total(Split(f, S, pool, rest, amount), Accounts) = Total(f, Accounts) + amount
         /\ \A a \in Accounts : Split(f, S, pool, rest, amount)[a] >= f[a]
<1> DEFINE s == Share(S, pool)
           c == s * Cardinality(S)
           even == [a \in Accounts |-> IF a \in S THEN s ELSE 0]
           odd == [a \in Accounts |-> IF a \in {rest} THEN amount - c ELSE 0]
           most == [a \in Accounts |-> f[a] + even[a]]
           all == Split(f, S, pool, rest, amount)
<1>1. IsFiniteSet(Accounts) /\ IsFiniteSet(S)
  BY AccountsAssumption, FS_Subset
<1>2. s \in Nat /\ Cardinality(S) \in Nat
  BY <1>1, ShareType, FS_CardinalityType
<1>3. c \in Nat /\ amount - c \in Nat
  <2>1. c \in Nat
    BY <1>2, SMT
  <2> QED
    BY <2>1
<1> HIDE DEF s, c
<1>4. Total(even, Accounts) = s * Cardinality(S)
  BY <1>1, <1>2, TotalEven
<1>5. Total(odd, Accounts) = amount - c
  <2>1. Total(odd, Accounts) = (amount - c) * Cardinality({rest})
    BY <1>1, <1>3, TotalEven
  <2>2. Cardinality({rest}) = 1
    BY FS_Singleton
  <2> QED
    BY <1>3, <2>1, <2>2
<1>6. \A a \in Accounts : f[a] \in Nat /\ even[a] \in Nat /\ odd[a] \in Nat
  BY <1>2, <1>3
<1>7. \A a \in Accounts : all[a] = most[a] + odd[a]
  BY DEF Split, s, c
<1>8. Total(most, Accounts) = Total(f, Accounts) + Total(even, Accounts)
  BY <1>1, <1>6, TotalPlus
<1>9. \A a \in Accounts : most[a] \in Nat
  BY <1>6
<1>10. Total(all, Accounts) = Total(most, Accounts) + Total(odd, Accounts)
  <2> HIDE DEF most, odd, all
  <2> QED
    BY <1>1, <1>6, <1>7, <1>9, TotalPlus
<1>11. Total(f, Accounts) \in Nat
  BY <1>1, UnitsFinite
<1>12. Total(all, Accounts) = Total(f, Accounts) + amount
  <2>1. Total(even, Accounts) = c
    BY <1>4 DEF c
  <2> HIDE DEF most, odd, all, even
  <2> QED
    BY <1>3, <1>5, <1>8, <1>10, <1>11, <2>1
<1>13. \A a \in Accounts : all[a] >= f[a]
  <2> HIDE DEF all, odd, even
  <2> QED
    BY <1>6, <1>7
<1> QED
  BY <1>12, <1>13

-----------------------------------------------------------------------------
(* The inductive invariant: what the books say of one task, and what they    *)
(* rest on.  A task that is not open is blank; before its classification it  *)
(* has set nothing aside; and who revealed has committed.                    *)
Fresh(id) ==
  /\ task[id].status = "None" => task[id] = NoTask
  /\ task[id].status \in {"None"} \cup Unsettled =>
       \A a \in Accounts : allocation[id][a] = 0
  /\ \A a \in Accounts : report[id][a].revealed => report[id][a].commitment # "none"

Counted(id) ==
  /\ task[id].committedCount = Cardinality(TaskVerifiers(id))
  /\ task[id].revealedCount = Cardinality(Revealers(id))
  /\ task[id].committedCount <= task[id].verifierCount

SetAside(id) ==
  task[id].status \in {"Consensus", "Disputed"} => AllocatedTo(id) = task[id].bounty

TaskBooks(id) == Fresh(id) /\ Counted(id) /\ SetAside(id)

EscrowSum    == escrowed = Total([id \in TaskIds |-> Held(id)], TaskIds)
AllocatedSum == allocated = Total([id \in TaskIds |-> AllocatedTo(id)], TaskIds)
PendingSum   == pending = Total(pendingWithdrawals, Accounts)
StakedSum    == staked = Total([a \in Accounts |-> verifier[a].stake], Accounts)

BooksInv ==
  /\ EscrowSum /\ AllocatedSum /\ PendingSum /\ StakedSum
  /\ \A id \in TaskIds : TaskBooks(id)

LEMMA BooksInvGives == BooksInv => BooksBalance
  BY DEF BooksInv, BooksBalance, Accounted, ProvisionalIsWhole, CountsAgree, TaskBooks,
         Counted, SetAside, EscrowSum, AllocatedSum, PendingSum, StakedSum

LEMMA TasksFinite == IsFiniteSet(TaskIds)
<1>1. IsFiniteSet(Creators)
  BY AccountsAssumption, FS_Subset
<1>2. IsFiniteSet(0..(MaxNonce - 1))
  BY InputsAssumption, FS_Interval
<1> QED
  BY <1>1, <1>2, FS_Product DEF TaskIds

LEMMA AmountsType ==
  ASSUME TypeOK, NEW id \in TaskIds
  PROVE  Held(id) \in Nat /\ AllocatedTo(id) \in Nat
<1>1. task[id].bounty \in Nat /\ dispute[id].bond \in Nat
  BY DEF TypeOK, TaskType, DisputeType
<1>2. allocation[id] \in [Accounts -> Nat]
  BY DEF TypeOK
<1>3. AllocatedTo(id) \in Nat
  BY <1>2, AccountsAssumption, UnitsFinite DEF AllocatedTo
<1> QED
  BY <1>1, <1>3 DEF Held

(* A sum of zeros. *)
LEMMA TotalZero ==
  ASSUME NEW T, NEW f, IsFiniteSet(T), \A a \in T : f[a] = 0
  PROVE  Total(f, T) = 0
<1>1. Total(f, T) = 0 * Cardinality({})
  BY TotalEven
<1> QED
  BY <1>1, FS_EmptySet

LEMMA BooksInit == Init => BooksInv
<1> SUFFICES ASSUME Init PROVE BooksInv
  OBVIOUS
<1>1. IsFiniteSet(TaskIds) /\ IsFiniteSet(Accounts)
  BY TasksFinite, AccountsAssumption
<1>2. ASSUME NEW id \in TaskIds
      PROVE  Held(id) = 0 /\ AllocatedTo(id) = 0 /\ TaskBooks(id)
  <2>1. task[id] = NoTask /\ dispute[id] = NoDispute
    BY DEF Init, Deployed
  <2>2. \A a \in Accounts : report[id][a] = NoReport /\ allocation[id][a] = 0
    BY DEF Init, Deployed
  <2>3. TaskVerifiers(id) = {} /\ Revealers(id) = {}
    BY <2>2 DEF TaskVerifiers, Revealers, NoReport
  <2>4. Held(id) = 0
    BY <2>1 DEF Held, NoTask, Unsettled
  <2>5. AllocatedTo(id) = 0
    BY <1>1, <2>2, TotalZero DEF AllocatedTo
  <2>6. TaskBooks(id)
    BY <2>1, <2>2, <2>3, FS_EmptySet
    DEF TaskBooks, Fresh, Counted, SetAside, NoTask, NoReport
  <2> QED
    BY <2>4, <2>5, <2>6
<1>3. escrowed = 0 /\ allocated = 0 /\ pending = 0 /\ staked = 0
  BY DEF Init, Deployed
<1>4. EscrowSum /\ AllocatedSum
  BY <1>1, <1>2, <1>3, TotalZero DEF EscrowSum, AllocatedSum
<1>5. \A a \in Accounts : pendingWithdrawals[a] = 0 /\ verifier[a].stake = 0
  BY DEF Init, Deployed, NoVerifier
<1>6. PendingSum /\ StakedSum
  BY <1>1, <1>3, <1>5, TotalZero DEF PendingSum, StakedSum
<1> QED
  BY <1>2, <1>4, <1>6 DEF BooksInv

-----------------------------------------------------------------------------
(* Steps that change the entries of one task. *)
Elsewhere(id) ==
  \A i \in TaskIds \ {id} :
    /\ task'[i] = task[i] /\ report'[i] = report[i]
    /\ dispute'[i] = dispute[i] /\ allocation'[i] = allocation[i]

LEMMA TaskRested ==
  ASSUME NEW i, TaskBooks(i), task'[i] = task[i], report'[i] = report[i],
         dispute'[i] = dispute[i], allocation'[i] = allocation[i]
  PROVE  TaskBooks(i)' /\ Held(i)' = Held(i) /\ AllocatedTo(i)' = AllocatedTo(i)
<1>1. Held(i)' = Held(i) /\ AllocatedTo(i)' = AllocatedTo(i)
  BY DEF Held, AllocatedTo
<1>2. TaskVerifiers(i)' = TaskVerifiers(i) /\ Revealers(i)' = Revealers(i)
  BY DEF TaskVerifiers, Revealers
<1> QED
  BY <1>1, <1>2 DEF TaskBooks, Fresh, Counted, SetAside

(* The books balance after a step on one task that moves its buckets as it   *)
(* moves its entries.                                                        *)
LEMMA OneTaskMoves ==
  ASSUME TypeOK, TypeOK', BooksInv, NEW id \in TaskIds, Elsewhere(id), TaskBooks(id)',
         escrowed' = escrowed - Held(id) + Held(id)',
         allocated' = allocated - AllocatedTo(id) + AllocatedTo(id)',
         PendingSum', StakedSum'
  PROVE  BooksInv'
<1> DEFINE held == [i \in TaskIds |-> Held(i)]
           heldNext == [i \in TaskIds |-> Held(i)']
           owed == [i \in TaskIds |-> AllocatedTo(i)]
           owedNext == [i \in TaskIds |-> AllocatedTo(i)']
<1>1. \A i \in TaskIds : Held(i) \in Nat /\ AllocatedTo(i) \in Nat
  BY AmountsType
<1>2. ASSUME NEW i \in TaskIds
      PROVE  Held(i)' \in Nat /\ AllocatedTo(i)' \in Nat
  <2>1. task'[i].bounty \in Nat /\ dispute'[i].bond \in Nat
    BY DEF TypeOK, TaskType, DisputeType
  <2>2. allocation'[i] \in [Accounts -> Nat]
    BY DEF TypeOK
  <2>3. Total(allocation'[i], Accounts) \in Nat
    BY <2>2, AccountsAssumption, UnitsFinite
  <2> QED
    BY <2>1, <2>3 DEF Held, AllocatedTo
<1>3. \A i \in TaskIds \ {id} :
         TaskBooks(i)' /\ Held(i)' = Held(i) /\ AllocatedTo(i)' = AllocatedTo(i)
  BY TaskRested DEF Elsewhere, BooksInv
<1>4. Total(heldNext, TaskIds) = Total(held, TaskIds) - Held(id) + Held(id)'
  BY <1>1, <1>2, <1>3, TasksFinite, TotalAt
<1>5. Total(owedNext, TaskIds) = Total(owed, TaskIds) - AllocatedTo(id) + AllocatedTo(id)'
  BY <1>1, <1>2, <1>3, TasksFinite, TotalAt
<1>6. EscrowSum'
  BY <1>4 DEF EscrowSum, BooksInv
<1>7. AllocatedSum'
  BY <1>5 DEF AllocatedSum, BooksInv
<1> QED
  BY <1>3, <1>6, <1>7 DEF BooksInv

LEMMA NoTaskMoves ==
  ASSUME BooksInv, UNCHANGED <<task, report, dispute, allocation, escrowed, allocated>>,
         PendingSum', StakedSum'
  PROVE  BooksInv'
<1>1. \A i \in TaskIds :
         TaskBooks(i)' /\ Held(i)' = Held(i) /\ AllocatedTo(i)' = AllocatedTo(i)
  BY TaskRested DEF BooksInv
<1>2. EscrowSum' /\ AllocatedSum'
  BY <1>1 DEF EscrowSum, AllocatedSum, BooksInv
<1> QED
  BY <1>1, <1>2 DEF BooksInv

(* Whoever is credited or paid, the bucket moves by as much. *)
LEMMA PendingMoves ==
  ASSUME TypeOK, TypeOK', PendingSum, NEW a \in Accounts,
         \A b \in Accounts \ {a} : pendingWithdrawals'[b] = pendingWithdrawals[b],
         pending' = pending - pendingWithdrawals[a] + pendingWithdrawals'[a]
  PROVE  PendingSum'
<1>1. \A b \in Accounts : pendingWithdrawals[b] \in Nat /\ pendingWithdrawals'[b] \in Nat
  BY DEF TypeOK
<1> DEFINE f == pendingWithdrawals
           g == pendingWithdrawals'
<1>2. Total(g, Accounts) = Total(f, Accounts) - f[a] + g[a]
  <2>1. \A b \in Accounts : f[b] \in Nat /\ g[b] \in Nat
    BY <1>1
  <2>2. \A b \in Accounts \ {a} : g[b] = f[b]
    OBVIOUS
  <2>3. IsFiniteSet(Accounts)
    BY AccountsAssumption
  <2> HIDE DEF f, g
  <2> QED
    BY <2>1, <2>2, <2>3, TotalAt
<1> QED
  BY <1>2 DEF PendingSum

LEMMA StakedMoves ==
  ASSUME TypeOK, TypeOK', StakedSum, NEW a \in Accounts,
         \A b \in Accounts \ {a} : verifier'[b] = verifier[b],
         staked' = staked - verifier[a].stake + verifier'[a].stake
  PROVE  StakedSum'
<1> DEFINE f == [b \in Accounts |-> verifier[b].stake]
           g == [b \in Accounts |-> verifier'[b].stake]
<1>1. \A b \in Accounts : f[b] \in Nat /\ g[b] \in Nat
  BY DEF TypeOK, VerifierType
<1>2. Total(g, Accounts) = Total(f, Accounts) - f[a] + g[a]
  <2>1. \A b \in Accounts \ {a} : g[b] = f[b]
    OBVIOUS
  <2>2. IsFiniteSet(Accounts)
    BY AccountsAssumption
  <2> HIDE DEF f, g
  <2> QED
    BY <1>1, <2>1, <2>2, TotalAt
<1> QED
  BY <1>2 DEF StakedSum

LEMMA PendingRests ==
  ASSUME PendingSum, UNCHANGED <<pending, pendingWithdrawals>>
  PROVE  PendingSum'
  BY DEF PendingSum

LEMMA StakedRests ==
  ASSUME StakedSum, staked' = staked, \A b \in Accounts : verifier'[b].stake = verifier[b].stake
  PROVE  StakedSum'
<1>1. [b \in Accounts |-> verifier'[b].stake] = [b \in Accounts |-> verifier[b].stake]
  OBVIOUS
<1> QED
  BY <1>1 DEF StakedSum

(* Allocate deals out the whole amount, and takes from nobody. *)
LEMMA Dealt ==
  ASSUME TypeOK, NEW id \in TaskIds, NEW S \in SUBSET Accounts, NEW pool \in Nat,
         NEW rest \in Accounts, NEW amount \in Nat, Allocate(id, S, pool, rest, amount)
  PROVE  /\ AllocatedTo(id)' = AllocatedTo(id) + amount
         /\ \A i \in TaskIds \ {id} : allocation'[i] = allocation[i]
         /\ \A a \in Accounts : allocation'[id][a] >= allocation[id][a]
         /\ escrowed' = escrowed - amount
         /\ allocated' = allocated + amount
<1>1. /\ Share(S, pool) * Cardinality(S) <= amount
      /\ allocation' = [allocation EXCEPT ![id] = Split(@, S, pool, rest, amount)]
      /\ escrowed' = escrowed - amount
      /\ allocated' = allocated + amount
  BY DEF Allocate
<1>2. allocation \in [TaskIds -> [Accounts -> Nat]]
  BY DEF TypeOK
<1>3. allocation'[id] = Split(allocation[id], S, pool, rest, amount)
  BY <1>1, <1>2
<1>4. \A i \in TaskIds \ {id} : allocation'[i] = allocation[i]
  BY <1>1, <1>2
<1>5. allocation[id] \in [Accounts -> Nat]
  BY <1>2
<1>6. /\ Total(allocation'[id], Accounts) = Total(allocation[id], Accounts) + amount
      /\ \A a \in Accounts : allocation'[id][a] >= allocation[id][a]
  BY <1>1, <1>3, <1>5, TotalSplit
<1> QED
  BY <1>1, <1>4, <1>6 DEF AllocatedTo

(* A task past its round keeps its counters; what it sets aside is to show.  *)
LEMMA PastRound ==
  ASSUME NEW id, TaskBooks(id), report'[id] = report[id],
         task'[id].committedCount = task[id].committedCount,
         task'[id].revealedCount = task[id].revealedCount,
         task'[id].verifierCount = task[id].verifierCount,
         task'[id].status \in {"Consensus", "Disputed"} \cup Terminal,
         SetAside(id)'
  PROVE  TaskBooks(id)'
<1>1. TaskVerifiers(id)' = TaskVerifiers(id) /\ Revealers(id)' = Revealers(id)
  BY DEF TaskVerifiers, Revealers
<1>2. Counted(id)'
  BY <1>1 DEF TaskBooks, Counted
<1>3. Fresh(id)'
  BY DEF TaskBooks, Fresh, Terminal, Unsettled
<1> QED
  BY <1>2, <1>3 DEF TaskBooks

-----------------------------------------------------------------------------
(* One lemma per group of functions. *)

LEMMA RoundBooks ==
  ASSUME TypeOK, TypeOK', BooksInv, RoundNext
  PROVE  BooksInv'
<1>1. ASSUME NEW c \in Creators, NEW spec \in TaskSpecs, NEW value \in Bounties,
             CreateTask(c, spec, value)
      PROVE  BooksInv'
  <2>1. <<c, creatorNonce[c]>> \in TaskIds
    <3>1. c \in Accounts /\ creatorNonce \in [Accounts -> Nat]
      BY AccountsAssumption DEF TypeOK
    <3>2. creatorNonce[c] < MaxNonce
      BY <1>1 DEF CreateTask
    <3> QED
      BY <3>1, <3>2, InputsAssumption, SMT DEF TaskIds
  <2> PICK id \in TaskIds : id = <<c, creatorNonce[c]>>
    BY <2>1
  <2> DEFINE r  == [NoTask EXCEPT !.bounty = value,
                      !.verifierCount = spec.verifierCount,
                      !.commitDeadline = now + spec.commitWindowSec,
                      !.revealDeadline = now + spec.commitWindowSec + spec.revealWindowSec,
                      !.disputeWindow = spec.disputeWindowSec,
                      !.status = "Open"]
  <2>2. /\ task[id].status = "None"
        /\ task' = [task EXCEPT ![id] = r]
        /\ escrowed' = escrowed + value
        /\ UNCHANGED <<report, dispute, registry, allocation, pendingWithdrawals,
                       allocated, pending, staked>>
    BY <1>1 DEF CreateTask
  <2>3. /\ r.status = "Open" /\ r.bounty = value /\ r.verifierCount = spec.verifierCount
        /\ r.committedCount = 0 /\ r.revealedCount = 0
    BY DEF NoTask
  <2>4. value \in Nat /\ spec.verifierCount \in Nat
    BY InputsAssumption DEF TaskSpec
  <2> HIDE DEF r
  <2>5. task'[id] = r /\ \A i \in TaskIds \ {id} : task'[i] = task[i]
    BY <2>2 DEF TypeOK
  <2>6. TaskBooks(id) /\ task[id] = NoTask
    BY <2>2 DEF BooksInv, TaskBooks, Fresh
  <2>7. Held(id) = 0 /\ Held(id)' = value
    BY <2>3, <2>5, <2>6 DEF Held, NoTask, Unsettled
  <2>8. AllocatedTo(id)' = AllocatedTo(id) /\ AllocatedTo(id) \in Nat
    BY <2>2, AmountsType DEF AllocatedTo
  <2>9. TaskBooks(id)'
    <3>1. TaskVerifiers(id)' = TaskVerifiers(id) /\ Revealers(id)' = Revealers(id)
      BY <2>2 DEF TaskVerifiers, Revealers
    <3>2. Cardinality(TaskVerifiers(id)) = 0 /\ Cardinality(Revealers(id)) = 0
      BY <2>6 DEF TaskBooks, Counted, NoTask
    <3>3. Counted(id)'
      BY <2>3, <2>4, <2>5, <3>1, <3>2 DEF Counted
    <3>4. Fresh(id)'
      BY <2>2, <2>3, <2>5, <2>6 DEF TaskBooks, Fresh, NoTask
    <3>5. SetAside(id)'
      BY <2>3, <2>5 DEF SetAside
    <3> QED
      BY <3>3, <3>4, <3>5 DEF TaskBooks
  <2>10. PendingSum' /\ StakedSum'
    BY <2>2, PendingRests, StakedRests DEF BooksInv, registry
  <2>11. Elsewhere(id)
    BY <2>2, <2>5 DEF Elsewhere
  <2>12. escrowed' = escrowed - Held(id) + Held(id)'
    BY <2>2, <2>4, <2>7 DEF TypeOK
  <2>13. allocated' = allocated - AllocatedTo(id) + AllocatedTo(id)'
    BY <2>2, <2>8 DEF TypeOK
  <2> QED
    BY <2>9, <2>10, <2>11, <2>12, <2>13, OneTaskMoves
<1>2. ASSUME NEW id \in TaskIds, NEW a \in Accounts, CancelTask(a, id)
      PROVE  BooksInv'
  <2> DEFINE r == [task[id] EXCEPT !.status = "Cancelled", !.outcome = "Cancelled"]
             bounty == task[id].bounty
  <2>1. /\ task[id].status \in {"Open", "Committing"}
        /\ task' = [task EXCEPT ![id].status = "Cancelled", ![id].outcome = "Cancelled"]
        /\ escrowed' = escrowed - bounty
        /\ pending' = pending + bounty
        /\ pendingWithdrawals' = Credit(pendingWithdrawals, a, bounty)
        /\ UNCHANGED <<report, dispute, registry, allocation, allocated, staked>>
    BY <1>2 DEF CancelTask
  <2>2. task[id] \in TaskType /\ task' = [task EXCEPT ![id] = r]
    BY <2>1 DEF TypeOK
  <2>3. task'[id] = r /\ \A i \in TaskIds \ {id} : task'[i] = task[i]
    BY <2>2 DEF TypeOK
  <2>4. /\ r.status = "Cancelled" /\ r.committedCount = task[id].committedCount
        /\ r.revealedCount = task[id].revealedCount /\ r.verifierCount = task[id].verifierCount
    BY <2>2 DEF TaskType
  <2> HIDE DEF r
  <2>5. bounty \in Nat
    BY <2>2 DEF TaskType
  <2>6. Held(id) = bounty /\ Held(id)' = 0
    BY <2>1, <2>3, <2>4 DEF Held, Unsettled
  <2>7. AllocatedTo(id)' = AllocatedTo(id) /\ AllocatedTo(id) \in Nat
    BY <2>1, AmountsType DEF AllocatedTo
  <2>8. TaskBooks(id)'
    <3>1. SetAside(id)'
      BY <2>3, <2>4 DEF SetAside
    <3> QED
      BY <2>1, <2>3, <2>4, <3>1, PastRound DEF BooksInv, Terminal
  <2>9. PendingSum'
    <3>1. pendingWithdrawals'[a] = pendingWithdrawals[a] + bounty
      BY <2>1 DEF Credit, TypeOK
    <3>2. \A b \in Accounts \ {a} : pendingWithdrawals'[b] = pendingWithdrawals[b]
      BY <2>1 DEF Credit, TypeOK
    <3>3. pendingWithdrawals[a] \in Nat /\ pending \in Nat
      BY DEF TypeOK
    <3>4. pending' = pending - pendingWithdrawals[a] + pendingWithdrawals'[a]
      BY <2>1, <2>5, <3>1, <3>3
    <3> QED
      BY <3>2, <3>4, PendingMoves DEF BooksInv
  <2>10. StakedSum'
    BY <2>1, StakedRests DEF BooksInv, registry
  <2>11. Elsewhere(id)
    BY <2>1, <2>3 DEF Elsewhere
  <2>12. escrowed' = escrowed - Held(id) + Held(id)'
    BY <2>1, <2>5, <2>6 DEF TypeOK
  <2>13. allocated' = allocated - AllocatedTo(id) + AllocatedTo(id)'
    BY <2>1, <2>7 DEF TypeOK
  <2> QED
    BY <2>8, <2>9, <2>10, <2>11, <2>12, <2>13, OneTaskMoves
<1>3. ASSUME NEW id \in TaskIds, NEW a \in Accounts, NEW m \in Commitments,
             CommitReport(a, id, m)
      PROVE  BooksInv'
  <2> DEFINE r == [task[id] EXCEPT !.committedCount = task[id].committedCount + 1,
                                   !.status = "Committing"]
  <2>1. /\ task[id].status \in {"Open", "Committing"}
        /\ task[id].committedCount < task[id].verifierCount
        /\ m # "none" /\ report[id][a].commitment = "none"
        /\ report' = [report EXCEPT ![id][a].commitment = m]
        /\ task' = [task EXCEPT ![id].committedCount = @ + 1, ![id].status = "Committing"]
        /\ UNCHANGED <<dispute, registry, ledger>>
    BY <1>3 DEF CommitReport
  <2>2. task[id] \in TaskType /\ task' = [task EXCEPT ![id] = r]
    BY <2>1 DEF TypeOK
  <2>3. task'[id] = r /\ \A i \in TaskIds \ {id} : task'[i] = task[i]
    BY <2>2 DEF TypeOK
  <2>4. /\ r.status = "Committing" /\ r.committedCount = task[id].committedCount + 1
        /\ r.revealedCount = task[id].revealedCount /\ r.verifierCount = task[id].verifierCount
        /\ r.bounty = task[id].bounty
    BY <2>2 DEF TaskType
  <2> HIDE DEF r
  <2>5. /\ \A i \in TaskIds \ {id} : report'[i] = report[i]
        /\ \A b \in Accounts \ {a} : report'[id][b] = report[id][b]
        /\ report'[id][a].commitment = m
        /\ report'[id][a].revealed = report[id][a].revealed
    <3>1. report \in [TaskIds -> [Accounts -> ReportType]]
      BY DEF TypeOK
    <3>2. report[id][a] \in ReportType
      BY <3>1
    <3> QED
      BY <2>1, <3>1, <3>2 DEF ReportType
  <2>6. TaskBooks(id)
    BY DEF BooksInv
  <2>7. TaskVerifiers(id)' = TaskVerifiers(id) \cup {a} /\ a \notin TaskVerifiers(id)
    BY <2>1, <2>5 DEF TaskVerifiers
  <2>8. ~report[id][a].revealed
    BY <2>1, <2>6 DEF TaskBooks, Fresh
  <2>9. Revealers(id)' = Revealers(id)
    <3>1. ASSUME NEW b \in Accounts
          PROVE  b \in Revealers(id)' <=> b \in Revealers(id)
      <4>1. CASE b = a
        BY <2>5, <2>8, <4>1 DEF Revealers
      <4>2. CASE b # a
        BY <2>5, <2>7, <4>2 DEF Revealers
      <4> QED
        BY <4>1, <4>2
    <3>2. Revealers(id) \subseteq Accounts /\ Revealers(id)' \subseteq Accounts
      BY DEF Revealers, TaskVerifiers
    <3> QED
      BY <3>1, <3>2
  <2>10. IsFiniteSet(TaskVerifiers(id))
    BY AccountsAssumption, PartiesType, FS_Subset
  <2>11. Cardinality(TaskVerifiers(id) \cup {a}) = Cardinality(TaskVerifiers(id)) + 1
    BY <2>7, <2>10, FS_AddElement
  <2>12. TaskBooks(id)'
    <3>1. Counted(id)'
      BY <2>1, <2>2, <2>3, <2>4, <2>6, <2>7, <2>9, <2>11 DEF TaskBooks, Counted, TaskType
    <3>2. Fresh(id)'
      BY <2>1, <2>3, <2>4, <2>5, <2>6 DEF TaskBooks, Fresh, Unsettled, ledger
    <3>3. SetAside(id)'
      BY <2>3, <2>4 DEF SetAside
    <3> QED
      BY <3>1, <3>2, <3>3 DEF TaskBooks
  <2>13. Held(id)' = Held(id) /\ AllocatedTo(id)' = AllocatedTo(id)
    BY <2>1, <2>3, <2>4 DEF Held, AllocatedTo, Unsettled, ledger
  <2>14. Held(id) \in Nat /\ AllocatedTo(id) \in Nat
    BY AmountsType
  <2>15. PendingSum' /\ StakedSum'
    BY <2>1, PendingRests, StakedRests DEF BooksInv, registry, ledger, buckets
  <2>16. Elsewhere(id)
    BY <2>1, <2>3, <2>5 DEF Elsewhere, ledger
  <2>17. /\ escrowed' = escrowed - Held(id) + Held(id)'
         /\ allocated' = allocated - AllocatedTo(id) + AllocatedTo(id)'
    BY <2>1, <2>13, <2>14 DEF TypeOK, ledger, buckets
  <2> QED
    BY <2>12, <2>15, <2>16, <2>17, OneTaskMoves
<1>4. ASSUME NEW id \in TaskIds, NEW a \in Accounts, RevealReport(a, id)
      PROVE  BooksInv'
  <2> DEFINE r == [task[id] EXCEPT !.revealedCount = task[id].revealedCount + 1,
                                   !.status = "Revealing"]
  <2>1. /\ task[id].status \in {"Committing", "Revealing"}
        /\ report[id][a].commitment = "own" /\ ~report[id][a].revealed
        /\ report' = [report EXCEPT ![id][a].revealed = TRUE]
        /\ task' = [task EXCEPT ![id].revealedCount = @ + 1, ![id].status = "Revealing"]
        /\ UNCHANGED <<dispute, registry, ledger>>
    BY <1>4 DEF RevealReport
  <2>2. task[id] \in TaskType /\ task' = [task EXCEPT ![id] = r]
    BY <2>1 DEF TypeOK
  <2>3. task'[id] = r /\ \A i \in TaskIds \ {id} : task'[i] = task[i]
    BY <2>2 DEF TypeOK
  <2>4. /\ r.status = "Revealing" /\ r.committedCount = task[id].committedCount
        /\ r.revealedCount = task[id].revealedCount + 1
        /\ r.verifierCount = task[id].verifierCount /\ r.bounty = task[id].bounty
    BY <2>2 DEF TaskType
  <2> HIDE DEF r
  <2>5. /\ \A i \in TaskIds \ {id} : report'[i] = report[i]
        /\ \A b \in Accounts \ {a} : report'[id][b] = report[id][b]
        /\ report'[id][a].commitment = "own"
        /\ report'[id][a].revealed
    <3>1. report \in [TaskIds -> [Accounts -> ReportType]]
      BY DEF TypeOK
    <3>2. report[id][a] \in ReportType
      BY <3>1
    <3> QED
      BY <2>1, <3>1, <3>2 DEF ReportType
  <2>6. TaskBooks(id)
    BY DEF BooksInv
  <2>7. TaskVerifiers(id)' = TaskVerifiers(id)
    BY <2>1, <2>5 DEF TaskVerifiers
  <2>8. Revealers(id)' = Revealers(id) \cup {a} /\ a \notin Revealers(id)
    BY <2>1, <2>5, <2>7 DEF Revealers, TaskVerifiers
  <2>9. IsFiniteSet(Revealers(id))
    BY AccountsAssumption, PartiesType, FS_Subset
  <2>10. Cardinality(Revealers(id) \cup {a}) = Cardinality(Revealers(id)) + 1
    BY <2>8, <2>9, FS_AddElement
  <2>11. TaskBooks(id)'
    <3>1. Counted(id)'
      BY <2>3, <2>4, <2>6, <2>7, <2>8, <2>10 DEF TaskBooks, Counted
    <3>2. Fresh(id)'
      BY <2>1, <2>3, <2>4, <2>5, <2>6 DEF TaskBooks, Fresh, Unsettled, ledger
    <3>3. SetAside(id)'
      BY <2>3, <2>4 DEF SetAside
    <3> QED
      BY <3>1, <3>2, <3>3 DEF TaskBooks
  <2>12. Held(id)' = Held(id) /\ AllocatedTo(id)' = AllocatedTo(id)
    BY <2>1, <2>3, <2>4 DEF Held, AllocatedTo, Unsettled, ledger
  <2>13. Held(id) \in Nat /\ AllocatedTo(id) \in Nat
    BY AmountsType
  <2>14. PendingSum' /\ StakedSum'
    BY <2>1, PendingRests, StakedRests DEF BooksInv, registry, ledger, buckets
  <2>15. Elsewhere(id)
    BY <2>1, <2>3, <2>5 DEF Elsewhere, ledger
  <2>16. /\ escrowed' = escrowed - Held(id) + Held(id)'
         /\ allocated' = allocated - AllocatedTo(id) + AllocatedTo(id)'
    BY <2>1, <2>12, <2>13 DEF TypeOK, ledger, buckets
  <2> QED
    BY <2>11, <2>14, <2>15, <2>16, OneTaskMoves
<1> QED
  BY <1>1, <1>2, <1>3, <1>4 DEF RoundNext

(* A step that deals out what a task holds, and leaves its round alone. *)
LEMMA DealBooks ==
  ASSUME TypeOK, TypeOK', BooksInv, NEW id \in TaskIds, NEW S \in SUBSET Accounts,
         NEW pool \in Nat, NEW rest \in Accounts, NEW amount \in Nat,
         Allocate(id, S, pool, rest, amount), Held(id) = amount, Held(id)' = 0,
         \A i \in TaskIds \ {id} : task'[i] = task[i] /\ dispute'[i] = dispute[i],
         TaskBooks(id)',
         UNCHANGED <<report, verifier, pendingWithdrawals, pending, staked>>
  PROVE  BooksInv'
<1>1. /\ AllocatedTo(id)' = AllocatedTo(id) + amount
      /\ \A i \in TaskIds \ {id} : allocation'[i] = allocation[i]
      /\ escrowed' = escrowed - amount /\ allocated' = allocated + amount
  BY Dealt
<1>2. AllocatedTo(id) \in Nat /\ escrowed \in Nat /\ allocated \in Nat
  BY AmountsType DEF TypeOK
<1>3. Elsewhere(id)
  BY <1>1 DEF Elsewhere
<1>4. PendingSum' /\ StakedSum'
  BY PendingRests, StakedRests DEF BooksInv
<1>5. escrowed' = escrowed - Held(id) + Held(id)'
  BY <1>1, <1>2
<1>6. allocated' = allocated - AllocatedTo(id) + AllocatedTo(id)'
  BY <1>1, <1>2
<1> QED
  BY <1>3, <1>4, <1>5, <1>6, OneTaskMoves

LEMMA ClassifyBooks ==
  ASSUME TypeOK, TypeOK', BooksInv, NEW id \in TaskIds, NEW a, NEW o, NEW rate,
         NEW S \in SUBSET Accounts, NEW pool \in Nat, Classify(a, id, o, rate, S, pool)
  PROVE  BooksInv'
<1> DEFINE r == [task[id] EXCEPT !.outcome = o, !.rewardBps = rate,
                   !.consensusAt = now % Uint32Size, !.status = "Consensus"]
<1>1. /\ task[id].status \in Unsettled
      /\ Allocate(id, S, pool, CreatorOf(id), task[id].bounty)
      /\ task' = [task EXCEPT ![id].outcome = o, ![id].rewardBps = rate,
                    ![id].consensusAt = now % Uint32Size, ![id].status = "Consensus"]
      /\ UNCHANGED <<report, dispute, registry, pendingWithdrawals, pending, staked>>
  BY DEF Classify
<1>2. task[id] \in TaskType /\ task' = [task EXCEPT ![id] = r]
  BY <1>1 DEF TypeOK
<1>3. task'[id] = r /\ \A i \in TaskIds \ {id} : task'[i] = task[i]
  BY <1>2 DEF TypeOK
<1>4. /\ r.status = "Consensus" /\ r.committedCount = task[id].committedCount
      /\ r.revealedCount = task[id].revealedCount /\ r.verifierCount = task[id].verifierCount
      /\ r.bounty = task[id].bounty
  BY <1>2 DEF TaskType
<1> HIDE DEF r
<1>5. task[id].bounty \in Nat /\ CreatorOf(id) \in Accounts
  BY <1>2, AccountsAssumption DEF TaskType, TaskIds, CreatorOf
<1>6. Held(id) = task[id].bounty /\ Held(id)' = 0
  BY <1>1, <1>3, <1>4 DEF Held, Unsettled
<1>7. TaskBooks(id)
  BY DEF BooksInv
<1>8. AllocatedTo(id) = 0
  BY <1>1, <1>7, AccountsAssumption, TotalZero DEF TaskBooks, Fresh, AllocatedTo
<1>9. AllocatedTo(id)' = task[id].bounty
  <2>1. AllocatedTo(id)' = AllocatedTo(id) + task[id].bounty
    BY <1>1, <1>5, Dealt
  <2> QED
    BY <1>5, <1>8, <2>1
<1>10. TaskBooks(id)'
  <2>1. SetAside(id)'
    BY <1>3, <1>4, <1>9 DEF SetAside
  <2> QED
    BY <1>1, <1>3, <1>4, <1>7, <2>1, PastRound
<1> QED
  BY <1>1, <1>3, <1>5, <1>6, <1>10, DealBooks DEF registry

LEMMA KeeperBooks ==
  ASSUME TypeOK, TypeOK', BooksInv, KeeperNext
  PROVE  BooksInv'
<1> PICK id \in TaskIds, a \in Accounts :
        \/ \E B \in SUBSET Accounts, rate \in RewardRates :
              FinalizeAsConsensus(a, id, B, rate)
        \/ FinalizeAsConflict(a, id)
        \/ FinalizeAsNoQuorum(a, id)
  BY DEF KeeperNext
<1>1. task[id].bounty \in Nat
  BY DEF TypeOK, TaskType
<1>2. ASSUME NEW B \in SUBSET Accounts, NEW rate \in RewardRates,
             FinalizeAsConsensus(a, id, B, rate)
      PROVE  BooksInv'
  <2>1. Bps(task[id].bounty, rate) \in Nat
    BY <1>1, InputsAssumption, BpsType
  <2> QED
    BY <1>2, <2>1, ClassifyBooks DEF FinalizeAsConsensus
<1>3. CASE FinalizeAsConflict(a, id)
  <2>1. Bps(task[id].bounty, ConflictRateBps) \in Nat
    BY <1>1, BpsBound, ParamsAssumption
  <2> QED
    BY <1>3, <2>1, PartiesType, ClassifyBooks DEF FinalizeAsConflict
<1>4. CASE FinalizeAsNoQuorum(a, id)
  BY <1>4, ClassifyBooks DEF FinalizeAsNoQuorum
<1> QED
  BY <1>2, <1>3, <1>4

(* A task whose status alone is set, past its round. *)
LEMMA StatusSet ==
  ASSUME TypeOK, NEW id \in TaskIds, NEW s \in Statuses,
         task' = [task EXCEPT ![id].status = s]
  PROVE  /\ \A i \in TaskIds \ {id} : task'[i] = task[i]
         /\ task'[id].status = s /\ task'[id].bounty = task[id].bounty
         /\ task'[id].committedCount = task[id].committedCount
         /\ task'[id].revealedCount = task[id].revealedCount
         /\ task'[id].verifierCount = task[id].verifierCount
         /\ task'[id].consensusAt = task[id].consensusAt
         /\ task'[id].disputeWindow = task[id].disputeWindow
<1>1. task \in [TaskIds -> TaskType]
  BY DEF TypeOK
<1>2. task[id] \in TaskType
  BY <1>1
<1>3. task'[id] = [task[id] EXCEPT !.status = s] /\ \A i \in TaskIds \ {id} : task'[i] = task[i]
  BY <1>1
<1> QED
  BY <1>2, <1>3 DEF TaskType

LEMMA ChallengeBooks ==
  ASSUME TypeOK, TypeOK', BooksInv, NEW id \in TaskIds, NEW a \in Accounts,
         OpenChallenge(a, id)
  PROVE  BooksInv'
<1> DEFINE bond == Bps(task[id].bounty, ChallengeBondBps)
           d == [NoDispute EXCEPT !.challenger = a, !.bond = bond,
                                  !.deadline = now + AdjudicationWindow]
<1>1. /\ task[id].status = "Consensus"
      /\ dispute' = [dispute EXCEPT ![id] = d]
      /\ task' = [task EXCEPT ![id].status = "Disputed"]
      /\ escrowed' = escrowed + bond
      /\ UNCHANGED <<report, registry, allocation, pendingWithdrawals, allocated, pending, staked>>
  BY DEF OpenChallenge
<1>2. bond \in Nat
  <2>1. task[id].bounty \in Nat
    BY DEF TypeOK, TaskType
  <2> QED
    BY <2>1, BpsBound, ParamsAssumption
<1>3. d.bond = bond
  BY DEF NoDispute
<1> HIDE DEF bond, d
<1>4. dispute'[id] = d /\ \A i \in TaskIds \ {id} : dispute'[i] = dispute[i]
  BY <1>1 DEF TypeOK
<1>5. /\ \A i \in TaskIds \ {id} : task'[i] = task[i]
      /\ task'[id].status = "Disputed" /\ task'[id].bounty = task[id].bounty
      /\ task'[id].committedCount = task[id].committedCount
      /\ task'[id].revealedCount = task[id].revealedCount
      /\ task'[id].verifierCount = task[id].verifierCount
  BY <1>1, StatusSet DEF Statuses
<1>6. Held(id) = 0 /\ Held(id)' = bond
  BY <1>1, <1>3, <1>4, <1>5 DEF Held, Unsettled
<1>7. TaskBooks(id)
  BY DEF BooksInv
<1>8. AllocatedTo(id)' = AllocatedTo(id) /\ AllocatedTo(id) \in Nat
  BY <1>1, AmountsType DEF AllocatedTo
<1>9. TaskBooks(id)'
  <2>1. SetAside(id)'
    BY <1>1, <1>5, <1>7, <1>8 DEF TaskBooks, SetAside
  <2> QED
    BY <1>1, <1>5, <1>7, <2>1, PastRound
<1>10. PendingSum' /\ StakedSum'
  BY <1>1, PendingRests, StakedRests DEF BooksInv, registry
<1>11. Elsewhere(id)
  BY <1>1, <1>4, <1>5 DEF Elsewhere
<1>12. escrowed' = escrowed - Held(id) + Held(id)'
  BY <1>1, <1>2, <1>6 DEF TypeOK
<1>13. allocated' = allocated - AllocatedTo(id) + AllocatedTo(id)'
  BY <1>1, <1>8 DEF TypeOK
<1> QED
  BY <1>9, <1>10, <1>11, <1>12, <1>13, OneTaskMoves

(* A dispute that ends without being upheld deals out its bond. *)
LEMMA BondBooks ==
  ASSUME TypeOK, TypeOK', BooksInv, NEW id \in TaskIds, NEW S \in SUBSET Accounts,
         NEW rest \in Accounts, NEW outcome, Disputed(id),
         Allocate(id, S, Bps(dispute[id].bond, AdjudicatorSplitBps), rest, dispute[id].bond),
         CloseDispute(id, outcome), task' = [task EXCEPT ![id].status = "Finalized"],
         UNCHANGED <<report, verifier, pendingWithdrawals, pending, staked>>
  PROVE  BooksInv'
<1> DEFINE bond == dispute[id].bond
           pool == Bps(bond, AdjudicatorSplitBps)
<1>1. bond \in Nat
  BY DEF TypeOK, DisputeType
<1>2. pool \in Nat
  BY <1>1, BpsBound, ParamsAssumption
<1>3. \A i \in TaskIds \ {id} : dispute'[i] = dispute[i]
  BY DEF CloseDispute, TypeOK
<1>4. /\ \A i \in TaskIds \ {id} : task'[i] = task[i]
      /\ task'[id].status = "Finalized"
      /\ task'[id].committedCount = task[id].committedCount
      /\ task'[id].revealedCount = task[id].revealedCount
      /\ task'[id].verifierCount = task[id].verifierCount
  BY StatusSet DEF Statuses
<1>5. Held(id) = bond /\ Held(id)' = 0
  BY <1>4 DEF Held, Unsettled, Disputed
<1>6. TaskBooks(id)'
  <2>1. SetAside(id)'
    BY <1>4 DEF SetAside
  <2> QED
    BY <1>4, <2>1, PastRound DEF BooksInv, Terminal
<1>7. Allocate(id, S, pool, rest, bond)
  OBVIOUS
<1> HIDE DEF bond, pool
<1> QED
  BY <1>1, <1>2, <1>3, <1>4, <1>5, <1>6, <1>7, DealBooks

(* Credit adds to a sum what it credits. *)
LEMMA TotalCredit ==
  ASSUME NEW f \in [Accounts -> Nat], NEW a \in Accounts, NEW n \in Nat
  PROVE  Total(Credit(f, a, n), Accounts) = Total(f, Accounts) + n
<1> DEFINE g == Credit(f, a, n)
<1>1. g[a] = f[a] + n /\ \A b \in Accounts \ {a} : g[b] = f[b]
  BY DEF Credit
<1>2. \A b \in Accounts : f[b] \in Nat /\ g[b] \in Nat
  BY <1>1
<1>3. IsFiniteSet(Accounts) /\ Total(f, Accounts) \in Nat
  BY <1>2, AccountsAssumption, UnitsFinite
<1> HIDE DEF g
<1>4. Total(g, Accounts) = Total(f, Accounts) - f[a] + g[a]
  BY <1>1, <1>2, <1>3, TotalAt
<1> QED
  BY <1>1, <1>2, <1>3, <1>4 DEF g

(* What is dealt over S and credited to one account besides is added. *)
LEMMA DealtAndCredited ==
  ASSUME NEW f \in [Accounts -> Nat], NEW B \in SUBSET Accounts, NEW rest \in Accounts,
         NEW c \in Accounts, NEW n \in Nat, NEW reward \in Nat
  PROVE  Total(Credit(Split(f, B, n, rest, n), c, reward), Accounts)
           = Total(f, Accounts) + n + reward
<1> DEFINE dealt == Split(f, B, n, rest, n)
<1>1. IsFiniteSet(B)
  BY AccountsAssumption, FS_Subset
<1>2. Share(B, n) * Cardinality(B) <= n
  BY <1>1, ShareBound
<1>3. Total(dealt, Accounts) = Total(f, Accounts) + n
  BY <1>2, TotalSplit
<1>4. dealt \in [Accounts -> Nat]
  BY <1>2, SplitType
<1> HIDE DEF dealt
<1>5. Total(Credit(dealt, c, reward), Accounts) = Total(dealt, Accounts) + reward
  BY <1>4, TotalCredit
<1>6. Total(Credit(dealt, c, reward), Accounts) = Total(f, Accounts) + n + reward
  BY <1>3, <1>5
<1> QED
  BY <1>6 DEF dealt

(* Some accounts' allocations taken back. *)
LEMMA TotalCleared ==
  ASSUME NEW f \in [Accounts -> Nat], NEW parties \in SUBSET Accounts, NEW cleared,
         \A a \in Accounts : cleared[a] = IF a \in parties THEN 0 ELSE f[a]
  PROVE  /\ Total(f, parties) \in Nat /\ Total(cleared, Accounts) \in Nat
         /\ Total(f, Accounts) = Total(f, parties) + Total(cleared, Accounts)
<1>1. IsFiniteSet(Accounts) /\ IsFiniteSet(parties) /\ IsFiniteSet(Accounts \ parties)
  BY AccountsAssumption, FS_Subset
<1>2. Total(f, parties) \in Nat /\ Total(f, Accounts \ parties) \in Nat
  BY <1>1, UnitsFinite
<1>3. Total(f, Accounts) = Total(f, parties) + Total(f, Accounts \ parties)
  BY <1>1, TotalParts
<1>5. Total(cleared, parties) = 0
  <2>1. \A a \in parties : cleared[a] = 0
    OBVIOUS
  <2> QED
    BY <1>1, <2>1, TotalZero
<1>6. Total(cleared, Accounts \ parties) = Total(f, Accounts \ parties)
  <2>1. \A a \in Accounts \ parties : cleared[a] = f[a]
    OBVIOUS
  <2> QED
    BY <2>1, TotalSame
<1>7. Total(cleared, Accounts) = Total(cleared, parties) + Total(cleared, Accounts \ parties)
  <2>1. \A a \in Accounts : cleared[a] \in Nat
    OBVIOUS
  <2> QED
    BY <1>1, <2>1, TotalParts
<1> QED
  BY <1>2, <1>3, <1>5, <1>6, <1>7

(* An upheld challenge deals the bounty and the bond out again: what it took *)
(* back from the parties goes back, and the bond with it.                    *)
LEMMA UpheldDeals ==
  ASSUME TypeOK, NEW id \in TaskIds, NEW a, NEW B \in SUBSET Accounts,
         ResolveUpheld(a, id, B)
  PROVE  /\ AllocatedTo(id)' = AllocatedTo(id) + dispute[id].bond
         /\ Held(id) = dispute[id].bond /\ Held(id)' = 0
         /\ task'[id] = OverturnedTask(id) /\ task'[id].status = "Finalized"
         /\ Elsewhere(id)
<1> DEFINE challenger == dispute[id].challenger
           bond == dispute[id].bond
           parties == TaskVerifiers(id) \cup {CreatorOf(id), challenger}
           reclaimed == Total(allocation[id], parties)
           reward == bond + Bps(task[id].bounty, ChallengerRewardBps)
           remainder == reclaimed + bond - reward
           cleared == [x \in Accounts |-> IF x \in parties THEN 0 ELSE allocation[id][x]]
           r == OverturnedTask(id)
<1>1. /\ Disputed(id)
      /\ remainder >= 0
      /\ allocation' = [allocation EXCEPT ![id] =
           Credit(Split(cleared, B, remainder, CreatorOf(id), remainder), challenger, reward)]
      /\ escrowed' = escrowed - bond
      /\ allocated' = allocated + bond
      /\ CloseDispute(id, "Upheld")
      /\ task' = [task EXCEPT ![id] = r]
      /\ UNCHANGED <<report, registry, pendingWithdrawals, pending, staked>>
  BY DEF ResolveUpheld
<1>2. task[id] \in TaskType /\ dispute[id] \in DisputeType /\ allocation[id] \in [Accounts -> Nat]
  BY DEF TypeOK
<1>3. challenger \in Accounts /\ CreatorOf(id) \in Accounts
  BY <1>1, <1>2, AccountsAssumption DEF Disputed, DisputeType, TaskIds, CreatorOf
<1>4. bond \in Nat /\ reward \in Nat
  <2>1. bond \in Nat /\ task[id].bounty \in Nat
    BY <1>2 DEF DisputeType, TaskType
  <2>2. Bps(task[id].bounty, ChallengerRewardBps) \in Nat
    BY <2>1, BpsBound, ParamsAssumption
  <2> QED
    BY <2>1, <2>2
<1>5. parties \in SUBSET Accounts
  BY <1>3, PartiesType
<1>6. AllocatedTo(id)' = AllocatedTo(id) + bond
  <2>1. allocation'[id] =
          Credit(Split(cleared, B, remainder, CreatorOf(id), remainder), challenger, reward)
    BY <1>1 DEF TypeOK
  <2>2. /\ remainder = Total(allocation[id], parties) + bond - reward
        /\ \A x \in Accounts : cleared[x] = IF x \in parties THEN 0 ELSE allocation[id][x]
    OBVIOUS
  <2>3. cleared \in [Accounts -> Nat]
    BY <1>2
  <2> HIDE DEF challenger, bond, parties, reclaimed, reward, remainder, cleared
  <2>4. remainder >= 0
    BY <1>1
  <2>5. /\ allocation[id] \in [Accounts -> Nat] /\ challenger \in Accounts
        /\ CreatorOf(id) \in Accounts
    BY <1>2, <1>3
  <2>6. Total(Credit(Split(cleared, B, remainder, CreatorOf(id), remainder), challenger, reward),
              Accounts) = Total(allocation[id], Accounts) + bond
    <3>1. /\ Total(allocation[id], parties) \in Nat /\ Total(cleared, Accounts) \in Nat
          /\ Total(allocation[id], Accounts)
               = Total(allocation[id], parties) + Total(cleared, Accounts)
      BY <1>5, <2>2, <2>5, TotalCleared
    <3>2. remainder \in Nat
      BY <1>4, <2>2, <2>4, <3>1
    <3>3. Total(Credit(Split(cleared, B, remainder, CreatorOf(id), remainder), challenger, reward),
                Accounts) = Total(cleared, Accounts) + remainder + reward
      BY <1>4, <2>5, <2>3, <3>2, DealtAndCredited
    <3> QED
      BY <1>4, <2>2, <3>1, <3>2, <3>3
  <2> QED
    BY <2>1, <2>6 DEF AllocatedTo
<1>7. \A i \in TaskIds \ {id} : allocation'[i] = allocation[i]
  BY <1>1 DEF TypeOK
<1> HIDE DEF challenger, parties, reward, cleared, remainder, reclaimed
<1>8. task'[id] = r /\ \A i \in TaskIds \ {id} : task'[i] = task[i]
  BY <1>1 DEF TypeOK
<1>9. \A i \in TaskIds \ {id} : dispute'[i] = dispute[i]
  BY <1>1 DEF CloseDispute, TypeOK
<1>10. r.status = "Finalized"
  BY <1>2 DEF OverturnedTask, TaskType
<1>11. Held(id) = bond /\ Held(id)' = 0
  BY <1>1, <1>8, <1>10 DEF Held, Unsettled, Disputed
<1>12. Elsewhere(id)
  BY <1>1, <1>7, <1>8, <1>9 DEF Elsewhere
<1> QED
  BY <1>6, <1>8, <1>10, <1>11, <1>12

LEMMA UpheldBooks ==
  ASSUME TypeOK, TypeOK', BooksInv, NEW id \in TaskIds, NEW a, NEW B \in SUBSET Accounts,
         ResolveUpheld(a, id, B)
  PROVE  BooksInv'
<1> DEFINE bond == dispute[id].bond
<1>1. /\ escrowed' = escrowed - bond
      /\ allocated' = allocated + bond
      /\ UNCHANGED <<report, registry, pendingWithdrawals, pending, staked>>
  BY DEF ResolveUpheld
<1>2. /\ AllocatedTo(id)' = AllocatedTo(id) + bond
      /\ Held(id) = bond /\ Held(id)' = 0
      /\ task'[id] = OverturnedTask(id) /\ task'[id].status = "Finalized"
      /\ Elsewhere(id)
  BY UpheldDeals
<1>3. bond \in Nat /\ AllocatedTo(id) \in Nat /\ task[id] \in TaskType
  BY AmountsType DEF TypeOK, DisputeType
<1>4. /\ task'[id].committedCount = task[id].committedCount
      /\ task'[id].revealedCount = task[id].revealedCount
      /\ task'[id].verifierCount = task[id].verifierCount
  BY <1>2, <1>3 DEF OverturnedTask, TaskType
<1>5. TaskBooks(id)'
  <2>1. SetAside(id)'
    BY <1>2 DEF SetAside
  <2> QED
    BY <1>1, <1>2, <1>4, <2>1, PastRound DEF BooksInv, Terminal
<1>6. PendingSum' /\ StakedSum'
  BY <1>1, PendingRests, StakedRests DEF BooksInv, registry
<1>7. escrowed' = escrowed - Held(id) + Held(id)'
  BY <1>1, <1>2, <1>3 DEF TypeOK
<1>8. allocated' = allocated - AllocatedTo(id) + AllocatedTo(id)'
  BY <1>1, <1>2, <1>3 DEF TypeOK
<1> QED
  BY <1>2, <1>5, <1>6, <1>7, <1>8, OneTaskMoves

LEMMA DisputeBooks ==
  ASSUME TypeOK, TypeOK', BooksInv, DisputeNext
  PROVE  BooksInv'
<1> PICK id \in TaskIds, a \in Accounts :
        \/ OpenChallenge(a, id)
        \/ \E B \in SUBSET Accounts : ResolveUpheld(a, id, B) \/ ResolveRejected(a, id, B)
  BY DEF DisputeNext
<1>1. ASSUME NEW B \in SUBSET Accounts, ResolveRejected(a, id, B)
      PROVE  BooksInv'
  <2> DEFINE defended == IF B # {} THEN B ELSE Defamed(id)
  <2>1. defended \in SUBSET Accounts /\ CreatorOf(id) \in Accounts
    BY PartiesType, AccountsAssumption DEF TaskIds, CreatorOf
  <2> HIDE DEF defended
  <2> QED
    BY <1>1, <2>1, BondBooks DEF ResolveRejected, registry, defended
<1> QED
  BY <1>1, ChallengeBooks, UpheldBooks

(* A classification whose window has passed is final: nothing is held.       *)
LEMMA FinalizedBooks ==
  ASSUME TypeOK, TypeOK', BooksInv, NEW id \in TaskIds, task[id].status = "Consensus",
         task' = [task EXCEPT ![id].status = "Finalized"],
         UNCHANGED <<report, dispute, allocation, escrowed, allocated>>,
         PendingSum', StakedSum'
  PROVE  BooksInv'
<1>1. /\ \A i \in TaskIds \ {id} : task'[i] = task[i]
      /\ task'[id].status = "Finalized"
      /\ task'[id].committedCount = task[id].committedCount
      /\ task'[id].revealedCount = task[id].revealedCount
      /\ task'[id].verifierCount = task[id].verifierCount
  BY StatusSet DEF Statuses
<1>2. Held(id) = 0 /\ Held(id)' = 0
  BY <1>1 DEF Held, Unsettled
<1>3. AllocatedTo(id)' = AllocatedTo(id) /\ AllocatedTo(id) \in Nat
  BY AmountsType DEF AllocatedTo
<1>4. TaskBooks(id)'
  <2>1. SetAside(id)'
    BY <1>1 DEF SetAside
  <2> QED
    BY <1>1, <2>1, PastRound DEF BooksInv, Terminal
<1>5. Elsewhere(id)
  BY <1>1 DEF Elsewhere
<1>6. /\ escrowed' = escrowed - Held(id) + Held(id)'
      /\ allocated' = allocated - AllocatedTo(id) + AllocatedTo(id)'
  BY <1>2, <1>3 DEF TypeOK
<1> QED
  BY <1>4, <1>5, <1>6, OneTaskMoves

LEMMA FallbackBooks ==
  ASSUME TypeOK, TypeOK', BooksInv, FallbackNext
  PROVE  BooksInv'
<1> PICK id \in TaskIds : FinalizeTask(id) \/ ExpireTask(id) \/ ExpireDispute(id)
  BY DEF FallbackNext
<1>1. CASE FinalizeTask(id)
  <2>1. /\ task[id].status = "Consensus"
        /\ task' = [task EXCEPT ![id].status = "Finalized"]
        /\ UNCHANGED <<report, dispute, registry, ledger>>
    BY <1>1 DEF FinalizeTask, WindowElapsed
  <2>2. PendingSum' /\ StakedSum'
    BY <2>1, PendingRests, StakedRests DEF BooksInv, registry, ledger, buckets
  <2> QED
    BY <2>1, <2>2, FinalizedBooks DEF ledger, buckets
<1>2. CASE ExpireTask(id)
  <2> DEFINE o == IF task[id].revealedCount > 0 THEN "Conflict" ELSE "Expired"
             S == IF task[id].revealedCount > 0 THEN Revealers(id) ELSE {}
             pool == Bps(task[id].bounty, ConflictRateBps)
             r == [task[id] EXCEPT !.status = "Expired", !.outcome = o]
  <2>1. /\ task[id].status \in Unsettled
        /\ Allocate(id, S, pool, CreatorOf(id), task[id].bounty)
        /\ task' = [task EXCEPT ![id].status = "Expired", ![id].outcome = o]
        /\ UNCHANGED <<report, dispute, registry, pendingWithdrawals, pending, staked>>
    BY <1>2 DEF ExpireTask
  <2>2. S \in SUBSET Accounts
    BY PartiesType
  <2> HIDE DEF o, S
  <2>3. task[id] \in TaskType /\ task' = [task EXCEPT ![id] = r]
    BY <2>1 DEF TypeOK
  <2>4. task'[id] = r /\ \A i \in TaskIds \ {id} : task'[i] = task[i]
    BY <2>3 DEF TypeOK
  <2>5. /\ r.status = "Expired" /\ r.committedCount = task[id].committedCount
        /\ r.revealedCount = task[id].revealedCount /\ r.verifierCount = task[id].verifierCount
    BY <2>3 DEF TaskType
  <2> HIDE DEF r
  <2>6. task[id].bounty \in Nat /\ CreatorOf(id) \in Accounts
    BY <2>3, AccountsAssumption DEF TaskType, TaskIds, CreatorOf
  <2>7. pool \in Nat
    BY <2>6, BpsBound, ParamsAssumption
  <2> HIDE DEF pool
  <2>8. Held(id) = task[id].bounty /\ Held(id)' = 0
    BY <2>1, <2>4, <2>5 DEF Held, Unsettled
  <2>9. TaskBooks(id)'
    <3>1. SetAside(id)'
      BY <2>4, <2>5 DEF SetAside
    <3> QED
      BY <2>1, <2>4, <2>5, <3>1, PastRound DEF BooksInv, Terminal
  <2> QED
    BY <2>1, <2>2, <2>4, <2>6, <2>7, <2>8, <2>9, DealBooks DEF registry
<1>3. CASE ExpireDispute(id)
  <2>1. dispute[id].challenger \in Accounts
    BY <1>3 DEF ExpireDispute, Disputed, TypeOK, DisputeType
  <2> QED
    BY <1>3, <2>1, PartiesType, BondBooks DEF ExpireDispute, registry
<1> QED
  BY <1>1, <1>2, <1>3

(* What a claim takes from a task's allocations. *)
LEMMA ClaimTakes ==
  ASSUME TypeOK, NEW id \in TaskIds, NEW a \in Accounts,
         allocation' = [allocation EXCEPT ![id][a] = 0]
  PROVE  AllocatedTo(id)' = AllocatedTo(id) - allocation[id][a]
<1>0. allocation \in [TaskIds -> [Accounts -> Nat]]
  BY DEF TypeOK
<1> DEFINE f == allocation[id]
           g == allocation'[id]
<1>1. /\ \A b \in Accounts : f[b] \in Nat /\ g[b] \in Nat
      /\ \A b \in Accounts \ {a} : g[b] = f[b]
      /\ g[a] = 0
  BY <1>0
<1>2. IsFiniteSet(Accounts)
  BY AccountsAssumption
<1>3. Total(f, Accounts) \in Nat
  BY <1>1, <1>2, UnitsFinite
<1>4. Total(g, Accounts) = Total(f, Accounts) - f[a] + g[a]
  <2> HIDE DEF f, g
  <2> QED
    BY <1>1, <1>2, TotalAt
<1> QED
  BY <1>1, <1>3, <1>4 DEF AllocatedTo

(* A claim takes one allocation of a task that is settled, or settles it. *)
LEMMA ClaimBooks ==
  ASSUME TypeOK, TypeOK', BooksInv, NEW id \in TaskIds, NEW a \in Accounts,
         Claimable(id, a), task' = FinalizedForClaim(id),
         allocation' = [allocation EXCEPT ![id][a] = 0],
         allocated' = allocated - allocation[id][a],
         UNCHANGED <<report, dispute, escrowed>>, PendingSum', StakedSum'
  PROVE  BooksInv'
<1>1. /\ \A i \in TaskIds \ {id} : task'[i] = task[i]
      /\ task'[id].status \in Terminal
      /\ task'[id].committedCount = task[id].committedCount
      /\ task'[id].revealedCount = task[id].revealedCount
      /\ task'[id].verifierCount = task[id].verifierCount
      /\ Held(id) = 0
  <2>1. CASE WindowElapsed(id)
    <3>1. task' = [task EXCEPT ![id].status = "Finalized"] /\ task[id].status = "Consensus"
      BY <2>1 DEF FinalizedForClaim, WindowElapsed
    <3> QED
      BY <3>1, StatusSet DEF Statuses, Terminal, Held, Unsettled
  <2>2. CASE ~WindowElapsed(id)
    BY <2>2 DEF FinalizedForClaim, Claimable, Terminal, Held, Unsettled
  <2> QED
    BY <2>1, <2>2
<1>2. TaskBooks(id)'
  <2>1. SetAside(id)'
    BY <1>1 DEF SetAside, Terminal
  <2> QED
    BY <1>1, <2>1, PastRound DEF BooksInv
<1>3. Held(id)' = 0
  BY <1>1 DEF Held, Unsettled, Terminal
<1>4. allocation \in [TaskIds -> [Accounts -> Nat]]
  BY DEF TypeOK
<1>5. \A i \in TaskIds \ {id} : allocation'[i] = allocation[i]
  BY <1>4
<1>6. AllocatedTo(id)' = AllocatedTo(id) - allocation[id][a]
  BY ClaimTakes
<1>7. AllocatedTo(id) \in Nat /\ allocation[id][a] \in Nat /\ allocated \in Nat /\ escrowed \in Nat
  BY <1>4, AmountsType DEF TypeOK
<1>8. Elsewhere(id)
  BY <1>1, <1>5 DEF Elsewhere
<1>9. /\ escrowed' = escrowed - Held(id) + Held(id)'
      /\ allocated' = allocated - AllocatedTo(id) + AllocatedTo(id)'
  BY <1>1, <1>3, <1>6, <1>7
<1> QED
  BY <1>2, <1>8, <1>9, OneTaskMoves

LEMMA PayoutBooks ==
  ASSUME TypeOK, TypeOK', BooksInv, PayoutNext
  PROVE  BooksInv'
<1> USE DEF registry, buckets, ledger, rounds
<1>1. pendingWithdrawals \in [Accounts -> Nat] /\ pending \in Nat
  BY DEF TypeOK
<1>2. ASSUME NEW a \in Accounts, Withdraw(a) PROVE BooksInv'
  <2>1. /\ pendingWithdrawals' = [pendingWithdrawals EXCEPT ![a] = 0]
        /\ pending' = pending - pendingWithdrawals[a]
        /\ UNCHANGED <<rounds, registry, allocation, escrowed, allocated, staked>>
    BY <1>2 DEF Withdraw, PayOut
  <2>2. pending' = pending - pendingWithdrawals[a] + pendingWithdrawals'[a]
    BY <1>1, <2>1
  <2>3. PendingSum' /\ StakedSum'
    BY <1>1, <2>1, <2>2, PendingMoves, StakedRests DEF BooksInv
  <2> QED
    BY <2>1, <2>3, NoTaskMoves
<1>3. ASSUME NEW a \in Accounts, NEW id \in TaskIds, ClaimReward(a, id) PROVE BooksInv'
  <2>1. /\ pendingWithdrawals' = Credit(pendingWithdrawals, a, allocation[id][a])
        /\ pending' = pending + allocation[id][a]
        /\ UNCHANGED <<registry, staked>>
    BY <1>3 DEF ClaimReward
  <2>2. allocation[id][a] \in Nat
    BY DEF TypeOK
  <2>3. pending' = pending - pendingWithdrawals[a] + pendingWithdrawals'[a]
    BY <1>1, <2>1, <2>2 DEF Credit
  <2>4. PendingSum' /\ StakedSum'
    BY <1>1, <2>1, <2>3, PendingMoves, StakedRests DEF BooksInv, Credit
  <2> QED
    BY <1>3, <2>4, ClaimBooks DEF ClaimReward
<1>4. ASSUME NEW a \in Accounts, NEW id \in TaskIds, RefundCreator(a, id) PROVE BooksInv'
  <2> DEFINE share == allocation[id][a]
  <2>1. /\ pendingWithdrawals' = [pendingWithdrawals EXCEPT ![a] = 0]
        /\ pending' = pending + share - (pendingWithdrawals[a] + share)
        /\ allocation' = [allocation EXCEPT ![id][a] = 0]
        /\ allocated' = allocated - share
        /\ UNCHANGED <<report, dispute, registry, escrowed, staked>>
    BY <1>4 DEF RefundCreator, PayOut
  <2>2. share \in Nat /\ allocation \in [TaskIds -> [Accounts -> Nat]] /\ allocated \in Nat
    BY DEF TypeOK
  <2>3. pending' = pending - pendingWithdrawals[a] + pendingWithdrawals'[a]
    BY <1>1, <2>1, <2>2
  <2>4. PendingSum' /\ StakedSum'
    BY <1>1, <2>1, <2>3, PendingMoves, StakedRests DEF BooksInv
  <2>5. CASE share > 0
    BY <1>4, <2>1, <2>4, <2>5, ClaimBooks DEF RefundCreator
  <2>6. CASE share = 0
    <3>1. task' = task
      BY <1>4, <2>6 DEF RefundCreator
    <3>2. allocation' = allocation /\ allocated' = allocated
      BY <2>1, <2>2, <2>6
    <3> QED
      BY <2>1, <2>4, <3>1, <3>2, NoTaskMoves
  <2> QED
    BY <2>2, <2>5, <2>6
<1>5. ASSUME CallReturns PROVE BooksInv'
  <2>1. UNCHANGED <<rounds, registry, ledger>>
    BY <1>5 DEF CallReturns
  <2>2. PendingSum' /\ StakedSum'
    BY <2>1, PendingRests, StakedRests DEF BooksInv
  <2> QED
    BY <2>1, <2>2, NoTaskMoves
<1> QED
  BY <1>2, <1>3, <1>4, <1>5 DEF PayoutNext

LEMMA RegistryBooks ==
  ASSUME TypeOK, TypeOK', BooksInv, RegistryNext
  PROVE  BooksInv'
<1> USE DEF rounds, buckets, ledger
<1>1. verifier \in [Accounts -> VerifierType] /\ staked \in Nat /\ pending \in Nat
      /\ pendingWithdrawals \in [Accounts -> Nat]
  BY DEF TypeOK
<1>2. ASSUME NEW a \in Registrants, NEW value \in Stakes, RegisterVerifier(a, value)
      PROVE  BooksInv'
  <2>1. a \in Accounts /\ value \in Nat
    BY AccountsAssumption, InputsAssumption
  <2>2. /\ verifier' = [verifier EXCEPT ![a].active = @ \/ ~verifier[a].registered,
                          ![a].registered = TRUE, ![a].stake = verifier[a].stake + value]
        /\ staked' = staked + value
        /\ UNCHANGED <<rounds, allocation, pendingWithdrawals, escrowed, allocated, pending>>
    BY <1>2 DEF RegisterVerifier
  <2>3. verifier[a] \in VerifierType
    BY <1>1, <2>1
  <2>4. /\ verifier'[a].stake = verifier[a].stake + value
        /\ \A b \in Accounts \ {a} : verifier'[b] = verifier[b]
    BY <1>1, <2>1, <2>2, <2>3 DEF VerifierType
  <2>5. staked' = staked - verifier[a].stake + verifier'[a].stake
    BY <1>1, <2>1, <2>2, <2>3, <2>4 DEF VerifierType
  <2>6. StakedSum' /\ PendingSum'
    BY <2>1, <2>2, <2>4, <2>5, StakedMoves, PendingRests DEF BooksInv
  <2> QED
    BY <2>2, <2>6, NoTaskMoves
<1>3. ASSUME NEW a \in Accounts, NEW active \in BOOLEAN, SetVerifierActive(a, active)
      PROVE  BooksInv'
  <2>1. /\ verifier' = [verifier EXCEPT ![a].active = active]
        /\ UNCHANGED <<rounds, ledger>>
    BY <1>3 DEF SetVerifierActive
  <2>2. \A b \in Accounts : verifier'[b].stake = verifier[b].stake
    BY <1>1, <2>1 DEF VerifierType
  <2>3. StakedSum' /\ PendingSum'
    BY <2>1, <2>2, StakedRests, PendingRests DEF BooksInv
  <2> QED
    BY <2>1, <2>3, NoTaskMoves
<1>4. ASSUME NEW a \in Accounts, NEW b \in Registrants, NEW approved \in BOOLEAN,
             SetVerifierApproval(a, b, approved)
      PROVE  BooksInv'
  <2>1. /\ verifier' = [verifier EXCEPT ![b].approved = approved]
        /\ UNCHANGED <<rounds, ledger>>
    BY <1>4 DEF SetVerifierApproval
  <2>2. \A c \in Accounts : verifier'[c].stake = verifier[c].stake
    BY <1>1, <2>1 DEF VerifierType
  <2>3. StakedSum' /\ PendingSum'
    BY <2>1, <2>2, StakedRests, PendingRests DEF BooksInv
  <2> QED
    BY <2>1, <2>3, NoTaskMoves
<1>5. ASSUME NEW a \in Accounts, NEW amount \in 1..verifier[a].stake, WithdrawStake(a, amount)
      PROVE  BooksInv'
  <2>1. /\ verifier' = [verifier EXCEPT ![a].stake = @ - amount]
        /\ staked' = staked - amount
        /\ pending' = pending + amount
        /\ pendingWithdrawals' = Credit(pendingWithdrawals, a, amount)
        /\ UNCHANGED <<rounds, allocation, escrowed, allocated>>
    BY <1>5 DEF WithdrawStake
  <2>2. verifier[a] \in VerifierType /\ amount \in Nat
    BY <1>1
  <2>3. /\ verifier'[a].stake = verifier[a].stake - amount
        /\ \A b \in Accounts \ {a} : verifier'[b] = verifier[b]
    BY <1>1, <2>1, <2>2 DEF VerifierType
  <2>4. staked' = staked - verifier[a].stake + verifier'[a].stake
    BY <1>1, <2>1, <2>2, <2>3 DEF VerifierType
  <2>5. pending' = pending - pendingWithdrawals[a] + pendingWithdrawals'[a]
    BY <1>1, <2>1, <2>2 DEF Credit
  <2>6. \A b \in Accounts \ {a} : pendingWithdrawals'[b] = pendingWithdrawals[b]
    BY <1>1, <2>1 DEF Credit
  <2>7. StakedSum'
    BY <2>3, <2>4, StakedMoves DEF BooksInv
  <2>8. PendingSum'
    BY <2>5, <2>6, PendingMoves DEF BooksInv
  <2> QED
    BY <2>1, <2>7, <2>8, NoTaskMoves
<1> QED
  BY <1>2, <1>3, <1>4, <1>5 DEF RegistryNext

LEMMA RestBooks ==
  ASSUME TypeOK, TypeOK', BooksInv, AdminNext \/ Tick \/ UNCHANGED vars
  PROVE  BooksInv'
<1>1. UNCHANGED <<rounds, verifier, ledger>>
  BY DEF AdminNext, SetPaused, GrantRole, RevokeRole, Tick, vars, registry
<1>2. PendingSum' /\ StakedSum'
  BY <1>1, PendingRests, StakedRests DEF BooksInv, ledger, buckets
<1> QED
  BY <1>1, <1>2, NoTaskMoves DEF rounds, ledger, buckets

LEMMA BooksStep ==
  ASSUME TypeOK, TypeOK', BooksInv, [Next]_vars
  PROVE  BooksInv'
<1>1. CASE RoundNext
  BY <1>1, RoundBooks
<1>2. CASE KeeperNext
  BY <1>2, KeeperBooks
<1>3. CASE DisputeNext
  BY <1>3, DisputeBooks
<1>4. CASE FallbackNext
  BY <1>4, FallbackBooks
<1>5. CASE PayoutNext
  BY <1>5, PayoutBooks
<1>6. CASE RegistryNext
  BY <1>6, RegistryBooks
<1>7. CASE AdminNext \/ Tick \/ UNCHANGED vars
  BY <1>7, RestBooks
<1> QED
  BY <1>1, <1>2, <1>3, <1>4, <1>5, <1>6, <1>7 DEF Next

(* However tasks, disputes, claims and withdrawals interleave, the four      *)
(* liability buckets are the sums of the entries they stand for, a           *)
(* provisional classification sets aside exactly the bounty, and the         *)
(* counters of a round count its commits and its reveals.                    *)
THEOREM BooksKept == Spec => []BooksBalance
<1>1. Init => BooksInv
  BY BooksInit
<1>2. TypeOK /\ TypeOK' /\ BooksInv /\ [Next]_vars => BooksInv'
  BY BooksStep
<1>3. BooksInv => BooksBalance
  BY BooksInvGives
<1> QED
  BY TypeCorrect, <1>1, <1>2, <1>3, PTL DEF Spec

-----------------------------------------------------------------------------
(* What a step may do to the money of one task: nothing; deal more out, if    *)
(* the task is not settled; pay some of it out, if the task is settled or its *)
(* window is over; or deal it all out again, if a challenge is upheld.        *)
MoneyRests(i) ==
  task'[i] = task[i] /\ dispute'[i] = dispute[i] /\ allocation'[i] = allocation[i]

MoneyGrows(i) ==
  /\ task[i].status \notin Terminal
  /\ \A a \in Accounts : allocation'[i][a] >= allocation[i][a]

MoneyClaimed(i) ==
  /\ (task[i].status \in Terminal /\ task'[i] = task[i]) \/ WindowElapsed(i)
  /\ dispute'[i] = dispute[i]
  /\ \A a \in Accounts : allocation'[i][a] <= allocation[i][a]

MoneyRedealt(i) == task[i].status = "Disputed" /\ dispute'[i].outcome = "Upheld"

MoneyMoves(i) == MoneyRests(i) \/ MoneyGrows(i) \/ MoneyClaimed(i) \/ MoneyRedealt(i)

LEMMA MoneyMovesMeans ==
  ASSUME TypeOK, TypeOK', \A i \in TaskIds : MoneyMoves(i)
  PROVE  FrozenStep /\ SettledStep
<1>1. ASSUME NEW i \in TaskIds, NEW a \in Accounts
      PROVE  allocation[i][a] \in Nat /\ allocation'[i][a] \in Nat
  BY DEF TypeOK
<1>2. FrozenStep
  BY <1>1 DEF FrozenStep, MoneyMoves, MoneyRests, MoneyGrows, MoneyClaimed, MoneyRedealt,
              WindowElapsed
<1>3. SettledStep
  BY <1>1 DEF SettledStep, MoneyMoves, MoneyRests, MoneyGrows, MoneyClaimed, MoneyRedealt,
              WindowElapsed, Terminal
<1> QED
  BY <1>2, <1>3

LEMMA NoMoneyMoves ==
  ASSUME UNCHANGED <<task, dispute, allocation>>
  PROVE  \A i \in TaskIds : MoneyMoves(i)
  BY DEF MoneyMoves, MoneyRests

(* A step on one task that deals out or leaves its allocations. *)
LEMMA OneTaskGrows ==
  ASSUME NEW id \in TaskIds, task[id].status \notin Terminal,
         \A a \in Accounts : allocation'[id][a] >= allocation[id][a],
         \A i \in TaskIds \ {id} : task'[i] = task[i] /\ dispute'[i] = dispute[i]
                                   /\ allocation'[i] = allocation[i]
  PROVE  \A i \in TaskIds : MoneyMoves(i)
  BY DEF MoneyMoves, MoneyRests, MoneyGrows

LEMMA OneTaskKeeps ==
  ASSUME TypeOK, NEW id \in TaskIds, task[id].status \notin Terminal,
         allocation' = allocation,
         \A i \in TaskIds \ {id} : task'[i] = task[i] /\ dispute'[i] = dispute[i]
  PROVE  \A i \in TaskIds : MoneyMoves(i)
<1>1. \A a \in Accounts : allocation[id][a] \in Nat
  BY DEF TypeOK
<1> QED
  BY <1>1, OneTaskGrows

LEMMA RoundMoney ==
  ASSUME TypeOK, RoundNext
  PROVE  \A i \in TaskIds : MoneyMoves(i)
<1> USE DEF ledger
<1>1. ASSUME NEW c \in Creators, NEW spec \in TaskSpecs, NEW value \in Bounties,
             CreateTask(c, spec, value)
      PROVE  \A i \in TaskIds : MoneyMoves(i)
  <2> DEFINE id == <<c, creatorNonce[c]>>
  <2>1. /\ task[id].status = "None" /\ creatorNonce[c] < MaxNonce
        /\ UNCHANGED <<dispute, allocation>>
        /\ \A i \in TaskIds \ {id} : task'[i] = task[i]
    BY <1>1 DEF CreateTask, TypeOK
  <2>2. id \in TaskIds
    <3>1. c \in Accounts /\ creatorNonce \in [Accounts -> Nat]
      BY AccountsAssumption DEF TypeOK
    <3> QED
      BY <2>1, <3>1, InputsAssumption, SMT DEF TaskIds
  <2> HIDE DEF id
  <2> QED
    BY <2>1, <2>2, OneTaskKeeps DEF Terminal
<1>2. ASSUME NEW id \in TaskIds, NEW a \in Accounts, CancelTask(a, id)
      PROVE  \A i \in TaskIds : MoneyMoves(i)
  BY <1>2, OneTaskKeeps DEF CancelTask, Terminal, TypeOK
<1>3. ASSUME NEW id \in TaskIds, NEW a \in Accounts, NEW m \in Commitments,
             CommitReport(a, id, m)
      PROVE  \A i \in TaskIds : MoneyMoves(i)
  BY <1>3, OneTaskKeeps DEF CommitReport, Terminal, TypeOK
<1>4. ASSUME NEW id \in TaskIds, NEW a \in Accounts, RevealReport(a, id)
      PROVE  \A i \in TaskIds : MoneyMoves(i)
  BY <1>4, OneTaskKeeps DEF RevealReport, Terminal, TypeOK
<1> QED
  BY <1>1, <1>2, <1>3, <1>4 DEF RoundNext

(* Allocate takes from nobody. *)
LEMMA AllocateGrows ==
  ASSUME TypeOK, NEW id \in TaskIds, NEW S \in SUBSET Accounts, NEW pool \in Nat,
         NEW rest \in Accounts, NEW amount \in Nat, Allocate(id, S, pool, rest, amount),
         task[id].status \notin Terminal,
         \A i \in TaskIds \ {id} : task'[i] = task[i] /\ dispute'[i] = dispute[i]
  PROVE  \A i \in TaskIds : MoneyMoves(i)
<1>1. /\ \A a \in Accounts : allocation'[id][a] >= allocation[id][a]
      /\ \A i \in TaskIds \ {id} : allocation'[i] = allocation[i]
  BY Dealt
<1> QED
  BY <1>1, OneTaskGrows

LEMMA KeeperMoney ==
  ASSUME TypeOK, KeeperNext
  PROVE  \A i \in TaskIds : MoneyMoves(i)
<1> PICK id \in TaskIds, a \in Accounts :
        \/ \E B \in SUBSET Accounts, rate \in RewardRates : FinalizeAsConsensus(a, id, B, rate)
        \/ FinalizeAsConflict(a, id)
        \/ FinalizeAsNoQuorum(a, id)
  BY DEF KeeperNext
<1>1. task[id].bounty \in Nat /\ CreatorOf(id) \in Accounts
  BY AccountsAssumption DEF TypeOK, TaskType, TaskIds, CreatorOf
<1>2. ASSUME NEW o, NEW rate, NEW S \in SUBSET Accounts, NEW pool \in Nat,
             Classify(a, id, o, rate, S, pool)
      PROVE  \A i \in TaskIds : MoneyMoves(i)
  <2>1. /\ task[id].status \notin Terminal
        /\ Allocate(id, S, pool, CreatorOf(id), task[id].bounty)
        /\ UNCHANGED dispute
    BY <1>2 DEF Classify, Unsettled, Terminal
  <2>2. \A i \in TaskIds \ {id} : task'[i] = task[i]
    BY <1>2 DEF Classify, TypeOK
  <2> QED
    BY <1>1, <2>1, <2>2, AllocateGrows
<1>3. \A rate \in Nat : Bps(task[id].bounty, rate) \in Nat
  BY <1>1, BpsType
<1>4. ConflictRateBps \in Nat /\ BPS_DENOMINATOR \in Nat
  <2>1. ConflictRateBps \in 0..BPS_DENOMINATOR
    BY ParamsAssumption
  <2> QED
    BY <2>1 DEF BPS_DENOMINATOR
<1>5. ASSUME NEW B \in SUBSET Accounts, NEW rate \in RewardRates,
             FinalizeAsConsensus(a, id, B, rate)
      PROVE  \A i \in TaskIds : MoneyMoves(i)
  BY <1>2, <1>3, <1>5, InputsAssumption DEF FinalizeAsConsensus
<1>6. ASSUME FinalizeAsConflict(a, id) PROVE \A i \in TaskIds : MoneyMoves(i)
  BY <1>2, <1>3, <1>4, <1>6, PartiesType DEF FinalizeAsConflict
<1>7. ASSUME FinalizeAsNoQuorum(a, id) PROVE \A i \in TaskIds : MoneyMoves(i)
  BY <1>2, <1>7 DEF FinalizeAsNoQuorum
<1> QED
  BY <1>5, <1>6, <1>7

LEMMA DisputeMoney ==
  ASSUME TypeOK, DisputeNext
  PROVE  \A i \in TaskIds : MoneyMoves(i)
<1> PICK id \in TaskIds, a \in Accounts :
        \/ OpenChallenge(a, id)
        \/ \E B \in SUBSET Accounts : ResolveUpheld(a, id, B) \/ ResolveRejected(a, id, B)
  BY DEF DisputeNext
<1>1. ASSUME OpenChallenge(a, id) PROVE \A i \in TaskIds : MoneyMoves(i)
  BY <1>1, OneTaskKeeps DEF OpenChallenge, Terminal, TypeOK
<1>2. ASSUME NEW B \in SUBSET Accounts, ResolveUpheld(a, id, B)
      PROVE  \A i \in TaskIds : MoneyMoves(i)
  <2>1. /\ task[id].status = "Disputed"
        /\ CloseDispute(id, "Upheld")
        /\ \A i \in TaskIds \ {id} : task'[i] = task[i] /\ allocation'[i] = allocation[i]
    BY <1>2 DEF ResolveUpheld, Disputed, TypeOK
  <2>2. dispute[id] \in DisputeType
    BY DEF TypeOK
  <2>3. dispute'[id].outcome = "Upheld" /\ \A i \in TaskIds \ {id} : dispute'[i] = dispute[i]
    BY <2>1, <2>2 DEF CloseDispute, TypeOK, DisputeType
  <2> QED
    BY <2>1, <2>3 DEF MoneyMoves, MoneyRests, MoneyRedealt
<1>3. ASSUME NEW B \in SUBSET Accounts, ResolveRejected(a, id, B)
      PROVE  \A i \in TaskIds : MoneyMoves(i)
  <2> DEFINE defended == IF B # {} THEN B ELSE Defamed(id)
  <2>1. defended \in SUBSET Accounts /\ CreatorOf(id) \in Accounts
    BY PartiesType, AccountsAssumption DEF TaskIds, CreatorOf
  <2>2. dispute[id].bond \in Nat
    BY DEF TypeOK, DisputeType
  <2>3. Bps(dispute[id].bond, AdjudicatorSplitBps) \in Nat
    <3>1. AdjudicatorSplitBps \in 0..BPS_DENOMINATOR
      BY ParamsAssumption
    <3> QED
      BY <2>2, <3>1, BpsBound
  <2>4. /\ task[id].status \notin Terminal
        /\ Allocate(id, defended, Bps(dispute[id].bond, AdjudicatorSplitBps), CreatorOf(id),
                    dispute[id].bond)
    BY <1>3 DEF ResolveRejected, Disputed, Terminal
  <2>5. \A i \in TaskIds \ {id} : task'[i] = task[i] /\ dispute'[i] = dispute[i]
    BY <1>3 DEF ResolveRejected, CloseDispute, TypeOK
  <2> HIDE DEF defended
  <2> QED
    BY <2>1, <2>2, <2>3, <2>4, <2>5, AllocateGrows
<1> QED
  BY <1>1, <1>2, <1>3

LEMMA FallbackMoney ==
  ASSUME TypeOK, FallbackNext
  PROVE  \A i \in TaskIds : MoneyMoves(i)
<1> PICK id \in TaskIds : FinalizeTask(id) \/ ExpireTask(id) \/ ExpireDispute(id)
  BY DEF FallbackNext
<1>1. ASSUME FinalizeTask(id) PROVE \A i \in TaskIds : MoneyMoves(i)
  BY <1>1, OneTaskKeeps DEF FinalizeTask, WindowElapsed, Terminal, TypeOK, ledger
<1>2. ASSUME ExpireTask(id) PROVE \A i \in TaskIds : MoneyMoves(i)
  <2> DEFINE S == IF task[id].revealedCount > 0 THEN Revealers(id) ELSE {}
             pool == Bps(task[id].bounty, ConflictRateBps)
  <2>1. /\ task[id].status \notin Terminal
        /\ Allocate(id, S, pool, CreatorOf(id), task[id].bounty)
        /\ \A i \in TaskIds \ {id} : task'[i] = task[i] /\ dispute'[i] = dispute[i]
    BY <1>2 DEF ExpireTask, Unsettled, Terminal, TypeOK
  <2>2. S \in SUBSET Accounts /\ CreatorOf(id) \in Accounts
    BY PartiesType, AccountsAssumption DEF TaskIds, CreatorOf
  <2>3. task[id].bounty \in Nat
    BY DEF TypeOK, TaskType
  <2>4. pool \in Nat
    BY <2>3, BpsBound, ParamsAssumption
  <2> HIDE DEF S, pool
  <2> QED
    BY <2>1, <2>2, <2>3, <2>4, AllocateGrows
<1>3. ASSUME ExpireDispute(id) PROVE \A i \in TaskIds : MoneyMoves(i)
  <2>1. /\ task[id].status \notin Terminal
        /\ Allocate(id, Defamed(id), Bps(dispute[id].bond, AdjudicatorSplitBps),
                    dispute[id].challenger, dispute[id].bond)
        /\ \A i \in TaskIds \ {id} : task'[i] = task[i] /\ dispute'[i] = dispute[i]
    BY <1>3 DEF ExpireDispute, Disputed, CloseDispute, Terminal, TypeOK
  <2>2. dispute[id].challenger \in Accounts /\ dispute[id].bond \in Nat
    BY <1>3 DEF ExpireDispute, Disputed, TypeOK, DisputeType
  <2>3. Bps(dispute[id].bond, AdjudicatorSplitBps) \in Nat
    <3>1. AdjudicatorSplitBps \in 0..BPS_DENOMINATOR
      BY ParamsAssumption
    <3> QED
      BY <2>2, <3>1, BpsBound
  <2> QED
    BY <2>1, <2>2, <2>3, PartiesType, AllocateGrows
<1> QED
  BY <1>1, <1>2, <1>3

LEMMA PayoutMoney ==
  ASSUME TypeOK, PayoutNext
  PROVE  \A i \in TaskIds : MoneyMoves(i)
<1>1. ASSUME NEW id \in TaskIds, NEW a \in Accounts, Claimable(id, a),
             task' = FinalizedForClaim(id), UNCHANGED dispute,
             allocation' = [allocation EXCEPT ![id][a] = 0]
      PROVE  \A i \in TaskIds : MoneyMoves(i)
  <2>1. allocation \in [TaskIds -> [Accounts -> Nat]] /\ task \in [TaskIds -> TaskType]
    BY DEF TypeOK
  <2>2. \A b \in Accounts : allocation'[id][b] <= allocation[id][b]
    BY <1>1, <2>1
  <2>3. \A i \in TaskIds \ {id} : allocation'[i] = allocation[i] /\ task'[i] = task[i]
    BY <1>1, <2>1 DEF FinalizedForClaim
  <2>4. (task[id].status \in Terminal /\ task'[id] = task[id]) \/ WindowElapsed(id)
    BY <1>1 DEF Claimable, FinalizedForClaim
  <2> QED
    BY <1>1, <2>2, <2>3, <2>4 DEF MoneyMoves, MoneyRests, MoneyClaimed
<1>2. ASSUME NEW a \in Accounts, Withdraw(a) PROVE \A i \in TaskIds : MoneyMoves(i)
  BY <1>2, NoMoneyMoves DEF Withdraw, rounds
<1>3. ASSUME NEW a \in Accounts, NEW id \in TaskIds, ClaimReward(a, id)
      PROVE  \A i \in TaskIds : MoneyMoves(i)
  BY <1>1, <1>3 DEF ClaimReward
<1>4. ASSUME NEW a \in Accounts, NEW id \in TaskIds, RefundCreator(a, id)
      PROVE  \A i \in TaskIds : MoneyMoves(i)
  <2>1. CASE allocation[id][a] > 0
    BY <1>1, <1>4, <2>1 DEF RefundCreator
  <2>2. CASE ~(allocation[id][a] > 0)
    <3>1. allocation \in [TaskIds -> [Accounts -> Nat]]
      BY DEF TypeOK
    <3>2. allocation[id][a] = 0
      BY <2>2, <3>1
    <3>3. task' = task /\ dispute' = dispute /\ allocation' = [allocation EXCEPT ![id][a] = 0]
      BY <1>4, <2>2 DEF RefundCreator
    <3>4. allocation' = allocation
      BY <3>1, <3>2, <3>3
    <3> QED
      BY <3>3, <3>4, NoMoneyMoves
  <2> QED
    BY <2>1, <2>2
<1>5. ASSUME CallReturns PROVE \A i \in TaskIds : MoneyMoves(i)
  BY <1>5, NoMoneyMoves DEF CallReturns, rounds, ledger
<1> QED
  BY <1>2, <1>3, <1>4, <1>5 DEF PayoutNext

(* While a classification can still be contested nobody's share shrinks but  *)
(* by an upheld challenge, and a settled task keeps its status, its verdict  *)
(* and its dispute for good, and never allocates again.                      *)
THEOREM AllocationsKept == Spec => AllocationsHold
<1>1. ASSUME TypeOK, [Next]_vars
      PROVE  \A i \in TaskIds : MoneyMoves(i)
  <2>1. CASE RegistryNext \/ AdminNext \/ Tick \/ UNCHANGED vars
    BY <2>1, NoMoneyMoves
    DEF RegistryNext, RegisterVerifier, SetVerifierActive, SetVerifierApproval,
        WithdrawStake, AdminNext, SetPaused, GrantRole, RevokeRole, Tick, vars, rounds, ledger
  <2> QED
    BY <1>1, <2>1, RoundMoney, KeeperMoney, DisputeMoney, FallbackMoney, PayoutMoney DEF Next
<1>2. TypeOK /\ TypeOK' /\ [Next]_vars => FrozenStep /\ SettledStep
  BY <1>1, MoneyMovesMeans
<1> QED
  BY TypeCorrect, <1>2, PTL DEF Spec, AllocationsHold, FrozenWhileContestable, SettledForGood

-----------------------------------------------------------------------------
(* Whom a keeper may name.  A task has no outcome before it settles, and only *)
(* finalizeConsensus gives one that is open the outcome of a consensus.       *)
KeepsOutcome(i) ==
  /\ task'[i].outcome = task[i].outcome
  /\ task'[i].status \in {"None"} \cup Unsettled => task[i].status \in {"None"} \cup Unsettled

Begins(i) == task'[i].outcome = "None"

Decides(i) ==
  /\ task'[i].status \notin {"None"} \cup Unsettled
  /\ task[i].status \in Unsettled /\ task'[i].outcome = "Consensus" =>
       \E a \in Accounts, B \in SUBSET Accounts, rate \in RewardRates :
          FinalizeAsConsensus(a, i, B, rate)

OutcomeMoves(i) == KeepsOutcome(i) \/ Begins(i) \/ Decides(i)

LEMMA NoOutcomeMoves ==
  ASSUME UNCHANGED task
  PROVE  \A i \in TaskIds : OutcomeMoves(i)
  BY DEF OutcomeMoves, KeepsOutcome

LEMMA OneOutcomeMoves ==
  ASSUME NEW id \in TaskIds, OutcomeMoves(id),
         \A i \in TaskIds \ {id} : task'[i] = task[i]
  PROVE  \A i \in TaskIds : OutcomeMoves(i)
  BY DEF OutcomeMoves, KeepsOutcome

LEMMA RoundOutcome ==
  ASSUME TypeOK, RoundNext
  PROVE  \A i \in TaskIds : OutcomeMoves(i)
<1>1. task \in [TaskIds -> TaskType]
  BY DEF TypeOK
<1>2. ASSUME NEW c \in Creators, NEW spec \in TaskSpecs, NEW value \in Bounties,
             CreateTask(c, spec, value)
      PROVE  \A i \in TaskIds : OutcomeMoves(i)
  <2> DEFINE id == <<c, creatorNonce[c]>>
             r  == [NoTask EXCEPT !.bounty = value,
                      !.verifierCount = spec.verifierCount,
                      !.commitDeadline = now + spec.commitWindowSec,
                      !.revealDeadline = now + spec.commitWindowSec + spec.revealWindowSec,
                      !.disputeWindow = spec.disputeWindowSec,
                      !.status = "Open"]
  <2>1. creatorNonce[c] < MaxNonce /\ task' = [task EXCEPT ![id] = r]
    BY <1>2 DEF CreateTask
  <2>2. id \in TaskIds
    <3>1. c \in Accounts /\ creatorNonce \in [Accounts -> Nat]
      BY AccountsAssumption DEF TypeOK
    <3> QED
      BY <2>1, <3>1, InputsAssumption, SMT DEF TaskIds
  <2>3. r.outcome = "None"
    BY DEF NoTask
  <2> HIDE DEF id, r
  <2>4. task'[id] = r /\ \A i \in TaskIds \ {id} : task'[i] = task[i]
    BY <1>1, <2>1, <2>2
  <2> QED
    BY <2>2, <2>3, <2>4, OneOutcomeMoves DEF OutcomeMoves, Begins
<1>3. ASSUME NEW id \in TaskIds, NEW a \in Accounts, CancelTask(a, id)
      PROVE  \A i \in TaskIds : OutcomeMoves(i)
  <2>1. task' = [task EXCEPT ![id].status = "Cancelled", ![id].outcome = "Cancelled"]
    BY <1>3 DEF CancelTask
  <2>2. /\ task'[id].status = "Cancelled" /\ task'[id].outcome = "Cancelled"
        /\ \A i \in TaskIds \ {id} : task'[i] = task[i]
    BY <1>1, <2>1 DEF TaskType
  <2>3. Decides(id)
    BY <2>2 DEF Decides, Unsettled
  <2> QED
    BY <2>2, <2>3, OneOutcomeMoves DEF OutcomeMoves
<1>4. ASSUME NEW id \in TaskIds, NEW a \in Accounts, NEW m \in Commitments,
             CommitReport(a, id, m)
      PROVE  \A i \in TaskIds : OutcomeMoves(i)
  <2>1. /\ task[id].status \in {"Open", "Committing"}
        /\ task' = [task EXCEPT ![id].committedCount = @ + 1, ![id].status = "Committing"]
    BY <1>4 DEF CommitReport
  <2>2. task'[id].outcome = task[id].outcome /\ \A i \in TaskIds \ {id} : task'[i] = task[i]
    BY <1>1, <2>1 DEF TaskType
  <2> QED
    BY <2>1, <2>2, OneOutcomeMoves DEF OutcomeMoves, KeepsOutcome, Unsettled
<1>5. ASSUME NEW id \in TaskIds, NEW a \in Accounts, RevealReport(a, id)
      PROVE  \A i \in TaskIds : OutcomeMoves(i)
  <2>1. /\ task[id].status \in {"Committing", "Revealing"}
        /\ task' = [task EXCEPT ![id].revealedCount = @ + 1, ![id].status = "Revealing"]
    BY <1>5 DEF RevealReport
  <2>2. task'[id].outcome = task[id].outcome /\ \A i \in TaskIds \ {id} : task'[i] = task[i]
    BY <1>1, <2>1 DEF TaskType
  <2> QED
    BY <2>1, <2>2, OneOutcomeMoves DEF OutcomeMoves, KeepsOutcome, Unsettled
<1> QED
  BY <1>2, <1>3, <1>4, <1>5 DEF RoundNext

LEMMA KeeperOutcome ==
  ASSUME TypeOK, KeeperNext
  PROVE  \A i \in TaskIds : OutcomeMoves(i)
<1> PICK id \in TaskIds, a \in Accounts :
        \/ \E B \in SUBSET Accounts, rate \in RewardRates : FinalizeAsConsensus(a, id, B, rate)
        \/ FinalizeAsConflict(a, id)
        \/ FinalizeAsNoQuorum(a, id)
  BY DEF KeeperNext
<1>1. ASSUME NEW o, NEW rate, NEW S, NEW pool, Classify(a, id, o, rate, S, pool)
      PROVE  /\ task'[id].status = "Consensus" /\ task'[id].outcome = o
             /\ \A i \in TaskIds \ {id} : task'[i] = task[i]
  <2>1. task' = [task EXCEPT ![id].outcome = o, ![id].rewardBps = rate,
                   ![id].consensusAt = now % Uint32Size, ![id].status = "Consensus"]
    BY <1>1 DEF Classify
  <2>2. task \in [TaskIds -> TaskType]
    BY DEF TypeOK
  <2> QED
    BY <2>1, <2>2 DEF TaskType
<1>2. ASSUME NEW B \in SUBSET Accounts, NEW rate \in RewardRates,
             FinalizeAsConsensus(a, id, B, rate)
      PROVE  \A i \in TaskIds : OutcomeMoves(i)
  <2>1. /\ task'[id].status = "Consensus"
        /\ \A i \in TaskIds \ {id} : task'[i] = task[i]
    BY <1>1, <1>2 DEF FinalizeAsConsensus
  <2>2. Decides(id)
    BY <1>2, <2>1 DEF Decides, Unsettled
  <2> QED
    BY <2>1, <2>2, OneOutcomeMoves DEF OutcomeMoves
<1>3. ASSUME FinalizeAsConflict(a, id) \/ FinalizeAsNoQuorum(a, id)
      PROVE  \A i \in TaskIds : OutcomeMoves(i)
  <2>1. /\ task'[id].status = "Consensus" /\ task'[id].outcome \in {"Conflict", "NoQuorum"}
        /\ \A i \in TaskIds \ {id} : task'[i] = task[i]
    BY <1>1, <1>3 DEF FinalizeAsConflict, FinalizeAsNoQuorum
  <2>2. Decides(id)
    BY <2>1 DEF Decides, Unsettled
  <2> QED
    BY <2>1, <2>2, OneOutcomeMoves DEF OutcomeMoves
<1> QED
  BY <1>2, <1>3

(* A step that sets the status of a task that has its outcome. *)
LEMMA StatusOutcome ==
  ASSUME TypeOK, NEW id \in TaskIds, NEW s \in {"Disputed", "Finalized"},
         task' = [task EXCEPT ![id].status = s]
  PROVE  \A i \in TaskIds : OutcomeMoves(i)
<1>1. task \in [TaskIds -> TaskType]
  BY DEF TypeOK
<1>2. /\ task'[id].status = s /\ task'[id].outcome = task[id].outcome
      /\ \A i \in TaskIds \ {id} : task'[i] = task[i]
  BY <1>1 DEF TaskType
<1> QED
  BY <1>2, OneOutcomeMoves DEF OutcomeMoves, KeepsOutcome, Unsettled

LEMMA DisputeOutcome ==
  ASSUME TypeOK, DisputeNext
  PROVE  \A i \in TaskIds : OutcomeMoves(i)
<1> PICK id \in TaskIds, a \in Accounts :
        \/ OpenChallenge(a, id)
        \/ \E B \in SUBSET Accounts : ResolveUpheld(a, id, B) \/ ResolveRejected(a, id, B)
  BY DEF DisputeNext
<1>1. ASSUME OpenChallenge(a, id) PROVE \A i \in TaskIds : OutcomeMoves(i)
  BY <1>1, StatusOutcome DEF OpenChallenge
<1>2. ASSUME NEW B, ResolveRejected(a, id, B) PROVE \A i \in TaskIds : OutcomeMoves(i)
  BY <1>2, StatusOutcome DEF ResolveRejected
<1>3. ASSUME NEW B, ResolveUpheld(a, id, B) PROVE \A i \in TaskIds : OutcomeMoves(i)
  <2>1. task' = [task EXCEPT ![id] = OverturnedTask(id)]
    BY <1>3 DEF ResolveUpheld
  <2>2. task \in [TaskIds -> TaskType]
    BY DEF TypeOK
  <2>3. /\ task'[id].status = "Finalized" /\ task'[id].outcome = "Conflict"
        /\ \A i \in TaskIds \ {id} : task'[i] = task[i]
    BY <2>1, <2>2 DEF OverturnedTask, TaskType
  <2>4. Decides(id)
    BY <2>3 DEF Decides, Unsettled
  <2> QED
    BY <2>3, <2>4, OneOutcomeMoves DEF OutcomeMoves
<1> QED
  BY <1>1, <1>2, <1>3

LEMMA FallbackOutcome ==
  ASSUME TypeOK, FallbackNext
  PROVE  \A i \in TaskIds : OutcomeMoves(i)
<1> PICK id \in TaskIds : FinalizeTask(id) \/ ExpireTask(id) \/ ExpireDispute(id)
  BY DEF FallbackNext
<1>1. ASSUME FinalizeTask(id) \/ ExpireDispute(id)
      PROVE  \A i \in TaskIds : OutcomeMoves(i)
  BY <1>1, StatusOutcome DEF FinalizeTask, ExpireDispute
<1>2. ASSUME ExpireTask(id) PROVE \A i \in TaskIds : OutcomeMoves(i)
  <2> DEFINE o == IF task[id].revealedCount > 0 THEN "Conflict" ELSE "Expired"
  <2>1. task' = [task EXCEPT ![id].status = "Expired", ![id].outcome = o]
    BY <1>2 DEF ExpireTask
  <2>2. o # "Consensus"
    OBVIOUS
  <2> HIDE DEF o
  <2>3. task \in [TaskIds -> TaskType]
    BY DEF TypeOK
  <2>4. /\ task'[id].status = "Expired" /\ task'[id].outcome = o
        /\ \A i \in TaskIds \ {id} : task'[i] = task[i]
    BY <2>1, <2>3 DEF TaskType
  <2>5. Decides(id)
    BY <2>2, <2>4 DEF Decides, Unsettled
  <2> QED
    BY <2>4, <2>5, OneOutcomeMoves DEF OutcomeMoves
<1> QED
  BY <1>1, <1>2

LEMMA PayoutOutcome ==
  ASSUME TypeOK, PayoutNext
  PROVE  \A i \in TaskIds : OutcomeMoves(i)
<1>1. UNCHANGED task \/ \E id \in TaskIds : task' = FinalizedForClaim(id)
  BY DEF PayoutNext, Withdraw, ClaimReward, RefundCreator, CallReturns, rounds
<1> QED
  BY <1>1, NoOutcomeMoves, StatusOutcome DEF FinalizedForClaim

LEMMA EveryOutcomeMoves ==
  ASSUME TypeOK, [Next]_vars
  PROVE  \A i \in TaskIds : OutcomeMoves(i)
<1>1. CASE RegistryNext \/ AdminNext \/ Tick \/ UNCHANGED vars
  BY <1>1, NoOutcomeMoves
  DEF RegistryNext, RegisterVerifier, SetVerifierActive, SetVerifierApproval,
      WithdrawStake, AdminNext, SetPaused, GrantRole, RevokeRole, Tick, vars, rounds
<1> QED
  BY <1>1, RoundOutcome, KeeperOutcome, DisputeOutcome, FallbackOutcome, PayoutOutcome
  DEF Next

(* Whoever is outside the named set gets only what is left over, if that is   *)
(* theirs.                                                                   *)
LEMMA NamedOnly ==
  ASSUME TypeOK, BooksInv, NEW id \in TaskIds, NEW k, NEW B \in SUBSET Accounts, NEW rate,
         FinalizeAsConsensus(k, id, B, rate),
         NEW role \in {"DEFAULT_ADMIN", "KEEPER", "ADJUDICATOR"},
         NEW a \in roles[role] \ {CreatorOf(id)}
  PROVE  allocation'[id][a] = 0
<1>1. a \in Accounts
  BY DEF TypeOK, Roles
<1>2. a \notin B /\ a # CreatorOf(id)
  BY DEF FinalizeAsConsensus, RequireRevealedSet
<1>3. /\ task[id].status \in Unsettled
      /\ Allocate(id, B, Bps(task[id].bounty, rate), CreatorOf(id), task[id].bounty)
  BY DEF FinalizeAsConsensus, Classify
<1>4. allocation[id][a] = 0
  BY <1>1, <1>3 DEF BooksInv, TaskBooks, Fresh
<1>5. allocation'[id] = Split(allocation[id], B, Bps(task[id].bounty, rate), CreatorOf(id),
                              task[id].bounty)
  BY <1>3 DEF Allocate, TypeOK
<1>6. allocation'[id][a] = allocation[id][a] + 0 + 0
  BY <1>1, <1>2, <1>5 DEF Split
<1> QED
  BY <1>4, <1>6

-----------------------------------------------------------------------------
(* What a failed challenge moves. *)

(* Nothing but a challenge, its resolution and its expiry touches a dispute. *)
LEMMA DisputesRest ==
  ASSUME [Next]_vars, ~DisputeNext, ~\E id \in TaskIds : ExpireDispute(id)
  PROVE  UNCHANGED dispute
<1>1. CASE RoundNext
  BY <1>1 DEF RoundNext, CreateTask, CancelTask, CommitReport, RevealReport
<1>2. CASE KeeperNext
  <2>1. ASSUME NEW id, NEW a, NEW outcome, NEW rate, NEW S, NEW pool,
               Classify(a, id, outcome, rate, S, pool)
        PROVE  UNCHANGED dispute
    BY <2>1 DEF Classify
  <2> QED
    BY <1>2, <2>1 DEF KeeperNext, FinalizeAsConsensus, FinalizeAsConflict, FinalizeAsNoQuorum
<1>3. CASE FallbackNext
  BY <1>3 DEF FallbackNext, FinalizeTask, ExpireTask
<1>4. CASE PayoutNext
  BY <1>4 DEF PayoutNext, Withdraw, ClaimReward, RefundCreator, CallReturns, rounds
<1>5. CASE RegistryNext \/ AdminNext \/ Tick \/ UNCHANGED vars
  BY <1>5
  DEF RegistryNext, RegisterVerifier, SetVerifierActive, SetVerifierApproval,
      WithdrawStake, AdminNext, SetPaused, GrantRole, RevokeRole, Tick, vars, rounds
<1> QED
  BY <1>1, <1>2, <1>3, <1>4, <1>5 DEF Next

(* The bond of a dispute, dealt out over S: whoever is outside S and is not   *)
(* owed the rest gets nothing.                                               *)
LEMMA BondDealt ==
  ASSUME TypeOK, NEW id \in TaskIds, NEW S \in SUBSET Accounts, NEW rest \in Accounts,
         Allocate(id, S, Bps(dispute[id].bond, AdjudicatorSplitBps), rest, dispute[id].bond)
  PROVE  /\ \A a \in Accounts : allocation'[id][a] >= allocation[id][a]
         /\ Total(allocation'[id], Accounts) = AllocatedTo(id) + dispute[id].bond
         /\ \A a \in Accounts \ (S \cup {rest}) : allocation'[id][a] = allocation[id][a]
<1>1. dispute[id].bond \in Nat
  BY DEF TypeOK, DisputeType
<1>2. Bps(dispute[id].bond, AdjudicatorSplitBps) \in Nat
  <2>1. AdjudicatorSplitBps \in 0..BPS_DENOMINATOR
    BY ParamsAssumption
  <2> QED
    BY <1>1, <2>1, BpsBound
<1>3. /\ \A a \in Accounts : allocation'[id][a] >= allocation[id][a]
      /\ AllocatedTo(id)' = AllocatedTo(id) + dispute[id].bond
  BY <1>1, <1>2, Dealt
<1>4. /\ allocation \in [TaskIds -> [Accounts -> Nat]]
      /\ allocation'[id] = Split(allocation[id], S, Bps(dispute[id].bond, AdjudicatorSplitBps),
                                 rest, dispute[id].bond)
  BY DEF Allocate, TypeOK
<1>5. ASSUME NEW a \in Accounts \ (S \cup {rest})
      PROVE  allocation'[id][a] = allocation[id][a]
  <2>1. allocation'[id][a] = allocation[id][a] + 0 + 0
    BY <1>4, <1>5 DEF Split
  <2> QED
    BY <1>4, <2>1
<1> QED
  BY <1>3, <1>5 DEF AllocatedTo

LEMMA RejectedStep ==
  ASSUME TypeOK, NEW id \in TaskIds, NEW a, NEW B \in SUBSET Accounts, ResolveRejected(a, id, B)
  PROVE  FailedChallengeStep
<1> DEFINE defended == IF B # {} THEN B ELSE Defamed(id)
           c == dispute[id].challenger
<1>1. /\ c \in Accounts /\ defended \in SUBSET Accounts /\ CreatorOf(id) \in Accounts
  <2>1. c \in Accounts
    BY DEF ResolveRejected, Disputed, TypeOK, DisputeType
  <2> QED
    BY <2>1, PartiesType, AccountsAssumption DEF TaskIds, CreatorOf
<1>2. Allocate(id, defended, Bps(dispute[id].bond, AdjudicatorSplitBps), CreatorOf(id),
               dispute[id].bond)
  BY DEF ResolveRejected
<1>3. c \notin defended
  BY DEF ResolveRejected, Defamed
<1>4. \A i \in TaskIds \ {id} : dispute'[i] = dispute[i]
  BY DEF ResolveRejected, CloseDispute, TypeOK
<1> HIDE DEF defended, c
<1>5. /\ \A x \in Accounts : allocation'[id][x] >= allocation[id][x]
      /\ Total(allocation'[id], Accounts) = AllocatedTo(id) + dispute[id].bond
      /\ c # CreatorOf(id) => allocation'[id][c] = allocation[id][c]
  BY <1>1, <1>2, <1>3, BondDealt
<1> QED
  BY <1>4, <1>5 DEF FailedChallengeStep, c

LEMMA DisputeExpiredStep ==
  ASSUME TypeOK, NEW id \in TaskIds, ExpireDispute(id)
  PROVE  FailedChallengeStep
<1>1. dispute[id].challenger \in Accounts
  BY DEF ExpireDispute, Disputed, TypeOK, DisputeType
<1>2. Allocate(id, Defamed(id), Bps(dispute[id].bond, AdjudicatorSplitBps),
               dispute[id].challenger, dispute[id].bond)
  BY DEF ExpireDispute
<1>3. /\ \A x \in Accounts : allocation'[id][x] >= allocation[id][x]
      /\ Total(allocation'[id], Accounts) = AllocatedTo(id) + dispute[id].bond
  BY <1>1, <1>2, PartiesType, BondDealt
<1>4. dispute'[id].outcome = "Expired" /\ \A i \in TaskIds \ {id} : dispute'[i] = dispute[i]
  BY DEF ExpireDispute, CloseDispute, TypeOK, DisputeType
<1> QED
  BY <1>3, <1>4 DEF FailedChallengeStep

(* A challenge that is rejected or that nobody rules on takes nothing from    *)
(* anybody: its bond is all that is dealt out, and a rejected challenger      *)
(* other than the creator gets none of it back.                              *)
THEOREM OnlyTheBondMoves == Spec => FailedChallengeMovesOnlyBond
<1>1. ASSUME TypeOK, [Next]_vars
      PROVE  FailedChallengeStep
  <2>1. dispute \in [TaskIds -> DisputeType]
    BY <1>1 DEF TypeOK
  <2>2. CASE UNCHANGED dispute
    BY <2>2 DEF FailedChallengeStep
  <2>3. ASSUME NEW id \in TaskIds, NEW a \in Accounts, OpenChallenge(a, id)
        PROVE  FailedChallengeStep
    <3>1. \A i \in TaskIds \ {id} : dispute'[i] = dispute[i]
      BY <2>1, <2>3 DEF OpenChallenge
    <3>2. ~dispute'[id].resolved
      BY <2>1, <2>3 DEF OpenChallenge, NoDispute
    <3> QED
      BY <3>1, <3>2 DEF FailedChallengeStep
  <2>4. ASSUME NEW id \in TaskIds, NEW a \in Accounts, NEW B \in SUBSET Accounts,
               ResolveUpheld(a, id, B)
        PROVE  FailedChallengeStep
    <3>1. /\ dispute'[id].outcome = "Upheld"
          /\ \A i \in TaskIds \ {id} : dispute'[i] = dispute[i]
      BY <2>1, <2>4 DEF ResolveUpheld, CloseDispute, DisputeType
    <3> QED
      BY <3>1 DEF FailedChallengeStep
  <2>5. CASE DisputeNext
    BY <2>3, <2>4, <2>5, <1>1, RejectedStep DEF DisputeNext
  <2>6. CASE \E id \in TaskIds : ExpireDispute(id)
    BY <1>1, <2>6, DisputeExpiredStep
  <2> QED
    BY <1>1, <2>2, <2>5, <2>6, DisputesRest
<1> QED
  BY TypeCorrect, <1>1, PTL DEF Spec, FailedChallengeMovesOnlyBond

-----------------------------------------------------------------------------
(* The contract implements the abstract escrow.  One lemma per action of the  *)
(* abstract specification says when a step of the contract is that action.    *)
PhaseMap == [id \in TaskIds |-> PhaseOf(id)]
HeldMap  == [id \in TaskIds |-> Held(id) + AllocatedTo(id)]

EscrowStep == Escrow!Next \/ UNCHANGED Escrow!vars

LEMMA PhaseTells ==
  ASSUME NEW id
  PROVE  /\ task[id].status = "None" => PhaseOf(id) = "absent"
         /\ task[id].status \in Unsettled => PhaseOf(id) = "collecting"
         /\ task[id].status = "Consensus" => PhaseOf(id) = "provisional"
         /\ task[id].status = "Disputed" => PhaseOf(id) = "contested"
         /\ task[id].status \in Terminal => PhaseOf(id) = "closed"
         /\ task'[id].status \in Unsettled => PhaseOf(id)' = "collecting"
         /\ task'[id].status = "Consensus" => PhaseOf(id)' = "provisional"
         /\ task'[id].status = "Disputed" => PhaseOf(id)' = "contested"
         /\ task'[id].status \in Terminal => PhaseOf(id)' = "closed"
  BY DEF PhaseOf, Unsettled, Terminal

(* A step on one task changes the maps at that task only. *)
LEMMA MapsAt ==
  ASSUME NEW id \in TaskIds, Elsewhere(id)
  PROVE  /\ PhaseMap' = [PhaseMap EXCEPT ![id] = PhaseOf(id)']
         /\ HeldMap' = [HeldMap EXCEPT ![id] = HeldMap'[id]]
         /\ PhaseMap[id] = PhaseOf(id)
         /\ HeldMap[id] = Held(id) + AllocatedTo(id)
         /\ HeldMap'[id] = Held(id)' + AllocatedTo(id)'
<1>1. \A i \in TaskIds \ {id} :
         PhaseOf(i)' = PhaseOf(i) /\ Held(i)' = Held(i) /\ AllocatedTo(i)' = AllocatedTo(i)
  BY DEF Elsewhere, PhaseOf, Held, AllocatedTo
<1> QED
  BY <1>1 DEF PhaseMap, HeldMap

LEMMA RestsInEscrow ==
  ASSUME \A i \in TaskIds : /\ PhaseOf(i)' = PhaseOf(i)
                            /\ Held(i)' = Held(i) /\ AllocatedTo(i)' = AllocatedTo(i),
         UNCHANGED pendingWithdrawals
  PROVE  UNCHANGED Escrow!vars
<1>1. PhaseMap' = PhaseMap /\ HeldMap' = HeldMap
  BY DEF PhaseMap, HeldMap
<1> QED
  BY <1>1 DEF Escrow!vars, PhaseMap, HeldMap

LEMMA OpensInEscrow ==
  ASSUME NEW id \in TaskIds, Elsewhere(id), UNCHANGED pendingWithdrawals,
         \/ PhaseOf(id) = "absent" /\ PhaseOf(id)' = "collecting"
         \/ PhaseOf(id) = "provisional" /\ PhaseOf(id)' = "contested",
         Held(id)' + AllocatedTo(id)' >= Held(id) + AllocatedTo(id)
  PROVE  Escrow!Next
<1>1. /\ PhaseMap' = [PhaseMap EXCEPT ![id] = PhaseOf(id)']
      /\ HeldMap' = [HeldMap EXCEPT ![id] = HeldMap'[id]]
      /\ PhaseMap[id] = PhaseOf(id) /\ HeldMap'[id] >= HeldMap[id]
  BY MapsAt
<1>2. Escrow!Open(id) \/ Escrow!Contest(id)
  BY <1>1 DEF Escrow!Open, Escrow!Contest, Escrow!Move, PhaseMap, HeldMap
<1> QED
  BY <1>2 DEF Escrow!Next

LEMMA SettlesInEscrow ==
  ASSUME NEW id \in TaskIds, Elsewhere(id), UNCHANGED pendingWithdrawals,
         \/ PhaseOf(id) = "collecting" /\ PhaseOf(id)' = "provisional"
         \/ PhaseOf(id) \in {"collecting", "provisional", "contested"} /\ PhaseOf(id)' = "closed",
         Held(id)' + AllocatedTo(id)' = Held(id) + AllocatedTo(id)
  PROVE  Escrow!Next
<1>1. /\ PhaseMap' = [PhaseMap EXCEPT ![id] = PhaseOf(id)']
      /\ HeldMap' = [HeldMap EXCEPT ![id] = HeldMap'[id]]
      /\ PhaseMap[id] = PhaseOf(id) /\ HeldMap'[id] = HeldMap[id]
  BY MapsAt
<1>2. HeldMap' = HeldMap
  BY <1>1 DEF HeldMap
<1>3. Escrow!Classify(id) \/ Escrow!Close(id)
  BY <1>1, <1>2 DEF Escrow!Classify, Escrow!Close, Escrow!Move, Escrow!Phases, PhaseMap, HeldMap
<1> QED
  BY <1>3 DEF Escrow!Next

LEMMA PaysInEscrow ==
  ASSUME NEW id \in TaskIds, NEW a \in Accounts, Elsewhere(id),
         PhaseOf(id) \in {"collecting", "provisional", "closed"}, PhaseOf(id)' = "closed",
         NEW n \in Nat, NEW amount \in Nat, n > 0,
         Held(id) + AllocatedTo(id) = amount,
         Held(id)' + AllocatedTo(id)' = amount - n, amount >= n,
         \/ pendingWithdrawals' = [pendingWithdrawals EXCEPT ![a] = pendingWithdrawals[a] + n]
         \/ pendingWithdrawals' = [pendingWithdrawals EXCEPT ![a] = 0]
  PROVE  Escrow!Next
<1>1. /\ PhaseMap' = [PhaseMap EXCEPT ![id] = PhaseOf(id)']
      /\ HeldMap' = [HeldMap EXCEPT ![id] = HeldMap'[id]]
      /\ PhaseMap[id] = PhaseOf(id)
      /\ HeldMap[id] = amount /\ HeldMap'[id] = amount - n
  BY MapsAt
<1>2. HeldMap'[id] \in 0..(HeldMap[id] - 1)
  BY <1>1
<1>3. \/ pendingWithdrawals' = [pendingWithdrawals EXCEPT
                                  ![a] = pendingWithdrawals[a] + HeldMap[id] - HeldMap'[id]]
      \/ pendingWithdrawals' = [pendingWithdrawals EXCEPT ![a] = 0]
  BY <1>1
<1>4. Escrow!Pay(id, a)
  BY <1>1, <1>2, <1>3 DEF Escrow!Pay, Escrow!Move, PhaseMap, HeldMap
<1> QED
  BY <1>4 DEF Escrow!Next

(* A step that moves only one account's credit. *)
LEMMA CreditsInEscrow ==
  ASSUME NEW a \in Accounts, TypeOK, TypeOK', UNCHANGED <<task, dispute, allocation>>,
         \/ /\ pendingWithdrawals[a] > 0
            /\ pendingWithdrawals' = [pendingWithdrawals EXCEPT ![a] = 0]
         \/ \E n \in Nat \ {0} : pendingWithdrawals' = Credit(pendingWithdrawals, a, n)
  PROVE  Escrow!Next
<1>1. PhaseMap' = PhaseMap /\ HeldMap' = HeldMap
  BY DEF PhaseMap, HeldMap, PhaseOf, Held, AllocatedTo
<1>2. pendingWithdrawals \in [Accounts -> Nat]
  BY DEF TypeOK
<1>3. CASE /\ pendingWithdrawals[a] > 0
           /\ pendingWithdrawals' = [pendingWithdrawals EXCEPT ![a] = 0]
  <2>1. Escrow!Collect(a)
    BY <1>1, <1>3 DEF Escrow!Collect, PhaseMap, HeldMap
  <2> QED
    BY <2>1 DEF Escrow!Next
<1>4. ASSUME NEW n \in Nat \ {0}, pendingWithdrawals' = Credit(pendingWithdrawals, a, n)
      PROVE  Escrow!Next
  <2>1. /\ pendingWithdrawals' = [pendingWithdrawals EXCEPT ![a] = pendingWithdrawals'[a]]
        /\ pendingWithdrawals'[a] > pendingWithdrawals[a]
    BY <1>2, <1>4 DEF Credit
  <2>2. Escrow!ReturnStake(a)
    BY <1>1, <2>1 DEF Escrow!ReturnStake, PhaseMap, HeldMap
  <2> QED
    BY <2>2 DEF Escrow!Next
<1> QED
  BY <1>3, <1>4

(* A step that changes the round of one task, and not what it holds. *)
LEMMA RoundRests ==
  ASSUME NEW id \in TaskIds, UNCHANGED <<dispute, allocation, pendingWithdrawals>>,
         task[id].status \in Unsettled, task'[id].status \in Unsettled,
         task'[id].bounty = task[id].bounty,
         \A i \in TaskIds \ {id} : task'[i] = task[i]
  PROVE  EscrowStep
<1>1. PhaseOf(id)' = PhaseOf(id)
  BY PhaseTells
<1>2. Held(id)' = Held(id)
  BY DEF Held, Unsettled
<1>3. \A i \in TaskIds \ {id} : PhaseOf(i)' = PhaseOf(i) /\ Held(i)' = Held(i)
  BY DEF PhaseOf, Held
<1>4. \A i \in TaskIds : AllocatedTo(i)' = AllocatedTo(i)
  BY DEF AllocatedTo
<1>5. UNCHANGED Escrow!vars
  BY <1>1, <1>2, <1>3, <1>4, RestsInEscrow
<1> QED
  BY <1>5 DEF EscrowStep

LEMMA RoundEscrow ==
  ASSUME TypeOK, TypeOK', BooksInv, RoundNext
  PROVE  EscrowStep
<1>1. task \in [TaskIds -> TaskType]
  BY DEF TypeOK
<1>2. ASSUME NEW c \in Creators, NEW spec \in TaskSpecs, NEW value \in Bounties,
             CreateTask(c, spec, value)
      PROVE  EscrowStep
  <2> DEFINE id == <<c, creatorNonce[c]>>
             r  == [NoTask EXCEPT !.bounty = value,
                      !.verifierCount = spec.verifierCount,
                      !.commitDeadline = now + spec.commitWindowSec,
                      !.revealDeadline = now + spec.commitWindowSec + spec.revealWindowSec,
                      !.disputeWindow = spec.disputeWindowSec,
                      !.status = "Open"]
  <2>1. /\ creatorNonce[c] < MaxNonce /\ task' = [task EXCEPT ![id] = r]
        /\ task[id].status = "None"
        /\ UNCHANGED <<report, dispute, allocation, pendingWithdrawals>>
    BY <1>2 DEF CreateTask
  <2>2. id \in TaskIds
    <3>1. c \in Accounts /\ creatorNonce \in [Accounts -> Nat]
      BY AccountsAssumption DEF TypeOK
    <3> QED
      BY <2>1, <3>1, InputsAssumption, SMT DEF TaskIds
  <2>3. r.status = "Open"
    BY DEF NoTask
  <2> HIDE DEF id, r
  <2>4. task'[id] = r /\ \A i \in TaskIds \ {id} : task'[i] = task[i]
    BY <1>1, <2>1, <2>2
  <2>5. Elsewhere(id)
    BY <2>1, <2>4 DEF Elsewhere
  <2>6. PICK t \in TaskIds : t = id
    BY <2>2
  <2>7. Held(t) = 0 /\ Held(t)' \in Nat
    <3>1. task'[t].bounty \in Nat /\ dispute'[t].bond \in Nat
      BY DEF TypeOK, TaskType, DisputeType
    <3> QED
      BY <2>1, <2>6, <3>1 DEF Held, Unsettled
  <2>8. AllocatedTo(t)' = AllocatedTo(t) /\ AllocatedTo(t) \in Nat
    BY <2>1, AmountsType DEF AllocatedTo
  <2>9. PhaseOf(t) = "absent" /\ PhaseOf(t)' = "collecting"
    BY <2>1, <2>3, <2>4, <2>6, PhaseTells DEF Unsettled
  <2> QED
    BY <2>1, <2>5, <2>6, <2>7, <2>8, <2>9, OpensInEscrow DEF EscrowStep
<1>3. ASSUME NEW id \in TaskIds, NEW a \in Accounts, CancelTask(a, id)
      PROVE  EscrowStep
  <2>1. /\ task[id].status \in {"Open", "Committing"}
        /\ task' = [task EXCEPT ![id].status = "Cancelled", ![id].outcome = "Cancelled"]
        /\ pendingWithdrawals' = Credit(pendingWithdrawals, a, task[id].bounty)
        /\ UNCHANGED <<report, dispute, allocation>>
    BY <1>3 DEF CancelTask
  <2>2. task'[id].status = "Cancelled" /\ \A i \in TaskIds \ {id} : task'[i] = task[i]
    BY <1>1, <2>1 DEF TaskType
  <2>3. Elsewhere(id)
    BY <2>1, <2>2 DEF Elsewhere
  <2>4. Held(id) = task[id].bounty /\ Held(id)' = 0
    BY <2>1, <2>2 DEF Held, Unsettled
  <2>5. AllocatedTo(id)' = AllocatedTo(id) /\ AllocatedTo(id) \in Nat /\ task[id].bounty \in Nat
    BY <1>1, <2>1, AmountsType DEF AllocatedTo, TaskType
  <2>6. PhaseOf(id) = "collecting" /\ PhaseOf(id)' = "closed"
    BY <2>1, <2>2, PhaseTells DEF Unsettled, Terminal
  <2>7. CASE task[id].bounty = 0
    <3>1. pendingWithdrawals' = pendingWithdrawals
      BY <2>1, <2>7 DEF Credit, TypeOK
    <3> QED
      BY <2>3, <2>4, <2>5, <2>6, <2>7, <3>1, SettlesInEscrow DEF EscrowStep
  <2>8. CASE task[id].bounty > 0
    <3> DEFINE n == task[id].bounty
               amount == n + AllocatedTo(id)
    <3>1. /\ n \in Nat /\ amount \in Nat /\ n > 0 /\ amount >= n
          /\ Held(id) + AllocatedTo(id) = amount
          /\ Held(id)' + AllocatedTo(id)' = amount - n
          /\ pendingWithdrawals' = [pendingWithdrawals EXCEPT ![a] = pendingWithdrawals[a] + n]
      BY <2>1, <2>4, <2>5, <2>8 DEF Credit
    <3> HIDE DEF n, amount
    <3> QED
      BY <2>3, <2>6, <3>1, PaysInEscrow DEF EscrowStep
  <2> QED
    BY <2>5, <2>7, <2>8
<1>4. ASSUME NEW id \in TaskIds, NEW a \in Accounts, NEW m \in Commitments,
             CommitReport(a, id, m)
      PROVE  EscrowStep
  <2>1. /\ task[id].status \in {"Open", "Committing"}
        /\ task' = [task EXCEPT ![id].committedCount = @ + 1, ![id].status = "Committing"]
        /\ UNCHANGED <<dispute, allocation, pendingWithdrawals>>
    BY <1>4 DEF CommitReport, ledger
  <2>2. /\ task'[id].status = "Committing" /\ task'[id].bounty = task[id].bounty
        /\ \A i \in TaskIds \ {id} : task'[i] = task[i]
    BY <1>1, <2>1 DEF TaskType
  <2> QED
    BY <2>1, <2>2, RoundRests DEF Unsettled
<1>5. ASSUME NEW id \in TaskIds, NEW a \in Accounts, RevealReport(a, id)
      PROVE  EscrowStep
  <2>1. /\ task[id].status \in {"Committing", "Revealing"}
        /\ task' = [task EXCEPT ![id].revealedCount = @ + 1, ![id].status = "Revealing"]
        /\ UNCHANGED <<dispute, allocation, pendingWithdrawals>>
    BY <1>5 DEF RevealReport, ledger
  <2>2. /\ task'[id].status = "Revealing" /\ task'[id].bounty = task[id].bounty
        /\ \A i \in TaskIds \ {id} : task'[i] = task[i]
    BY <1>1, <2>1 DEF TaskType
  <2> QED
    BY <2>1, <2>2, RoundRests DEF Unsettled
<1> QED
  BY <1>2, <1>3, <1>4, <1>5 DEF RoundNext

(* A step that deals out what a task holds leaves it holding as much. *)
LEMMA DealsInEscrow ==
  ASSUME TypeOK, NEW id \in TaskIds, NEW S \in SUBSET Accounts, NEW pool \in Nat,
         NEW rest \in Accounts, NEW amount \in Nat, Allocate(id, S, pool, rest, amount),
         Held(id) = amount, Held(id)' = 0,
         \/ PhaseOf(id) = "collecting" /\ PhaseOf(id)' = "provisional"
         \/ PhaseOf(id) \in {"collecting", "provisional", "contested"} /\ PhaseOf(id)' = "closed",
         \A i \in TaskIds \ {id} : task'[i] = task[i] /\ dispute'[i] = dispute[i],
         UNCHANGED <<report, pendingWithdrawals>>
  PROVE  EscrowStep
<1>1. /\ AllocatedTo(id)' = AllocatedTo(id) + amount
      /\ \A i \in TaskIds \ {id} : allocation'[i] = allocation[i]
  BY Dealt
<1>2. AllocatedTo(id) \in Nat
  BY AmountsType
<1>3. Held(id)' + AllocatedTo(id)' = Held(id) + AllocatedTo(id)
  BY <1>1, <1>2
<1>4. Elsewhere(id)
  BY <1>1 DEF Elsewhere
<1> QED
  BY <1>3, <1>4, SettlesInEscrow DEF EscrowStep

LEMMA KeeperEscrow ==
  ASSUME TypeOK, KeeperNext
  PROVE  EscrowStep
<1> PICK id \in TaskIds, a \in Accounts :
        \/ \E B \in SUBSET Accounts, rate \in RewardRates : FinalizeAsConsensus(a, id, B, rate)
        \/ FinalizeAsConflict(a, id)
        \/ FinalizeAsNoQuorum(a, id)
  BY DEF KeeperNext
<1>1. task[id].bounty \in Nat /\ CreatorOf(id) \in Accounts
  BY AccountsAssumption DEF TypeOK, TaskType, TaskIds, CreatorOf
<1>2. ASSUME NEW o, NEW rate, NEW S \in SUBSET Accounts, NEW pool \in Nat,
             Classify(a, id, o, rate, S, pool)
      PROVE  EscrowStep
  <2>1. /\ task[id].status \in Unsettled
        /\ Allocate(id, S, pool, CreatorOf(id), task[id].bounty)
        /\ task' = [task EXCEPT ![id].outcome = o, ![id].rewardBps = rate,
                      ![id].consensusAt = now % Uint32Size, ![id].status = "Consensus"]
        /\ UNCHANGED <<report, dispute, pendingWithdrawals>>
    BY <1>2 DEF Classify
  <2>2. task'[id].status = "Consensus" /\ \A i \in TaskIds \ {id} : task'[i] = task[i]
    BY <2>1 DEF TypeOK, TaskType
  <2>3. Held(id) = task[id].bounty /\ Held(id)' = 0
    BY <2>1, <2>2 DEF Held, Unsettled
  <2>4. PhaseOf(id) = "collecting" /\ PhaseOf(id)' = "provisional"
    BY <2>1, <2>2, PhaseTells
  <2> QED
    BY <1>1, <2>1, <2>2, <2>3, <2>4, DealsInEscrow
<1>3. \A rate \in Nat : Bps(task[id].bounty, rate) \in Nat
  BY <1>1, BpsType
<1>4. ConflictRateBps \in Nat
  <2>1. ConflictRateBps \in 0..BPS_DENOMINATOR
    BY ParamsAssumption
  <2> QED
    BY <2>1 DEF BPS_DENOMINATOR
<1>5. ASSUME NEW B \in SUBSET Accounts, NEW rate \in RewardRates,
             FinalizeAsConsensus(a, id, B, rate)
      PROVE  EscrowStep
  BY <1>2, <1>3, <1>5, InputsAssumption DEF FinalizeAsConsensus
<1>6. ASSUME FinalizeAsConflict(a, id) PROVE EscrowStep
  BY <1>2, <1>3, <1>4, <1>6, PartiesType DEF FinalizeAsConflict
<1>7. ASSUME FinalizeAsNoQuorum(a, id) PROVE EscrowStep
  BY <1>2, <1>7 DEF FinalizeAsNoQuorum
<1> QED
  BY <1>5, <1>6, <1>7

(* A failed challenge deals out its bond. *)
LEMMA BondInEscrow ==
  ASSUME TypeOK, NEW id \in TaskIds, NEW S \in SUBSET Accounts, NEW rest \in Accounts,
         NEW outcome, Disputed(id),
         Allocate(id, S, Bps(dispute[id].bond, AdjudicatorSplitBps), rest, dispute[id].bond),
         CloseDispute(id, outcome), task' = [task EXCEPT ![id].status = "Finalized"],
         UNCHANGED <<report, pendingWithdrawals>>
  PROVE  EscrowStep
<1> DEFINE bond == dispute[id].bond
           pool == Bps(bond, AdjudicatorSplitBps)
<1>1. bond \in Nat
  BY DEF TypeOK, DisputeType
<1>2. pool \in Nat
  <2>1. AdjudicatorSplitBps \in 0..BPS_DENOMINATOR
    BY ParamsAssumption
  <2> QED
    BY <1>1, <2>1, BpsBound
<1>3. \A i \in TaskIds \ {id} : dispute'[i] = dispute[i]
  BY DEF CloseDispute, TypeOK
<1>4. task'[id].status = "Finalized" /\ \A i \in TaskIds \ {id} : task'[i] = task[i]
  BY SetsStatus
<1>5. Held(id) = bond /\ Held(id)' = 0
  BY <1>4 DEF Held, Unsettled, Disputed
<1>6. PhaseOf(id) = "contested" /\ PhaseOf(id)' = "closed"
  BY <1>4, PhaseTells DEF Disputed, Terminal
<1>7. Allocate(id, S, pool, rest, bond)
  OBVIOUS
<1> HIDE DEF bond, pool
<1> QED
  BY <1>1, <1>2, <1>3, <1>4, <1>5, <1>6, <1>7, DealsInEscrow

LEMMA DisputeEscrow ==
  ASSUME TypeOK, TypeOK', BooksInv, DisputeNext
  PROVE  EscrowStep
<1> PICK id \in TaskIds, a \in Accounts :
        \/ OpenChallenge(a, id)
        \/ \E B \in SUBSET Accounts : ResolveUpheld(a, id, B) \/ ResolveRejected(a, id, B)
  BY DEF DisputeNext
<1>1. ASSUME OpenChallenge(a, id) PROVE EscrowStep
  <2>1. /\ task[id].status = "Consensus"
        /\ task' = [task EXCEPT ![id].status = "Disputed"]
        /\ UNCHANGED <<report, allocation, pendingWithdrawals>>
        /\ \A i \in TaskIds \ {id} : dispute'[i] = dispute[i]
    BY <1>1 DEF OpenChallenge, TypeOK
  <2>2. task'[id].status = "Disputed" /\ \A i \in TaskIds \ {id} : task'[i] = task[i]
    BY <2>1, SetsStatus
  <2>3. Held(id) = 0 /\ Held(id)' \in Nat
    <3>1. dispute'[id].bond \in Nat
      BY DEF TypeOK, DisputeType
    <3> QED
      BY <2>1, <2>2, <3>1 DEF Held, Unsettled
  <2>4. AllocatedTo(id)' = AllocatedTo(id) /\ AllocatedTo(id) \in Nat
    BY <2>1, AmountsType DEF AllocatedTo
  <2>5. PhaseOf(id) = "provisional" /\ PhaseOf(id)' = "contested"
    BY <2>1, <2>2, PhaseTells
  <2>6. Elsewhere(id)
    BY <2>1, <2>2 DEF Elsewhere
  <2> QED
    BY <2>1, <2>3, <2>4, <2>5, <2>6, OpensInEscrow DEF EscrowStep
<1>2. ASSUME NEW B \in SUBSET Accounts, ResolveUpheld(a, id, B) PROVE EscrowStep
  <2>1. Disputed(id) /\ UNCHANGED pendingWithdrawals
    BY <1>2 DEF ResolveUpheld
  <2>2. /\ AllocatedTo(id)' = AllocatedTo(id) + dispute[id].bond
        /\ Held(id) = dispute[id].bond /\ Held(id)' = 0
        /\ task'[id].status = "Finalized"
        /\ Elsewhere(id)
    BY <1>2, UpheldDeals
  <2>3. dispute[id].bond \in Nat /\ AllocatedTo(id) \in Nat
    BY AmountsType DEF TypeOK, DisputeType
  <2>4. PhaseOf(id) = "contested" /\ PhaseOf(id)' = "closed"
    BY <2>1, <2>2, PhaseTells DEF Disputed, Terminal
  <2> QED
    BY <2>1, <2>2, <2>3, <2>4, SettlesInEscrow DEF EscrowStep
<1>3. ASSUME NEW B \in SUBSET Accounts, ResolveRejected(a, id, B) PROVE EscrowStep
  <2> DEFINE defended == IF B # {} THEN B ELSE Defamed(id)
  <2>1. defended \in SUBSET Accounts /\ CreatorOf(id) \in Accounts
    BY PartiesType, AccountsAssumption DEF TaskIds, CreatorOf
  <2> HIDE DEF defended
  <2> QED
    BY <1>3, <2>1, BondInEscrow DEF ResolveRejected, defended
<1> QED
  BY <1>1, <1>2, <1>3

(* A classification whose window has passed closes. *)
LEMMA FinalizedInEscrow ==
  ASSUME TypeOK, NEW id \in TaskIds, task[id].status = "Consensus",
         task' = [task EXCEPT ![id].status = "Finalized"]
  PROVE  /\ Held(id) = 0 /\ Held(id)' = 0
         /\ PhaseOf(id) = "provisional" /\ PhaseOf(id)' = "closed"
         /\ \A i \in TaskIds \ {id} : task'[i] = task[i]
<1>1. task'[id].status = "Finalized" /\ \A i \in TaskIds \ {id} : task'[i] = task[i]
  BY SetsStatus
<1>2. Held(id) = 0 /\ Held(id)' = 0
  BY <1>1 DEF Held, Unsettled
<1>3. PhaseOf(id) = "provisional" /\ PhaseOf(id)' = "closed"
  BY <1>1, PhaseTells DEF Terminal
<1> QED
  BY <1>1, <1>2, <1>3

LEMMA FallbackEscrow ==
  ASSUME TypeOK, FallbackNext
  PROVE  EscrowStep
<1> PICK id \in TaskIds : FinalizeTask(id) \/ ExpireTask(id) \/ ExpireDispute(id)
  BY DEF FallbackNext
<1>1. ASSUME FinalizeTask(id) PROVE EscrowStep
  <2>1. /\ task[id].status = "Consensus" /\ task' = [task EXCEPT ![id].status = "Finalized"]
        /\ UNCHANGED <<report, dispute, allocation, pendingWithdrawals>>
    BY <1>1 DEF FinalizeTask, WindowElapsed, ledger
  <2>2. /\ Held(id) = 0 /\ Held(id)' = 0
        /\ PhaseOf(id) = "provisional" /\ PhaseOf(id)' = "closed"
        /\ \A i \in TaskIds \ {id} : task'[i] = task[i]
    BY <2>1, FinalizedInEscrow
  <2>3. AllocatedTo(id)' = AllocatedTo(id) /\ Elsewhere(id)
    BY <2>1, <2>2 DEF AllocatedTo, Elsewhere
  <2> QED
    BY <2>1, <2>2, <2>3, SettlesInEscrow DEF EscrowStep
<1>2. ASSUME ExpireTask(id) PROVE EscrowStep
  <2> DEFINE o == IF task[id].revealedCount > 0 THEN "Conflict" ELSE "Expired"
             S == IF task[id].revealedCount > 0 THEN Revealers(id) ELSE {}
             pool == Bps(task[id].bounty, ConflictRateBps)
  <2>1. /\ task[id].status \in Unsettled
        /\ Allocate(id, S, pool, CreatorOf(id), task[id].bounty)
        /\ task' = [task EXCEPT ![id].status = "Expired", ![id].outcome = o]
        /\ UNCHANGED <<report, dispute, pendingWithdrawals>>
    BY <1>2 DEF ExpireTask
  <2>2. S \in SUBSET Accounts /\ CreatorOf(id) \in Accounts /\ task[id].bounty \in Nat
    BY PartiesType, AccountsAssumption DEF TaskIds, CreatorOf, TypeOK, TaskType
  <2> HIDE DEF o, S
  <2>3. pool \in Nat
    <3>1. ConflictRateBps \in 0..BPS_DENOMINATOR
      BY ParamsAssumption
    <3> QED
      BY <2>2, <3>1, BpsBound
  <2> HIDE DEF pool
  <2>4. task'[id].status = "Expired" /\ \A i \in TaskIds \ {id} : task'[i] = task[i]
    BY <2>1 DEF TypeOK, TaskType
  <2>5. Held(id) = task[id].bounty /\ Held(id)' = 0
    BY <2>1, <2>4 DEF Held, Unsettled
  <2>6. PhaseOf(id) = "collecting" /\ PhaseOf(id)' = "closed"
    BY <2>1, <2>4, PhaseTells DEF Terminal
  <2> QED
    BY <2>1, <2>2, <2>3, <2>4, <2>5, <2>6, DealsInEscrow
<1>3. ASSUME ExpireDispute(id) PROVE EscrowStep
  <2>1. dispute[id].challenger \in Accounts
    BY <1>3 DEF ExpireDispute, Disputed, TypeOK, DisputeType
  <2> QED
    BY <1>3, <2>1, PartiesType, BondInEscrow DEF ExpireDispute
<1> QED
  BY <1>1, <1>2, <1>3

(* A claim pays what it takes. *)
LEMMA ClaimInEscrow ==
  ASSUME TypeOK, TypeOK', NEW id \in TaskIds, NEW a \in Accounts,
         Claimable(id, a), task' = FinalizedForClaim(id),
         allocation' = [allocation EXCEPT ![id][a] = 0],
         UNCHANGED <<report, dispute>>,
         \/ pendingWithdrawals' = Credit(pendingWithdrawals, a, allocation[id][a])
         \/ pendingWithdrawals' = [pendingWithdrawals EXCEPT ![a] = 0]
  PROVE  EscrowStep
<1>1. /\ Held(id) = 0 /\ Held(id)' = 0
      /\ PhaseOf(id) \in {"provisional", "closed"} /\ PhaseOf(id)' = "closed"
      /\ \A i \in TaskIds \ {id} : task'[i] = task[i]
  <2>1. CASE WindowElapsed(id)
    BY <2>1, FinalizedInEscrow DEF FinalizedForClaim, WindowElapsed
  <2>2. CASE ~WindowElapsed(id)
    <3>1. task' = task /\ task[id].status \in Terminal
      BY <2>2 DEF FinalizedForClaim, Claimable
    <3> QED
      BY <3>1, PhaseTells DEF Held, Unsettled, Terminal
  <2> QED
    BY <2>1, <2>2
<1>2. AllocatedTo(id)' = AllocatedTo(id) - allocation[id][a]
  BY ClaimTakes
<1>3. AllocatedTo(id) \in Nat /\ allocation[id][a] \in Nat /\ allocation[id][a] > 0
  BY AmountsType DEF TypeOK, Claimable
<1>4. AllocatedTo(id)' \in Nat
  <2>1. allocation'[id] \in [Accounts -> Nat]
    BY DEF TypeOK
  <2> QED
    BY <2>1, AccountsAssumption, UnitsFinite DEF AllocatedTo
<1>5. \A i \in TaskIds \ {id} : allocation'[i] = allocation[i]
  BY DEF TypeOK
<1>6. Elsewhere(id)
  BY <1>1, <1>5 DEF Elsewhere
<1>7. \/ pendingWithdrawals' = [pendingWithdrawals EXCEPT
                                  ![a] = pendingWithdrawals[a] + allocation[id][a]]
      \/ pendingWithdrawals' = [pendingWithdrawals EXCEPT ![a] = 0]
  BY DEF Credit
<1> DEFINE n == allocation[id][a]
           amount == AllocatedTo(id)
<1>8. /\ n \in Nat /\ amount \in Nat /\ n > 0 /\ amount >= n
      /\ Held(id) + AllocatedTo(id) = amount
      /\ Held(id)' + AllocatedTo(id)' = amount - n
  BY <1>1, <1>2, <1>3, <1>4
<1>9. \/ pendingWithdrawals' = [pendingWithdrawals EXCEPT ![a] = pendingWithdrawals[a] + n]
      \/ pendingWithdrawals' = [pendingWithdrawals EXCEPT ![a] = 0]
  BY <1>7
<1> HIDE DEF n, amount
<1> QED
  BY <1>1, <1>6, <1>8, <1>9, PaysInEscrow DEF EscrowStep

LEMMA PayoutEscrow ==
  ASSUME TypeOK, TypeOK', PayoutNext
  PROVE  EscrowStep
<1>1. ASSUME NEW a \in Accounts, Withdraw(a) PROVE EscrowStep
  <2>1. /\ pendingWithdrawals[a] > 0
        /\ pendingWithdrawals' = [pendingWithdrawals EXCEPT ![a] = 0]
        /\ UNCHANGED <<task, dispute, allocation>>
    BY <1>1 DEF Withdraw, PayOut, rounds
  <2> QED
    BY <2>1, CreditsInEscrow DEF EscrowStep
<1>2. ASSUME NEW a \in Accounts, NEW id \in TaskIds, ClaimReward(a, id) PROVE EscrowStep
  BY <1>2, ClaimInEscrow DEF ClaimReward
<1>3. ASSUME NEW a \in Accounts, NEW id \in TaskIds, RefundCreator(a, id) PROVE EscrowStep
  <2>1. /\ pendingWithdrawals' = [pendingWithdrawals EXCEPT ![a] = 0]
        /\ pendingWithdrawals[a] + allocation[id][a] > 0
        /\ allocation' = [allocation EXCEPT ![id][a] = 0]
        /\ UNCHANGED <<report, dispute>>
    BY <1>3 DEF RefundCreator, PayOut
  <2>2. allocation \in [TaskIds -> [Accounts -> Nat]] /\ allocation[id][a] \in Nat
        /\ pendingWithdrawals[a] \in Nat
    BY DEF TypeOK
  <2>3. CASE allocation[id][a] > 0
    BY <1>3, <2>1, <2>3, ClaimInEscrow DEF RefundCreator
  <2>4. CASE allocation[id][a] = 0
    <3>1. task' = task
      BY <1>3, <2>4 DEF RefundCreator
    <3>2. allocation' = allocation /\ pendingWithdrawals[a] > 0
      BY <2>1, <2>2, <2>4
    <3> QED
      BY <2>1, <3>1, <3>2, CreditsInEscrow DEF EscrowStep
  <2> QED
    BY <2>2, <2>3, <2>4
<1>4. ASSUME CallReturns PROVE EscrowStep
  <2>1. UNCHANGED <<task, dispute, allocation, pendingWithdrawals>>
    BY <1>4 DEF CallReturns, rounds, ledger
  <2>2. UNCHANGED Escrow!vars
    BY <2>1, RestsInEscrow DEF PhaseOf, Held, AllocatedTo
  <2> QED
    BY <2>2 DEF EscrowStep
<1> QED
  BY <1>1, <1>2, <1>3, <1>4 DEF PayoutNext

LEMMA RegistryEscrow ==
  ASSUME TypeOK, TypeOK', RegistryNext
  PROVE  EscrowStep
<1>1. ASSUME NEW a \in Accounts, NEW amount \in 1..verifier[a].stake, WithdrawStake(a, amount)
      PROVE  EscrowStep
  <2>1. /\ pendingWithdrawals' = Credit(pendingWithdrawals, a, amount)
        /\ UNCHANGED <<task, dispute, allocation>>
    BY <1>1 DEF WithdrawStake, rounds
  <2>2. amount \in Nat \ {0}
    BY DEF TypeOK, VerifierType
  <2> QED
    BY <2>1, <2>2, CreditsInEscrow DEF EscrowStep
<1>2. ASSUME UNCHANGED <<task, dispute, allocation, pendingWithdrawals>> PROVE EscrowStep
  <2>1. UNCHANGED Escrow!vars
    BY <1>2, RestsInEscrow DEF PhaseOf, Held, AllocatedTo
  <2> QED
    BY <2>1 DEF EscrowStep
<1> QED
  BY <1>1, <1>2
  DEF RegistryNext, RegisterVerifier, SetVerifierActive, SetVerifierApproval, rounds, ledger

(* Every step of the contract is a step of the abstract escrow or leaves it   *)
(* alone: money leaves a task only as the task closes or once it is closed,   *)
(* unit by unit into an account's credit, however it is dealt out before.     *)
THEOREM EscrowImplemented == Spec => ImplementsEscrow
<1>1. Init => Escrow!Init
  <2> SUFFICES ASSUME Init PROVE Escrow!Init
    OBVIOUS
  <2>1. BooksInv
    BY BooksInit
  <2>2. \A id \in TaskIds : task[id] = NoTask /\ \A a \in Accounts : allocation[id][a] = 0
    BY DEF Init, Deployed
  <2>3. \A id \in TaskIds : PhaseOf(id) = "absent" /\ Held(id) = 0
    BY <2>2 DEF PhaseOf, Held, NoTask, Unsettled
  <2>4. \A id \in TaskIds : AllocatedTo(id) = 0
    BY <2>2, AccountsAssumption, TotalZero DEF AllocatedTo
  <2>5. pendingWithdrawals = [a \in Accounts |-> 0]
    BY DEF Init, Deployed
  <2> QED
    BY <2>3, <2>4, <2>5 DEF Escrow!Init
<1>2. TypeOK /\ TypeOK' /\ BooksInv /\ [Next]_vars => [Escrow!Next]_(Escrow!vars)
  <2> SUFFICES ASSUME TypeOK, TypeOK', BooksInv, [Next]_vars PROVE EscrowStep
    BY DEF EscrowStep
  <2>1. CASE AdminNext \/ Tick \/ UNCHANGED vars
    <3>1. UNCHANGED <<task, dispute, allocation, pendingWithdrawals>>
      BY <2>1 DEF AdminNext, SetPaused, GrantRole, RevokeRole, Tick, vars, rounds, ledger
    <3>2. UNCHANGED Escrow!vars
      BY <3>1, RestsInEscrow DEF PhaseOf, Held, AllocatedTo
    <3> QED
      BY <3>2 DEF EscrowStep
  <2> QED
    BY <2>1, RoundEscrow, KeeperEscrow, DisputeEscrow, FallbackEscrow, PayoutEscrow,
       RegistryEscrow DEF Next
<1>3. Init => BooksInv
  BY BooksInit
<1>4. TypeOK /\ TypeOK' /\ BooksInv /\ [Next]_vars => BooksInv'
  BY BooksStep
<1> QED
  BY TypeCorrect, <1>1, <1>2, <1>3, <1>4, PTL DEF Spec, ImplementsEscrow, Escrow!Spec

-----------------------------------------------------------------------------
(* Who is paid, and what the verdict says of it.  To be inductive this needs  *)
(* what a task is before it is classified (it has no outcome and no rate),    *)
(* before it is challenged (its dispute is blank) and that only an account's  *)
(* own commitment was ever opened.                                           *)
Party(i) == Revealers(i) \cup {CreatorOf(i), dispute[i].challenger}

OwnReveals(i) ==
  \A a \in Accounts : report[i][a].revealed => report[i][a].commitment = "own"

PaysParties(i) == \A a \in Accounts : allocation[i][a] > 0 => a \in Party(i)

NotYet(i) ==
  task[i].status \in {"None"} \cup Unsettled => task[i].outcome = "None" /\ task[i].rewardBps = 0

Unchallenged(i) ==
  /\ task[i].status \in {"None", "Consensus"} \cup Unsettled => dispute[i].challenger = NoAccount
  /\ task[i].status \in {"None", "Consensus", "Disputed"} \cup Unsettled =>
       dispute[i].outcome = "None"

PaysInFull(i) ==
  /\ task[i].status \in {"Consensus", "Disputed"}
  /\ task[i].outcome = "Consensus"
  /\ CreatorOf(i) \notin Revealers(i)
  => allocation[i][CreatorOf(i)] < task[i].verifierCount

FollowsMoney(i) ==
  /\ (task[i].outcome = "Consensus") <=> (task[i].rewardBps = BPS_DENOMINATOR)
  /\ dispute[i].outcome = "Upheld" => task[i].outcome = "Conflict"
  /\ task[i].outcome = "NoQuorum" /\ dispute[i].challenger = NoAccount =>
       \A a \in Accounts \ {CreatorOf(i)} : allocation[i][a] = 0

DecidedTask(i) ==
  /\ OwnReveals(i) /\ PaysParties(i) /\ NotYet(i) /\ Unchallenged(i)
  /\ PaysInFull(i) /\ FollowsMoney(i)

DecidedInv == \A i \in TaskIds : DecidedTask(i)

LEMMA DecidedGives ==
  ASSUME TypeOK, DecidedInv
  PROVE  PaidAsDecided
<1>1. ASSUME NEW id \in TaskIds, NEW a \in Accounts, allocation[id][a] > 0
      PROVE  \/ report[id][a] = [commitment |-> "own", revealed |-> TRUE]
             \/ a \in {CreatorOf(id), dispute[id].challenger}
  <2>1. a \in Party(id)
    BY <1>1 DEF DecidedInv, DecidedTask, PaysParties
  <2>2. CASE a \in Revealers(id)
    <3>1. report[id][a] \in ReportType
      BY DEF TypeOK
    <3>2. report[id][a].revealed = TRUE /\ report[id][a].commitment = "own"
      BY <2>2, <3>1 DEF Revealers, DecidedInv, DecidedTask, OwnReveals, ReportType
    <3> QED
      BY <3>1, <3>2 DEF ReportType
  <2> QED
    BY <2>1, <2>2 DEF Party
<1>2. PartiesOnly
  BY <1>1 DEF PartiesOnly
<1>3. ConsensusPaysInFull
  BY DEF ConsensusPaysInFull, DecidedInv, DecidedTask, PaysInFull
<1>4. VerdictFollowsMoney
  BY DEF VerdictFollowsMoney, DecidedInv, DecidedTask, FollowsMoney
<1> QED
  BY <1>2, <1>3, <1>4 DEF PaidAsDecided

LEMMA DecidedInit == Init => DecidedInv
<1> SUFFICES ASSUME Init, NEW i \in TaskIds PROVE DecidedTask(i)
  BY DEF DecidedInv
<1>1. /\ task[i] = NoTask /\ dispute[i] = NoDispute
      /\ \A a \in Accounts : report[i][a] = NoReport /\ allocation[i][a] = 0
  BY DEF Init, Deployed
<1> QED
  BY <1>1 DEF DecidedTask, OwnReveals, PaysParties, NotYet, Unchallenged, PaysInFull,
              FollowsMoney, NoTask, NoDispute, NoReport, Unsettled, BPS_DENOMINATOR

(* The kinds of step a task can take. *)
LEMMA DecidedRests ==
  ASSUME NEW i, DecidedTask(i), task'[i] = task[i], report'[i] = report[i],
         dispute'[i] = dispute[i], allocation'[i] = allocation[i]
  PROVE  DecidedTask(i)'
<1>1. Revealers(i)' = Revealers(i) /\ Party(i)' = Party(i)
  BY DEF Revealers, TaskVerifiers, Party
<1> QED
  BY <1>1 DEF DecidedTask, OwnReveals, PaysParties, NotYet, Unchallenged, PaysInFull, FollowsMoney

LEMMA DecidedElsewhere ==
  ASSUME DecidedInv, NEW id \in TaskIds, Elsewhere(id), DecidedTask(id)'
  PROVE  DecidedInv'
<1>1. \A i \in TaskIds \ {id} : DecidedTask(i)'
  BY DecidedRests DEF DecidedInv, Elsewhere
<1> QED
  BY <1>1 DEF DecidedInv

LEMMA DecidedRound ==
  ASSUME NEW i \in TaskIds, TypeOK, DecidedTask(i), dispute'[i] = dispute[i],
         allocation'[i] = allocation[i],
         \A a \in Accounts : allocation[i][a] = 0,
         task[i].status \in {"None"} \cup Unsettled,
         \/ task'[i].status \in Unsettled /\ task'[i].outcome = "None"
         \/ task'[i].status = "Cancelled" /\ task'[i].outcome = "Cancelled",
         task'[i].rewardBps = 0, OwnReveals(i)'
  PROVE  DecidedTask(i)'
  BY DEF DecidedTask, PaysParties, NotYet, Unchallenged, PaysInFull, FollowsMoney, Unsettled,
         BPS_DENOMINATOR

LEMMA DecidedSettles ==
  ASSUME NEW i \in TaskIds, DecidedTask(i), dispute'[i] = dispute[i], report'[i] = report[i],
         task[i].status \in Unsettled, task'[i].status \in {"Consensus", "Expired"},
         (task'[i].outcome = "Consensus") <=> (task'[i].rewardBps = BPS_DENOMINATOR),
         PaysParties(i)', PaysInFull(i)',
         task'[i].outcome = "NoQuorum" =>
           \A a \in Accounts \ {CreatorOf(i)} : allocation'[i][a] = 0
  PROVE  DecidedTask(i)'
<1>1. dispute'[i].outcome = "None" /\ dispute'[i].challenger = NoAccount
  BY DEF DecidedTask, Unchallenged
<1> QED
  BY <1>1 DEF DecidedTask, OwnReveals, NotYet, Unchallenged, FollowsMoney, Unsettled

LEMMA DecidedChallenge ==
  ASSUME NEW i \in TaskIds, TypeOK, DecidedTask(i), report'[i] = report[i],
         allocation'[i] = allocation[i], task[i].status = "Consensus",
         task'[i] = [task[i] EXCEPT !.status = "Disputed"],
         dispute'[i].challenger \in Accounts, dispute'[i].outcome = "None"
  PROVE  DecidedTask(i)'
<1>1. /\ task'[i].status = "Disputed" /\ task'[i].outcome = task[i].outcome
      /\ task'[i].rewardBps = task[i].rewardBps
      /\ task'[i].verifierCount = task[i].verifierCount
  BY DEF TypeOK, TaskType
<1>2. dispute[i].challenger = NoAccount /\ NoAccount \notin Accounts
  BY AccountsAssumption DEF DecidedTask, Unchallenged
<1>3. Revealers(i)' = Revealers(i)
  BY DEF Revealers, TaskVerifiers
<1>4. PaysParties(i)'
  BY <1>2, <1>3 DEF DecidedTask, PaysParties, Party
<1>5. PaysInFull(i)'
  BY <1>1, <1>3 DEF DecidedTask, PaysInFull
<1> QED
  BY <1>1, <1>2, <1>4, <1>5
  DEF DecidedTask, OwnReveals, NotYet, Unchallenged, FollowsMoney, Unsettled

(* A dispute that ends: it keeps its challenger, and the task its round.  *)
LEMMA DecidedCloses ==
  ASSUME NEW i \in TaskIds, DecidedTask(i), report'[i] = report[i],
         dispute[i].challenger # NoAccount, dispute'[i].challenger = dispute[i].challenger,
         task'[i].status = "Finalized", PaysParties(i)',
         \/ /\ task'[i].outcome = task[i].outcome /\ task'[i].rewardBps = task[i].rewardBps
            /\ dispute'[i].outcome # "Upheld"
         \/ task'[i].outcome = "Conflict" /\ task'[i].rewardBps = 0
  PROVE  DecidedTask(i)'
  BY DEF DecidedTask, OwnReveals, NotYet, Unchallenged, PaysInFull, FollowsMoney, Unsettled,
         BPS_DENOMINATOR

LEMMA DecidedClaim ==
  ASSUME NEW i \in TaskIds, TypeOK, TypeOK', DecidedTask(i), report'[i] = report[i],
         dispute'[i] = dispute[i], \A a \in Accounts : allocation'[i][a] <= allocation[i][a],
         task'[i].status \in Terminal, task'[i].outcome = task[i].outcome,
         task'[i].rewardBps = task[i].rewardBps
  PROVE  DecidedTask(i)'
<1>1. \A a \in Accounts : allocation[i][a] \in Nat /\ allocation'[i][a] \in Nat
  BY DEF TypeOK
<1>2. Revealers(i)' = Revealers(i) /\ Party(i)' = Party(i)
  BY DEF Revealers, TaskVerifiers, Party
<1>3. PaysParties(i)'
  BY <1>1, <1>2 DEF DecidedTask, PaysParties
<1>4. FollowsMoney(i)'
  BY <1>1 DEF DecidedTask, FollowsMoney
<1> QED
  BY <1>3, <1>4 DEF DecidedTask, OwnReveals, NotYet, Unchallenged, PaysInFull, Unsettled, Terminal

(* What is dealt out over verifiers that revealed, the rest to the creator or *)
(* the challenger, is dealt out to parties.                                  *)
LEMMA DealsToParties ==
  ASSUME TypeOK, NEW id \in TaskIds, DecidedTask(id), NEW S \in SUBSET Revealers(id), NEW pool,
         NEW rest \in {CreatorOf(id), dispute[id].challenger}, NEW amount,
         Allocate(id, S, pool, rest, amount), report'[id] = report[id],
         dispute'[id].challenger = dispute[id].challenger
  PROVE  PaysParties(id)'
<1>1. Party(id)' = Party(id)
  BY DEF Party, Revealers, TaskVerifiers
<1>2. allocation \in [TaskIds -> [Accounts -> Nat]]
  BY DEF TypeOK
<1>3. allocation'[id] = Split(allocation[id], S, pool, rest, amount)
  BY <1>2 DEF Allocate
<1>4. ASSUME NEW a \in Accounts, a \notin Party(id)
      PROVE  allocation'[id][a] = 0
  <2>1. a \notin S /\ a # rest
    BY <1>4 DEF Party
  <2>2. allocation'[id][a] = allocation[id][a] + 0 + 0
    BY <1>3, <2>1 DEF Split
  <2>3. ~(allocation[id][a] > 0) /\ allocation[id][a] \in Nat
    BY <1>2, <1>4 DEF DecidedTask, PaysParties
  <2> QED
    BY <2>2, <2>3
<1> QED
  BY <1>1, <1>4 DEF PaysParties

(* Of a bounty shared out in full, less than one unit per share is left. *)
LEMMA Remainder ==
  ASSUME NEW S, IsFiniteSet(S), S # {}, NEW pool \in Nat
  PROVE  pool - Share(S, pool) * Cardinality(S) < Cardinality(S)
<1>1. Cardinality(S) \in Nat \ {0}
  BY FS_CardinalityType, FS_EmptySet
<1>2. ASSUME NEW n \in Nat \ {0}
      PROVE  pool - (pool \div n) * n < n
  BY <1>2, SMT
<1> QED
  BY <1>1, <1>2 DEF Share

LEMMA WholeBps ==
  ASSUME NEW x \in Nat
  PROVE  Bps(x, BPS_DENOMINATOR) = x
  BY SMT DEF Bps, BPS_DENOMINATOR

LEMMA RoundDecided ==
  ASSUME TypeOK, BooksInv, DecidedInv, RoundNext
  PROVE  DecidedInv'
<1>1. task \in [TaskIds -> TaskType] /\ report \in [TaskIds -> [Accounts -> ReportType]]
  BY DEF TypeOK
<1>2. ASSUME NEW c \in Creators, NEW spec \in TaskSpecs, NEW value \in Bounties,
             CreateTask(c, spec, value)
      PROVE  DecidedInv'
  <2> DEFINE id == <<c, creatorNonce[c]>>
             r  == [NoTask EXCEPT !.bounty = value,
                      !.verifierCount = spec.verifierCount,
                      !.commitDeadline = now + spec.commitWindowSec,
                      !.revealDeadline = now + spec.commitWindowSec + spec.revealWindowSec,
                      !.disputeWindow = spec.disputeWindowSec,
                      !.status = "Open"]
  <2>1. /\ creatorNonce[c] < MaxNonce /\ task' = [task EXCEPT ![id] = r]
        /\ task[id].status = "None"
        /\ UNCHANGED <<report, dispute, allocation>>
    BY <1>2 DEF CreateTask
  <2>2. id \in TaskIds
    <3>1. c \in Accounts /\ creatorNonce \in [Accounts -> Nat]
      BY AccountsAssumption DEF TypeOK
    <3> QED
      BY <2>1, <3>1, InputsAssumption, SMT DEF TaskIds
  <2>3. r.status = "Open" /\ r.outcome = "None" /\ r.rewardBps = 0
    BY DEF NoTask
  <2> HIDE DEF id, r
  <2>4. task'[id] = r /\ \A i \in TaskIds \ {id} : task'[i] = task[i]
    BY <1>1, <2>1, <2>2
  <2>5. Elsewhere(id)
    BY <2>1, <2>4 DEF Elsewhere
  <2>6. PICK t \in TaskIds : t = id
    BY <2>2
  <2>7. DecidedTask(t) /\ \A a \in Accounts : allocation[t][a] = 0
    BY <2>1, <2>6 DEF DecidedInv, BooksInv, TaskBooks, Fresh
  <2>8. OwnReveals(t)'
    BY <2>1, <2>7 DEF OwnReveals, DecidedTask
  <2>9. DecidedTask(t)'
    BY <2>1, <2>3, <2>4, <2>6, <2>7, <2>8, DecidedRound DEF Unsettled
  <2> QED
    BY <2>5, <2>6, <2>9, DecidedElsewhere
<1>3. ASSUME NEW id \in TaskIds, task[id].status \in Unsettled
      PROVE  /\ DecidedTask(id) /\ task[id].outcome = "None" /\ task[id].rewardBps = 0
             /\ OwnReveals(id)
             /\ \A a \in Accounts : allocation[id][a] = 0
             /\ task[id] \in TaskType
  BY <1>1, <1>3 DEF DecidedInv, DecidedTask, NotYet, BooksInv, TaskBooks, Fresh
<1>4. ASSUME NEW id \in TaskIds, NEW a \in Accounts, CancelTask(a, id)
      PROVE  DecidedInv'
  <2>1. /\ task[id].status \in Unsettled
        /\ task' = [task EXCEPT ![id].status = "Cancelled", ![id].outcome = "Cancelled"]
        /\ UNCHANGED <<report, dispute, allocation>>
    BY <1>4 DEF CancelTask, Unsettled
  <2>2. /\ task'[id].status = "Cancelled" /\ task'[id].outcome = "Cancelled"
        /\ task'[id].rewardBps = task[id].rewardBps
        /\ \A i \in TaskIds \ {id} : task'[i] = task[i]
    BY <1>1, <2>1 DEF TaskType
  <2>3. OwnReveals(id)'
    BY <1>3, <2>1 DEF OwnReveals
  <2>4. DecidedTask(id)'
    BY <1>3, <2>1, <2>2, <2>3, DecidedRound
  <2>5. Elsewhere(id)
    BY <2>1, <2>2 DEF Elsewhere
  <2> QED
    BY <2>4, <2>5, DecidedElsewhere
<1>5. ASSUME NEW id \in TaskIds, NEW a \in Accounts, NEW m \in Commitments,
             CommitReport(a, id, m)
      PROVE  DecidedInv'
  <2>1. /\ task[id].status \in Unsettled
        /\ task' = [task EXCEPT ![id].committedCount = @ + 1, ![id].status = "Committing"]
        /\ report' = [report EXCEPT ![id][a].commitment = m]
        /\ report[id][a].commitment = "none"
        /\ UNCHANGED <<dispute, allocation>>
    BY <1>5 DEF CommitReport, Unsettled, ledger
  <2>2. /\ task'[id].status = "Committing" /\ task'[id].outcome = task[id].outcome
        /\ task'[id].rewardBps = task[id].rewardBps
        /\ \A i \in TaskIds \ {id} : task'[i] = task[i]
    BY <1>1, <2>1 DEF TaskType
  <2>3. /\ report'[id][a].revealed = report[id][a].revealed
        /\ \A b \in Accounts \ {a} : report'[id][b] = report[id][b]
        /\ \A i \in TaskIds \ {id} : report'[i] = report[i]
    BY <1>1, <2>1 DEF ReportType
  <2>4. ~report[id][a].revealed
    BY <1>3, <2>1 DEF OwnReveals
  <2>5. OwnReveals(id)'
    BY <1>3, <2>1, <2>3, <2>4 DEF OwnReveals
  <2>6. DecidedTask(id)'
    BY <1>3, <2>1, <2>2, <2>5, DecidedRound DEF Unsettled
  <2>7. Elsewhere(id)
    BY <2>1, <2>2, <2>3 DEF Elsewhere
  <2> QED
    BY <2>6, <2>7, DecidedElsewhere
<1>6. ASSUME NEW id \in TaskIds, NEW a \in Accounts, RevealReport(a, id)
      PROVE  DecidedInv'
  <2>1. /\ task[id].status \in Unsettled
        /\ task' = [task EXCEPT ![id].revealedCount = @ + 1, ![id].status = "Revealing"]
        /\ report' = [report EXCEPT ![id][a].revealed = TRUE]
        /\ report[id][a].commitment = "own"
        /\ UNCHANGED <<dispute, allocation>>
    BY <1>6 DEF RevealReport, Unsettled, ledger
  <2>2. /\ task'[id].status = "Revealing" /\ task'[id].outcome = task[id].outcome
        /\ task'[id].rewardBps = task[id].rewardBps
        /\ \A i \in TaskIds \ {id} : task'[i] = task[i]
    BY <1>1, <2>1 DEF TaskType
  <2>3. /\ report'[id][a].commitment = report[id][a].commitment
        /\ \A b \in Accounts \ {a} : report'[id][b] = report[id][b]
        /\ \A i \in TaskIds \ {id} : report'[i] = report[i]
    BY <1>1, <2>1 DEF ReportType
  <2>4. OwnReveals(id)'
    BY <1>3, <2>1, <2>3 DEF OwnReveals
  <2>5. DecidedTask(id)'
    BY <1>3, <2>1, <2>2, <2>4, DecidedRound DEF Unsettled
  <2>6. Elsewhere(id)
    BY <2>1, <2>2, <2>3 DEF Elsewhere
  <2> QED
    BY <2>5, <2>6, DecidedElsewhere
<1> QED
  BY <1>2, <1>4, <1>5, <1>6 DEF RoundNext

(* A consensus leaves the creator less than one unit per verifier. *)
LEMMA ConsensusInFull ==
  ASSUME TypeOK, BooksInv, NEW id \in TaskIds, NEW k, NEW B \in SUBSET Accounts,
         FinalizeAsConsensus(k, id, B, BPS_DENOMINATOR), CreatorOf(id) \notin Revealers(id)
  PROVE  allocation'[id][CreatorOf(id)] < task[id].verifierCount
<1> DEFINE c == CreatorOf(id)
           n == task[id].bounty
<1>1. n \in Nat /\ c \in Accounts /\ task[id].verifierCount \in Nat
  BY AccountsAssumption DEF TypeOK, TaskType, TaskIds, CreatorOf
<1>2. /\ B # {} /\ B \subseteq Revealers(id) /\ Cardinality(B) <= task[id].verifierCount
      /\ task[id].status \in Unsettled
      /\ Allocate(id, B, Bps(n, BPS_DENOMINATOR), c, n)
  BY DEF FinalizeAsConsensus, RequireRevealedSet, Classify
<1>3. Bps(n, BPS_DENOMINATOR) = n
  BY <1>1, WholeBps
<1>4. allocation'[id] = Split(allocation[id], B, n, c, n)
  BY <1>2, <1>3 DEF Allocate, TypeOK
<1>5. allocation[id][c] = 0
  BY <1>1, <1>2 DEF BooksInv, TaskBooks, Fresh
<1>6. c \notin B
  BY <1>2
<1>7. IsFiniteSet(B) /\ Cardinality(B) \in Nat
  BY AccountsAssumption, FS_Subset, FS_CardinalityType
<1> HIDE DEF c, n
<1>8. allocation'[id][c] = allocation[id][c] + 0 + (n - Share(B, n) * Cardinality(B))
  BY <1>1, <1>4, <1>6 DEF Split
<1>9. n - Share(B, n) * Cardinality(B) < Cardinality(B)
  BY <1>1, <1>2, <1>7, Remainder
<1>10. Share(B, n) * Cardinality(B) \in Nat
  <2>1. Share(B, n) * Cardinality(B) \in 0..n
    BY <1>1, <1>7, ShareBound
  <2> QED
    BY <1>1, <2>1
<1>11. allocation'[id][c] < Cardinality(B)
  BY <1>1, <1>5, <1>7, <1>8, <1>9, <1>10
<1>12. Share(B, n) * Cardinality(B) <= n
  BY <1>2, <1>3 DEF Allocate
<1>13. allocation'[id][c] \in Nat
  BY <1>1, <1>5, <1>8, <1>10, <1>12
<1> QED
  BY <1>1, <1>2, <1>7, <1>11, <1>13 DEF c

LEMMA KeeperDecided ==
  ASSUME TypeOK, TypeOK', BooksInv, DecidedInv, KeeperNext
  PROVE  DecidedInv'
<1> PICK id \in TaskIds, a \in Accounts :
        \/ \E B \in SUBSET Accounts, rate \in RewardRates : FinalizeAsConsensus(a, id, B, rate)
        \/ FinalizeAsConflict(a, id)
        \/ FinalizeAsNoQuorum(a, id)
  BY DEF KeeperNext
<1>1. DecidedTask(id)
  BY DEF DecidedInv
<1>2. ASSUME NEW o, NEW rate, NEW S \in SUBSET Revealers(id), NEW pool,
             Classify(a, id, o, rate, S, pool),
             (o = "Consensus") <=> (rate = BPS_DENOMINATOR),
             o = "Consensus" /\ CreatorOf(id) \notin Revealers(id)
               => allocation'[id][CreatorOf(id)] < task[id].verifierCount,
             o = "NoQuorum" => S = {}
      PROVE  DecidedInv'
  <2>1. /\ task[id].status \in Unsettled
        /\ Allocate(id, S, pool, CreatorOf(id), task[id].bounty)
        /\ task' = [task EXCEPT ![id].outcome = o, ![id].rewardBps = rate,
                      ![id].consensusAt = now % Uint32Size, ![id].status = "Consensus"]
        /\ UNCHANGED <<report, dispute>>
    BY <1>2 DEF Classify
  <2>2. /\ task'[id].status = "Consensus" /\ task'[id].outcome = o /\ task'[id].rewardBps = rate
        /\ task'[id].verifierCount = task[id].verifierCount
        /\ \A i \in TaskIds \ {id} : task'[i] = task[i]
    BY <2>1 DEF TypeOK, TaskType
  <2>3. allocation \in [TaskIds -> [Accounts -> Nat]]
    BY DEF TypeOK
  <2>4. /\ allocation'[id] = Split(allocation[id], S, pool, CreatorOf(id), task[id].bounty)
        /\ \A i \in TaskIds \ {id} : allocation'[i] = allocation[i]
    BY <2>1, <2>3 DEF Allocate
  <2>5. PaysParties(id)'
    BY <1>1, <2>1, DealsToParties
  <2>6. PaysInFull(id)'
    BY <1>2, <2>1, <2>2 DEF PaysInFull, Revealers, TaskVerifiers
  <2>7. ASSUME o = "NoQuorum", NEW x \in Accounts \ {CreatorOf(id)}
        PROVE  allocation'[id][x] = 0
    <3>1. S = {} /\ allocation[id][x] = 0
      BY <1>2, <2>1, <2>7 DEF BooksInv, TaskBooks, Fresh
    <3>2. allocation'[id][x] = allocation[id][x] + 0 + 0
      BY <2>4, <2>7, <3>1 DEF Split
    <3> QED
      BY <3>1, <3>2
  <2>8. DecidedTask(id)'
    BY <1>1, <1>2, <2>1, <2>2, <2>5, <2>6, <2>7, DecidedSettles
  <2>9. Elsewhere(id)
    BY <2>1, <2>2, <2>4 DEF Elsewhere
  <2> QED
    BY <2>8, <2>9, DecidedElsewhere
<1>3. ASSUME NEW B \in SUBSET Accounts, NEW rate \in RewardRates,
             FinalizeAsConsensus(a, id, B, rate)
      PROVE  DecidedInv'
  <2>1. /\ rate = BPS_DENOMINATOR /\ B \subseteq Revealers(id)
        /\ Classify(a, id, "Consensus", rate, B, Bps(task[id].bounty, rate))
    BY <1>3 DEF FinalizeAsConsensus, RequireRevealedSet
  <2>2. CreatorOf(id) \notin Revealers(id)
          => allocation'[id][CreatorOf(id)] < task[id].verifierCount
    BY <1>3, <2>1, ConsensusInFull
  <2> QED
    BY <1>2, <2>1, <2>2
<1>4. ASSUME FinalizeAsConflict(a, id) PROVE DecidedInv'
  BY <1>2, <1>4 DEF FinalizeAsConflict, BPS_DENOMINATOR
<1>5. ASSUME FinalizeAsNoQuorum(a, id) PROVE DecidedInv'
  BY <1>2, <1>5 DEF FinalizeAsNoQuorum, BPS_DENOMINATOR
<1> QED
  BY <1>3, <1>4, <1>5

(* A dispute that ends without being upheld. *)
LEMMA BondDecided ==
  ASSUME TypeOK, DecidedInv, NEW id \in TaskIds, NEW S \in SUBSET Revealers(id),
         NEW rest \in {CreatorOf(id), dispute[id].challenger}, NEW pool, NEW amount,
         NEW outcome, outcome # "Upheld", Disputed(id),
         Allocate(id, S, pool, rest, amount), CloseDispute(id, outcome),
         task' = [task EXCEPT ![id].status = "Finalized"], UNCHANGED report
  PROVE  DecidedInv'
<1>1. DecidedTask(id)
  BY DEF DecidedInv
<1>2. /\ dispute'[id].outcome = outcome
      /\ dispute'[id].challenger = dispute[id].challenger
      /\ \A i \in TaskIds \ {id} : dispute'[i] = dispute[i]
  BY DEF CloseDispute, TypeOK, DisputeType
<1>3. /\ task'[id].status = "Finalized" /\ task'[id].outcome = task[id].outcome
      /\ task'[id].rewardBps = task[id].rewardBps
      /\ \A i \in TaskIds \ {id} : task'[i] = task[i]
  BY DEF TypeOK, TaskType
<1>4. \A i \in TaskIds \ {id} : allocation'[i] = allocation[i]
  BY DEF Allocate, TypeOK
<1>5. PaysParties(id)'
  BY <1>1, <1>2, DealsToParties
<1>6. DecidedTask(id)'
  BY <1>1, <1>2, <1>3, <1>5, DecidedCloses DEF Disputed
<1>7. Elsewhere(id)
  BY <1>2, <1>3, <1>4 DEF Elsewhere
<1> QED
  BY <1>6, <1>7, DecidedElsewhere

(* An upheld challenge takes back from the parties and deals out to parties. *)
LEMMA UpheldToParties ==
  ASSUME TypeOK, NEW id \in TaskIds, DecidedTask(id), NEW k, NEW B \in SUBSET Accounts,
         ResolveUpheld(k, id, B)
  PROVE  PaysParties(id)'
<1> DEFINE challenger == dispute[id].challenger
           bond == dispute[id].bond
           parties == TaskVerifiers(id) \cup {CreatorOf(id), challenger}
           reward == bond + Bps(task[id].bounty, ChallengerRewardBps)
           remainder == Total(allocation[id], parties) + bond - reward
           cleared == [x \in Accounts |-> IF x \in parties THEN 0 ELSE allocation[id][x]]
           dealt == Split(cleared, B, remainder, CreatorOf(id), remainder)
<1>1. /\ allocation' = [allocation EXCEPT ![id] = Credit(dealt, challenger, reward)]
      /\ CloseDispute(id, "Upheld")
      /\ B # {} => B \subseteq Revealers(id)
      /\ UNCHANGED report
  BY DEF ResolveUpheld, RequireRevealedSet
<1>2. allocation \in [TaskIds -> [Accounts -> Nat]]
  BY DEF TypeOK
<1>3. allocation'[id] = Credit(dealt, challenger, reward)
  BY <1>1, <1>2
<1>4. Party(id)' = Party(id)
  BY <1>1 DEF Party, Revealers, TaskVerifiers, CloseDispute, TypeOK, DisputeType
<1>5. \A x \in Accounts : cleared[x] = 0 \/ cleared[x] = allocation[id][x]
  OBVIOUS
<1> HIDE DEF bond, parties, reward, remainder, cleared
<1>6. ASSUME NEW x \in Accounts, x \notin Party(id)
      PROVE  allocation'[id][x] = 0
  <2>1. x \notin B /\ x # CreatorOf(id) /\ x # challenger
    BY <1>1, <1>6 DEF Party
  <2>2. dealt[x] = cleared[x] + 0 + 0
    BY <2>1 DEF Split
  <2>3. ~(allocation[id][x] > 0) /\ allocation[id][x] \in Nat
    BY <1>2, <1>6 DEF DecidedTask, PaysParties
  <2>4. cleared[x] = 0
    BY <1>5, <2>3
  <2>5. allocation'[id][x] = dealt[x]
    BY <1>3, <2>1 DEF Credit, Split
  <2> QED
    BY <2>2, <2>4, <2>5
<1> QED
  BY <1>4, <1>6 DEF PaysParties

LEMMA DisputeDecided ==
  ASSUME TypeOK, TypeOK', DecidedInv, DisputeNext
  PROVE  DecidedInv'
<1> PICK id \in TaskIds, a \in Accounts :
        \/ OpenChallenge(a, id)
        \/ \E B \in SUBSET Accounts : ResolveUpheld(a, id, B) \/ ResolveRejected(a, id, B)
  BY DEF DisputeNext
<1>1. DecidedTask(id)
  BY DEF DecidedInv
<1>2. ASSUME OpenChallenge(a, id) PROVE DecidedInv'
  <2> DEFINE d == [NoDispute EXCEPT !.challenger = a,
                     !.bond = Bps(task[id].bounty, ChallengeBondBps),
                     !.deadline = now + AdjudicationWindow]
  <2>1. /\ task[id].status = "Consensus"
        /\ dispute' = [dispute EXCEPT ![id] = d]
        /\ task' = [task EXCEPT ![id].status = "Disputed"]
        /\ UNCHANGED <<report, allocation>>
    BY <1>2 DEF OpenChallenge
  <2>2. d.challenger = a /\ d.outcome = "None"
    BY DEF NoDispute
  <2> HIDE DEF d
  <2>3. /\ dispute'[id] = d /\ \A i \in TaskIds \ {id} : dispute'[i] = dispute[i]
        /\ task'[id] = [task[id] EXCEPT !.status = "Disputed"]
        /\ \A i \in TaskIds \ {id} : task'[i] = task[i]
    BY <2>1 DEF TypeOK
  <2>4. DecidedTask(id)'
    BY <1>1, <2>1, <2>2, <2>3, DecidedChallenge
  <2>5. Elsewhere(id)
    BY <2>1, <2>3 DEF Elsewhere
  <2> QED
    BY <2>4, <2>5, DecidedElsewhere
<1>3. ASSUME NEW B \in SUBSET Accounts, ResolveUpheld(a, id, B) PROVE DecidedInv'
  <2>1. /\ Disputed(id) /\ CloseDispute(id, "Upheld") /\ UNCHANGED report
    BY <1>3 DEF ResolveUpheld
  <2>2. task'[id] = OverturnedTask(id) /\ Elsewhere(id)
    BY <1>3, UpheldDeals
  <2>3. /\ task'[id].status = "Finalized" /\ task'[id].outcome = "Conflict"
        /\ task'[id].rewardBps = 0
    BY <2>2 DEF OverturnedTask, TypeOK, TaskType
  <2>4. dispute'[id].challenger = dispute[id].challenger
    BY <2>1 DEF CloseDispute, TypeOK, DisputeType
  <2>5. PaysParties(id)'
    BY <1>1, <1>3, UpheldToParties
  <2>6. DecidedTask(id)'
    BY <1>1, <2>1, <2>3, <2>4, <2>5, DecidedCloses DEF Disputed
  <2> QED
    BY <2>2, <2>6, DecidedElsewhere
<1>4. ASSUME NEW B \in SUBSET Accounts, ResolveRejected(a, id, B) PROVE DecidedInv'
  <2> DEFINE defended == IF B # {} THEN B ELSE Defamed(id)
  <2>1. defended \in SUBSET Revealers(id)
    BY <1>4 DEF ResolveRejected, RequireRevealedSet, Defamed
  <2> HIDE DEF defended
  <2> QED
    BY <1>4, <2>1, BondDecided DEF ResolveRejected, defended
<1> QED
  BY <1>2, <1>3, <1>4

LEMMA FallbackDecided ==
  ASSUME TypeOK, TypeOK', DecidedInv, FallbackNext
  PROVE  DecidedInv'
<1> PICK id \in TaskIds : FinalizeTask(id) \/ ExpireTask(id) \/ ExpireDispute(id)
  BY DEF FallbackNext
<1>1. DecidedTask(id)
  BY DEF DecidedInv
<1>2. ASSUME FinalizeTask(id) PROVE DecidedInv'
  <2>1. /\ task' = [task EXCEPT ![id].status = "Finalized"]
        /\ UNCHANGED <<report, dispute, allocation>>
    BY <1>2 DEF FinalizeTask, ledger
  <2>2. /\ task'[id].status = "Finalized" /\ task'[id].outcome = task[id].outcome
        /\ task'[id].rewardBps = task[id].rewardBps
        /\ \A i \in TaskIds \ {id} : task'[i] = task[i]
    BY <2>1 DEF TypeOK, TaskType
  <2>3. \A x \in Accounts : allocation'[id][x] <= allocation[id][x]
    BY <2>1 DEF TypeOK
  <2>4. DecidedTask(id)'
    BY <1>1, <2>1, <2>2, <2>3, DecidedClaim DEF Terminal
  <2>5. Elsewhere(id)
    BY <2>1, <2>2 DEF Elsewhere
  <2> QED
    BY <2>4, <2>5, DecidedElsewhere
<1>3. ASSUME ExpireTask(id) PROVE DecidedInv'
  <2> DEFINE o == IF task[id].revealedCount > 0 THEN "Conflict" ELSE "Expired"
             S == IF task[id].revealedCount > 0 THEN Revealers(id) ELSE {}
  <2>1. /\ task[id].status \in Unsettled
        /\ Allocate(id, S, Bps(task[id].bounty, ConflictRateBps), CreatorOf(id), task[id].bounty)
        /\ task' = [task EXCEPT ![id].status = "Expired", ![id].outcome = o]
        /\ UNCHANGED <<report, dispute>>
    BY <1>3 DEF ExpireTask
  <2>2. S \in SUBSET Revealers(id) /\ o # "Consensus" /\ o # "NoQuorum"
    OBVIOUS
  <2> HIDE DEF o, S
  <2>3. /\ task'[id].status = "Expired" /\ task'[id].outcome = o
        /\ task'[id].rewardBps = task[id].rewardBps
        /\ \A i \in TaskIds \ {id} : task'[i] = task[i]
    BY <2>1 DEF TypeOK, TaskType
  <2>4. task'[id].rewardBps # BPS_DENOMINATOR
    BY <1>1, <2>1, <2>3 DEF DecidedTask, NotYet, BPS_DENOMINATOR
  <2>5. PaysParties(id)'
    BY <1>1, <2>1, <2>2, DealsToParties
  <2>6. PaysInFull(id)'
    BY <2>3 DEF PaysInFull
  <2>7. DecidedTask(id)'
    BY <1>1, <2>1, <2>2, <2>3, <2>4, <2>5, <2>6, DecidedSettles
  <2>8. \A i \in TaskIds \ {id} : allocation'[i] = allocation[i]
    BY <2>1 DEF Allocate, TypeOK
  <2>9. Elsewhere(id)
    BY <2>1, <2>3, <2>8 DEF Elsewhere
  <2> QED
    BY <2>7, <2>9, DecidedElsewhere
<1>4. ASSUME ExpireDispute(id) PROVE DecidedInv'
  <2>1. Defamed(id) \in SUBSET Revealers(id)
    BY DEF Defamed
  <2> QED
    BY <1>4, <2>1, BondDecided DEF ExpireDispute
<1> QED
  BY <1>2, <1>3, <1>4

LEMMA PayoutDecided ==
  ASSUME TypeOK, TypeOK', DecidedInv, PayoutNext
  PROVE  DecidedInv'
<1>1. ASSUME NEW id \in TaskIds, NEW a \in Accounts, Claimable(id, a),
             task' = FinalizedForClaim(id), UNCHANGED <<report, dispute>>,
             allocation' = [allocation EXCEPT ![id][a] = 0]
      PROVE  DecidedInv'
  <2>1. allocation \in [TaskIds -> [Accounts -> Nat]] /\ task \in [TaskIds -> TaskType]
    BY DEF TypeOK
  <2>2. \A b \in Accounts : allocation'[id][b] <= allocation[id][b]
    BY <1>1, <2>1
  <2>3. \A i \in TaskIds \ {id} : allocation'[i] = allocation[i]
    BY <1>1, <2>1
  <2>4. /\ task'[id].status \in Terminal /\ task'[id].outcome = task[id].outcome
        /\ task'[id].rewardBps = task[id].rewardBps
        /\ \A i \in TaskIds \ {id} : task'[i] = task[i]
    <3>1. CASE WindowElapsed(id)
      <4>1. task' = [task EXCEPT ![id].status = "Finalized"]
        BY <1>1, <3>1 DEF FinalizedForClaim
      <4> QED
        BY <2>1, <4>1 DEF TaskType, Terminal
    <3>2. CASE ~WindowElapsed(id)
      BY <1>1, <3>2 DEF FinalizedForClaim, Claimable
    <3> QED
      BY <3>1, <3>2
  <2>5. DecidedTask(id)'
    BY <1>1, <2>2, <2>4, DecidedClaim DEF DecidedInv
  <2>6. Elsewhere(id)
    BY <1>1, <2>3, <2>4 DEF Elsewhere
  <2> QED
    BY <2>5, <2>6, DecidedElsewhere
<1>2. ASSUME UNCHANGED <<task, report, dispute, allocation>> PROVE DecidedInv'
  BY <1>2, DecidedRests DEF DecidedInv
<1>3. ASSUME NEW a \in Accounts, Withdraw(a) PROVE DecidedInv'
  BY <1>2, <1>3 DEF Withdraw, rounds
<1>4. ASSUME NEW a \in Accounts, NEW id \in TaskIds, ClaimReward(a, id) PROVE DecidedInv'
  BY <1>1, <1>4 DEF ClaimReward
<1>5. ASSUME NEW a \in Accounts, NEW id \in TaskIds, RefundCreator(a, id) PROVE DecidedInv'
  <2>1. CASE allocation[id][a] > 0
    BY <1>1, <1>5, <2>1 DEF RefundCreator
  <2>2. CASE ~(allocation[id][a] > 0)
    <3>1. allocation \in [TaskIds -> [Accounts -> Nat]]
      BY DEF TypeOK
    <3>2. allocation[id][a] = 0
      BY <2>2, <3>1
    <3>3. /\ UNCHANGED <<task, report, dispute>>
          /\ allocation' = [allocation EXCEPT ![id][a] = 0]
      BY <1>5, <2>2 DEF RefundCreator
    <3>4. allocation' = allocation
      BY <3>1, <3>2, <3>3
    <3> QED
      BY <1>2, <3>3, <3>4
  <2> QED
    BY <2>1, <2>2
<1>6. ASSUME CallReturns PROVE DecidedInv'
  BY <1>2, <1>6 DEF CallReturns, rounds, ledger
<1> QED
  BY <1>3, <1>4, <1>5, <1>6 DEF PayoutNext

LEMMA DecidedStep ==
  ASSUME TypeOK, TypeOK', BooksInv, DecidedInv, [Next]_vars
  PROVE  DecidedInv'
<1>1. CASE RegistryNext \/ AdminNext \/ Tick \/ UNCHANGED vars
  <2>1. UNCHANGED <<task, report, dispute, allocation>>
    BY <1>1
    DEF RegistryNext, RegisterVerifier, SetVerifierActive, SetVerifierApproval, WithdrawStake,
        AdminNext, SetPaused, GrantRole, RevokeRole, Tick, vars, rounds, ledger
  <2> QED
    BY <2>1, DecidedRests DEF DecidedInv
<1> QED
  BY <1>1, RoundDecided, KeeperDecided, DisputeDecided, FallbackDecided, PayoutDecided DEF Next

(* A task owes only its creator, its challenger and verifiers that opened a   *)
(* report of their own; a consensus leaves the creator nothing but what does  *)
(* not divide; and the verdict on record is the one the money followed.       *)
THEOREM PaidRight == Spec => []PaidAsDecided
<1>1. Init => BooksInv /\ DecidedInv
  BY BooksInit, DecidedInit
<1>2. TypeOK /\ TypeOK' /\ BooksInv /\ [Next]_vars => BooksInv'
  BY BooksStep
<1>3. TypeOK /\ TypeOK' /\ BooksInv /\ DecidedInv /\ [Next]_vars => DecidedInv'
  BY DecidedStep
<1>4. TypeOK /\ DecidedInv => PaidAsDecided
  BY DecidedGives
<1> QED
  BY TypeCorrect, <1>1, <1>2, <1>3, <1>4, PTL DEF Spec

-----------------------------------------------------------------------------
(* Whom those in office may name, in a consensus and in a resolution. *)

(* What is taken back and dealt out again leaves a role holder with nothing. *)
LEMMA UpheldNames ==
  ASSUME TypeOK, NEW id \in TaskIds, DecidedTask(id), NEW k, NEW B \in SUBSET Accounts,
         ResolveUpheld(k, id, B),
         NEW role \in {"DEFAULT_ADMIN", "KEEPER", "ADJUDICATOR"},
         NEW a \in roles[role] \ {CreatorOf(id)}, a # dispute[id].challenger
  PROVE  allocation'[id][a] = 0
<1> DEFINE challenger == dispute[id].challenger
           bond == dispute[id].bond
           parties == TaskVerifiers(id) \cup {CreatorOf(id), challenger}
           reward == bond + Bps(task[id].bounty, ChallengerRewardBps)
           remainder == Total(allocation[id], parties) + bond - reward
           cleared == [x \in Accounts |-> IF x \in parties THEN 0 ELSE allocation[id][x]]
           dealt == Split(cleared, B, remainder, CreatorOf(id), remainder)
<1>1. a \in Accounts /\ a \notin B
  BY DEF TypeOK, Roles, ResolveUpheld, RequireRevealedSet
<1>2. /\ allocation' = [allocation EXCEPT ![id] = Credit(dealt, challenger, reward)]
      /\ allocation \in [TaskIds -> [Accounts -> Nat]]
  BY DEF ResolveUpheld, TypeOK
<1>3. allocation'[id] = Credit(dealt, challenger, reward)
  BY <1>2
<1>4. cleared[a] = 0
  <2>1. CASE a \in parties
    BY <1>1, <2>1
  <2>2. CASE a \notin parties
    <3>1. a \notin Party(id)
      BY <2>2 DEF Party, Revealers
    <3>2. ~(allocation[id][a] > 0) /\ allocation[id][a] \in Nat
      BY <1>1, <1>2, <3>1 DEF DecidedTask, PaysParties
    <3> QED
      BY <1>1, <2>2, <3>2
  <2> QED
    BY <2>1, <2>2
<1> HIDE DEF bond, parties, reward, remainder, cleared
<1>5. dealt[a] = cleared[a] + 0 + 0
  BY <1>1 DEF Split
<1>6. allocation'[id][a] = dealt[a]
  BY <1>1, <1>3 DEF Credit, Split
<1> QED
  BY <1>4, <1>5, <1>6

(* A forfeited bond reaches a role holder only when nobody was named, and     *)
(* then every verifier the challenge froze has as much of it.                *)
LEMMA RejectedNames ==
  ASSUME TypeOK, NEW id \in TaskIds, NEW k, NEW B \in SUBSET Accounts,
         ResolveRejected(k, id, B),
         NEW role \in {"DEFAULT_ADMIN", "KEEPER", "ADJUDICATOR"},
         NEW a \in roles[role] \ {CreatorOf(id)}
  PROVE  \/ allocation'[id][a] = allocation[id][a]
         \/ /\ a \in Defamed(id)
            /\ \A b \in Defamed(id) :
                 allocation'[id][b] - allocation[id][b] >= allocation'[id][a] - allocation[id][a]
<1> DEFINE defended == IF B # {} THEN B ELSE Defamed(id)
           bond == dispute[id].bond
           pool == Bps(bond, AdjudicatorSplitBps)
<1>1. a \in Accounts /\ a \notin B
  BY DEF TypeOK, Roles, ResolveRejected, RequireRevealedSet
<1>2. defended \in SUBSET Accounts /\ CreatorOf(id) \in Accounts
  BY PartiesType, AccountsAssumption DEF TaskIds, CreatorOf
<1>3. Allocate(id, defended, pool, CreatorOf(id), bond)
  BY DEF ResolveRejected
<1>4. CASE a \notin defended
  <2> HIDE DEF defended
  <2>1. allocation'[id][a] = allocation[id][a]
    BY <1>1, <1>2, <1>3, <1>4, BondDealt
  <2> QED
    BY <2>1
<1>5. CASE a \in defended
  <2>1. B = {} /\ defended = Defamed(id) /\ a \in Defamed(id)
    BY <1>1, <1>5
  <2>2. bond \in Nat /\ pool \in Nat
    <3>1. bond \in Nat
      BY DEF TypeOK, DisputeType
    <3>2. AdjudicatorSplitBps \in 0..BPS_DENOMINATOR
      BY ParamsAssumption
    <3> QED
      BY <3>1, <3>2, BpsBound
  <2> HIDE DEF pool, defended, bond
  <2> DEFINE share == Share(Defamed(id), pool)
             rest == bond - share * Cardinality(Defamed(id))
  <2>3. /\ allocation \in [TaskIds -> [Accounts -> Nat]]
        /\ allocation'[id] = Split(allocation[id], Defamed(id), pool, CreatorOf(id), bond)
        /\ share * Cardinality(Defamed(id)) <= bond
    BY <1>3, <2>1 DEF Allocate, TypeOK
  <2>4. IsFiniteSet(Defamed(id)) /\ Defamed(id) \subseteq Accounts
    BY <1>2, <2>1, AccountsAssumption, FS_Subset
  <2>5. share \in Nat /\ share * Cardinality(Defamed(id)) \in Nat
    <3>1. Cardinality(Defamed(id)) \in Nat \ {0}
      BY <2>1, <2>4, FS_CardinalityType, FS_EmptySet
    <3>2. share = pool \div Cardinality(Defamed(id))
      BY <2>1 DEF Share
    <3>3. share \in Nat
      BY <2>2, <3>1, <3>2
    <3> QED
      BY <2>2, <2>4, <3>3, ShareBound
  <2>6. rest \in Nat
    BY <2>2, <2>3, <2>5
  <2>7. \A b \in Defamed(id) :
           allocation'[id][b] = allocation[id][b] + share + (IF b = CreatorOf(id) THEN rest ELSE 0)
    BY <2>3, <2>4 DEF Split
  <2> HIDE DEF share, rest
  <2>8. allocation'[id][a] - allocation[id][a] = share
    <3>1. allocation'[id][a] = allocation[id][a] + share + 0 /\ allocation[id][a] \in Nat
      BY <1>1, <2>1, <2>3, <2>7
    <3> QED
      BY <2>5, <3>1
  <2>9. ASSUME NEW b \in Defamed(id)
        PROVE  allocation'[id][b] - allocation[id][b] >= share
    <3>1. allocation[id][b] \in Nat
      BY <2>3, <2>4
    <3> QED
      BY <2>5, <2>6, <2>7, <3>1
  <2> QED
    BY <2>1, <2>8, <2>9
<1> QED
  BY <1>4, <1>5

(* Only the two verdicts of an adjudicator and an expiry resolve a dispute.   *)
LEMMA ResolutionNames ==
  ASSUME TypeOK, DecidedInv, [Next]_vars, NEW i \in TaskIds,
         ~dispute[i].resolved, dispute'[i].resolved
  PROVE  \/ dispute'[i].outcome = "Expired"
         \/ /\ dispute'[i].outcome = "Upheld"
            /\ \E a \in Accounts, B \in SUBSET Accounts : ResolveUpheld(a, i, B)
         \/ /\ dispute'[i].outcome = "Rejected"
            /\ \E a \in Accounts, B \in SUBSET Accounts : ResolveRejected(a, i, B)
<1>1. dispute \in [TaskIds -> DisputeType]
  BY DEF TypeOK
<1>2. ASSUME NEW id \in TaskIds, NEW a \in Accounts, OpenChallenge(a, id) PROVE FALSE
  BY <1>1, <1>2 DEF OpenChallenge, NoDispute
<1>3. ASSUME NEW id \in TaskIds, NEW o, CloseDispute(id, o)
      PROVE  i = id /\ dispute'[i].outcome = o
  BY <1>1, <1>3 DEF CloseDispute, DisputeType
<1>4. CASE DisputeNext
  <2> PICK id \in TaskIds, a \in Accounts :
        \/ OpenChallenge(a, id)
        \/ \E B \in SUBSET Accounts : ResolveUpheld(a, id, B) \/ ResolveRejected(a, id, B)
    BY <1>4 DEF DisputeNext
  <2>1. ASSUME NEW B \in SUBSET Accounts, ResolveUpheld(a, id, B)
        PROVE  i = id /\ dispute'[i].outcome = "Upheld"
    BY <1>3, <2>1 DEF ResolveUpheld
  <2>2. ASSUME NEW B \in SUBSET Accounts, ResolveRejected(a, id, B)
        PROVE  i = id /\ dispute'[i].outcome = "Rejected"
    BY <1>3, <2>2 DEF ResolveRejected
  <2> QED
    BY <1>2, <2>1, <2>2
<1>5. CASE \E id \in TaskIds : ExpireDispute(id)
  BY <1>3, <1>5 DEF ExpireDispute
<1> QED
  BY <1>4, <1>5, DisputesRest

(* No keeper and no adjudicator can pay an admin, a keeper or an adjudicator  *)
(* by naming it, itself or one of the others: not among the beneficiaries of  *)
(* a consensus, not among those an upheld challenge is dealt out to, and of   *)
(* a forfeited bond only what every frozen verifier gets when none is named.  *)
THEOREM NoRoleHolderPaid == Spec => NoRoleHolderChosen
<1>1. ASSUME TypeOK, BooksInv, DecidedInv, [Next]_vars
      PROVE  ChosenStep({"DEFAULT_ADMIN", "KEEPER", "ADJUDICATOR"})
  <2> SUFFICES ASSUME NEW id \in TaskIds,
                      NEW role \in {"DEFAULT_ADMIN", "KEEPER", "ADJUDICATOR"},
                      NEW a \in roles[role] \ {CreatorOf(id)}
               PROVE  /\ task[id].status \in Unsettled /\ task'[id].outcome = "Consensus" =>
                           allocation'[id][a] = 0
                      /\ ResolvesAs(id, "Upheld") /\ a # dispute[id].challenger =>
                           allocation'[id][a] = 0
                      /\ ResolvesAs(id, "Rejected") =>
                           \/ allocation'[id][a] = allocation[id][a]
                           \/ /\ a \in Defamed(id)
                              /\ \A b \in Defamed(id) :
                                    allocation'[id][b] - allocation[id][b]
                                      >= allocation'[id][a] - allocation[id][a]
    BY DEF ChosenStep
  <2>1. ASSUME task[id].status \in Unsettled, task'[id].outcome = "Consensus"
        PROVE  allocation'[id][a] = 0
    <3>1. task[id].outcome = "None"
      BY <1>1, <2>1 DEF DecidedInv, DecidedTask, NotYet
    <3>2. OutcomeMoves(id)
      BY <1>1, EveryOutcomeMoves
    <3>3. PICK k \in Accounts, B \in SUBSET Accounts, rate \in RewardRates :
                 FinalizeAsConsensus(k, id, B, rate)
      BY <2>1, <3>1, <3>2 DEF OutcomeMoves, KeepsOutcome, Begins, Decides
    <3> QED
      BY <1>1, <3>3, NamedOnly
  <2>2. ASSUME ResolvesAs(id, "Upheld"), a # dispute[id].challenger
        PROVE  allocation'[id][a] = 0
    <3>1. PICK k \in Accounts, B \in SUBSET Accounts : ResolveUpheld(k, id, B)
      BY <1>1, <2>2, ResolutionNames DEF ResolvesAs
    <3> QED
      BY <1>1, <2>2, <3>1, UpheldNames DEF DecidedInv
  <2>3. ASSUME ResolvesAs(id, "Rejected")
        PROVE  \/ allocation'[id][a] = allocation[id][a]
               \/ /\ a \in Defamed(id)
                  /\ \A b \in Defamed(id) :
                        allocation'[id][b] - allocation[id][b]
                          >= allocation'[id][a] - allocation[id][a]
    <3>1. PICK k \in Accounts, B \in SUBSET Accounts : ResolveRejected(k, id, B)
      BY <1>1, <2>3, ResolutionNames DEF ResolvesAs
    <3> QED
      BY <1>1, <3>1, RejectedNames
  <2> QED
    BY <2>1, <2>2, <2>3
<1>2. Init => BooksInv /\ DecidedInv
  BY BooksInit, DecidedInit
<1>3. TypeOK /\ TypeOK' /\ BooksInv /\ [Next]_vars => BooksInv'
  BY BooksStep
<1>4. TypeOK /\ TypeOK' /\ BooksInv /\ DecidedInv /\ [Next]_vars => DecidedInv'
  BY DecidedStep
<1> QED
  BY TypeCorrect, <1>1, <1>2, <1>3, <1>4, PTL DEF Spec, NoRoleHolderChosen
=============================================================================

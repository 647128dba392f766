-------------------------- MODULE ReadModelProofs --------------------------
(* The proofs about ReadModel: the numbering, the allocations, the progress of *)
(* a pass and the verified manifests, for any number of tasks, blocks, syncs   *)
(* and jobs.                                                                   *)
EXTENDS ReadModel, FiniteSetTheorems, NaturalsInduction, TLAPS

-----------------------------------------------------------------------------
(* Numbers.                                                                  *)

Less == {pair \in Nat \X Nat : pair[1] < pair[2]}

LEMMA LessIs == OpToRel(<, Nat) = Less
  BY DEF OpToRel, Less

(* A set of naturals that has an element has a least one.                    *)
LEMMA LeastOf ==
  ASSUME NEW S \in SUBSET Nat, S # {}
  PROVE  \E n \in S : \A m \in S : n <= m
<1>1. IsWellFoundedOn(Less, Nat)
  BY NatLessThanWellFounded, LessIs
<1>2. PICK x \in S : \A y \in S : <<y, x>> \notin Less
  BY <1>1, WFMin
<1>3. ASSUME NEW m \in S PROVE x <= m
  <2>1. <<m, x>> \in Nat \X Nat /\ <<m, x>>[1] = m /\ <<m, x>>[2] = x
    OBVIOUS
  <2> QED
    BY <1>2, <2>1 DEF Less
<1> QED
  BY <1>3

(* What holds of the first and passes on up to the last holds of all.        *)
LEMMA Counting ==
  ASSUME NEW lo \in Nat, NEW hi \in Nat, NEW S, lo \in S,
         \A n \in S : n \in lo..hi /\ n + 1 <= hi => n + 1 \in S
  PROVE  lo..hi \subseteq S
<1> DEFINE Missing == (lo..hi) \ S
<1>1. SUFFICES ASSUME Missing # {} PROVE FALSE
  OBVIOUS
<1>2. Missing \in SUBSET Nat
  OBVIOUS
<1> HIDE DEF Missing
<1>3. PICK n \in Missing : \A m \in Missing : n <= m
  BY <1>1, <1>2, LeastOf
<1> USE DEF Missing
<1>4. n \in lo..hi /\ n \notin S /\ n # lo
  BY <1>3
<1>5. n - 1 \in lo..hi /\ n - 1 \notin Missing
  BY <1>3, <1>4
<1>6. n - 1 \in S /\ (n - 1) + 1 = n
  BY <1>4, <1>5
<1> QED
  BY <1>4, <1>5, <1>6

(* How many of S have a lower key than x.                                    *)
Rank(S, key, x) == Cardinality({y \in S : key[y] < key[x]})

(* Ranks are below the size of the set, and no two elements have the same.   *)
LEMMA RankIs ==
  ASSUME NEW S, IsFiniteSet(S), NEW key, \A x \in S : key[x] \in Int,
         \A x, y \in S : key[x] = key[y] => x = y
  PROVE  /\ \A x \in S : Rank(S, key, x) \in 0..(Cardinality(S) - 1)
         /\ \A x, y \in S : Rank(S, key, x) = Rank(S, key, y) => x = y
<1> DEFINE Below(x) == {y \in S : key[y] < key[x]}
<1>1. Cardinality(S) \in Nat
  BY FS_CardinalityType
<1>2. ASSUME NEW x \in S
      PROVE  /\ IsFiniteSet(Below(x)) /\ Cardinality(Below(x)) \in Nat
             /\ Cardinality(Below(x)) < Cardinality(S)
  <2>1. Below(x) \in SUBSET S /\ x \notin Below(x)
    OBVIOUS
  <2> HIDE DEF Below
  <2>2. IsFiniteSet(Below(x)) /\ Cardinality(Below(x)) <= Cardinality(S)
        /\ (Cardinality(S) = Cardinality(Below(x)) => S = Below(x))
    BY <2>1, FS_Subset
  <2>3. Cardinality(Below(x)) \in Nat
    BY <2>2, FS_CardinalityType
  <2> QED
    BY <1>1, <2>1, <2>2, <2>3
<1>3. ASSUME NEW x \in S, NEW y \in S, key[x] < key[y]
      PROVE  Cardinality(Below(x)) < Cardinality(Below(y))
  <2>1. Below(x) \in SUBSET Below(y)
    BY <1>3
  <2>2. x \in Below(y) /\ x \notin Below(x)
    BY <1>3
  <2>3. /\ IsFiniteSet(Below(x)) /\ Cardinality(Below(x)) \in Nat
        /\ IsFiniteSet(Below(y)) /\ Cardinality(Below(y)) \in Nat
    BY <1>2
  <2> HIDE DEF Below
  <2>4. Cardinality(Below(x)) <= Cardinality(Below(y))
        /\ (Cardinality(Below(y)) = Cardinality(Below(x)) => Below(y) = Below(x))
    BY <2>1, <2>3, FS_Subset
  <2> QED
    BY <2>2, <2>3, <2>4
<1>4. \A x \in S : Rank(S, key, x) = Cardinality(Below(x))
  BY DEF Rank
<1> HIDE DEF Below
<1>5. \A x \in S : Rank(S, key, x) \in 0..(Cardinality(S) - 1)
  BY <1>1, <1>2, <1>4
<1>6. ASSUME NEW x \in S, NEW y \in S, Rank(S, key, x) = Rank(S, key, y)
      PROVE  x = y
  <2>1. ~(key[x] < key[y]) /\ ~(key[y] < key[x])
    BY <1>2, <1>3, <1>4, <1>6
  <2> QED
    BY <2>1
<1> QED
  BY <1>5, <1>6

(* A finite set that is numbered below its size, each number once, uses them all. *)
LEMMA Onto ==
  ASSUME NEW S, IsFiniteSet(S), NEW f,
         \A x \in S : f[x] \in 0..(Cardinality(S) - 1),
         \A x, y \in S : f[x] = f[y] => x = y
  PROVE  {f[x] : x \in S} = 0..(Cardinality(S) - 1)
<1> DEFINE N == Cardinality(S)
<1> DEFINE g == [x \in S |-> f[x]]
<1>1. N \in Nat
  BY FS_CardinalityType
<1>2. IsFiniteSet(0..(N - 1)) /\ Cardinality(0..(N - 1)) = N
  <2>1. IsFiniteSet(0..(N - 1)) /\ Cardinality(0..(N - 1)) = IF 0 > N - 1 THEN 0 ELSE (N - 1) - 0 + 1
    BY <1>1, FS_Interval
  <2> QED
    BY <1>1, <2>1
<1>3. g \in Injection(S, 0..(N - 1))
  BY DEF Injection, IsInjective
<1>4. g \in Surjection(S, 0..(N - 1))
  <2> HIDE DEF N, g
  <2>1. Cardinality(S) = N
    BY DEF N
  <2> QED
    BY <1>2, <1>3, <2>1, FS_Injection
<1>5. \A n \in 0..(N - 1) : \E x \in S : g[x] = n
  BY <1>4 DEF Surjection
<1> QED
  BY <1>5

-----------------------------------------------------------------------------
(* The chain.                                                                *)

Settles == {"rejected", "upheldPaid", "upheldUnpaid"}

Before(task, k, kinds) == \E i \in 1..k : chain[i].task = task /\ chain[i].kind \in kinds

(* A task reaches consensus once, is settled once after it and before a claim. *)
Lawful ==
  \A i \in 1..head :
    /\ chain[i].kind = "consensus" => ~Before(chain[i].task, i - 1, {"consensus"})
    /\ chain[i].kind \in Settles \cup {"claimed"} => Before(chain[i].task, i - 1, {"consensus"})
    /\ chain[i].kind \in Settles => ~Before(chain[i].task, i - 1, Settles \cup {"claimed"})

(* What is owed at height k, without counting.                               *)
Standing(task, k) ==
  IF ~Before(task, k, {"consensus"}) \/ Before(task, k, {"upheldUnpaid", "claimed"}) THEN 0
  ELSE IF Before(task, k, {"rejected"}) THEN 2
  ELSE 1

ChainType == chain \in Seq([task : Tasks, kind : Kinds])

LEMMA Elements ==
  ASSUME NEW T, NEW s \in Seq(T)
  PROVE  Len(s) \in Nat /\ \A i \in 1..Len(s) : s[i] \in T
  OBVIOUS

LEMMA ChainIs ==
  ASSUME ChainType
  PROVE  /\ head \in Nat
         /\ \A i \in 1..head : chain[i].task \in Tasks /\ chain[i].kind \in Kinds
<1>1. head \in Nat /\ \A i \in 1..head : chain[i] \in [task : Tasks, kind : Kinds]
  BY Elements DEF ChainType, head
<1> QED
  BY <1>1

LEMMA BeforeStep ==
  ASSUME NEW k \in Nat \ {0}, NEW task, NEW kinds
  PROVE  Before(task, k, kinds) <=>
           \/ Before(task, k - 1, kinds)
           \/ chain[k].task = task /\ chain[k].kind \in kinds
<1>1. 1..k = (1..(k - 1)) \cup {k}
  OBVIOUS
<1> QED
  BY <1>1 DEF Before

LEMMA BeforeGrows ==
  ASSUME NEW j \in Nat, NEW k \in Nat, j <= k, NEW task, NEW kinds, NEW more,
         kinds \subseteq more, Before(task, j, kinds)
  PROVE  Before(task, k, more)
  BY DEF Before

(* Whatever settles a task has consensus before it.                          *)
LEMMA ConsensusFirst ==
  ASSUME ChainType, Lawful, NEW k \in 0..head, NEW task,
         Before(task, k, Settles \cup {"claimed"})
  PROVE  Before(task, k, {"consensus"})
<1>1. PICK i \in 1..k : chain[i].task = task /\ chain[i].kind \in Settles \cup {"claimed"}
  BY DEF Before
<1>2. i \in 1..head /\ i - 1 \in Nat /\ i - 1 <= k /\ k \in Nat
  BY <1>1, ChainIs
<1>3. Before(task, i - 1, {"consensus"})
  BY <1>1, <1>2 DEF Lawful
<1> QED
  BY <1>2, <1>3, BeforeGrows

(* A settled task is settled by the one event that did.                      *)
LEMMA SettledOnce ==
  ASSUME ChainType, Lawful, NEW k \in 0..head, NEW i \in 1..k, chain[i].kind \in Settles
  PROVE  \A j \in 1..k : chain[j].task = chain[i].task /\ chain[j].kind \in Settles => j = i
<1>1. i \in 1..head /\ i \in Nat /\ k \in Nat /\ head \in Nat
  BY ChainIs
<1>2. ASSUME NEW j \in 1..k, chain[j].task = chain[i].task, chain[j].kind \in Settles, j < i
      PROVE  FALSE
  <2>1. Before(chain[i].task, i - 1, Settles \cup {"claimed"})
    BY <1>1, <1>2 DEF Before
  <2> QED
    BY <1>1, <2>1 DEF Lawful
<1>3. ASSUME NEW j \in 1..k, chain[j].task = chain[i].task, chain[j].kind \in Settles, i < j
      PROVE  FALSE
  <2>1. j \in 1..head /\ Before(chain[j].task, j - 1, Settles \cup {"claimed"})
    BY <1>1, <1>3 DEF Before
  <2> QED
    BY <1>3, <2>1 DEF Lawful
<1> QED
  BY <1>1, <1>2, <1>3

(* allocationOf after one more event.                                        *)
Then(task, k, owed) ==
  IF chain[k].task # task THEN owed
  ELSE CASE chain[k].kind \in {"consensus", "rejected"} -> owed + 1
         [] chain[k].kind = "upheldPaid" -> 1
         [] chain[k].kind \in {"upheldUnpaid", "claimed"} -> 0
         [] OTHER -> owed

LEMMA StandingStart ==
  ASSUME NEW task
  PROVE  Standing(task, 0) = 0
  BY DEF Standing, Before

(* One more event changes what is owed as the contract says.                 *)
LEMMA StandingStep ==
  ASSUME ChainType, Lawful, NEW k \in 1..head, NEW task
  PROVE  Standing(task, k) = Then(task, k, Standing(task, k - 1))
<1>1. k \in Nat \ {0} /\ k - 1 \in Nat /\ k - 1 \in 0..head /\ chain[k].kind \in Kinds
  BY ChainIs
<1>2. \A kinds : Before(task, k, kinds) <=>
        \/ Before(task, k - 1, kinds)
        \/ chain[k].task = task /\ chain[k].kind \in kinds
  BY <1>1, BeforeStep
<1>3. CASE chain[k].task # task
  BY <1>2, <1>3 DEF Then, Standing
<1>4. ASSUME chain[k].task = task, chain[k].kind = "consensus"
      PROVE  Standing(task, k) = 1 /\ Then(task, k, Standing(task, k - 1)) = 1
  <2>1. ~Before(task, k - 1, {"consensus"})
    BY <1>4 DEF Lawful
  <2>2. ~Before(task, k - 1, Settles \cup {"claimed"})
    BY <1>1, <2>1, ConsensusFirst
  <2>3. /\ ~Before(task, k - 1, {"upheldUnpaid", "claimed"})
        /\ ~Before(task, k - 1, {"rejected"})
    <3>1. /\ {"upheldUnpaid", "claimed"} \subseteq Settles \cup {"claimed"}
          /\ {"rejected"} \subseteq Settles \cup {"claimed"}
      BY DEF Settles
    <3> QED
      BY <1>1, <2>2, <3>1, BeforeGrows
  <2>4. /\ Before(task, k, {"consensus"}) /\ ~Before(task, k, {"upheldUnpaid", "claimed"})
        /\ ~Before(task, k, {"rejected"})
    BY <1>2, <1>4, <2>3
  <2> QED
    BY <1>4, <2>1, <2>4 DEF Then, Standing
<1>5. ASSUME chain[k].task = task, chain[k].kind \in Settles
      PROVE  /\ Before(task, k - 1, {"consensus"}) /\ Before(task, k, {"consensus"})
             /\ ~Before(task, k - 1, {"upheldUnpaid", "claimed"})
             /\ ~Before(task, k - 1, {"rejected"})
  <2>1. Before(task, k - 1, {"consensus"}) /\ ~Before(task, k - 1, Settles \cup {"claimed"})
    BY <1>5 DEF Lawful
  <2>2. /\ {"upheldUnpaid", "claimed"} \subseteq Settles \cup {"claimed"}
        /\ {"rejected"} \subseteq Settles \cup {"claimed"}
    BY DEF Settles
  <2> QED
    BY <1>1, <1>2, <2>1, <2>2, BeforeGrows
<1>6. CASE chain[k].task = task /\ chain[k].kind = "rejected"
  <2>1. chain[k].kind \in Settles
    BY <1>6 DEF Settles
  <2>2. Before(task, k, {"rejected"}) /\ ~Before(task, k, {"upheldUnpaid", "claimed"})
    BY <1>2, <1>5, <1>6, <2>1
  <2>3. Standing(task, k - 1) = 1 /\ Standing(task, k) = 2
    BY <1>5, <1>6, <2>1, <2>2 DEF Standing
  <2> QED
    BY <1>6, <2>3 DEF Then
<1>7. CASE chain[k].task = task /\ chain[k].kind = "upheldPaid"
  <2>1. chain[k].kind \in Settles
    BY <1>7 DEF Settles
  <2>2. ~Before(task, k, {"rejected"}) /\ ~Before(task, k, {"upheldUnpaid", "claimed"})
    BY <1>2, <1>5, <1>7, <2>1
  <2>3. Standing(task, k) = 1
    BY <1>5, <1>7, <2>1, <2>2 DEF Standing
  <2> QED
    BY <1>7, <2>3 DEF Then
<1>8. CASE chain[k].task = task /\ chain[k].kind \in {"upheldUnpaid", "claimed"}
  <2>1. Before(task, k, {"upheldUnpaid", "claimed"})
    BY <1>2, <1>8
  <2> QED
    BY <1>8, <2>1 DEF Then, Standing
<1>9. CASE chain[k].task = task /\ chain[k].kind \in {"created", "moved"}
  BY <1>2, <1>9 DEF Then, Standing
<1> QED
  BY <1>1, <1>3, <1>4, <1>6, <1>7, <1>8, <1>9 DEF Kinds, Payments

(* What the model counts event by event is that.                             *)
LEMMA OutstandingIs ==
  ASSUME ChainType, Lawful, NEW h \in 0..head, NEW task
  PROVE  Outstanding(task, h) = Standing(task, h)
<1> DEFINE Counts(at) ==
      at = [k \in 0..h |->
              IF k = 0 THEN 0
              ELSE IF chain[k].task # task THEN at[k - 1]
              ELSE CASE chain[k].kind \in {"consensus", "rejected"} -> at[k - 1] + 1
                     [] chain[k].kind = "upheldPaid" -> 1
                     [] chain[k].kind \in {"upheldUnpaid", "claimed"} -> 0
                     [] OTHER -> at[k - 1]]
<1> DEFINE owed == [k \in 0..h |-> Standing(task, k)]
<1> DEFINE at == CHOOSE at : Counts(at)
<1>1. Outstanding(task, h) = at[h]
  BY DEF Outstanding
<1>2. h \in Nat /\ head \in Nat
  BY ChainIs
<1>3. \A g : Counts(g) <=> g = [k \in 0..h |-> IF k = 0 THEN 0 ELSE Then(task, k, g[k - 1])]
  BY DEF Then
<1> HIDE DEF Counts
<1>4. \A k \in 0..h : owed[k] = IF k = 0 THEN 0 ELSE Then(task, k, owed[k - 1])
  <2> SUFFICES ASSUME NEW k \in 0..h
               PROVE  owed[k] = IF k = 0 THEN 0 ELSE Then(task, k, owed[k - 1])
    OBVIOUS
  <2>1. CASE k = 0
    BY <2>1, StandingStart
  <2>2. CASE k # 0
    <3>1. k \in 1..head /\ k - 1 \in 0..h
      BY <1>2, <2>2
    <3>2. owed[k - 1] = Standing(task, k - 1) /\ owed[k] = Standing(task, k)
      BY <3>1
    <3> HIDE DEF owed
    <3>3. Standing(task, k) = Then(task, k, Standing(task, k - 1))
      BY <3>1, StandingStep
    <3> QED
      BY <2>2, <3>2, <3>3
  <2> QED
    BY <2>1, <2>2
<1>5. Counts(owed)
  BY <1>3, <1>4
<1>6. Counts(at)
  BY <1>5
<1> HIDE DEF at
<1>7. at = [k \in 0..h |-> IF k = 0 THEN 0 ELSE Then(task, k, at[k - 1])]
  BY <1>3, <1>6
<1>8. \A k \in 0..h : at[k] = IF k = 0 THEN 0 ELSE Then(task, k, at[k - 1])
  BY <1>7
<1> DEFINE S == {k \in 0..h : at[k] = owed[k]}
<1>9. 0 \in S
  <2>1. 0 \in 0..h
    BY <1>2
  <2>2. at[0] = 0 /\ owed[0] = 0
    BY <1>4, <1>8, <2>1
  <2> QED
    BY <2>1, <2>2
<1>10. \A k \in S : k \in 0..h /\ k + 1 <= h => k + 1 \in S
  <2> SUFFICES ASSUME NEW k \in S, k + 1 <= h PROVE k + 1 \in S
    OBVIOUS
  <2>1. k + 1 \in 0..h /\ (k + 1) - 1 = k /\ k + 1 # 0 /\ at[k] = owed[k]
    BY <1>2
  <2>2. at[k + 1] = Then(task, k + 1, at[k]) /\ owed[k + 1] = Then(task, k + 1, owed[k])
    BY <1>4, <1>8, <2>1
  <2> QED
    BY <2>1, <2>2
<1> HIDE DEF S
<1>11. 0..h \subseteq S
  BY <1>2, <1>9, <1>10, Counting
<1>12. h \in S /\ h \in 0..h
  BY <1>2, <1>11
<1> QED
  BY <1>1, <1>12 DEF S

LEMMA StandingIsSmall ==
  ASSUME NEW task, NEW k
  PROVE  Standing(task, k) \in 0..2
  BY DEF Standing

(* A settlement that is not followed by a claim stands.                      *)
LEMMA SettledStands ==
  ASSUME ChainType, Lawful, NEW i \in 1..head, chain[i].kind \in Settles,
         ~Before(chain[i].task, head, {"claimed"}), NEW k \in i..head
  PROVE  /\ Standing(chain[i].task, i - 1) = 1
         /\ Standing(chain[i].task, k) = CASE chain[i].kind = "rejected" -> 2
                                           [] chain[i].kind = "upheldPaid" -> 1
                                           [] chain[i].kind = "upheldUnpaid" -> 0
<1> DEFINE task == chain[i].task
<1>1. i \in Nat \ {0} /\ i - 1 \in Nat /\ k \in Nat /\ k \in 0..head /\ i \in 1..k /\ head \in Nat
  BY ChainIs
<1>2. Before(task, i - 1, {"consensus"}) /\ ~Before(task, i - 1, Settles \cup {"claimed"})
  BY DEF Lawful
<1>3. Before(task, k, {"consensus"})
  BY <1>1, <1>2, BeforeGrows
<1>4. \A j \in 1..k : chain[j].task = task /\ chain[j].kind \in Settles => j = i
  BY <1>1, SettledOnce
<1>5. ~Before(task, k, {"claimed"})
  BY <1>1, BeforeGrows
<1>6. /\ ~Before(task, i - 1, {"upheldUnpaid", "claimed"}) /\ ~Before(task, i - 1, {"rejected"})
  <2>1. /\ {"upheldUnpaid", "claimed"} \subseteq Settles \cup {"claimed"}
        /\ {"rejected"} \subseteq Settles \cup {"claimed"}
    BY DEF Settles
  <2> QED
    BY <1>1, <1>2, <2>1, BeforeGrows
<1>7. Standing(task, i - 1) = 1
  BY <1>2, <1>6 DEF Standing
<1>8. Before(task, k, {"upheldUnpaid", "claimed"}) <=> chain[i].kind = "upheldUnpaid"
  BY <1>1, <1>4, <1>5 DEF Before, Settles
<1>9. Before(task, k, {"rejected"}) <=> chain[i].kind = "rejected"
  BY <1>1, <1>4 DEF Before, Settles
<1>10. chain[i].kind = "rejected" \/ chain[i].kind = "upheldPaid" \/ chain[i].kind = "upheldUnpaid"
  BY DEF Settles
<1>11. Standing(task, k) = CASE chain[i].kind = "rejected" -> 2
                             [] chain[i].kind = "upheldPaid" -> 1
                             [] chain[i].kind = "upheldUnpaid" -> 0
  BY <1>3, <1>8, <1>9, <1>10 DEF Standing
<1> QED
  BY <1>7, <1>11

LEMMA FirstOwed ==
  ASSUME ChainType, Lawful, NEW i \in 1..head, chain[i].kind = "consensus"
  PROVE  Standing(chain[i].task, i - 1) = 0 /\ Standing(chain[i].task, i) = 1
<1>1. ~Before(chain[i].task, i - 1, {"consensus"})
  BY DEF Lawful
<1>2. Standing(chain[i].task, i - 1) = 0
  BY <1>1 DEF Standing
<1>3. Standing(chain[i].task, i) = Then(chain[i].task, i, 0)
  BY <1>2, StandingStep
<1> QED
  BY <1>2, <1>3 DEF Then

(* What projecting a payment makes of a row that showed what was owed at some *)
(* height from the log before on: what was owed at some height from it on.    *)
LEMMA PaymentReads ==
  ASSUME ChainType, Lawful, NEW i \in 1..head, chain[i].kind \in Payments,
         ~Before(chain[i].task, head, {"claimed"}),
         NEW k \in (i - 1)..head, NEW h \in i..head
  PROVE  \E j \in i..head :
           ProjectPayment(Standing(chain[i].task, k), chain[i].kind, Standing(chain[i].task, h))
             = Standing(chain[i].task, j)
<1> DEFINE task == chain[i].task
<1> DEFINE old == Standing(task, k)
<1> DEFINE owed == Standing(task, h)
<1> DEFINE new == ProjectPayment(old, chain[i].kind, owed)
<1>1. i \in Nat /\ head \in Nat /\ k \in Nat /\ h \in Nat /\ i \in i..head
  BY ChainIs
<1>2. old \in 0..2 /\ owed \in 0..2
  BY StandingIsSmall
<1>3. CASE chain[i].kind = "consensus"
  <2>1. Standing(task, i - 1) = 0 /\ Standing(task, i) = 1
    BY <1>3, FirstOwed
  <2>2. new = Greatest(old, Greatest(owed, 1))
    BY <1>3 DEF ProjectPayment, ProjectRewardAllocated
  <2>3. new = old \/ new = owed \/ new = 1
    BY <2>2 DEF Greatest
  <2>4. new >= 1
    BY <1>2, <2>2 DEF Greatest
  <2>5. CASE new = 1
    BY <1>1, <2>1, <2>5
  <2>6. CASE new = owed
    BY <2>6
  <2>7. CASE new = old
    <3>1. k # i - 1
      BY <2>1, <2>4, <2>7
    <3>2. k \in i..head
      BY <1>1, <3>1
    <3> QED
      BY <2>7, <3>2
  <2> QED
    BY <2>3, <2>5, <2>6, <2>7
<1>4. ASSUME chain[i].kind \in Settles
      PROVE  /\ Standing(task, i - 1) = 1
             /\ \A j \in i..head :
                  Standing(task, j) = CASE chain[i].kind = "rejected" -> 2
                                        [] chain[i].kind = "upheldPaid" -> 1
                                        [] chain[i].kind = "upheldUnpaid" -> 0
  BY <1>1, <1>4, SettledStands
<1>5. k = i - 1 \/ k \in i..head
  BY <1>1
<1>6. CASE chain[i].kind = "rejected"
  <2>1. chain[i].kind \in Settles
    BY <1>6 DEF Settles
  <2>2. (old = 1 \/ old = 2) /\ owed = 2 /\ Standing(task, i) = 2
    BY <1>1, <1>4, <1>5, <1>6, <2>1
  <2>3. new = 2
    BY <1>6, <2>2 DEF ProjectPayment, ProjectRewardAllocated, Greatest
  <2> QED
    BY <1>1, <2>2, <2>3
<1>7. CASE chain[i].kind = "upheldPaid"
  <2>1. chain[i].kind \in Settles
    BY <1>7 DEF Settles
  <2>2. old = 1 /\ owed = 1 /\ Standing(task, i) = 1
    BY <1>1, <1>4, <1>5, <1>7, <2>1
  <2>3. new = 1
    BY <1>7, <2>2 DEF ProjectPayment, ProjectRewardAllocated, ProjectRewardReclaimed, Greatest
  <2> QED
    BY <1>1, <2>2, <2>3
<1>8. CASE chain[i].kind = "upheldUnpaid"
  <2>1. chain[i].kind \in Settles
    BY <1>8 DEF Settles
  <2>2. (old = 1 \/ old = 0) /\ owed = 0 /\ Standing(task, i) = 0
    BY <1>1, <1>4, <1>5, <1>8, <2>1
  <2>3. new = 0
    BY <1>8, <2>2 DEF ProjectPayment, ProjectRewardReclaimed
  <2> QED
    BY <1>1, <2>2, <2>3
<1> QED
  BY <1>3, <1>6, <1>7, <1>8 DEF Payments

-----------------------------------------------------------------------------
(* Numbering.                                                                *)

(* The image of a finite set is finite.                                      *)
LEMMA ImageIsFinite ==
  ASSUME NEW J, IsFiniteSet(J), NEW f
  PROVE  IsFiniteSet({f[j] : j \in J})
<1> DEFINE g == [j \in J |-> f[j]]
<1>1. g \in Surjection(J, {f[j] : j \in J})
  BY DEF Surjection
<1> QED
  BY <1>1, FS_Surjection

LEMMA RankedIs ==
  ASSUME ChainType, NEW u \in 0..head
  PROVE  /\ IsFiniteSet(RankedTasks(u)) /\ RankedTasks(u) \subseteq Tasks
         /\ \A task : task \in RankedTasks(u) <=> \E j \in 1..u : chain[j].task = task /\ HasLog(j)
<1> DEFINE J == {j \in 1..u : HasLog(j)}
<1> DEFINE f == [j \in J |-> chain[j].task]
<1>1. u \in Nat /\ 1..u \subseteq 1..head
  BY ChainIs
<1>2. RankedTasks(u) = {f[j] : j \in J}
  BY DEF RankedTasks
<1>3. IsFiniteSet(J)
  BY <1>1, FS_Interval, FS_Subset
<1>4. IsFiniteSet({f[j] : j \in J})
  <2> HIDE DEF J, f
  <2> QED
    BY <1>3, ImageIsFinite
<1> QED
  BY <1>1, <1>2, <1>4, ChainIs DEF RankedTasks

(* The first log of a task that has one is a log of it.                      *)
LEMMA FirstLogIs ==
  ASSUME ChainType, NEW u \in 0..head, NEW task \in RankedTasks(u)
  PROVE  FirstLog(task, u) \in 1..u /\ chain[FirstLog(task, u)].task = task
<1> DEFINE S == {i \in 1..u : chain[i].task = task /\ HasLog(i)}
<1>1. S \in SUBSET Nat /\ S # {}
  BY RankedIs
<1>2. FirstLog(task, u) = Min(S)
  BY DEF FirstLog
<1> HIDE DEF S
<1>3. \E n \in S : \A m \in S : n <= m
  BY <1>1, LeastOf
<1>4. Min(S) \in S
  BY <1>3 DEF Min
<1> QED
  BY <1>2, <1>4 DEF S

(* The tasks with logs are numbered below their number, each once.           *)
LEMMA CanonicalIs ==
  ASSUME ChainType, NEW u \in 0..head
  PROVE  /\ \A t \in RankedTasks(u) :
              CanonicalSequence(t, u) \in 0..(Cardinality(RankedTasks(u)) - 1)
         /\ \A t, v \in RankedTasks(u) :
              CanonicalSequence(t, u) = CanonicalSequence(v, u) => t = v
<1> DEFINE key == [t \in RankedTasks(u) |-> FirstLog(t, u)]
<1>1. \A t \in RankedTasks(u) : key[t] \in Int /\ chain[key[t]].task = t
  BY FirstLogIs
<1>2. \A t \in RankedTasks(u) : CanonicalSequence(t, u) = Rank(RankedTasks(u), key, t)
  BY DEF CanonicalSequence, Rank
<1>3. IsFiniteSet(RankedTasks(u))
  BY RankedIs
<1> HIDE DEF key
<1>4. \A t, v \in RankedTasks(u) : key[t] = key[v] => t = v
  BY <1>1
<1>5. /\ \A t \in RankedTasks(u) : Rank(RankedTasks(u), key, t) \in 0..(Cardinality(RankedTasks(u)) - 1)
      /\ \A t, v \in RankedTasks(u) :
           Rank(RankedTasks(u), key, t) = Rank(RankedTasks(u), key, v) => t = v
  BY <1>1, <1>3, <1>4, RankIs
<1> QED
  BY <1>2, <1>5

(* The rows without logs carry the time of a sync each.                      *)
Timed(rows, u) ==
  /\ \A t \in DOMAIN rows \ RankedTasks(u) : rows[t].created_at \in Int
  /\ \A t, v \in DOMAIN rows \ RankedTasks(u) :
       rows[t].created_at = rows[v].created_at => t = v

(* The slots of the rows are 0, 1, 2, ..., each once.                        *)
LEMMA SlotsAre ==
  ASSUME ChainType, NEW u \in 0..head, NEW rows, IsFiniteSet(DOMAIN rows),
         RankedTasks(u) \subseteq DOMAIN rows, Timed(rows, u)
  PROVE  /\ \A t \in DOMAIN rows : SequenceSlot(rows, t, u) \in 0..(Cardinality(DOMAIN rows) - 1)
         /\ \A t, v \in DOMAIN rows : SequenceSlot(rows, t, u) = SequenceSlot(rows, v, u) => t = v
<1> DEFINE R == RankedTasks(u)
<1> DEFINE D == DOMAIN rows
<1> DEFINE New == D \ R
<1> DEFINE key == [t \in New |-> rows[t].created_at]
<1>1. IsFiniteSet(R) /\ Cardinality(R) \in Nat
  BY RankedIs, FS_CardinalityType
<1>2. IsFiniteSet(New) /\ Cardinality(New) = Cardinality(D) - Cardinality(R)
      /\ Cardinality(D) \in Nat /\ Cardinality(New) \in Nat
  <2>1. D \cap R = R
    OBVIOUS
  <2> QED
    BY <2>1, FS_Difference, FS_CardinalityType
<1>3. \A t \in R : SequenceSlot(rows, t, u) = CanonicalSequence(t, u)
  BY DEF SequenceSlot
<1>4. \A t \in New : SequenceSlot(rows, t, u) = Cardinality(R) + Rank(New, key, t)
  BY DEF SequenceSlot, Rank
<1>5. /\ \A t \in New : key[t] \in Int
      /\ \A t, v \in New : key[t] = key[v] => t = v
  BY DEF Timed
<1>6. /\ \A t \in New : Rank(New, key, t) \in 0..(Cardinality(New) - 1)
      /\ \A t, v \in New : Rank(New, key, t) = Rank(New, key, v) => t = v
  <2> HIDE DEF New, key
  <2> QED
    BY <1>2, <1>5, RankIs
<1>7. /\ \A t \in R : CanonicalSequence(t, u) \in 0..(Cardinality(R) - 1)
      /\ \A t, v \in R : CanonicalSequence(t, u) = CanonicalSequence(v, u) => t = v
  BY CanonicalIs
<1>8. \A t \in D : t \in R \/ t \in New
  OBVIOUS
<1> HIDE DEF R, D, New, key
<1>9. \A t \in D : SequenceSlot(rows, t, u) \in 0..(Cardinality(D) - 1)
  BY <1>1, <1>2, <1>3, <1>4, <1>6, <1>7, <1>8
<1>10. ASSUME NEW t \in D, NEW v \in D, SequenceSlot(rows, t, u) = SequenceSlot(rows, v, u)
       PROVE  t = v
  <2>1. CASE t \in R /\ v \in R
    BY <1>3, <1>7, <1>10, <2>1
  <2>2. CASE t \in New /\ v \in New
    <3>1. Rank(New, key, t) \in Int /\ Rank(New, key, v) \in Int
      BY <1>6, <2>2
    <3>2. Rank(New, key, t) = Rank(New, key, v)
      BY <1>1, <1>4, <1>10, <2>2, <3>1
    <3> QED
      BY <1>6, <2>2, <3>2
  <2>3. ~(t \in R /\ v \in New) /\ ~(t \in New /\ v \in R)
    BY <1>1, <1>3, <1>4, <1>6, <1>7, <1>10
  <2> QED
    BY <1>8, <2>1, <2>2, <2>3
<1> QED
  BY <1>9, <1>10 DEF D

(* One more log ranks its task.                                              *)
LEMMA RankedStep ==
  ASSUME ChainType, NEW i \in 1..head
  PROVE  RankedTasks(i) = RankedTasks(i - 1) \cup (IF HasLog(i) THEN {chain[i].task} ELSE {})
<1>1. i \in Nat /\ i \in 0..head /\ i - 1 \in 0..head /\ 1..i = (1..(i - 1)) \cup {i}
  BY ChainIs
<1>2. \A task : task \in RankedTasks(i) <=> \E j \in 1..i : chain[j].task = task /\ HasLog(j)
  BY <1>1, RankedIs
<1>3. \A task : task \in RankedTasks(i - 1) <=> \E j \in 1..(i - 1) : chain[j].task = task /\ HasLog(j)
  BY <1>1, RankedIs
<1> QED
  BY <1>1, <1>2, <1>3

(* Only the number of a row is written when rows are renumbered.             *)
Renumbered(row, sequence) ==
  [sequence |-> sequence, version |-> row.version, created_at |-> row.created_at,
   amount |-> row.amount, manifest_verified |-> row.manifest_verified]

(* A row is its fields.                                                      *)
LEMMA RowIs ==
  ASSUME NEW row \in RowType
  PROVE  /\ row = Renumbered(row, row.sequence)
         /\ \A s : [row EXCEPT !.sequence = s] = Renumbered(row, s)
         /\ row.sequence \in Int /\ row.version \in Nat /\ row.created_at \in Nat
         /\ row.amount \in Nat /\ row.manifest_verified \in BOOLEAN
  BY DEF RowType, Renumbered

Numbered(rows) ==
  {rows[task].sequence : task \in DOMAIN rows} = 0..(Cardinality(DOMAIN rows) - 1)

(* A new row for the task of log i takes its slot, and so does every other.   *)
LEMMA InsertIs ==
  ASSUME ChainType, NEW i \in 1..head, HasLog(i), NEW rows, IsFiniteSet(DOMAIN rows),
         \A t \in DOMAIN rows : rows[t] \in RowType,
         chain[i].task \notin DOMAIN rows,
         RankedTasks(i - 1) \subseteq DOMAIN rows, Timed(rows, i - 1), NEW version,
         NEW inserted,
         inserted = PutRow(Parked(rows, i), chain[i].task,
                           NewRow(CanonicalSequence(chain[i].task, i), version, 0))
  PROVE  /\ DOMAIN Unparked(inserted, i) = DOMAIN rows \cup {chain[i].task}
         /\ Unparked(inserted, i)[chain[i].task]
              = NewRow(CanonicalSequence(chain[i].task, i), version, 0)
         /\ CanonicalSequence(chain[i].task, i) \in Nat
         /\ \A t \in DOMAIN rows : \E s \in Nat :
              Unparked(inserted, i)[t] = Renumbered(rows[t], s)
         /\ Numbered(Unparked(inserted, i))
         /\ UniqueSequence(inserted) /\ UniqueSequence(Unparked(inserted, i))
<1> DEFINE task == chain[i].task
<1> DEFINE D == DOMAIN rows
<1> DEFINE slot == [t \in D \cup {task} |-> SequenceSlot(inserted, t, i)]
<1> DEFINE N == Cardinality(D \cup {task})
<1>0. i \in 0..head /\ i - 1 \in 0..head
  BY ChainIs
<1>1. RankedTasks(i) = RankedTasks(i - 1) \cup {task}
  BY RankedStep
<1>2. DOMAIN Parked(rows, i) = D
  BY DEF Parked
<1>3. /\ DOMAIN inserted = D \cup {task}
      /\ inserted[task] = NewRow(CanonicalSequence(task, i), version, 0)
      /\ \A t \in D : inserted[t] = Parked(rows, i)[t]
  BY <1>2 DEF PutRow
<1>4. \A t \in D : inserted[t] = IF rows[t].sequence = SequenceSlot(rows, t, i) THEN rows[t]
                                 ELSE Renumbered(rows[t], -1 - SequenceSlot(rows, t, i))
  BY <1>3, RowIs DEF Parked
<1>5. \A t \in D : inserted[t].created_at = rows[t].created_at
  <2> SUFFICES ASSUME NEW t \in D PROVE inserted[t].created_at = rows[t].created_at
    OBVIOUS
  <2>1. Renumbered(rows[t], -1 - SequenceSlot(rows, t, i)).created_at = rows[t].created_at
    BY DEF Renumbered
  <2> QED
    BY <1>4, <2>1
<1>6. \A t \in D : SequenceSlot(inserted, t, i) = SequenceSlot(rows, t, i)
  <2> SUFFICES ASSUME NEW t \in D
               PROVE  SequenceSlot(inserted, t, i) = SequenceSlot(rows, t, i)
    OBVIOUS
  <2>1. DOMAIN inserted \ RankedTasks(i) = DOMAIN rows \ RankedTasks(i)
    BY <1>1, <1>3
  <2>2. {other \in DOMAIN inserted \ RankedTasks(i) : inserted[other].created_at < inserted[t].created_at}
        = {other \in DOMAIN rows \ RankedTasks(i) : rows[other].created_at < rows[t].created_at}
    BY <1>5, <2>1
  <2> QED
    BY <2>2 DEF SequenceSlot
<1>7. Timed(inserted, i)
  <2>1. DOMAIN inserted \ RankedTasks(i) \subseteq DOMAIN rows \ RankedTasks(i - 1)
    BY <1>1, <1>3
  <2> QED
    BY <1>5, <2>1 DEF Timed
<1>8. IsFiniteSet(D \cup {task}) /\ N \in Nat
  BY FS_AddElement, FS_CardinalityType
<1>9. /\ \A t \in D \cup {task} : slot[t] \in 0..(N - 1)
      /\ \A t, v \in D \cup {task} : slot[t] = slot[v] => t = v
  <2>1. IsFiniteSet(DOMAIN inserted) /\ RankedTasks(i) \subseteq DOMAIN inserted
    BY <1>1, <1>3, <1>8
  <2>2. /\ \A t \in DOMAIN inserted : SequenceSlot(inserted, t, i) \in 0..(Cardinality(DOMAIN inserted) - 1)
        /\ \A t, v \in DOMAIN inserted : SequenceSlot(inserted, t, i) = SequenceSlot(inserted, v, i) => t = v
    BY <1>0, <1>7, <2>1, SlotsAre
  <2> QED
    BY <1>3, <2>2
<1>10. slot[task] = CanonicalSequence(task, i)
  BY <1>1 DEF SequenceSlot
<1>11. \A t \in D : slot[t] = SequenceSlot(rows, t, i)
  BY <1>6
<1> DEFINE unparked == Unparked(inserted, i)
<1>12. /\ DOMAIN unparked = D \cup {task}
       /\ \A t \in D \cup {task} :
            unparked[t] = IF inserted[t].sequence >= 0 THEN inserted[t]
                          ELSE [inserted[t] EXCEPT !.sequence = slot[t]]
  BY <1>3 DEF Unparked
<1> HIDE DEF slot, unparked
<1>13. inserted[task].sequence = slot[task] /\ slot[task] \in Nat
  BY <1>3, <1>8, <1>9, <1>10 DEF NewRow
<1>14. unparked[task] = NewRow(CanonicalSequence(task, i), version, 0)
  <2>1. inserted[task].sequence >= 0 /\ task \in D \cup {task}
    BY <1>13
  <2>2. unparked[task] = inserted[task]
    BY <1>12, <2>1
  <2> QED
    BY <1>3, <2>2
<1>15. ASSUME NEW t \in D
       PROVE  /\ inserted[t].sequence = slot[t] \/ inserted[t].sequence = -1 - slot[t]
              /\ unparked[t] = Renumbered(rows[t], slot[t]) /\ slot[t] \in Nat
  <2>1. slot[t] \in Nat
    BY <1>8, <1>9
  <2>2. CASE rows[t].sequence = slot[t]
    <3>1. inserted[t] = rows[t]
      BY <1>4, <1>11, <2>2
    <3>2. unparked[t] = rows[t]
      <4>1. inserted[t].sequence >= 0 /\ t \in D \cup {task}
        BY <2>1, <2>2, <3>1
      <4>2. unparked[t] = inserted[t]
        BY <1>12, <4>1
      <4> QED
        BY <3>1, <4>2
    <3> QED
      BY <2>1, <2>2, <3>1, <3>2, RowIs
  <2>3. CASE rows[t].sequence # slot[t]
    <3>1. inserted[t] = Renumbered(rows[t], -1 - slot[t])
      BY <1>4, <1>11, <2>3
    <3>2. inserted[t].sequence = -1 - slot[t] /\ ~(inserted[t].sequence >= 0)
      BY <2>1, <3>1 DEF Renumbered
    <3>3. unparked[t] = [inserted[t] EXCEPT !.sequence = slot[t]]
      BY <1>12, <3>2
    <3>4. unparked[t] = Renumbered(rows[t], slot[t])
      BY <3>1, <3>3 DEF Renumbered
    <3> QED
      BY <2>1, <3>2, <3>4
  <2> QED
    BY <2>2, <2>3
<1>16. \A t \in D \cup {task} : unparked[t].sequence = slot[t]
  <2>1. unparked[task].sequence = slot[task]
    BY <1>10, <1>14 DEF NewRow
  <2>2. \A t \in D : unparked[t].sequence = slot[t]
    <3> SUFFICES ASSUME NEW t \in D PROVE unparked[t].sequence = slot[t]
      OBVIOUS
    <3>1. Renumbered(rows[t], slot[t]).sequence = slot[t]
      BY DEF Renumbered
    <3> QED
      BY <1>15, <3>1
  <2> QED
    BY <2>1, <2>2
<1>17. {slot[t] : t \in D \cup {task}} = 0..(N - 1)
  <2> HIDE DEF D, task
  <2> QED
    BY <1>8, <1>9, Onto
<1>18. Numbered(unparked)
  <2>1. {unparked[t].sequence : t \in DOMAIN unparked} = {slot[t] : t \in D \cup {task}}
    BY <1>12, <1>16
  <2> QED
    BY <1>12, <1>17, <2>1 DEF Numbered
<1>19. UniqueSequence(unparked)
  BY <1>9, <1>12, <1>16 DEF UniqueSequence
<1>20. UniqueSequence(inserted)
  <2>1. \A t \in D \cup {task} :
          /\ slot[t] \in Nat
          /\ inserted[t].sequence = slot[t] \/ inserted[t].sequence = -1 - slot[t]
    BY <1>13, <1>15
  <2>2. ASSUME NEW t \in D \cup {task}, NEW v \in D \cup {task},
               inserted[t].sequence = inserted[v].sequence
        PROVE  slot[t] = slot[v]
    BY <2>1, <2>2
  <2> QED
    BY <1>3, <1>9, <2>2 DEF UniqueSequence
<1>21. \A t \in D : \E s \in Nat : unparked[t] = Renumbered(rows[t], s)
  BY <1>15
<1>22. CanonicalSequence(task, i) \in Nat
  BY <1>10, <1>13
<1> QED
  BY <1>12, <1>14, <1>18, <1>19, <1>20, <1>21, <1>22 DEF unparked

-----------------------------------------------------------------------------
(* Projections.                                                              *)

RowOf(sequence, version, created_at, amount, verified) ==
  [sequence |-> sequence, version |-> version, created_at |-> created_at,
   amount |-> amount, manifest_verified |-> verified]

View(rows, queue) == [rows |-> rows, jobs |-> queue, threw |-> FALSE]

LEMMA ViewFields ==
  ASSUME NEW rows, NEW queue
  PROVE  /\ View(rows, queue).rows = rows /\ View(rows, queue).jobs = queue
         /\ View(rows, queue).threw = FALSE
  BY DEF View

LEMMA RowsSet ==
  ASSUME NEW rows, NEW queue, NEW r
  PROVE  [View(rows, queue) EXCEPT !.rows = r] = View(r, queue)
<1>1. PICK f : f = View(rows, queue).threw
  OBVIOUS
<1>2. View(rows, queue) = [rows |-> rows, jobs |-> queue, threw |-> f]
  BY <1>1 DEF View
<1>3. View(r, queue) = [rows |-> r, jobs |-> queue, threw |-> f]
  BY <1>1 DEF View
<1>4. [View(rows, queue) EXCEPT !.rows = r] = [rows |-> r, jobs |-> queue, threw |-> f]
  BY <1>2
<1> QED
  BY <1>3, <1>4

LEMMA JobsSet ==
  ASSUME NEW rows, NEW queue, NEW q
  PROVE  [View(rows, queue) EXCEPT !.jobs = q] = View(rows, q)
<1>1. PICK f : f = View(rows, queue).threw
  OBVIOUS
<1>2. View(rows, queue) = [rows |-> rows, jobs |-> queue, threw |-> f]
  BY <1>1 DEF View
<1>3. View(rows, q) = [rows |-> rows, jobs |-> q, threw |-> f]
  BY <1>1 DEF View
<1>4. [View(rows, queue) EXCEPT !.jobs = q] = [rows |-> rows, jobs |-> q, threw |-> f]
  BY <1>2
<1> QED
  BY <1>3, <1>4

LEMMA StillCalm ==
  ASSUME NEW rows, NEW queue
  PROVE  [View(rows, queue) EXCEPT !.threw = FALSE] = View(rows, queue)
<1>1. PICK f : f = View(rows, queue).threw
  OBVIOUS
<1>2. View(rows, queue) = [rows |-> rows, jobs |-> queue, threw |-> f]
  BY <1>1 DEF View
<1>3. [View(rows, queue) EXCEPT !.threw = f] = [rows |-> rows, jobs |-> queue, threw |-> f]
  BY <1>2
<1>4. f = FALSE
  BY <1>1, ViewFields
<1> QED
  BY <1>2, <1>3, <1>4

LEMMA VersionSet ==
  ASSUME NEW rows, NEW queue, NEW task \in DOMAIN rows, NEW s, NEW v, NEW c, NEW a, NEW m,
         rows[task] = RowOf(s, v, c, a, m), NEW version
  PROVE  [View(rows, queue) EXCEPT !.rows[task].version = version]
           = View([rows EXCEPT ![task] = RowOf(s, version, c, a, m)], queue)
<1> DEFINE old == View(rows, queue)
<1>1. old.rows = rows /\ old.jobs = queue /\ old.threw = FALSE
  BY ViewFields
<1>2. [rows[task] EXCEPT !.version = version] = RowOf(s, version, c, a, m)
  BY DEF RowOf
<1>3. [rows EXCEPT ![task].version = version] = [rows EXCEPT ![task] = RowOf(s, version, c, a, m)]
  BY <1>2
<1>4. [old EXCEPT !.rows[task].version = version]
        = [old EXCEPT !.rows = [rows EXCEPT ![task].version = version]]
  BY <1>1
<1>5. \A r : [old EXCEPT !.rows = r] = View(r, queue)
  BY RowsSet
<1> QED
  BY <1>3, <1>4, <1>5

LEMMA AmountSet ==
  ASSUME NEW rows, NEW queue, NEW task \in DOMAIN rows, NEW s, NEW v, NEW c, NEW a, NEW m,
         rows[task] = RowOf(s, v, c, a, m), NEW kind, NEW owed
  PROVE  [View(rows, queue) EXCEPT !.rows[task].amount = ProjectPayment(@, kind, owed)]
           = View([rows EXCEPT ![task] = RowOf(s, v, c, ProjectPayment(a, kind, owed), m)],
                  queue)
<1> DEFINE old == View(rows, queue)
<1>1. old.rows = rows /\ old.jobs = queue /\ old.threw = FALSE
  BY ViewFields
<1>2. rows[task].amount = a
  BY DEF RowOf
<1>3. \A n : [rows[task] EXCEPT !.amount = n] = RowOf(s, v, c, n, m)
  BY DEF RowOf
<1>4. \A n : [rows EXCEPT ![task].amount = n] = [rows EXCEPT ![task] = RowOf(s, v, c, n, m)]
  BY <1>3
<1>5. [old EXCEPT !.rows[task].amount = ProjectPayment(@, kind, owed)]
        = [old EXCEPT !.rows = [rows EXCEPT ![task].amount = ProjectPayment(a, kind, owed)]]
  BY <1>1, <1>2
<1>6. \A r : [old EXCEPT !.rows = r] = View(r, queue)
  BY RowsSet
<1> QED
  BY <1>4, <1>5, <1>6

JobType == [status : JobStatuses, attempts : Nat]

LEMMA Enqueued ==
  ASSUME NEW rows, NEW queue \in [Hashes -> JobType], NEW hash \in Hashes
  PROVE  \E q \in [Hashes -> JobType] :
           EnqueueArtifactSync(View(rows, queue), hash) = View(rows, q)
<1> DEFINE db == View(rows, queue)
<1>1. db.rows = rows /\ db.jobs = queue /\ db.threw = FALSE
  BY ViewFields
<1>2. CASE queue[hash].status # "None"
  BY <1>1, <1>2 DEF EnqueueArtifactSync
<1>3. CASE queue[hash].status = "None"
  <2> DEFINE q == [queue EXCEPT ![hash].status = "PENDING"]
  <2>1. q \in [Hashes -> JobType]
    BY DEF JobType, JobStatuses
  <2>2. [db EXCEPT !.jobs[hash].status = "PENDING"] = [db EXCEPT !.jobs = q]
    BY <1>1
  <2>3. [db EXCEPT !.jobs = q] = View(rows, q)
    BY JobsSet
  <2>4. EnqueueArtifactSync(db, hash) = [db EXCEPT !.jobs[hash].status = "PENDING"]
    BY <1>1, <1>3 DEF EnqueueArtifactSync
  <2> QED
    BY <2>1, <2>2, <2>3, <2>4
<1> QED
  BY <1>2, <1>3

(* The rows that syncs wrote ahead of their logs carry the number of the sync. *)
Dated(rows, u) ==
  \A t \in DOMAIN rows \ RankedTasks(u) :
    rows[t].created_at \in 1..Len(syncs) /\ syncs[rows[t].created_at].task = t

LEMMA DatedIsTimed ==
  ASSUME NEW rows, NEW u, Dated(rows, u)
  PROVE  Timed(rows, u)
  BY DEF Dated, Timed

(* Rows that the logs up to u have been projected onto.                       *)
Projected(rows, u) ==
  /\ IsFiniteSet(DOMAIN rows) /\ DOMAIN rows \subseteq Tasks
  /\ \A t \in DOMAIN rows : rows[t] \in RowType
  /\ RankedTasks(u) \subseteq DOMAIN rows
  /\ Numbered(rows)
  /\ Dated(rows, u)

(* Rows that keep their numbers stay numbered.                               *)
LEMMA SameNumbers ==
  ASSUME NEW rows, NEW new, DOMAIN new = DOMAIN rows,
         \A t \in DOMAIN rows : new[t].sequence = rows[t].sequence
  PROVE  Numbered(rows) <=> Numbered(new)
  BY DEF Numbered

(* What log i makes of the rows: the row of its task is read at height h, the  *)
(* others are numbered at most.                                              *)
Writes(rows, new, i, h, amount) ==
  LET task == chain[i].task IN
  /\ DOMAIN new = DOMAIN rows \cup {task}
  /\ \A t \in DOMAIN rows \ {task} : \E s \in Int : new[t] = Renumbered(rows[t], s)
  /\ \E s \in Int :
       new[task] = IF task \in DOMAIN rows
                   THEN RowOf(s, Version(task, h), rows[task].created_at, amount,
                              rows[task].manifest_verified)
                   ELSE RowOf(s, Version(task, h), 0, amount, FALSE)
  /\ Numbered(new)

Shows(rows, task) == IF task \in DOMAIN rows THEN rows[task].amount ELSE 0

LEMMA Refreshed ==
  ASSUME ChainType, NEW i \in 1..head, HasLog(i), NEW h \in 0..head,
         NEW rows, Projected(rows, i - 1), NEW queue, Version(chain[i].task, h) # 0
  PROVE  \E new :
           /\ RefreshTask(View(rows, queue), i, h) = View(new, queue)
           /\ Writes(rows, new, i, h, Shows(rows, chain[i].task))
<1> DEFINE task == chain[i].task
<1> DEFINE version == Version(task, h)
<1> DEFINE db == View(rows, queue)
<1> DEFINE inserted == PutRow(Parked(rows, i), task, NewRow(CanonicalSequence(task, i), version, 0))
<1> DEFINE unparked == Unparked(inserted, i)
<1>1. db.rows = rows /\ db.jobs = queue /\ db.threw = FALSE
  BY ViewFields
<1>2. RefreshTask(db, i, h) =
        IF task \in DOMAIN rows THEN [db EXCEPT !.rows[task].version = version]
        ELSE [db EXCEPT !.rows = unparked,
                        !.threw = @ \/ ~UniqueSequence(inserted) \/ ~UniqueSequence(unparked)]
  BY <1>1 DEF RefreshTask
<1> HIDE DEF version
<1>3. CASE task \in DOMAIN rows
  <2>1. rows[task] \in RowType /\ \A t \in DOMAIN rows : rows[t] \in RowType
    BY <1>3 DEF Projected
  <2>2. PICK row : row = rows[task]
    OBVIOUS
  <2>3. rows[task] = RowOf(row.sequence, row.version, row.created_at, row.amount, row.manifest_verified)
        /\ row.sequence \in Int
    BY <2>1, <2>2, RowIs DEF RowOf, Renumbered
  <2> DEFINE put == RowOf(row.sequence, version, row.created_at, row.amount, row.manifest_verified)
  <2> DEFINE new == [rows EXCEPT ![task] = put]
  <2>4. RefreshTask(db, i, h) = View(new, queue)
    <3>1. [db EXCEPT !.rows[task].version = version] = View(new, queue)
      <4>1. PICK tk, v : tk = task /\ v = version
        OBVIOUS
      <4>2. tk \in DOMAIN rows
            /\ rows[tk] = RowOf(row.sequence, row.version, row.created_at, row.amount, row.manifest_verified)
        BY <1>3, <2>3, <4>1
      <4>3. [View(rows, queue) EXCEPT !.rows[tk].version = v]
              = View([rows EXCEPT ![tk] = RowOf(row.sequence, v, row.created_at, row.amount,
                                                row.manifest_verified)], queue)
        BY <4>2, VersionSet
      <4> QED
        BY <4>1, <4>3
    <3> QED
      BY <1>2, <1>3, <3>1
  <2>5. DOMAIN new = DOMAIN rows /\ new[task] = put /\ \A t \in DOMAIN rows : t # task => new[t] = rows[t]
    BY <1>3
  <2>6. put.sequence = row.sequence
    BY DEF RowOf
  <2> HIDE DEF put, new
  <2>7. \A t \in DOMAIN rows : new[t].sequence = rows[t].sequence
    BY <2>2, <2>5, <2>6
  <2>8. Numbered(new)
    BY <2>5, <2>7, SameNumbers DEF Projected
  <2>9. \A t \in DOMAIN rows \ {task} : \E s \in Int : new[t] = Renumbered(rows[t], s)
    BY <2>1, <2>5, RowIs
  <2>10. Writes(rows, new, i, h, Shows(rows, task))
    <3>1. \E s \in Int : new[task] = RowOf(s, version, rows[task].created_at, rows[task].amount,
                                           rows[task].manifest_verified)
      BY <2>2, <2>3, <2>5 DEF put
    <3> QED
      BY <1>3, <2>5, <2>8, <2>9, <3>1 DEF Writes, Shows, version
  <2> QED
    BY <2>4, <2>10
<1>4. CASE task \notin DOMAIN rows
  <2>1. /\ DOMAIN unparked = DOMAIN rows \cup {task}
        /\ unparked[task] = NewRow(CanonicalSequence(task, i), version, 0)
        /\ CanonicalSequence(task, i) \in Nat
        /\ \A t \in DOMAIN rows : \E s \in Nat : unparked[t] = Renumbered(rows[t], s)
        /\ Numbered(unparked)
        /\ UniqueSequence(inserted) /\ UniqueSequence(unparked)
    <3>1. /\ IsFiniteSet(DOMAIN rows) /\ \A t \in DOMAIN rows : rows[t] \in RowType
          /\ RankedTasks(i - 1) \subseteq DOMAIN rows /\ Timed(rows, i - 1)
      BY DatedIsTimed DEF Projected
    <3>2. PICK ins : ins = inserted
      OBVIOUS
    <3> QED
      BY <1>4, <3>1, <3>2, InsertIs
  <2> HIDE DEF inserted, unparked
  <2>2. RefreshTask(db, i, h) = [db EXCEPT !.rows = unparked, !.threw = FALSE]
    BY <1>1, <1>2, <1>4, <2>1
  <2>3. [db EXCEPT !.rows = unparked, !.threw = FALSE] = View(unparked, queue)
    <3>1. [db EXCEPT !.rows = unparked, !.threw = FALSE]
            = [[db EXCEPT !.rows = unparked] EXCEPT !.threw = FALSE]
      OBVIOUS
    <3>2. [db EXCEPT !.rows = unparked] = View(unparked, queue)
      BY RowsSet
    <3>3. [View(unparked, queue) EXCEPT !.threw = FALSE] = View(unparked, queue)
      BY StillCalm
    <3> QED
      BY <3>1, <3>2, <3>3
  <2>4. unparked[task] = RowOf(CanonicalSequence(task, i), version, 0, 0, FALSE)
    BY <2>1 DEF NewRow, RowOf
  <2>5. Writes(rows, unparked, i, h, Shows(rows, task))
    <3>1. \E s \in Int : unparked[task] = RowOf(s, version, 0, 0, FALSE)
      <4>1. CanonicalSequence(task, i) \in Int
        BY <2>1
      <4> WITNESS CanonicalSequence(task, i) \in Int
      <4> QED
        BY <2>4
    <3>2. \A t \in DOMAIN rows \ {task} : \E s \in Int : unparked[t] = Renumbered(rows[t], s)
      BY <2>1
    <3> QED
      BY <1>4, <2>1, <3>1, <3>2 DEF Writes, Shows, version
  <2> QED
    BY <2>2, <2>3, <2>5
<1> QED
  BY <1>3, <1>4

Applies(rows, i, h) ==
  IF chain[i].kind \in Payments
  THEN ProjectPayment(Shows(rows, chain[i].task), chain[i].kind, Outstanding(chain[i].task, h))
  ELSE Shows(rows, chain[i].task)

(* A log whose struct is there does not throw.                               *)
LEMMA Applied ==
  ASSUME ReadModelAssumption, ChainType, NEW i \in 1..head, HasLog(i), NEW h \in 0..head,
         NEW rows, Projected(rows, i - 1), NEW queue \in [Hashes -> JobType],
         Version(chain[i].task, h) # 0
  PROVE  \E new : \E q \in [Hashes -> JobType] :
           /\ ApplyEvent(View(rows, queue), i, h) = View(new, q)
           /\ Writes(rows, new, i, h, Applies(rows, i, h))
<1> DEFINE task == chain[i].task
<1> DEFINE kind == chain[i].kind
<1> DEFINE db == View(rows, queue)
<1>1. PICK r : /\ RefreshTask(db, i, h) = View(r, queue)
               /\ Writes(rows, r, i, h, Shows(rows, task))
  BY Refreshed
<1>2. db.threw = FALSE /\ View(r, queue).threw = FALSE
  BY ViewFields
<1>3. ApplyEvent(db, i, h) =
        IF kind = "created" THEN EnqueueArtifactSync(View(r, queue), ManifestOf[task])
        ELSE IF kind \in Payments
        THEN [View(r, queue) EXCEPT !.rows[task].amount =
                ProjectPayment(@, kind, Outstanding(task, h))]
        ELSE View(r, queue)
  BY <1>1, <1>2 DEF ApplyEvent
<1>4. "created" \notin Payments
  BY DEF Payments
<1>5. CASE kind = "created"
  <2>1. ManifestOf[task] \in Hashes
    BY ChainIs DEF ReadModelAssumption
  <2>2. PICK q \in [Hashes -> JobType] :
          EnqueueArtifactSync(View(r, queue), ManifestOf[task]) = View(r, q)
    BY <2>1, Enqueued
  <2> QED
    BY <1>1, <1>3, <1>4, <1>5, <2>2 DEF Applies
<1>6. CASE kind # "created" /\ kind \notin Payments
  BY <1>1, <1>3, <1>6 DEF Applies
<1>7. CASE kind \in Payments
  <2> DEFINE owed == Outstanding(task, h)
  <2> DEFINE c == IF task \in DOMAIN rows THEN rows[task].created_at ELSE 0
  <2> DEFINE m == IF task \in DOMAIN rows THEN rows[task].manifest_verified ELSE FALSE
  <2> DEFINE a == Shows(rows, task)
  <2> DEFINE v == Version(task, h)
  <2>1. PICK s \in Int : r[task] = RowOf(s, v, c, a, m)
    BY <1>1 DEF Writes
  <2> DEFINE put == RowOf(s, v, c, ProjectPayment(a, kind, owed), m)
  <2> DEFINE new == [r EXCEPT ![task] = put]
  <2>2. task \in DOMAIN r /\ DOMAIN r = DOMAIN rows \cup {task} /\ Numbered(r)
        /\ \A t \in DOMAIN rows \ {task} : \E n \in Int : r[t] = Renumbered(rows[t], n)
    BY <1>1 DEF Writes
  <2> HIDE DEF c, m, a, v, owed
  <2>3. ApplyEvent(db, i, h) = View(new, queue)
    <3>1. [View(r, queue) EXCEPT !.rows[task].amount = ProjectPayment(@, kind, owed)]
            = View(new, queue)
      <4>1. PICK tk, k, o, vv, cc, aa, mm :
              tk = task /\ k = kind /\ o = owed /\ vv = v /\ cc = c /\ aa = a /\ mm = m
        OBVIOUS
      <4>2. tk \in DOMAIN r /\ r[tk] = RowOf(s, vv, cc, aa, mm)
        BY <2>1, <2>2, <4>1
      <4>3. [View(r, queue) EXCEPT !.rows[tk].amount = ProjectPayment(@, k, o)]
              = View([r EXCEPT ![tk] = RowOf(s, vv, cc, ProjectPayment(aa, k, o), mm)], queue)
        BY <4>2, AmountSet
      <4> QED
        BY <4>1, <4>3
    <3> QED
      BY <1>3, <1>4, <1>7, <3>1 DEF owed
  <2>4. DOMAIN new = DOMAIN r /\ new[task] = put /\ \A t \in DOMAIN r : t # task => new[t] = r[t]
    BY <2>2
  <2>5. put.sequence = r[task].sequence
    BY <2>1 DEF RowOf
  <2> HIDE DEF put, new
  <2>6. \A t \in DOMAIN r : new[t].sequence = r[t].sequence
    BY <2>4, <2>5
  <2>7. Numbered(new)
    BY <2>2, <2>4, <2>6, SameNumbers
  <2>8. Applies(rows, i, h) = ProjectPayment(a, kind, owed)
    BY <1>7 DEF Applies, a, owed
  <2>9. \A t \in DOMAIN rows \ {task} : \E n \in Int : new[t] = Renumbered(rows[t], n)
    BY <2>2, <2>4
  <2>10. \E n \in Int :
           new[task] = IF task \in DOMAIN rows
                       THEN RowOf(n, v, rows[task].created_at, Applies(rows, i, h),
                                  rows[task].manifest_verified)
                       ELSE RowOf(n, v, 0, Applies(rows, i, h), FALSE)
    BY <2>4, <2>8 DEF put, c, m
  <2>11. Writes(rows, new, i, h, Applies(rows, i, h))
    BY <2>2, <2>4, <2>7, <2>9, <2>10 DEF Writes, v
  <2> QED
    BY <2>3, <2>11
<1> QED
  BY <1>5, <1>6, <1>7

LEMMA VersionIsNat ==
  ASSUME NEW task, NEW h \in Nat
  PROVE  Version(task, h) \in Nat
<1> DEFINE E == {i \in 1..h : chain[i].task = task /\ HasLog(i)}
<1>1. IsFiniteSet(1..h) /\ E \in SUBSET (1..h)
  BY FS_Interval
<1> HIDE DEF E
<1>2. IsFiniteSet(E)
  BY <1>1, FS_Subset
<1>3. Cardinality(E) \in Nat
  BY <1>2, FS_CardinalityType
<1> QED
  BY <1>3 DEF Version, E

(* The struct of a task grows with the height it is read at, and exists from *)
(* its first log on.                                                         *)
LEMMA VersionIs ==
  ASSUME ChainType, NEW task, NEW h \in 0..head
  PROVE  /\ Version(task, h) \in Nat
         /\ \A g \in 0..h : Version(task, g) <= Version(task, h)
         /\ \A i \in 1..h : chain[i].task = task /\ HasLog(i) => Version(task, h) # 0
<1> DEFINE E(k) == {i \in 1..k : chain[i].task = task /\ HasLog(i)}
<1>1. \A k \in 0..h : IsFiniteSet(E(k)) /\ Cardinality(E(k)) \in Nat
  <2> SUFFICES ASSUME NEW k \in 0..h PROVE IsFiniteSet(E(k)) /\ Cardinality(E(k)) \in Nat
    OBVIOUS
  <2>1. IsFiniteSet(1..k)
    BY ChainIs, FS_Interval
  <2>2. E(k) \in SUBSET (1..k)
    OBVIOUS
  <2> QED
    BY <2>1, <2>2, FS_Subset, FS_CardinalityType
<1>2. \A k : Version(task, k) = Cardinality(E(k))
  BY DEF Version
<1>3. h \in Nat /\ h \in 0..h
  BY ChainIs
<1>4. \A g \in 0..h : E(g) \in SUBSET E(h)
  BY <1>3
<1>5. ASSUME NEW i \in 1..h, chain[i].task = task, HasLog(i) PROVE E(h) # {}
  BY <1>5
<1> HIDE DEF E
<1>6. \A g \in 0..h : Cardinality(E(g)) <= Cardinality(E(h))
  BY <1>1, <1>3, <1>4, FS_Subset
<1>7. E(h) # {} => Cardinality(E(h)) # 0
  BY <1>1, <1>3, FS_EmptySet
<1> QED
  BY <1>1, <1>2, <1>3, <1>5, <1>6, <1>7

LEMMA PaymentIsNat ==
  ASSUME NEW a \in Nat, NEW owed \in Nat, NEW kind
  PROVE  ProjectPayment(a, kind, owed) \in Nat
<1>1. \A x, y \in Nat : Greatest(x, y) \in Nat
  BY DEF Greatest
<1>2. \A x, y \in Nat : ProjectRewardAllocated(x, y) \in Nat /\ ProjectRewardReclaimed(x, y) \in Nat
  BY <1>1 DEF ProjectRewardAllocated, ProjectRewardReclaimed
<1>3. ProjectRewardReclaimed(a, owed) \in Nat
  BY <1>2
<1>4. ProjectRewardAllocated(ProjectRewardReclaimed(a, owed), owed) \in Nat
      /\ ProjectRewardAllocated(a, owed) \in Nat
  BY <1>2, <1>3
<1>5. CASE kind = "upheldUnpaid"
  BY <1>3, <1>5 DEF ProjectPayment
<1>6. CASE kind = "upheldPaid"
  BY <1>4, <1>6 DEF ProjectPayment
<1>7. CASE kind # "upheldUnpaid" /\ kind # "upheldPaid"
  BY <1>4, <1>7 DEF ProjectPayment
<1> QED
  BY <1>5, <1>6, <1>7

Logged(t, i) == \E j \in (last_block + 1)..i : chain[j].task = t /\ HasLog(j)

Excused(t) ==
  \/ Before(t, head, {"claimed"})
  \/ \E n \in 1..Len(syncs) : syncs[n].task = t /\ syncs[n].done

(* What the rows of a pass that began with tasks, and has projected the logs   *)
(* up to i, have kept of them,                                               *)
Keeps(rows) ==
  /\ \A t \in DOMAIN tasks :
       t \in DOMAIN rows /\ (rows[t].manifest_verified <=> tasks[t].manifest_verified)
  /\ \A t \in DOMAIN rows \ DOMAIN tasks : ~rows[t].manifest_verified

(* how new they are, where structs are read at low or later,                 *)
Fresh(rows, i, low) ==
  /\ \A t : Logged(t, i) =>
       t \in DOMAIN rows /\ \E h \in low..head : rows[t].version = Version(t, h)
  /\ \A t \in DOMAIN tasks : ~Logged(t, i) => rows[t].version = tasks[t].version

(* and what they say is owed.                                                *)
Owed(rows, i) ==
  \A t \in DOMAIN rows :
    Excused(t) \/ \E k \in i..head : rows[t].amount = Standing(t, k)

Good(rows, i, low, upTo) ==
  /\ Projected(rows, i) /\ Keeps(rows) /\ Fresh(rows, i, low)
  /\ low >= upTo /\ Owed(tasks, last_block) => Owed(rows, i)

LEMMA LoggedStep ==
  ASSUME ChainType, last_block \in 0..head, NEW i \in (last_block + 1)..head, NEW t
  PROVE  Logged(t, i) <=> Logged(t, i - 1) \/ (chain[i].task = t /\ HasLog(i))
<1>1. i \in Nat /\ last_block \in Nat
  BY ChainIs
<1>2. (last_block + 1)..i = ((last_block + 1)..(i - 1)) \cup {i}
  BY <1>1
<1> QED
  BY <1>2 DEF Logged

(* An event that is not about the payments of a task leaves what it is owed. *)
LEMMA OtherStands ==
  ASSUME ChainType, Lawful, NEW i \in 1..head, NEW t,
         chain[i].task # t \/ chain[i].kind \in {"created", "moved"}
  PROVE  Standing(t, i) = Standing(t, i - 1)
<1>1. Standing(t, i) = Then(t, i, Standing(t, i - 1))
  BY StandingStep
<1> QED
  BY <1>1 DEF Then

(* A claim emits no log and changes no row.                                  *)
LEMMA NoLogIsGood ==
  ASSUME ChainType, Lawful, last_block \in 0..head, NEW i \in (last_block + 1)..head, ~HasLog(i),
         NEW rows, NEW low, NEW upTo, Good(rows, i - 1, low, upTo)
  PROVE  Good(rows, i, low, upTo)
<1>1. i \in 1..head /\ i \in Nat /\ i \in i..head /\ head \in Nat
  BY ChainIs
<1>2. RankedTasks(i) = RankedTasks(i - 1)
  BY <1>1, RankedStep
<1>3. \A t : Logged(t, i) <=> Logged(t, i - 1)
  BY LoggedStep
<1>4. Projected(rows, i)
  BY <1>2 DEF Good, Projected, Dated
<1>5. Keeps(rows) /\ Fresh(rows, i, low)
  BY <1>3 DEF Good, Fresh
<1>6. ASSUME Owed(rows, i - 1), NEW t \in DOMAIN rows, ~Excused(t)
      PROVE  \E k \in i..head : rows[t].amount = Standing(t, k)
  <2>1. PICK k \in (i - 1)..head : rows[t].amount = Standing(t, k)
    BY <1>6 DEF Owed
  <2>2. chain[i].kind = "claimed"
    BY DEF HasLog
  <2>3. chain[i].task # t
    BY <1>1, <1>6, <2>2 DEF Excused, Before
  <2>4. Standing(t, i) = Standing(t, i - 1)
    BY <1>1, <2>3, OtherStands
  <2>5. k = i - 1 \/ k \in i..head
    BY <1>1
  <2> QED
    BY <1>1, <2>1, <2>4, <2>5
<1> QED
  BY <1>4, <1>5, <1>6 DEF Good, Owed

(* A task that has no log yet is owed nothing.                               *)
LEMMA NothingYet ==
  ASSUME ChainType, NEW u \in 0..head, NEW t, t \notin RankedTasks(u)
  PROVE  Standing(t, u) = 0
<1>1. \A j \in 1..u : chain[j].task = t => ~HasLog(j)
  BY RankedIs
<1>2. ~Before(t, u, {"consensus"})
  BY <1>1 DEF Before, HasLog
<1> QED
  BY <1>2 DEF Standing

LEMMA LogIsGood ==
  ASSUME ReadModelAssumption, ChainType, Lawful, last_block \in 0..head,
         NEW low \in Nat, NEW upTo \in 0..head,
         NEW i \in (last_block + 1)..upTo, HasLog(i), NEW h \in low..head,
         NEW rows, Good(rows, i - 1, low, upTo),
         NEW new, Writes(rows, new, i, h, Applies(rows, i, h))
  PROVE  Good(new, i, low, upTo)
<1> DEFINE task == chain[i].task
<1> DEFINE amount == Applies(rows, i, h)
<1>1. /\ i \in 1..head /\ i \in Nat /\ i \in i..head /\ head \in Nat /\ h \in 0..head
      /\ i \in (last_block + 1)..head /\ i - 1 \in 0..head /\ i - 1 \in Nat /\ upTo \in Nat
  BY ChainIs
<1>2. RankedTasks(i) = RankedTasks(i - 1) \cup {task} /\ task \in Tasks
  BY <1>1, RankedStep, ChainIs
<1>3. /\ IsFiniteSet(DOMAIN rows) /\ DOMAIN rows \subseteq Tasks
      /\ \A t \in DOMAIN rows : rows[t] \in RowType
      /\ RankedTasks(i - 1) \subseteq DOMAIN rows /\ Dated(rows, i - 1)
  BY DEF Good, Projected
<1>4. /\ DOMAIN new = DOMAIN rows \cup {task} /\ Numbered(new)
      /\ \A t \in DOMAIN rows \ {task} : \E s \in Int : new[t] = Renumbered(rows[t], s)
  BY DEF Writes
<1>5. PICK s \in Int :
        new[task] = IF task \in DOMAIN rows
                    THEN RowOf(s, Version(task, h), rows[task].created_at, amount,
                               rows[task].manifest_verified)
                    ELSE RowOf(s, Version(task, h), 0, amount, FALSE)
  BY DEF Writes
<1>6. Shows(rows, task) \in Nat
  BY <1>3, RowIs DEF Shows
<1>7. Outstanding(task, h) = Standing(task, h) /\ Standing(task, h) \in Nat
  BY <1>1, OutstandingIs, StandingIsSmall
<1>8. amount \in Nat
  BY <1>6, <1>7, PaymentIsNat DEF Applies
<1>9. Version(task, h) \in Nat
  BY <1>1, VersionIs
<1>10. new[task].amount = amount /\ new[task].version = Version(task, h)
  <2>1. CASE task \in DOMAIN rows
    BY <1>5, <2>1 DEF RowOf
  <2>2. CASE task \notin DOMAIN rows
    BY <1>5, <2>2 DEF RowOf
  <2> QED
    BY <2>1, <2>2
<1>11. /\ task \in DOMAIN rows => new[task].manifest_verified = rows[task].manifest_verified
       /\ task \notin DOMAIN rows => ~new[task].manifest_verified
       /\ new[task] \in RowType
  <2>1. CASE task \in DOMAIN rows
    <3>1. rows[task].created_at \in Nat /\ rows[task].manifest_verified \in BOOLEAN
      BY <1>3, <2>1, RowIs
    <3> QED
      BY <1>5, <1>8, <1>9, <2>1, <3>1 DEF RowOf, RowType
  <2>2. CASE task \notin DOMAIN rows
    <3>1. new[task] = RowOf(s, Version(task, h), 0, amount, FALSE)
      BY <1>5, <2>2
    <3>2. ~new[task].manifest_verified
      BY <3>1 DEF RowOf
    <3>3. new[task] \in RowType
      BY <1>8, <1>9, <3>1 DEF RowOf, RowType
    <3> QED
      BY <2>2, <3>2, <3>3
  <2> QED
    BY <2>1, <2>2
<1>12. \A t \in DOMAIN rows \ {task} :
         /\ new[t] \in RowType /\ new[t].version = rows[t].version
         /\ new[t].amount = rows[t].amount /\ new[t].created_at = rows[t].created_at
         /\ new[t].manifest_verified = rows[t].manifest_verified
  <2> SUFFICES ASSUME NEW t \in DOMAIN rows \ {task}
               PROVE  /\ new[t] \in RowType /\ new[t].version = rows[t].version
                      /\ new[t].amount = rows[t].amount /\ new[t].created_at = rows[t].created_at
                      /\ new[t].manifest_verified = rows[t].manifest_verified
    OBVIOUS
  <2>1. PICK n \in Int : new[t] = Renumbered(rows[t], n)
    BY <1>4
  <2>2. rows[t].version \in Nat /\ rows[t].created_at \in Nat /\ rows[t].amount \in Nat
        /\ rows[t].manifest_verified \in BOOLEAN
    BY <1>3, RowIs
  <2>3. new[t].version = rows[t].version /\ new[t].amount = rows[t].amount
        /\ new[t].created_at = rows[t].created_at
    BY <2>1 DEF Renumbered
  <2>4. new[t].manifest_verified = rows[t].manifest_verified
    BY <2>1 DEF Renumbered
  <2>5. new[t] \in RowType
    BY <2>1, <2>2 DEF Renumbered, RowType
  <2> QED
    BY <2>3, <2>4, <2>5
<1>13. Projected(new, i)
  <2>1. IsFiniteSet(DOMAIN new) /\ DOMAIN new \subseteq Tasks
    BY <1>2, <1>3, <1>4, FS_AddElement
  <2>2. \A t \in DOMAIN new : new[t] \in RowType
    BY <1>4, <1>11, <1>12
  <2>3. RankedTasks(i) \subseteq DOMAIN new
    BY <1>2, <1>3, <1>4
  <2>4. \A t \in DOMAIN new \ RankedTasks(i) : t \in DOMAIN rows \ RankedTasks(i - 1) /\ t # task
    BY <1>2, <1>4
  <2>5. Dated(new, i)
    BY <1>3, <1>12, <2>4 DEF Dated
  <2> QED
    BY <1>4, <2>1, <2>2, <2>3, <2>5 DEF Projected
<1>14. Keeps(new)
  <2>1. \A t \in DOMAIN new : t = task \/ t \in DOMAIN rows \ {task}
    BY <1>4
  <2>2. Keeps(rows)
    BY DEF Good
  <2>3. \A t \in DOMAIN rows : t \in DOMAIN new /\ (new[t].manifest_verified <=> rows[t].manifest_verified)
    BY <1>4, <1>11, <1>12
  <2>4. \A t \in DOMAIN new \ DOMAIN rows : ~new[t].manifest_verified
    BY <1>4, <1>11
  <2> QED
    BY <2>2, <2>3, <2>4 DEF Keeps
<1>15. Fresh(new, i, low)
  <2>0. Fresh(rows, i - 1, low)
    BY DEF Good
  <2>1. \A t : Logged(t, i) <=> Logged(t, i - 1) \/ task = t
    BY <1>1, LoggedStep
  <2>2. ASSUME NEW t, Logged(t, i)
        PROVE  t \in DOMAIN new /\ \E g \in low..head : new[t].version = Version(t, g)
    <3>1. CASE t = task
      BY <1>4, <1>10, <3>1
    <3>2. CASE t # task
      <4>1. t \in DOMAIN rows /\ \E g \in low..head : rows[t].version = Version(t, g)
        BY <2>0, <2>1, <2>2, <3>2 DEF Fresh
      <4> QED
        BY <1>4, <1>12, <3>2, <4>1
    <3> QED
      BY <3>1, <3>2
  <2>3. ASSUME NEW t \in DOMAIN tasks, ~Logged(t, i)
        PROVE  new[t].version = tasks[t].version
    <3>1. t # task /\ rows[t].version = tasks[t].version /\ t \in DOMAIN rows
      BY <2>0, <2>1, <2>3 DEF Fresh, Good, Keeps
    <3> QED
      BY <1>12, <3>1
  <2> QED
    BY <2>2, <2>3 DEF Fresh
<1>16. ASSUME low >= upTo, Owed(tasks, last_block), NEW t \in DOMAIN new, ~Excused(t)
       PROVE  \E k \in i..head : new[t].amount = Standing(t, k)
  <2>0. Owed(rows, i - 1) /\ h \in i..head
    BY <1>1, <1>16 DEF Good
  <2>1. CASE t # task
    <3>1. t \in DOMAIN rows /\ new[t].amount = rows[t].amount
      BY <1>4, <1>12, <2>1
    <3>2. PICK k \in (i - 1)..head : rows[t].amount = Standing(t, k)
      BY <1>16, <2>0, <3>1 DEF Owed
    <3>3. Standing(t, i) = Standing(t, i - 1)
      BY <1>1, <2>1, OtherStands
    <3>4. k = i - 1 \/ k \in i..head
      BY <1>1
    <3> QED
      BY <1>1, <3>1, <3>2, <3>3, <3>4
  <2>2. CASE t = task
    <3>1. PICK k \in (i - 1)..head : Shows(rows, task) = Standing(task, k)
      <4>1. CASE task \in DOMAIN rows
        BY <1>16, <2>0, <2>2, <4>1 DEF Owed, Shows
      <4>2. CASE task \notin DOMAIN rows
        <5>1. task \notin RankedTasks(i - 1)
          BY <1>3, <4>2
        <5>2. Standing(task, i - 1) = 0 /\ i - 1 \in (i - 1)..head
          BY <1>1, <5>1, NothingYet
        <5> QED
          BY <4>2, <5>2 DEF Shows
      <4> QED
        BY <4>1, <4>2
    <3>2. ~Before(task, head, {"claimed"})
      BY <1>16, <2>2 DEF Excused
    <3>3. CASE chain[i].kind \in Payments
      <4>1. amount = ProjectPayment(Standing(task, k), chain[i].kind, Standing(task, h))
        BY <1>7, <3>1, <3>3 DEF Applies
      <4>2. \E j \in i..head :
              ProjectPayment(Standing(task, k), chain[i].kind, Standing(task, h)) = Standing(task, j)
        BY <1>1, <2>0, <3>2, <3>3, PaymentReads
      <4> QED
        BY <1>10, <2>2, <4>1, <4>2
    <3>4. CASE chain[i].kind \notin Payments
      <4>1. chain[i].kind \in {"created", "moved"}
        BY <1>1, <3>4, ChainIs DEF Kinds, HasLog
      <4>2. Standing(task, i) = Standing(task, i - 1)
        BY <1>1, <4>1, OtherStands
      <4>3. amount = Standing(task, k)
        BY <3>1, <3>4 DEF Applies
      <4>4. k = i - 1 \/ k \in i..head
        BY <1>1
      <4> QED
        BY <1>1, <1>10, <2>2, <4>2, <4>3, <4>4
    <3> QED
      BY <3>3, <3>4
  <2> QED
    BY <2>1, <2>2
<1>17. low >= upTo /\ Owed(tasks, last_block) => Owed(new, i)
  BY <1>16 DEF Owed
<1> QED
  BY <1>13, <1>14, <1>15, <1>17 DEF Good

-----------------------------------------------------------------------------
(* A pass.                                                                   *)

Steps(V, i, H) == {ApplyEvent(db, i, h) : db \in V, h \in H}

AreViews(g, lo, hi, base, H) ==
  g = [i \in lo..hi |-> IF i = lo THEN base ELSE Steps(g[i - 1], i, H)]

(* The transaction of a pass may have written something, log by log.         *)
LEMMA ViewsExist ==
  ASSUME NEW lo \in Nat, NEW hi \in Nat, lo <= hi, NEW H, NEW base
  PROVE  \E g : AreViews(g, lo, hi, base, H)
<1> DEFINE S == {n \in lo..hi : \E g : g = [i \in lo..n |-> IF i = lo THEN base
                                                            ELSE Steps(g[i - 1], i, H)]}
<1>1. lo \in S
  <2> DEFINE g == [i \in lo..lo |-> base]
  <2>1. lo..lo = {lo}
    OBVIOUS
  <2>2. g = [i \in lo..lo |-> IF i = lo THEN base ELSE Steps(g[i - 1], i, H)]
    BY <2>1
  <2> HIDE DEF g
  <2> QED
    BY <2>2
<1>2. ASSUME NEW n \in S, n + 1 <= hi PROVE n + 1 \in S
  <2>1. n \in lo..hi /\ n + 1 \in lo..hi
    BY <1>2
  <2>2. PICK g : g = [i \in lo..n |-> IF i = lo THEN base ELSE Steps(g[i - 1], i, H)]
    OBVIOUS
  <2> DEFINE f == [i \in lo..(n + 1) |-> IF i = n + 1 THEN Steps(g[n], n + 1, H) ELSE g[i]]
  <2>3. \A i \in lo..(n + 1) : f[i] = IF i = lo THEN base ELSE Steps(f[i - 1], i, H)
    <3> SUFFICES ASSUME NEW i \in lo..(n + 1)
                 PROVE  f[i] = IF i = lo THEN base ELSE Steps(f[i - 1], i, H)
      OBVIOUS
    <3>1. CASE i = n + 1
      <4>1. i # lo /\ i - 1 = n /\ n \in lo..(n + 1) /\ n # n + 1
        BY <2>1, <3>1
      <4>2. f[n] = g[n] /\ f[i] = Steps(g[n], n + 1, H)
        BY <3>1, <4>1
      <4> HIDE DEF f
      <4> QED
        BY <3>1, <4>1, <4>2
    <3>2. CASE i # n + 1
      <4>1. i \in lo..n /\ f[i] = g[i]
        BY <2>1, <3>2
      <4>2. g[i] = IF i = lo THEN base ELSE Steps(g[i - 1], i, H)
        BY <2>2, <4>1
      <4>3. CASE i = lo
        BY <4>1, <4>2, <4>3
      <4>4. CASE i # lo
        <5>1. i - 1 \in lo..(n + 1) /\ i - 1 # n + 1
          BY <2>1, <4>1, <4>4
        <5>2. f[i - 1] = g[i - 1]
          BY <5>1
        <5> HIDE DEF f
        <5> QED
          BY <4>1, <4>2, <4>4, <5>2
      <4> QED
        BY <4>3, <4>4
    <3> QED
      BY <3>1, <3>2
  <2>4. f = [i \in lo..(n + 1) |-> f[i]]
    OBVIOUS
  <2> HIDE DEF f
  <2>5. f = [i \in lo..(n + 1) |-> IF i = lo THEN base ELSE Steps(f[i - 1], i, H)]
    BY <2>3, <2>4
  <2> QED
    BY <2>1, <2>5
<1> HIDE DEF S
<1>3. lo..hi \subseteq S
  BY <1>1, <1>2, Counting
<1>4. hi \in S
  BY <1>3
<1> QED
  BY <1>4 DEF S, AreViews

Queue == [Hashes -> JobType]

(* What a statement of the pass leaves, or it threw.                         *)
Sound(db, i, low, upTo) ==
  db.threw \/ \E rows : \E q \in Queue : db = View(rows, q) /\ Good(rows, i, low, upTo)

(* Once a statement of the pass threw, nothing more is written.              *)
LEMMA ThrewStays ==
  ASSUME NEW db, db.threw, NEW i, NEW h
  PROVE  ApplyEvent(db, i, h) = db
  BY DEF ApplyEvent

(* A log whose task does not exist at the node that is asked throws.         *)
LEMMA NoStructThrows ==
  ASSUME NEW i, HasLog(i), NEW h, Version(chain[i].task, h) = 0, NEW rows, NEW q
  PROVE  ApplyEvent(View(rows, q), i, h).threw
<1> DEFINE db == View(rows, q)
<1>1. db.threw = FALSE /\ DOMAIN db = {"rows", "jobs", "threw"}
  BY DEF View
<1>2. RefreshTask(db, i, h) = [db EXCEPT !.threw = TRUE]
  BY DEF RefreshTask
<1>3. [db EXCEPT !.threw = TRUE].threw = TRUE
  BY <1>1
<1> QED
  BY <1>1, <1>2, <1>3 DEF ApplyEvent

LEMMA ApplyIsSound ==
  ASSUME ReadModelAssumption, ChainType, Lawful, last_block \in 0..head,
         NEW low \in Nat, NEW upTo \in 0..head, NEW i \in (last_block + 1)..upTo,
         NEW h \in low..head, NEW db, Sound(db, i - 1, low, upTo)
  PROVE  /\ Sound(ApplyEvent(db, i, h), i, low, upTo)
         /\ h = head /\ ~db.threw => ~ApplyEvent(db, i, h).threw
<1>1. i \in 1..head /\ i \in (last_block + 1)..head /\ h \in 0..head /\ head \in 0..head
      /\ head \in Nat /\ i \in 1..head
  BY ChainIs
<1>2. CASE db.threw
  BY <1>2, ThrewStays DEF Sound
<1>3. CASE ~db.threw
  <2>1. PICK rows : \E q \in Queue : db = View(rows, q) /\ Good(rows, i - 1, low, upTo)
    BY <1>3 DEF Sound
  <2>2. PICK q \in Queue : db = View(rows, q) /\ Good(rows, i - 1, low, upTo)
    BY <2>1
  <2>3. CASE ~HasLog(i)
    <3>1. ApplyEvent(db, i, h) = db
      BY <2>3 DEF ApplyEvent
    <3>2. Good(rows, i, low, upTo)
      BY <1>1, <2>2, <2>3, NoLogIsGood
    <3> QED
      BY <1>3, <2>2, <3>1, <3>2 DEF Sound
  <2>4. CASE HasLog(i) /\ Version(chain[i].task, h) = 0
    <3>1. ApplyEvent(db, i, h).threw
      BY <2>2, <2>4, NoStructThrows
    <3>2. h # head
      BY <1>1, <2>4, VersionIs
    <3> QED
      BY <3>1, <3>2 DEF Sound
  <2>5. CASE HasLog(i) /\ Version(chain[i].task, h) # 0
    <3>1. Projected(rows, i - 1)
      BY <2>2 DEF Good
    <3>2. PICK new : \E p \in Queue :
            /\ ApplyEvent(View(rows, q), i, h) = View(new, p)
            /\ Writes(rows, new, i, h, Applies(rows, i, h))
      BY <1>1, <2>5, <3>1, Applied DEF Queue
    <3>3. PICK p \in Queue :
            /\ ApplyEvent(View(rows, q), i, h) = View(new, p)
            /\ Writes(rows, new, i, h, Applies(rows, i, h))
      BY <3>2
    <3>4. Good(new, i, low, upTo)
      BY <2>2, <2>5, <3>3, LogIsGood
    <3>5. View(new, p).threw = FALSE
      BY ViewFields
    <3>6. ApplyEvent(db, i, h) = View(new, p)
      BY <2>2, <3>3
    <3> QED
      BY <3>4, <3>5, <3>6 DEF Sound
  <2> QED
    BY <2>3, <2>4, <2>5
<1> QED
  BY <1>2, <1>3

Low(sawHead) == Greatest(sawHead - NodeLag, 0)

(* What a pass may leave is good, and while its nodes are not behind it leaves *)
(* something.                                                                *)
LEMMA IngestedIs ==
  ASSUME ReadModelAssumption, ChainType, Lawful, last_block \in 0..head, jobs \in Queue,
         Projected(tasks, last_block),
         NEW sawHead \in 0..head, NEW scanned \in last_block..sawHead
  PROVE  /\ \A db \in Ingested(sawHead, scanned) :
              \E rows : \E q \in Queue :
                db = View(rows, q) /\ Good(rows, scanned, Low(sawHead), scanned)
         /\ sawHead = head => Ingested(sawHead, scanned) # {}
<1> DEFINE low == Low(sawHead)
<1> DEFINE H == low..head
<1> DEFINE base == {View(tasks, jobs)}
<1> DEFINE Is(g) == g = [i \in last_block..scanned |->
                           IF i = last_block THEN base ELSE Steps(g[i - 1], i, H)]
<1> DEFINE at == CHOOSE g : Is(g)
<1>1. /\ head \in Nat /\ last_block \in Nat /\ sawHead \in Nat /\ scanned \in Nat
      /\ last_block <= scanned /\ scanned \in 0..head /\ low \in Nat
      /\ (sawHead = head => head \in H)
  <2>1. head \in Nat /\ last_block \in Nat /\ sawHead \in Nat /\ scanned \in Nat
        /\ last_block <= scanned /\ scanned \in 0..head
    BY ChainIs
  <2>2. low \in Nat /\ low <= sawHead
    BY <2>1 DEF Low, Greatest, ReadModelAssumption
  <2> QED
    BY <2>1, <2>2
<1>2. Ingested(sawHead, scanned) = {db \in at[scanned] : ~db.threw}
  BY DEF Ingested, Steps, View, Low
<1> HIDE DEF H, low, base
<1>3. Is(at)
  <2>1. \E g : Is(g)
    <3>1. PICK lo, b, K : lo = last_block /\ b = base /\ K = H
      OBVIOUS
    <3>2. lo \in Nat /\ scanned \in Nat /\ lo <= scanned
      BY <1>1, <3>1
    <3>3. PICK g : AreViews(g, lo, scanned, b, K)
      BY <3>2, ViewsExist
    <3>4. AreViews(g, last_block, scanned, base, H)
      BY <3>1, <3>3
    <3> QED
      BY <3>4 DEF AreViews
  <2> HIDE DEF Is
  <2> QED
    BY <2>1
<1> HIDE DEF at
<1>4. \A i \in last_block..scanned : at[i] = IF i = last_block THEN base ELSE Steps(at[i - 1], i, H)
  BY <1>3
<1> DEFINE S == {i \in last_block..scanned :
                   /\ \A db \in at[i] : Sound(db, i, low, scanned)
                   /\ sawHead = head => \E db \in at[i] : ~db.threw}
<1>5. last_block \in S
  <2>1. last_block \in last_block..scanned
    BY <1>1
  <2>2. at[last_block] = base
    BY <1>4, <2>1
  <2>3. \A t : ~Logged(t, last_block)
    BY <1>1 DEF Logged
  <2>4. Good(tasks, last_block, low, scanned)
    BY <2>3 DEF Good, Keeps, Fresh, low
  <2>5. View(tasks, jobs).threw = FALSE
    BY ViewFields
  <2>6. Sound(View(tasks, jobs), last_block, low, scanned)
    BY <2>4 DEF Sound
  <2> QED
    BY <2>1, <2>2, <2>5, <2>6 DEF base
<1>6. ASSUME NEW i \in S, i + 1 <= scanned PROVE i + 1 \in S
  <2>1. i + 1 \in last_block..scanned /\ i + 1 # last_block /\ (i + 1) - 1 = i
        /\ i + 1 \in (last_block + 1)..scanned
    BY <1>1, <1>6
  <2>2. at[i + 1] = Steps(at[i], i + 1, H)
    BY <1>4, <2>1
  <2>3. ASSUME NEW db \in at[i], NEW h \in H
        PROVE  /\ Sound(ApplyEvent(db, i + 1, h), i + 1, low, scanned)
               /\ h = head /\ ~db.threw => ~ApplyEvent(db, i + 1, h).threw
    <3>1. h \in low..head /\ Sound(db, i, low, scanned)
      BY DEF H
    <3>2. PICK j : j = i + 1
      OBVIOUS
    <3>3. j \in (last_block + 1)..scanned /\ Sound(db, j - 1, low, scanned)
      BY <2>1, <3>1, <3>2
    <3>4. /\ Sound(ApplyEvent(db, j, h), j, low, scanned)
          /\ h = head /\ ~db.threw => ~ApplyEvent(db, j, h).threw
      BY <1>1, <3>1, <3>3, ApplyIsSound
    <3> QED
      BY <3>2, <3>4
  <2>4. \A db \in at[i + 1] : Sound(db, i + 1, low, scanned)
    BY <2>2, <2>3 DEF Steps
  <2>5. ASSUME sawHead = head PROVE \E db \in at[i + 1] : ~db.threw
    <3>1. PICK db \in at[i] : ~db.threw
      BY <2>5
    <3>2. head \in H
      BY <1>1, <2>5
    <3>3. ApplyEvent(db, i + 1, head) \in at[i + 1]
      BY <2>2, <3>2 DEF Steps
    <3> QED
      BY <2>3, <3>1, <3>2, <3>3
  <2> QED
    BY <2>1, <2>4, <2>5
<1> HIDE DEF S
<1>7. last_block..scanned \subseteq S
  BY <1>1, <1>5, <1>6, Counting
<1>8. scanned \in S
  BY <1>1, <1>7
<1>9. /\ \A db \in at[scanned] : Sound(db, scanned, low, scanned)
      /\ sawHead = head => \E db \in at[scanned] : ~db.threw
  BY <1>8 DEF S
<1> QED
  BY <1>2, <1>9 DEF Sound, low

-----------------------------------------------------------------------------
(* The invariant.                                                            *)

(* The order of a task's events, the rows between passes, and what is proven. *)
Orderly ==
  /\ TypeOK /\ Lawful /\ Projected(tasks, last_block)
  /\ \A t \in DOMAIN tasks : tasks[t].manifest_verified => ManifestOf[t] \in proven
  /\ step.hash \in {Nothing} \cup proven

(* How new the rows are and what they owe, which holds while nodes lag no more *)
(* than the indexer waits.                                                   *)
Current == RowsFollowLogs /\ Owed(tasks, last_block)

(* What the type invariant says, in the words of the lemmas.                 *)
LEMMA Typed ==
  ASSUME TypeOK
  PROVE  ChainType /\ last_block \in 0..head /\ jobs \in Queue /\ head \in Nat
  BY ChainIs DEF TypeOK, ChainType, Queue, JobType

(* Steps that leave the rows, but for the mark that a manifest was verified.  *)
Marks ==
  /\ UNCHANGED <<chain, last_block, syncs, syncWrote>>
  /\ DOMAIN tasks' = DOMAIN tasks
  /\ \A t \in DOMAIN tasks :
       /\ tasks'[t] \in RowType
       /\ tasks'[t].sequence = tasks[t].sequence /\ tasks'[t].version = tasks[t].version
       /\ tasks'[t].created_at = tasks[t].created_at /\ tasks'[t].amount = tasks[t].amount

(* What is said of the chain stays while it does.                            *)
LEMMA SameChain ==
  ASSUME chain' = chain
  PROVE  /\ head' = head /\ (Lawful <=> Lawful')
         /\ \A t, k, kinds : Before(t, k, kinds)' <=> Before(t, k, kinds)
         /\ \A t, k : Version(t, k)' = Version(t, k) /\ Standing(t, k)' = Standing(t, k)
         /\ \A k : RankedTasks(k)' = RankedTasks(k)
<1>1. head' = head /\ \A i : HasLog(i)' <=> HasLog(i)
  BY DEF head, HasLog
<1>2. \A t, k, kinds : Before(t, k, kinds)' <=> Before(t, k, kinds)
  BY DEF Before
<1>3. \A t, k : Standing(t, k)' = Standing(t, k)
  BY <1>2 DEF Standing
<1>4. \A t, k : Version(t, k)' = Version(t, k)
  BY <1>1 DEF Version
<1>5. \A k : RankedTasks(k)' = RankedTasks(k)
  BY <1>1 DEF RankedTasks
<1>6. Lawful <=> Lawful'
  BY <1>1 DEF Lawful, Before
<1> QED
  BY <1>1, <1>2, <1>3, <1>4, <1>5, <1>6

(* Marking manifests verified or not leaves the rest of the invariant.       *)
LEMMA MarksKeep ==
  ASSUME Marks
  PROVE  /\ Lawful => Lawful'
         /\ Projected(tasks, last_block) => Projected(tasks, last_block)'
         /\ Current => Current'
<1>1. chain' = chain /\ last_block' = last_block /\ syncs' = syncs /\ syncWrote' = syncWrote
      /\ DOMAIN tasks' = DOMAIN tasks
  BY DEF Marks
<1>2. PICK u : u = last_block
  OBVIOUS
<1>3. RankedTasks(u)' = RankedTasks(u) /\ head' = head
      /\ \A t, k : Version(t, k)' = Version(t, k) /\ Standing(t, k)' = Standing(t, k)
  BY <1>1, SameChain
<1>4. RankedTasks(last_block)' = RankedTasks(last_block)
  BY <1>1, <1>2, <1>3
<1>5. ASSUME Projected(tasks, last_block) PROVE Projected(tasks, last_block)'
  <2>1. Numbered(tasks)'
    BY <1>1, <1>5 DEF Marks, Projected, Numbered
  <2>2. Dated(tasks, last_block)'
    BY <1>1, <1>4, <1>5 DEF Marks, Projected, Dated
  <2> QED
    BY <1>1, <1>4, <1>5, <2>1, <2>2 DEF Marks, Projected
<1>6. ASSUME RowsFollowLogs PROVE RowsFollowLogs'
  BY <1>1, <1>3, <1>4, <1>6 DEF Marks, RowsFollowLogs
<1>7. \A t : Excused(t)' <=> Excused(t)
  BY <1>1 DEF Excused, Before, head
<1>8. ASSUME Owed(tasks, last_block) PROVE Owed(tasks, last_block)'
  BY <1>1, <1>3, <1>7, <1>8 DEF Marks, Owed
<1> QED
  BY <1>1, <1>5, <1>6, <1>8, SameChain DEF Current

-----------------------------------------------------------------------------
(* A block is mined.                                                         *)

LEMMA Mined ==
  ASSUME ChainType, NEW task \in Tasks, NEW kind \in Kinds,
         chain' = Append(chain, [task |-> task, kind |-> kind])
  PROVE  /\ ChainType' /\ head' = head + 1
         /\ \A i \in 1..head : chain'[i] = chain[i]
         /\ chain'[head + 1].task = task /\ chain'[head + 1].kind = kind
<1> DEFINE e == [task |-> task, kind |-> kind]
<1>1. e \in [task : Tasks, kind : Kinds] /\ e.task = task /\ e.kind = kind
  OBVIOUS
<1> HIDE DEF e
<1>2. chain \in Seq([task : Tasks, kind : Kinds]) /\ chain' = Append(chain, e)
  BY DEF ChainType, e
<1>3. ChainType'
  BY <1>1, <1>2 DEF ChainType
<1>4. Len(chain') = Len(chain) + 1 /\ chain'[Len(chain) + 1] = e
      /\ \A i \in 1..Len(chain) : chain'[i] = chain[i]
  BY <1>1, <1>2
<1> QED
  BY <1>1, <1>3, <1>4 DEF head

LEMMA SamePast ==
  ASSUME ChainType, NEW task \in Tasks, NEW kind \in Kinds,
         chain' = Append(chain, [task |-> task, kind |-> kind])
  PROVE  /\ \A t, kinds : \A k \in 0..head : Before(t, k, kinds)' <=> Before(t, k, kinds)
         /\ \A t : \A k \in 0..head :
              Version(t, k)' = Version(t, k) /\ Standing(t, k)' = Standing(t, k)
         /\ \A k \in 0..head : RankedTasks(k)' = RankedTasks(k)
<1>1. head \in Nat /\ \A i \in 1..head : chain'[i] = chain[i] /\ (HasLog(i)' <=> HasLog(i))
  BY Mined, ChainIs DEF HasLog
<1>2. \A k \in 0..head : \A i \in 1..k : chain'[i] = chain[i] /\ (HasLog(i)' <=> HasLog(i))
  <2> SUFFICES ASSUME NEW k \in 0..head, NEW i \in 1..k
               PROVE  chain'[i] = chain[i] /\ (HasLog(i)' <=> HasLog(i))
    OBVIOUS
  <2>1. i \in 1..head
    BY <1>1
  <2> QED
    BY <1>1, <2>1
<1>3. \A t, kinds : \A k \in 0..head : Before(t, k, kinds)' <=> Before(t, k, kinds)
  BY <1>2 DEF Before
<1>4. \A t : \A k \in 0..head : Standing(t, k)' = Standing(t, k)
  BY <1>3 DEF Standing
<1>5. \A t : \A k \in 0..head : Version(t, k)' = Version(t, k)
  BY <1>2 DEF Version
<1>6. \A k \in 0..head : RankedTasks(k)' = RankedTasks(k)
  BY <1>2 DEF RankedTasks
<1> QED
  BY <1>3, <1>4, <1>5, <1>6

LEMMA MinedIsLawful ==
  ASSUME ChainType, Lawful, NEW task \in Tasks, NEW kind \in Kinds, Possible(task, kind),
         chain' = Append(chain, [task |-> task, kind |-> kind])
  PROVE  Lawful'
<1>1. /\ head \in Nat /\ head' = head + 1 /\ \A i \in 1..head : chain'[i] = chain[i]
      /\ chain'[head + 1].task = task /\ chain'[head + 1].kind = kind
  BY Mined, ChainIs
<1>2. \A t, kinds : \A k \in 0..head : Before(t, k, kinds)' <=> Before(t, k, kinds)
  BY SamePast
<1>3. ASSUME NEW i \in 1..head
      PROVE  /\ chain'[i].kind = "consensus" => ~Before(chain[i].task, i - 1, {"consensus"})'
             /\ chain'[i].kind \in Settles \cup {"claimed"} => Before(chain[i].task, i - 1, {"consensus"})'
             /\ chain'[i].kind \in Settles => ~Before(chain[i].task, i - 1, Settles \cup {"claimed"})'
  <2>1. PICK t : t = chain[i].task
    OBVIOUS
  <2>2. i - 1 \in 0..head
    BY <1>1
  <2>5. chain'[i] = chain[i]
    BY <1>1
  <2>3. \A kinds : Before(t, i - 1, kinds)' <=> Before(t, i - 1, kinds)
    BY <1>2, <2>2
  <2>4. \A kinds : Before(chain[i].task, i - 1, kinds)' <=> Before(chain[i].task, i - 1, kinds)
    <3>1. chain'[i].task = t
      BY <2>1, <2>5
    <3> QED
      BY <2>1, <2>3, <3>1 DEF Before
  <2> QED
    BY <2>4, <2>5 DEF Lawful
<1>4. \A kinds : Happened(task, kinds) <=> Before(task, head, kinds)
  BY DEF Happened, Before
<1>5. /\ kind = "consensus" => ~Before(task, head, {"consensus"})
      /\ kind \in Settles => Before(task, head, {"consensus"})
                             /\ ~Before(task, head, Settles \cup {"claimed"})
      /\ kind = "claimed" => Before(task, head, {"consensus"})
  <2>1. CASE kind = "consensus"
    BY <1>4, <2>1 DEF Possible, Settles
  <2>2. CASE kind \in Settles
    <3>1. Settles \cup {"claimed"} = {"rejected", "upheldPaid", "upheldUnpaid", "claimed"}
      BY DEF Settles
    <3>2. Happened(task, {"consensus"}) /\ ~Happened(task, Settles \cup {"claimed"})
      BY <2>2, <3>1 DEF Possible, Settles
    <3> QED
      BY <1>4, <2>2, <3>2 DEF Settles
  <2>3. CASE kind = "claimed"
    <3>1. Outstanding(task, head) > 0
      BY <2>3 DEF Possible
    <3>2. Outstanding(task, head) = Standing(task, head)
      BY <1>1, OutstandingIs
    <3> QED
      BY <2>3, <3>1, <3>2 DEF Standing, Settles
  <2> QED
    BY <2>1, <2>2, <2>3
<1>6. PICK n : n = head
  OBVIOUS
<1>7. \A kinds : Before(task, n, kinds)' <=> Before(task, head, kinds)
  <2>1. n \in 0..head
    BY <1>1, <1>6
  <2> QED
    BY <1>2, <1>6, <2>1
<1>8. ASSUME NEW i \in 1..head', i \notin 1..head
      PROVE  /\ i - 1 = n /\ chain'[i].task = task /\ chain'[i].kind = kind
             /\ \A kinds : Before(chain[i].task, i - 1, kinds)' <=> Before(task, head, kinds)
  <2>1. i - 1 = n /\ chain'[i].task = task /\ chain'[i].kind = kind
    <3>1. i = n + 1 /\ n \in Nat
      BY <1>1, <1>6, <1>8
    <3>2. chain'[i].task = task /\ chain'[i].kind = kind
      BY <1>1, <1>6, <3>1
    <3>3. i - 1 = n
      BY <3>1
    <3> QED
      BY <3>2, <3>3
  <2>2. \A kinds : Before(chain[i].task, i - 1, kinds)' <=> Before(task, n, kinds)'
    BY <2>1 DEF Before
  <2> QED
    BY <1>7, <2>1, <2>2
<1>9. ASSUME NEW i \in 1..head'
      PROVE  /\ chain'[i].kind = "consensus" => ~Before(chain[i].task, i - 1, {"consensus"})'
             /\ chain'[i].kind \in Settles \cup {"claimed"} => Before(chain[i].task, i - 1, {"consensus"})'
             /\ chain'[i].kind \in Settles => ~Before(chain[i].task, i - 1, Settles \cup {"claimed"})'
  <2>1. CASE i \in 1..head
    BY <1>3, <2>1
  <2>2. CASE i \notin 1..head
    BY <1>5, <1>8, <2>2 DEF Settles
  <2> QED
    BY <2>1, <2>2
<1> QED
  BY <1>9 DEF Lawful

LEMMA MineBlockKeeps ==
  ASSUME Orderly, NEW task \in Tasks, NEW kind \in Kinds, MineBlock(task, kind)
  PROVE  Orderly' /\ (Current => Current')
<1>1. /\ Possible(task, kind) /\ chain' = Append(chain, [task |-> task, kind |-> kind])
      /\ last_block' = last_block /\ tasks' = tasks /\ syncWrote' = syncWrote /\ syncs' = syncs
      /\ jobs' = jobs /\ proven' = proven /\ batch' = batch /\ step' = step
  BY DEF MineBlock, rowVars, artifactVars
<1>2. TypeOK /\ Lawful /\ Projected(tasks, last_block) /\ ChainType /\ last_block \in 0..head
      /\ head \in Nat /\ last_block \in Nat
  BY Typed DEF Orderly
<1>3. ChainType' /\ head' = head + 1 /\ Lawful' /\ \A i \in 1..head : chain'[i] = chain[i]
  BY <1>1, <1>2, Mined, MinedIsLawful
<1>4. PICK u, n : u = last_block /\ n = head
  OBVIOUS
<1>5. u \in 0..head /\ n \in 0..head
  BY <1>2, <1>4
<1>6. RankedTasks(u)' = RankedTasks(u)
  BY <1>1, <1>2, <1>5, SamePast
<1>7. RankedTasks(last_block)' = RankedTasks(last_block)
  <2>1. RankedTasks(last_block)' = RankedTasks(u)'
    BY <1>1, <1>4 DEF RankedTasks
  <2> QED
    BY <1>4, <1>6, <2>1
<1>8. Projected(tasks, last_block)'
  BY <1>1, <1>2, <1>7 DEF Projected, Numbered, Dated
<1>9. TypeOK'
  <2>1. last_block' \in 0..head'
    BY <1>1, <1>2, <1>3
  <2> QED
    BY <1>1, <1>2, <1>3, <2>1 DEF TypeOK, ChainType
<1>10. Orderly'
  BY <1>1, <1>3, <1>8, <1>9 DEF Orderly
<1>11. \A t : /\ Version(t, last_block)' = Version(t, last_block)
              /\ Version(t, last_block) \in Nat
              /\ Version(t, head) \in Nat /\ Version(t, head)' \in Nat
              /\ Version(t, head) <= Version(t, head)'
  <2> SUFFICES ASSUME NEW t
               PROVE  /\ Version(t, last_block)' = Version(t, last_block)
                      /\ Version(t, last_block) \in Nat
                      /\ Version(t, head) \in Nat /\ Version(t, head)' \in Nat
                      /\ Version(t, head) <= Version(t, head)'
    OBVIOUS
  <2>1. Version(t, last_block)' = Version(t, u)' /\ Version(t, u)' = Version(t, u)
    <3>1. Version(t, u)' = Version(t, u)
      BY <1>1, <1>2, <1>5, SamePast
    <3> QED
      BY <1>1, <1>4, <3>1 DEF Version
  <2>2. Version(t, last_block) \in Nat /\ Version(t, head) \in Nat
    BY <1>2, VersionIsNat
  <2> DEFINE E == {i \in 1..head : chain[i].task = t /\ HasLog(i)}
  <2> DEFINE F == {i \in 1..(head + 1) : chain'[i].task = t /\ chain'[i].kind # "claimed"}
  <2>3. E \in SUBSET F /\ F \in SUBSET (1..(head + 1)) /\ IsFiniteSet(1..(head + 1))
    <3>1. \A i \in 1..head : i \in 1..(head + 1) /\ chain'[i] = chain[i]
      BY <1>2, <1>3
    <3>2. IsFiniteSet(1..(head + 1))
      BY <1>2, FS_Interval
    <3> QED
      BY <3>1, <3>2 DEF HasLog
  <2>4. Version(t, head)' = Cardinality(F)
    BY <1>3 DEF Version, HasLog
  <2>5. Version(t, head) = Cardinality(E)
    BY DEF Version
  <2> HIDE DEF E, F
  <2>6. IsFiniteSet(F)
    BY <2>3, FS_Subset
  <2>7. Cardinality(F) \in Nat /\ Cardinality(E) <= Cardinality(F)
    BY <2>3, <2>6, FS_Subset, FS_CardinalityType
  <2> QED
    BY <1>4, <2>1, <2>2, <2>4, <2>5, <2>7
<1>12. ASSUME Current PROVE RowsFollowLogs'
  <2> SUFFICES ASSUME NEW t \in RankedTasks(last_block)
               PROVE  /\ t \in DOMAIN tasks
                      /\ \/ t \in syncWrote
                         \/ tasks[t].version \in Version(t, last_block)'..Version(t, head)'
    BY <1>1, <1>7 DEF RowsFollowLogs
  <2>1. /\ t \in DOMAIN tasks
        /\ \/ t \in syncWrote
           \/ tasks[t].version \in Version(t, last_block)..Version(t, head)
    BY <1>12 DEF Current, RowsFollowLogs
  <2> QED
    BY <1>11, <2>1
<1>13. ASSUME Current PROVE Owed(tasks, last_block)'
  <2> SUFFICES ASSUME NEW t \in DOMAIN tasks, ~Excused(t)'
               PROVE  \E k \in last_block..(head + 1) : tasks[t].amount = Standing(t, k)'
    BY <1>1, <1>3 DEF Owed
  <2>1. ~Excused(t)
    <3>1. Before(t, head, {"claimed"}) => Before(t, head, {"claimed"})'
      BY <1>2, <1>3 DEF Before
    <3> QED
      BY <1>1, <3>1 DEF Excused
  <2>2. PICK k \in last_block..head : tasks[t].amount = Standing(t, k)
    BY <1>13, <2>1 DEF Current, Owed
  <2>3. k \in 0..head /\ k \in last_block..(head + 1)
    BY <1>2
  <2>4. Standing(t, k)' = Standing(t, k)
    BY <1>1, <1>2, <2>3, SamePast
  <2> QED
    BY <2>2, <2>3, <2>4
<1> QED
  BY <1>10, <1>12, <1>13 DEF Current

-----------------------------------------------------------------------------
(* Syncs.                                                                    *)

SyncType == [task : Tasks, height : Nat, done : BOOLEAN]

LEMMA SyncReadsKeeps ==
  ASSUME Orderly, NEW task \in Tasks, NEW h \in Nat, SyncReads(task, h)
  PROVE  Orderly' /\ (Current => Current')
<1> DEFINE e == [task |-> task, height |-> h, done |-> FALSE]
<1>1. /\ syncs' = Append(syncs, e) /\ chain' = chain
      /\ last_block' = last_block /\ tasks' = tasks /\ syncWrote' = syncWrote
      /\ jobs' = jobs /\ proven' = proven /\ batch' = batch /\ step' = step
  BY DEF SyncReads, rowVars, artifactVars
<1>2. TypeOK /\ Lawful /\ Projected(tasks, last_block) /\ syncs \in Seq(SyncType)
  BY DEF Orderly, TypeOK, SyncType
<1>3. e \in SyncType
  BY DEF SyncType
<1> HIDE DEF e
<1>4. /\ syncs' \in Seq(SyncType) /\ Len(syncs) \in Nat /\ Len(syncs') = Len(syncs) + 1
      /\ \A n \in 1..Len(syncs) : syncs'[n] = syncs[n]
  <2> HIDE DEF SyncType
  <2> QED
    BY <1>1, <1>2, <1>3
<1>5. PICK u : u = last_block
  OBVIOUS
<1>6. RankedTasks(last_block)' = RankedTasks(last_block)
  BY <1>1, <1>5, SameChain DEF RankedTasks, HasLog
<1>7. Dated(tasks, last_block)'
  <2> SUFFICES ASSUME NEW t \in DOMAIN tasks \ RankedTasks(last_block)
               PROVE  tasks[t].created_at \in 1..Len(syncs') /\ syncs'[tasks[t].created_at].task = t
    BY <1>1, <1>6 DEF Dated
  <2>1. tasks[t].created_at \in 1..Len(syncs) /\ syncs[tasks[t].created_at].task = t
    BY <1>2 DEF Projected, Dated
  <2>2. syncs'[tasks[t].created_at] = syncs[tasks[t].created_at]
    BY <1>4, <2>1
  <2> QED
    BY <1>4, <2>1, <2>2
<1>8. Projected(tasks, last_block)'
  BY <1>1, <1>2, <1>6, <1>7 DEF Projected, Numbered
<1>9. TypeOK'
  BY <1>1, <1>2, <1>4 DEF TypeOK, head, SyncType
<1>10. Lawful'
  BY <1>1, <1>2, SameChain
<1>11. \A t : Excused(t) => Excused(t)'
  BY <1>1, <1>4 DEF Excused, Before, head
<1>12. head' = head /\ \A t, k : Version(t, k)' = Version(t, k) /\ Standing(t, k)' = Standing(t, k)
  BY <1>1, SameChain
<1>13. ASSUME Current PROVE Current'
  <2>1. RowsFollowLogs'
    BY <1>1, <1>6, <1>12, <1>13 DEF Current, RowsFollowLogs
  <2>2. Owed(tasks, last_block)'
    BY <1>1, <1>11, <1>12, <1>13 DEF Current, Owed
  <2> QED
    BY <2>1, <2>2 DEF Current
<1> QED
  BY <1>1, <1>8, <1>9, <1>10, <1>13 DEF Orderly

LEMMA NextSequenceIs ==
  ASSUME IsFiniteSet(DOMAIN tasks), Numbered(tasks)
  PROVE  NextSequence(tasks) = Cardinality(DOMAIN tasks)
<1> DEFINE N == Cardinality(DOMAIN tasks)
<1>1. N \in Nat
  BY FS_CardinalityType
<1>2. {-1} \cup {tasks[task].sequence : task \in DOMAIN tasks} = {-1} \cup 0..(N - 1)
  BY DEF Numbered
<1> HIDE DEF N
<1>3. \A x \in {-1} \cup 0..(N - 1) : N - 1 >= x
  BY <1>1
<1>4. N - 1 \in {-1} \cup 0..(N - 1)
  BY <1>1
<1>5. Max({-1} \cup 0..(N - 1)) \in {-1} \cup 0..(N - 1)
      /\ \A y \in {-1} \cup 0..(N - 1) : Max({-1} \cup 0..(N - 1)) >= y
  BY <1>3, <1>4 DEF Max
<1>6. PICK x : x = Max({-1} \cup 0..(N - 1))
  OBVIOUS
<1>7. x \in {-1} \cup 0..(N - 1) /\ x >= N - 1
  BY <1>4, <1>5, <1>6
<1>8. x + 1 = N
  BY <1>1, <1>3, <1>7
<1>9. NextSequence(tasks) = Max({-1} \cup {tasks[task].sequence : task \in DOMAIN tasks}) + 1
  BY DEF NextSequence
<1>10. NextSequence(tasks) = N
  BY <1>2, <1>6, <1>8, <1>9
<1> QED
  BY <1>10 DEF N

(* What a sync writes: over the row that is there, or a new last one.        *)
LEMMA SyncRow ==
  ASSUME Orderly, NEW n \in 1..Len(syncs), NEW a \in syncs[n].height..head, SyncWrites(n, a)
  PROVE  /\ tasks' = PutRow(tasks, syncs[n].task, tasks'[syncs[n].task])
         /\ syncs[n].task \in Tasks
         /\ tasks'[syncs[n].task] \in RowType
         /\ syncs[n].task \in DOMAIN tasks =>
              /\ tasks'[syncs[n].task].sequence = tasks[syncs[n].task].sequence
              /\ tasks'[syncs[n].task].created_at = tasks[syncs[n].task].created_at
              /\ tasks'[syncs[n].task].manifest_verified = tasks[syncs[n].task].manifest_verified
         /\ syncs[n].task \notin DOMAIN tasks =>
              /\ tasks'[syncs[n].task].sequence = Cardinality(DOMAIN tasks)
              /\ tasks'[syncs[n].task].created_at = n
              /\ ~tasks'[syncs[n].task].manifest_verified
<1>1. TypeOK /\ Projected(tasks, last_block) /\ ChainType /\ Lawful /\ head \in Nat
  BY Typed DEF Orderly
<1>2. syncs \in Seq(SyncType) /\ syncs[n] \in SyncType
  <2>1. syncs \in Seq(SyncType)
    BY <1>1 DEF TypeOK, SyncType
  <2> QED
    BY <2>1, Elements
<1>3. PICK task : task = syncs[n].task
  OBVIOUS
<1>4. task \in Tasks /\ syncs[n].height \in Nat
  BY <1>2, <1>3 DEF SyncType
<1>5. PICK version : version = Version(task, syncs[n].height)
  OBVIOUS
<1>6. version \in Nat
  BY <1>4, <1>5, VersionIsNat
<1>7. PICK onChain : onChain = Outstanding(task, a)
  OBVIOUS
<1>8. onChain \in Nat
  <2>1. a \in 0..head
    BY <1>1, <1>4
  <2> QED
    BY <1>1, <1>7, <2>1, OutstandingIs, StandingIsSmall
<1>9. PICK row : row = IF task \in DOMAIN tasks THEN [tasks[task] EXCEPT !.version = version]
                       ELSE NewRow(NextSequence(tasks), version, n)
  OBVIOUS
<1>10. PICK paid : paid = IF onChain > 0 THEN [row EXCEPT !.amount = onChain] ELSE row
  OBVIOUS
<1>11. tasks' = PutRow(tasks, task, paid)
  BY <1>3, <1>5, <1>7, <1>9, <1>10 DEF SyncWrites
<1>12. PICK s, c, am, m :
         /\ row = RowOf(s, version, c, am, m) /\ s \in Int /\ c \in Nat /\ am \in Nat /\ m \in BOOLEAN
         /\ task \in DOMAIN tasks =>
              /\ s = tasks[task].sequence /\ c = tasks[task].created_at
              /\ m = tasks[task].manifest_verified
         /\ task \notin DOMAIN tasks => s = Cardinality(DOMAIN tasks) /\ c = n /\ ~m
  <2>1. CASE task \in DOMAIN tasks
    <3>1. PICK old : old = tasks[task]
      OBVIOUS
    <3>2. old \in RowType
      BY <1>1, <2>1, <3>1 DEF Projected
    <3>3. old = RowOf(old.sequence, old.version, old.created_at, old.amount, old.manifest_verified)
          /\ old.sequence \in Int /\ old.created_at \in Nat /\ old.amount \in Nat
          /\ old.manifest_verified \in BOOLEAN
      BY <3>2, RowIs DEF RowOf, Renumbered
    <3>4. [old EXCEPT !.version = version]
            = RowOf(old.sequence, version, old.created_at, old.amount, old.manifest_verified)
      BY <3>3 DEF RowOf
    <3>5. row = RowOf(old.sequence, version, old.created_at, old.amount, old.manifest_verified)
      BY <1>9, <2>1, <3>1, <3>4
    <3> QED
      BY <2>1, <3>1, <3>3, <3>5
  <2>2. CASE task \notin DOMAIN tasks
    <3>1. NextSequence(tasks) = Cardinality(DOMAIN tasks) /\ Cardinality(DOMAIN tasks) \in Nat
      BY <1>1, NextSequenceIs, FS_CardinalityType DEF Projected
    <3>2. PICK m \in BOOLEAN : ~m
      OBVIOUS
    <3>3. NewRow(NextSequence(tasks), version, n) = RowOf(Cardinality(DOMAIN tasks), version, n, 0, m)
      BY <3>1, <3>2 DEF NewRow, RowOf
    <3>4. n \in Nat
      BY <1>2
    <3> QED
      BY <1>9, <2>2, <3>1, <3>2, <3>3, <3>4
  <2> QED
    BY <2>1, <2>2
<1>13. PICK amount \in Nat : paid = RowOf(s, version, c, amount, m)
  <2>1. CASE onChain > 0
    <3>1. [row EXCEPT !.amount = onChain] = RowOf(s, version, c, onChain, m)
      BY <1>12 DEF RowOf
    <3> QED
      BY <1>8, <1>10, <2>1, <3>1
  <2>2. CASE ~(onChain > 0)
    BY <1>10, <1>12, <2>2
  <2> QED
    BY <2>1, <2>2
<1>14. paid \in RowType /\ paid.sequence = s /\ paid.created_at = c
  BY <1>6, <1>12, <1>13 DEF RowOf, RowType
<1>15. paid.manifest_verified = m
  BY <1>13 DEF RowOf
<1>16. tasks'[task] = paid /\ tasks' = PutRow(tasks, task, tasks'[task])
  BY <1>11 DEF PutRow
<1> QED
  BY <1>3, <1>4, <1>12, <1>14, <1>15, <1>16

LEMMA SyncWritesKeeps ==
  ASSUME Orderly, NEW n \in 1..Len(syncs), NEW a \in syncs[n].height..head, SyncWrites(n, a)
  PROVE  Orderly' /\ (Current => Current')
<1>1. TypeOK /\ Projected(tasks, last_block) /\ ChainType /\ Lawful /\ head \in Nat
      /\ syncs \in Seq(SyncType)
  BY Typed DEF Orderly, TypeOK, SyncType
<1>2. PICK task : task = syncs[n].task
  OBVIOUS
<1>3. /\ syncWrote' = syncWrote \cup {task}
      /\ syncs' = [syncs EXCEPT ![n] = [@ EXCEPT !.height = 0, !.done = TRUE]]
      /\ chain' = chain /\ last_block' = last_block
      /\ jobs' = jobs /\ proven' = proven /\ batch' = batch /\ step' = step
  BY <1>2 DEF SyncWrites, artifactVars
<1>4. PICK row : row = tasks'[task]
  OBVIOUS
<1>5. /\ tasks' = PutRow(tasks, task, row) /\ task \in Tasks /\ row \in RowType
      /\ task \in DOMAIN tasks =>
           /\ row.sequence = tasks[task].sequence /\ row.created_at = tasks[task].created_at
           /\ row.manifest_verified = tasks[task].manifest_verified
      /\ task \notin DOMAIN tasks =>
           /\ row.sequence = Cardinality(DOMAIN tasks) /\ row.created_at = n
           /\ ~row.manifest_verified
  BY <1>2, <1>4, SyncRow
<1>6. /\ DOMAIN tasks' = DOMAIN tasks \cup {task} /\ tasks'[task] = row
      /\ \A t \in DOMAIN tasks : t # task => tasks'[t] = tasks[t]
  BY <1>5 DEF PutRow
<1>7. /\ syncs' \in Seq(SyncType) /\ Len(syncs') = Len(syncs)
      /\ \A k \in 1..Len(syncs) : syncs'[k].task = syncs[k].task
      /\ \A k \in 1..Len(syncs) : syncs[k].done => syncs'[k].done
      /\ syncs'[n].done
  <2>1. PICK old : old = syncs[n]
    OBVIOUS
  <2>2. old \in SyncType
    BY <1>1, <2>1, Elements
  <2>3. PICK done \in BOOLEAN : done = TRUE
    OBVIOUS
  <2>4. [old EXCEPT !.height = 0, !.done = done] = [task |-> old.task, height |-> 0, done |-> done]
    <3>1. [old EXCEPT !.height = 0, !.done = done] = [[old EXCEPT !.height = 0] EXCEPT !.done = done]
      OBVIOUS
    <3>2. PICK tk, hg, dn : old = [task |-> tk, height |-> hg, done |-> dn]
      BY <2>2 DEF SyncType
    <3>3. [old EXCEPT !.height = 0] = [task |-> tk, height |-> 0, done |-> dn]
      BY <3>2
    <3>4. [[old EXCEPT !.height = 0] EXCEPT !.done = done] = [task |-> tk, height |-> 0, done |-> done]
      <4>1. PICK mid : mid = [old EXCEPT !.height = 0]
        OBVIOUS
      <4>2. mid = [task |-> tk, height |-> 0, done |-> dn]
        BY <3>3, <4>1
      <4>3. [mid EXCEPT !.done = done] = [task |-> tk, height |-> 0, done |-> done]
        BY <4>2
      <4> QED
        BY <4>1, <4>3
    <3>5. old.task = tk
      BY <3>2
    <3> QED
      BY <3>1, <3>4, <3>5
  <2>5. PICK new : new = [task |-> old.task, height |-> 0, done |-> done]
    OBVIOUS
  <2>6. new \in SyncType /\ new.task = old.task /\ new.done
    BY <2>2, <2>3, <2>5 DEF SyncType
  <2>7. syncs' = [syncs EXCEPT ![n] = new]
    BY <1>3, <2>1, <2>3, <2>4, <2>5
  <2>8. syncs' \in Seq(SyncType) /\ Len(syncs') = Len(syncs)
        /\ \A k \in 1..Len(syncs) : syncs'[k] = IF k = n THEN new ELSE syncs[k]
    <3> HIDE DEF SyncType
    <3> QED
      BY <1>1, <2>6, <2>7
  <2> QED
    BY <2>1, <2>6, <2>8
<1>8. RankedTasks(last_block)' = RankedTasks(last_block) /\ head' = head /\ Lawful'
      /\ \A t, k : Version(t, k)' = Version(t, k) /\ Standing(t, k)' = Standing(t, k)
  BY <1>1, <1>3, SameChain DEF RankedTasks, HasLog
<1>9. Projected(tasks, last_block)'
  <2>0. IsFiniteSet(DOMAIN tasks) /\ Cardinality(DOMAIN tasks) \in Nat /\ Numbered(tasks)
        /\ Dated(tasks, last_block) /\ \A t \in DOMAIN tasks : tasks[t] \in RowType
    BY <1>1, FS_CardinalityType DEF Projected
  <2>1. /\ IsFiniteSet(DOMAIN tasks')
        /\ Cardinality(DOMAIN tasks') = IF task \in DOMAIN tasks THEN Cardinality(DOMAIN tasks)
                                        ELSE Cardinality(DOMAIN tasks) + 1
    BY <1>6, <2>0, FS_AddElement
  <2>2. Numbered(tasks)'
    <3>1. CASE task \in DOMAIN tasks
      <4>1. DOMAIN tasks' = DOMAIN tasks
            /\ \A t \in DOMAIN tasks : tasks'[t].sequence = tasks[t].sequence
        BY <1>5, <1>6, <3>1
      <4> QED
        BY <2>0, <4>1 DEF Numbered
    <3>2. CASE task \notin DOMAIN tasks
      <4> DEFINE N == Cardinality(DOMAIN tasks)
      <4>1. {tasks'[t].sequence : t \in DOMAIN tasks'}
              = {tasks[t].sequence : t \in DOMAIN tasks} \cup {N}
        BY <1>5, <1>6, <3>2
      <4>2. {tasks[t].sequence : t \in DOMAIN tasks} = 0..(N - 1)
        BY <2>0 DEF Numbered
      <4>3. 0..(N - 1) \cup {N} = 0..((N + 1) - 1)
        <5> HIDE DEF N
        <5>1. N \in Nat
          BY <2>0 DEF N
        <5> QED
          BY <5>1
      <4> QED
        BY <2>1, <3>2, <4>1, <4>2, <4>3 DEF Numbered
    <3> QED
      BY <3>1, <3>2
  <2>3. Dated(tasks, last_block)'
    <3> SUFFICES ASSUME NEW t \in DOMAIN tasks' \ RankedTasks(last_block)
                 PROVE  /\ tasks'[t].created_at \in 1..Len(syncs')
                        /\ syncs'[tasks'[t].created_at].task = t
      BY <1>8 DEF Dated
    <3>1. CASE t \in DOMAIN tasks
      <4>1. tasks[t].created_at \in 1..Len(syncs) /\ syncs[tasks[t].created_at].task = t
        BY <2>0, <3>1 DEF Dated
      <4>2. tasks'[t].created_at = tasks[t].created_at
        BY <1>5, <1>6, <3>1
      <4> QED
        BY <1>7, <4>1, <4>2
    <3>2. CASE t \notin DOMAIN tasks
      <4>1. t = task /\ tasks'[t].created_at = n
        BY <1>5, <1>6, <3>2
      <4> QED
        BY <1>2, <1>7, <4>1
    <3> QED
      BY <3>1, <3>2
  <2>4. \A t \in DOMAIN tasks' : tasks'[t] \in RowType
    BY <1>5, <1>6, <2>0
  <2> QED
    BY <1>1, <1>5, <1>6, <1>8, <2>1, <2>2, <2>3, <2>4 DEF Projected
<1>10. TypeOK'
  <2>1. DOMAIN tasks' \subseteq Tasks /\ (\A t \in DOMAIN tasks' : tasks'[t] \in RowType)
        /\ syncWrote' \subseteq DOMAIN tasks'
    BY <1>1, <1>3, <1>5, <1>6 DEF TypeOK
  <2>2. syncs' \in Seq([task : Tasks, height : Nat, done : BOOLEAN])
    BY <1>7 DEF SyncType
  <2> QED
    BY <1>1, <1>3, <1>8, <2>1, <2>2 DEF TypeOK
<1>11. \A t \in DOMAIN tasks' : tasks'[t].manifest_verified => ManifestOf[t] \in proven'
  BY <1>3, <1>5, <1>6 DEF Orderly
<1>12. Orderly'
  BY <1>3, <1>8, <1>9, <1>10, <1>11 DEF Orderly
<1>13. ASSUME Current PROVE RowsFollowLogs'
  BY <1>3, <1>6, <1>8, <1>13 DEF Current, RowsFollowLogs
<1>14. ASSUME Current, NEW t \in DOMAIN tasks', ~Excused(t)'
       PROVE  \E k \in last_block..head : tasks'[t].amount = Standing(t, k)
  <2>1. t # task
    BY <1>2, <1>7, <1>14 DEF Excused
  <2>2. t \in DOMAIN tasks /\ tasks'[t] = tasks[t]
    BY <1>6, <2>1
  <2>3. ~Excused(t)
    BY <1>3, <1>7, <1>14 DEF Excused, Before, head
  <2> QED
    BY <1>14, <2>2, <2>3 DEF Current, Owed
<1>15. ASSUME Current PROVE Owed(tasks, last_block)'
  BY <1>3, <1>8, <1>14, <1>15 DEF Owed
<1> QED
  BY <1>12, <1>13, <1>15 DEF Current

-----------------------------------------------------------------------------
(* A pass of the indexer.                                                    *)

(* What the mark of a row that stays is.                                     *)
MarksStay ==
  \A t \in DOMAIN tasks :
    t \in DOMAIN tasks' /\ (tasks'[t].manifest_verified <=> tasks[t].manifest_verified)

LEMMA PassKeeps ==
  ASSUME ReadModelAssumption, Orderly, NEW sawHead \in SeenHeads, Pass(sawHead)
  PROVE  /\ Orderly' /\ MarksStay
         /\ NodeLag <= Confirmations /\ Current => Current'
<1>1. TypeOK /\ Projected(tasks, last_block) /\ ChainType /\ Lawful /\ head \in Nat
      /\ last_block \in 0..head /\ jobs \in Queue
  BY Typed DEF Orderly
<1>2. sawHead \in 0..head
  BY <1>1 DEF SeenHeads, Greatest, ReadModelAssumption
<1>3. PICK scanned : scanned = Least(last_block + BatchSize, sawHead - Confirmations)
  OBVIOUS
<1>4. last_block < sawHead - Confirmations
  BY DEF Pass
<1>5. scanned \in last_block..sawHead /\ scanned \in 0..head /\ scanned <= sawHead - Confirmations
  BY <1>1, <1>2, <1>3, <1>4 DEF Least, ReadModelAssumption
<1>6. /\ last_block' = scanned /\ chain' = chain /\ syncs' = syncs
      /\ proven' = proven /\ batch' = batch /\ step' = step
      /\ syncWrote' = syncWrote \ {chain[i].task : i \in {j \in last_block + 1..scanned : HasLog(j)}}
  BY <1>3 DEF Pass, LastOfBatch, artifactVars
<1>7. PICK db \in Ingested(sawHead, scanned) : tasks' = db.rows /\ jobs' = db.jobs
  BY <1>3 DEF Pass
<1>8. PICK rows : \E q \in Queue : db = View(rows, q) /\ Good(rows, scanned, Low(sawHead), scanned)
  BY <1>1, <1>2, <1>5, <1>7, IngestedIs
<1>9. PICK q \in Queue : db = View(rows, q) /\ Good(rows, scanned, Low(sawHead), scanned)
  BY <1>8
<1>10. tasks' = rows /\ jobs' = q
  BY <1>7, <1>9, ViewFields
<1>11. /\ Projected(rows, scanned) /\ Keeps(rows) /\ Fresh(rows, scanned, Low(sawHead))
       /\ Low(sawHead) >= scanned /\ Owed(tasks, last_block) => Owed(rows, scanned)
  BY <1>9 DEF Good
<1>12. \A t : t \in syncWrote' <=> t \in syncWrote /\ ~Logged(t, scanned)
  BY <1>6 DEF Logged
<1>13. RankedTasks(last_block)' = RankedTasks(scanned)
  <2>1. RankedTasks(scanned)' = RankedTasks(scanned)
    BY <1>6, SameChain
  <2>2. RankedTasks(last_block)' = RankedTasks(scanned)'
    BY <1>6 DEF RankedTasks
  <2> QED
    BY <2>1, <2>2
<1>14. Projected(tasks, last_block)'
  BY <1>6, <1>10, <1>11, <1>13 DEF Projected, Numbered, Dated
<1>15. TypeOK'
  <2>1. DOMAIN tasks' \subseteq Tasks /\ (\A t \in DOMAIN tasks' : tasks'[t] \in RowType)
    BY <1>10, <1>11 DEF Projected
  <2>2. syncWrote' \subseteq DOMAIN tasks'
    BY <1>1, <1>10, <1>11, <1>12 DEF TypeOK, Keeps
  <2>3. jobs' \in [Hashes -> [status : JobStatuses, attempts : Nat]]
    BY <1>10 DEF Queue, JobType
  <2>4. last_block' \in 0..head' /\ chain' \in Seq([task : Tasks, kind : Kinds])
    BY <1>1, <1>5, <1>6 DEF head, TypeOK
  <2> QED
    BY <1>1, <1>6, <2>1, <2>2, <2>3, <2>4 DEF TypeOK
<1>16. \A t \in DOMAIN tasks' : tasks'[t].manifest_verified => ManifestOf[t] \in proven'
  BY <1>6, <1>10, <1>11 DEF Orderly, Keeps
<1>17. Lawful'
  BY <1>1, <1>6, SameChain
<1>18. Orderly'
  BY <1>6, <1>14, <1>15, <1>16, <1>17 DEF Orderly
<1>19. MarksStay
  BY <1>10, <1>11 DEF MarksStay, Keeps
<1>20. ASSUME NodeLag <= Confirmations, Current PROVE Current'
  <2>1. Low(sawHead) \in scanned..sawHead /\ Low(sawHead) >= scanned
    BY <1>1, <1>2, <1>5, <1>20 DEF Low, Greatest, ReadModelAssumption
  <2>2. head' = head /\ \A t, k : Version(t, k)' = Version(t, k) /\ Standing(t, k)' = Standing(t, k)
    BY <1>6, SameChain
  <2>3. RowsFollowLogs'
    <3> SUFFICES ASSUME NEW t \in RankedTasks(scanned), t \notin syncWrote'
                 PROVE  rows[t].version \in Version(t, scanned)..Version(t, head)
      <4>1. \A t \in RankedTasks(scanned) : t \in DOMAIN rows
        BY <1>11 DEF Projected
      <4>2. \A t : Version(t, last_block)' = Version(t, scanned)
        <5>1. \A t : Version(t, last_block)' = Version(t, scanned)'
          BY <1>6 DEF Version
        <5> QED
          BY <2>2, <5>1
      <4>3. \A t : Version(t, head)' = Version(t, head)
        BY <1>6 DEF Version, head, HasLog
      <4> QED
        BY <1>10, <1>13, <4>1, <4>2, <4>3 DEF RowsFollowLogs
    <3>1. CASE Logged(t, scanned)
      <4>1. PICK h \in Low(sawHead)..head : rows[t].version = Version(t, h)
        BY <1>11, <3>1 DEF Fresh
      <4>2. h \in 0..head /\ h \in Nat /\ scanned \in 0..h /\ h \in 0..head /\ head \in 0..head
        BY <1>1, <1>5, <2>1
      <4>3. Version(t, scanned) <= Version(t, h) /\ Version(t, h) <= Version(t, head)
            /\ Version(t, scanned) \in Nat /\ Version(t, h) \in Nat /\ Version(t, head) \in Nat
        <5>1. Version(t, scanned) <= Version(t, h)
          BY <1>1, <4>2, VersionIs
        <5>2. Version(t, h) <= Version(t, head)
          BY <1>1, <4>2, VersionIs
        <5> QED
          BY <1>1, <1>5, <4>2, <5>1, <5>2, VersionIsNat
      <4> QED
        BY <4>1, <4>3
    <3>2. CASE ~Logged(t, scanned)
      <4>1. t \notin syncWrote
        BY <1>12, <3>2
      <4>2. PICK j \in 1..scanned : chain[j].task = t /\ HasLog(j)
        BY <1>1, <1>5, RankedIs
      <4>3. j \in 1..last_block
        BY <1>1, <1>5, <3>2, <4>2 DEF Logged
      <4>4. t \in RankedTasks(last_block)
        BY <1>1, <4>2, <4>3, RankedIs
      <4>5. t \in DOMAIN tasks
            /\ tasks[t].version \in Version(t, last_block)..Version(t, head)
        BY <1>20, <4>1, <4>4 DEF Current, RowsFollowLogs
      <4>6. rows[t].version = tasks[t].version
        BY <1>11, <3>2, <4>5 DEF Fresh
      <4>7. {i \in 1..scanned : chain[i].task = t /\ HasLog(i)}
              = {i \in 1..last_block : chain[i].task = t /\ HasLog(i)}
        BY <1>1, <1>5, <3>2 DEF Logged
      <4>8. Version(t, scanned) = Version(t, last_block)
        BY <4>7 DEF Version
      <4> QED
        BY <4>5, <4>6, <4>8
    <3> QED
      BY <3>1, <3>2
  <2>4. Owed(rows, scanned)
    BY <1>11, <1>20, <2>1 DEF Current
  <2>5. \A t : Excused(t)' <=> Excused(t)
    BY <1>6 DEF Excused, Before, head
  <2>6. Owed(tasks, last_block)'
    BY <1>6, <1>10, <2>2, <2>4, <2>5 DEF Owed
  <2> QED
    BY <2>3, <2>6 DEF Current
<1> QED
  BY <1>18, <1>19, <1>20

-----------------------------------------------------------------------------
(* The artifact worker.                                                      *)

LEMMA FinishTypes ==
  ASSUME TypeOK, NEW hash \in Hashes, NEW status \in JobStatuses, Finish(hash, status)
  PROVE  /\ jobs' \in [Hashes -> [status : JobStatuses, attempts : Nat]]
         /\ DOMAIN batch' \subseteq Hashes /\ \A other \in DOMAIN batch' : batch'[other] \in Nat
         /\ step'.hash = Nothing
  BY DEF TypeOK, Finish, Idle

(* A step of the worker that marks no row.                                   *)
LEMMA WorkerKeeps ==
  ASSUME Orderly, UNCHANGED <<chain, last_block, tasks, syncs, syncWrote>>,
         jobs' \in [Hashes -> [status : JobStatuses, attempts : Nat]],
         DOMAIN batch' \subseteq Hashes, \A other \in DOMAIN batch' : batch'[other] \in Nat,
         step'.hash \in {Nothing} \cup DOMAIN batch', step'.hash \in {Nothing} \cup proven',
         proven \subseteq proven', proven' \subseteq Hashes
  PROVE  Orderly' /\ MarksStay /\ (Current => Current')
<1>1. Marks
  BY DEF Orderly, Projected, Marks
<1>2. Lawful' /\ Projected(tasks, last_block)' /\ (Current => Current')
  BY <1>1, MarksKeep DEF Orderly
<1>3. TypeOK'
  BY DEF Orderly, TypeOK, head
<1>4. \A t \in DOMAIN tasks' : tasks'[t].manifest_verified => ManifestOf[t] \in proven'
  BY DEF Orderly
<1> QED
  BY <1>2, <1>3, <1>4 DEF Orderly, MarksStay

LEMMA MarkedIs ==
  ASSUME Orderly, NEW hash, NEW verified \in BOOLEAN
  PROVE  /\ DOMAIN Marked(hash, verified) = DOMAIN tasks
         /\ \A t \in DOMAIN tasks :
              /\ Marked(hash, verified)[t] \in RowType
              /\ Marked(hash, verified)[t].sequence = tasks[t].sequence
              /\ Marked(hash, verified)[t].version = tasks[t].version
              /\ Marked(hash, verified)[t].created_at = tasks[t].created_at
              /\ Marked(hash, verified)[t].amount = tasks[t].amount
              /\ Marked(hash, verified)[t].manifest_verified
                   <=> (IF ManifestOf[t] = hash THEN verified ELSE tasks[t].manifest_verified)
<1>1. DOMAIN Marked(hash, verified) = DOMAIN tasks
  BY DEF Marked
<1>2. ASSUME NEW t \in DOMAIN tasks
      PROVE  /\ Marked(hash, verified)[t] \in RowType
             /\ Marked(hash, verified)[t].sequence = tasks[t].sequence
             /\ Marked(hash, verified)[t].version = tasks[t].version
             /\ Marked(hash, verified)[t].created_at = tasks[t].created_at
             /\ Marked(hash, verified)[t].amount = tasks[t].amount
             /\ Marked(hash, verified)[t].manifest_verified
                  <=> (IF ManifestOf[t] = hash THEN verified ELSE tasks[t].manifest_verified)
  <2>1. PICK old : old = tasks[t]
    OBVIOUS
  <2>2. old \in RowType
    BY <2>1 DEF Orderly, Projected
  <2>3. PICK new : new = Marked(hash, verified)[t]
    OBVIOUS
  <2>4. new = IF ManifestOf[t] = hash THEN [old EXCEPT !.manifest_verified = verified] ELSE old
    BY <2>1, <2>3 DEF Marked
  <2>5. PICK put : put = [old EXCEPT !.manifest_verified = verified]
    OBVIOUS
  <2>6. put = RowOf(old.sequence, old.version, old.created_at, old.amount, verified)
    <3>1. old = RowOf(old.sequence, old.version, old.created_at, old.amount, old.manifest_verified)
      BY <2>2, RowIs DEF RowOf, Renumbered
    <3> QED
      BY <2>5, <3>1 DEF RowOf
  <2>7. /\ put \in RowType /\ put.sequence = old.sequence /\ put.version = old.version
        /\ put.created_at = old.created_at /\ put.amount = old.amount
    BY <2>2, <2>6, RowIs DEF RowOf, RowType
  <2>8. put.manifest_verified = verified
    BY <2>6 DEF RowOf
  <2>9. CASE ManifestOf[t] = hash
    <3>1. new = put
      BY <2>4, <2>5, <2>9
    <3> QED
      BY <2>1, <2>3, <2>7, <2>8, <2>9, <3>1
  <2>10. CASE ManifestOf[t] # hash
    <3>1. new = old
      BY <2>4, <2>10
    <3> QED
      BY <2>1, <2>2, <2>3, <2>10, <3>1
  <2> QED
    BY <2>9, <2>10
<1> QED
  BY <1>1, <1>2

LEMMA ClaimArtifactsKeeps ==
  ASSUME Orderly, NEW S \in SUBSET Hashes, ClaimArtifacts(S)
  PROVE  Orderly' /\ MarksStay /\ (Current => Current')
<1>1. /\ UNCHANGED <<chain, last_block, tasks, syncs, syncWrote>> /\ proven' = proven /\ step' = step
      /\ jobs' = [hash \in Hashes |-> IF hash \in S
                                      THEN [status |-> "RUNNING", attempts |-> jobs[hash].attempts + 1]
                                      ELSE jobs[hash]]
      /\ batch' = [hash \in S |-> jobs[hash].attempts + 1] /\ DOMAIN batch = {}
  BY DEF ClaimArtifacts, rowVars
<1>2. TypeOK
  BY DEF Orderly
<1>3. jobs \in [Hashes -> [status : JobStatuses, attempts : Nat]]
  BY <1>2 DEF TypeOK
<1>4. \A hash \in Hashes : jobs[hash].attempts + 1 \in Nat
  BY <1>3
<1>5. jobs' \in [Hashes -> [status : JobStatuses, attempts : Nat]]
  BY <1>1, <1>3, <1>4 DEF JobStatuses
<1>6. DOMAIN batch' \subseteq Hashes /\ \A other \in DOMAIN batch' : batch'[other] \in Nat
  BY <1>1, <1>4
<1>7. step'.hash = Nothing /\ proven' \subseteq Hashes
  BY <1>1, <1>2 DEF TypeOK
<1> QED
  BY <1>1, <1>5, <1>6, <1>7, WorkerKeeps

LEMMA UnavailableKeeps ==
  ASSUME Orderly, NEW hash \in Hashes, Unavailable(hash)
  PROVE  Orderly' /\ MarksStay /\ (Current => Current')
<1>1. UNCHANGED <<chain, last_block, tasks, syncs, syncWrote>> /\ proven' = proven
  BY DEF Unavailable, rowVars
<1>2. TypeOK /\ proven \subseteq Hashes
  BY DEF Orderly, TypeOK
<1>3. PICK status \in JobStatuses : Finish(hash, status)
  <2>1. "FAILED_FINAL" \in JobStatuses /\ "FAILED_RETRYABLE" \in JobStatuses
    BY DEF JobStatuses
  <2>2. CASE batch[hash] >= maxAttempts
    BY <2>1, <2>2 DEF Unavailable
  <2>3. CASE ~(batch[hash] >= maxAttempts)
    BY <2>1, <2>3 DEF Unavailable
  <2> QED
    BY <2>2, <2>3
<1> QED
  BY <1>1, <1>2, <1>3, FinishTypes, WorkerKeeps

LEMMA InvalidKeeps ==
  ASSUME Orderly, NEW hash \in Hashes, Invalid(hash)
  PROVE  Orderly' /\ MarksStay /\ (Current => Current')
<1>1. UNCHANGED <<chain, last_block, tasks, syncs, syncWrote>> /\ proven' = proven \cup {hash}
      /\ Finish(hash, "FAILED_FINAL")
  BY DEF Invalid, rowVars
<1>2. TypeOK /\ proven' \subseteq Hashes /\ "FAILED_FINAL" \in JobStatuses
  BY <1>1 DEF Orderly, TypeOK, JobStatuses
<1>3. /\ jobs' \in [Hashes -> [status : JobStatuses, attempts : Nat]]
      /\ DOMAIN batch' \subseteq Hashes /\ \A other \in DOMAIN batch' : batch'[other] \in Nat
      /\ step'.hash = Nothing
  BY <1>1, <1>2, FinishTypes
<1> QED
  BY <1>1, <1>2, <1>3, WorkerKeeps

LEMMA VerifiedKeeps ==
  ASSUME Orderly, NEW hash \in Hashes, Verified(hash)
  PROVE  Orderly' /\ MarksStay /\ (Current => Current')
<1>1. UNCHANGED <<chain, last_block, tasks, syncs, syncWrote>> /\ proven' = proven
      /\ Finish(hash, "DONE")
  BY DEF Verified, rowVars
<1>2. TypeOK /\ proven' \subseteq Hashes /\ "DONE" \in JobStatuses
  BY <1>1 DEF Orderly, TypeOK, JobStatuses
<1>3. /\ jobs' \in [Hashes -> [status : JobStatuses, attempts : Nat]]
      /\ DOMAIN batch' \subseteq Hashes /\ \A other \in DOMAIN batch' : batch'[other] \in Nat
      /\ step'.hash = Nothing
  BY <1>1, <1>2, FinishTypes
<1> QED
  BY <1>1, <1>2, <1>3, WorkerKeeps

LEMMA UpsertArtifactKeeps ==
  ASSUME Orderly, NEW hash \in Hashes, UpsertArtifact(hash)
  PROVE  Orderly' /\ MarksStay /\ (Current => Current')
<1>1. UNCHANGED <<chain, last_block, tasks, syncs, syncWrote>> /\ proven' = proven \cup {hash}
      /\ step'.hash = hash /\ jobs' = jobs /\ batch' = batch /\ hash \in DOMAIN batch
  BY DEF UpsertArtifact, rowVars, Fetching
<1>2. TypeOK
  BY DEF Orderly
<1>3. /\ jobs' \in [Hashes -> [status : JobStatuses, attempts : Nat]]
      /\ DOMAIN batch' \subseteq Hashes /\ \A other \in DOMAIN batch' : batch'[other] \in Nat
      /\ proven' \subseteq Hashes
  BY <1>1, <1>2 DEF TypeOK
<1> QED
  BY <1>1, <1>3, WorkerKeeps

LEMMA CrashKeeps ==
  ASSUME Orderly, Crash
  PROVE  Orderly' /\ MarksStay /\ (Current => Current')
<1>1. UNCHANGED <<chain, last_block, tasks, syncs, syncWrote>> /\ proven' = proven /\ jobs' = jobs
      /\ batch' = <<>> /\ step'.hash = Nothing
  BY DEF Crash, rowVars, Idle
<1>2. DOMAIN batch' = {}
  BY <1>1
<1>3. jobs' \in [Hashes -> [status : JobStatuses, attempts : Nat]] /\ proven' \subseteq Hashes
  BY <1>1 DEF Orderly, TypeOK
<1> QED
  BY <1>1, <1>2, <1>3, WorkerKeeps

LEMMA ReapLeaseKeeps ==
  ASSUME Orderly, NEW hash \in Hashes, ReapLease(hash)
  PROVE  Orderly' /\ MarksStay /\ (Current => Current')
<1>1. UNCHANGED <<chain, last_block, tasks, syncs, syncWrote>> /\ proven' = proven /\ step' = step
      /\ batch' = batch
      /\ jobs' = [jobs EXCEPT ![hash] =
                    [status |-> IF jobs[hash].attempts + 1 < MAX_ATTEMPTS
                                THEN "FAILED_RETRYABLE" ELSE "FAILED_FINAL",
                     attempts |-> @.attempts + 1]]
  BY DEF ReapLease, rowVars, artifactVars
<1>2. TypeOK
  BY DEF Orderly
<1>3. jobs \in [Hashes -> [status : JobStatuses, attempts : Nat]]
  BY <1>2 DEF TypeOK
<1>4. jobs[hash].attempts + 1 \in Nat
  BY <1>3
<1>5. jobs' \in [Hashes -> [status : JobStatuses, attempts : Nat]]
  BY <1>1, <1>3, <1>4 DEF JobStatuses
<1>6. /\ DOMAIN batch' \subseteq Hashes /\ \A other \in DOMAIN batch' : batch'[other] \in Nat
      /\ step'.hash \in {Nothing} \cup DOMAIN batch' /\ step'.hash \in {Nothing} \cup proven'
      /\ proven' \subseteq Hashes
  BY <1>1, <1>2 DEF Orderly, TypeOK
<1> QED
  BY <1>1, <1>5, <1>6, WorkerKeeps

(* A row that was shown verified stays so.                                   *)
ShownStays ==
  \A task \in DOMAIN tasks :
    tasks[task].manifest_verified =>
      /\ task \in DOMAIN tasks' /\ tasks'[task].manifest_verified
      /\ ManifestOf[task] \in proven'

LEMMA ShownIfKept ==
  ASSUME Orderly', MarksStay
  PROVE  ShownStays
  BY DEF Orderly, MarksStay, ShownStays

LEMMA MismatchKeeps ==
  ASSUME Orderly, NEW hash \in Hashes, Mismatch(hash)
  PROVE  Orderly' /\ ShownStays /\ (Current => Current')
<1>1. UNCHANGED <<chain, last_block, syncs, syncWrote>> /\ proven' = proven
      /\ Finish(hash, "FAILED_FINAL") /\ tasks' = RecordMismatch(hash)
  BY DEF Mismatch
<1>2. TypeOK /\ proven' \subseteq Hashes /\ "FAILED_FINAL" \in JobStatuses
      /\ syncWrote \subseteq DOMAIN tasks
  BY <1>1 DEF Orderly, TypeOK, JobStatuses
<1>3. /\ jobs' \in [Hashes -> [status : JobStatuses, attempts : Nat]]
      /\ DOMAIN batch' \subseteq Hashes /\ \A other \in DOMAIN batch' : batch'[other] \in Nat
      /\ step'.hash = Nothing
  BY <1>1, <1>2, FinishTypes
<1>4. CASE hash \in proven
  <2>1. tasks' = tasks
    BY <1>1, <1>4 DEF RecordMismatch
  <2>2. Orderly' /\ MarksStay /\ (Current => Current')
    BY <1>1, <1>2, <1>3, <2>1, WorkerKeeps
  <2> QED
    BY <2>2, ShownIfKept
<1>5. CASE hash \notin proven
  <2>1. PICK no \in BOOLEAN : ~no /\ tasks' = Marked(hash, no)
    BY <1>1, <1>5 DEF RecordMismatch
  <2>2. /\ DOMAIN tasks' = DOMAIN tasks
        /\ \A t \in DOMAIN tasks :
             /\ tasks'[t] \in RowType
             /\ tasks'[t].sequence = tasks[t].sequence /\ tasks'[t].version = tasks[t].version
             /\ tasks'[t].created_at = tasks[t].created_at /\ tasks'[t].amount = tasks[t].amount
             /\ tasks'[t].manifest_verified
                  <=> (IF ManifestOf[t] = hash THEN no ELSE tasks[t].manifest_verified)
    BY <2>1, MarkedIs
  <2>3. Marks
    BY <1>1, <2>2 DEF Marks
  <2>4. Lawful' /\ Projected(tasks, last_block)' /\ (Current => Current')
    BY <2>3, MarksKeep DEF Orderly
  <2>5. \A t \in DOMAIN tasks : tasks[t].manifest_verified =>
          ManifestOf[t] \in proven /\ ManifestOf[t] # hash
    BY <1>5 DEF Orderly
  <2>6. \A t \in DOMAIN tasks' : tasks'[t].manifest_verified => ManifestOf[t] \in proven'
    BY <1>1, <2>1, <2>2, <2>5
  <2>7. ShownStays
    BY <1>1, <2>2, <2>5 DEF ShownStays
  <2>8. TypeOK'
    BY <1>1, <1>2, <1>3, <2>2 DEF TypeOK, head
  <2> QED
    BY <1>3, <2>4, <2>6, <2>7, <2>8 DEF Orderly
<1> QED
  BY <1>4, <1>5

LEMMA DenormaliseManifestKeeps ==
  ASSUME ReadModelAssumption, Orderly, NEW hash \in Hashes, DenormaliseManifest(hash)
  PROVE  Orderly' /\ ShownStays /\ (Current => Current')
<1>1. UNCHANGED <<chain, last_block, syncs, syncWrote>> /\ proven' = proven /\ jobs' = jobs
      /\ batch' = batch /\ step.hash = hash /\ step' = [step EXCEPT !.stored = TRUE]
  BY DEF DenormaliseManifest
<1>2. PICK yes \in BOOLEAN : yes /\ tasks' = Marked(hash, yes)
  BY DEF DenormaliseManifest
<1>3. hash \in proven /\ TypeOK /\ hash \in DOMAIN batch /\ syncWrote \subseteq DOMAIN tasks
  BY <1>1 DEF Orderly, ReadModelAssumption, TypeOK
<1>4. step'.hash = hash
  <2>1. PICK old : old = step
    OBVIOUS
  <2>2. PICK no : no = FALSE
    OBVIOUS
  <2>3. old = [hash |-> hash, stored |-> no]
    BY <2>1, <2>2 DEF DenormaliseManifest
  <2>4. [old EXCEPT !.stored = TRUE].hash = hash
    BY <2>3
  <2> QED
    BY <1>1, <2>1, <2>4
<1>5. /\ DOMAIN tasks' = DOMAIN tasks
      /\ \A t \in DOMAIN tasks :
           /\ tasks'[t] \in RowType
           /\ tasks'[t].sequence = tasks[t].sequence /\ tasks'[t].version = tasks[t].version
           /\ tasks'[t].created_at = tasks[t].created_at /\ tasks'[t].amount = tasks[t].amount
           /\ tasks'[t].manifest_verified
                <=> (IF ManifestOf[t] = hash THEN yes ELSE tasks[t].manifest_verified)
  <2>1. PICK rows : rows = Marked(hash, yes)
    OBVIOUS
  <2>2. /\ DOMAIN rows = DOMAIN tasks
        /\ \A t \in DOMAIN tasks :
             /\ rows[t] \in RowType
             /\ rows[t].sequence = tasks[t].sequence /\ rows[t].version = tasks[t].version
             /\ rows[t].created_at = tasks[t].created_at /\ rows[t].amount = tasks[t].amount
             /\ rows[t].manifest_verified
                  <=> (IF ManifestOf[t] = hash THEN yes ELSE tasks[t].manifest_verified)
    BY <2>1, MarkedIs
  <2> QED
    BY <1>2, <2>1, <2>2
<1>6. Marks
  BY <1>1, <1>5 DEF Marks
<1>7. Lawful' /\ Projected(tasks, last_block)' /\ (Current => Current')
  BY <1>6, MarksKeep DEF Orderly
<1>8. \A t \in DOMAIN tasks' : tasks'[t].manifest_verified => ManifestOf[t] \in proven'
  BY <1>1, <1>3, <1>5 DEF Orderly
<1>9. ShownStays
  BY <1>1, <1>2, <1>5, <1>8 DEF ShownStays
<1>10. TypeOK'
  BY <1>1, <1>3, <1>4, <1>5 DEF TypeOK, head
<1> QED
  BY <1>1, <1>3, <1>4, <1>7, <1>8, <1>9, <1>10 DEF Orderly

-----------------------------------------------------------------------------
(* Every step.                                                               *)

LEMMA StepKeeps ==
  ASSUME ReadModelAssumption, Orderly, [Next]_vars
  PROVE  /\ Orderly' /\ ShownStays
         /\ NodeLag <= Confirmations /\ Current => Current'
<1>1. ASSUME NEW task \in Tasks, NEW kind \in Kinds, MineBlock(task, kind)
      PROVE  Orderly' /\ ShownStays /\ (Current => Current')
  <2>1. Orderly' /\ (Current => Current')
    BY <1>1, MineBlockKeeps
  <2>2. MarksStay
    BY <1>1 DEF MineBlock, rowVars, MarksStay
  <2> QED
    BY <2>1, <2>2, ShownIfKept
<1>2. ASSUME NEW sawHead \in SeenHeads, Pass(sawHead)
      PROVE  Orderly' /\ ShownStays /\ (NodeLag <= Confirmations /\ Current => Current')
  <2>1. Orderly' /\ MarksStay /\ (NodeLag <= Confirmations /\ Current => Current')
    BY <1>2, PassKeeps
  <2> QED
    BY <2>1, ShownIfKept
<1>3. ASSUME NEW task \in Tasks, NEW h \in Greatest(head - NodeLag, 0)..head, SyncReads(task, h)
      PROVE  Orderly' /\ ShownStays /\ (Current => Current')
  <2>1. h \in Nat
    BY Typed DEF Orderly, Greatest, ReadModelAssumption
  <2>2. Orderly' /\ (Current => Current')
    BY <1>3, <2>1, SyncReadsKeeps
  <2>3. MarksStay
    BY <1>3 DEF SyncReads, rowVars, MarksStay
  <2> QED
    BY <2>2, <2>3, ShownIfKept
<1>4. ASSUME NEW n \in 1..Len(syncs), NEW a \in syncs[n].height..head, SyncWrites(n, a)
      PROVE  Orderly' /\ ShownStays /\ (Current => Current')
  <2>1. Orderly' /\ (Current => Current')
    BY <1>4, SyncWritesKeeps
  <2>2. PICK task, row : task = syncs[n].task /\ row = tasks'[task]
    OBVIOUS
  <2>3. tasks' = PutRow(tasks, task, row)
        /\ (task \in DOMAIN tasks => row.manifest_verified = tasks[task].manifest_verified)
    BY <1>4, <2>2, SyncRow
  <2>4. MarksStay
    BY <2>3 DEF PutRow, MarksStay
  <2> QED
    BY <2>1, <2>4, ShownIfKept
<1>5. ASSUME NEW S \in SUBSET Hashes, ClaimArtifacts(S)
      PROVE  Orderly' /\ ShownStays /\ (Current => Current')
  BY <1>5, ClaimArtifactsKeeps, ShownIfKept
<1>6. ASSUME NEW hash \in Hashes, WorksOn(hash) \/ ReapLease(hash)
      PROVE  Orderly' /\ ShownStays /\ (Current => Current')
  <2>1. CASE Unavailable(hash)
    BY <2>1, UnavailableKeeps, ShownIfKept
  <2>2. CASE Mismatch(hash)
    BY <2>2, MismatchKeeps
  <2>3. CASE Invalid(hash)
    BY <2>3, InvalidKeeps, ShownIfKept
  <2>4. CASE UpsertArtifact(hash)
    BY <2>4, UpsertArtifactKeeps, ShownIfKept
  <2>5. CASE DenormaliseManifest(hash)
    BY <2>5, DenormaliseManifestKeeps
  <2>6. CASE Verified(hash)
    BY <2>6, VerifiedKeeps, ShownIfKept
  <2>7. CASE ReapLease(hash)
    BY <2>7, ReapLeaseKeeps, ShownIfKept
  <2> QED
    BY <1>6, <2>1, <2>2, <2>3, <2>4, <2>5, <2>6, <2>7 DEF WorksOn
<1>7. CASE Crash
  BY <1>7, CrashKeeps, ShownIfKept
<1>8. CASE UNCHANGED vars
  <2>1. /\ UNCHANGED <<chain, last_block, tasks, syncs, syncWrote>> /\ proven' = proven
        /\ jobs' = jobs /\ batch' = batch /\ step' = step
    BY <1>8 DEF vars, rowVars, artifactVars
  <2>2. /\ jobs' \in [Hashes -> [status : JobStatuses, attempts : Nat]]
        /\ DOMAIN batch' \subseteq Hashes /\ \A other \in DOMAIN batch' : batch'[other] \in Nat
        /\ step'.hash \in {Nothing} \cup DOMAIN batch' /\ step'.hash \in {Nothing} \cup proven
        /\ proven' \subseteq Hashes
    BY <2>1 DEF Orderly, TypeOK
  <2>3. Orderly' /\ MarksStay /\ (Current => Current')
    BY <2>1, <2>2, WorkerKeeps
  <2> QED
    BY <2>3, ShownIfKept
<1> QED
  BY <1>1, <1>2, <1>3, <1>4, <1>5, <1>6, <1>7, <1>8 DEF Next

(* It all holds at first.                                                    *)
LEMMA Starts ==
  ASSUME ReadModelAssumption, Init
  PROVE  Orderly /\ Current
<1>1. /\ chain = <<>> /\ last_block = 0 /\ tasks = <<>> /\ syncWrote = {} /\ syncs = <<>>
      /\ jobs = [hash \in Hashes |-> NoArtifactJob] /\ proven = {} /\ batch = <<>> /\ step.hash = Nothing
  BY DEF Init, Idle
<1>2. head = 0 /\ DOMAIN tasks = {} /\ DOMAIN batch = {}
  BY <1>1 DEF head
<1>3. RankedTasks(0) = {} /\ Numbered(tasks)
  <2>1. Cardinality(DOMAIN tasks) = 0
    BY <1>2, FS_EmptySet
  <2>2. {tasks[task].sequence : task \in DOMAIN tasks} = {}
    BY <1>2
  <2>3. 0..(0 - 1) = {}
    OBVIOUS
  <2>4. RankedTasks(0) = {}
    BY DEF RankedTasks
  <2>5. Numbered(tasks)
    BY <2>1, <2>2, <2>3 DEF Numbered
  <2> QED
    BY <2>4, <2>5
<1>4. Projected(tasks, last_block)
  BY <1>1, <1>2, <1>3, FS_EmptySet DEF Projected, Dated
<1>5. TypeOK
  <2>1. chain \in Seq([task : Tasks, kind : Kinds])
    BY <1>1
  <2>2. syncs \in Seq([task : Tasks, height : Nat, done : BOOLEAN])
    BY <1>1
  <2>3. jobs \in [Hashes -> [status : JobStatuses, attempts : Nat]]
    BY <1>1 DEF NoArtifactJob, JobStatuses
  <2> QED
    BY <1>1, <1>2, <2>1, <2>2, <2>3 DEF TypeOK
<1>6. Lawful
  BY <1>2 DEF Lawful
<1>7. Current
  BY <1>1, <1>2, <1>3 DEF Current, RowsFollowLogs, Owed
<1> QED
  BY <1>1, <1>2, <1>4, <1>5, <1>6, <1>7 DEF Orderly

(* The invariant that needs no bound on the lag of a node.                   *)
LEMMA OrderlyInvariant == Spec => []Orderly
<1>1. Init => Orderly
  BY Starts, ReadModelAssumption
<1>2. Orderly /\ [Next]_vars => Orderly'
  BY StepKeeps, ReadModelAssumption
<1> QED
  BY <1>1, <1>2, PTL DEF Spec

(* And the one that needs it.                                                *)
LEMMA CurrentInvariant ==
  ASSUME NodeLag <= Confirmations
  PROVE  Spec => [](Orderly /\ Current)
<1>1. Init => Orderly /\ Current
  BY Starts, ReadModelAssumption
<1>2. Orderly /\ Current /\ [Next]_vars => (Orderly /\ Current)'
  BY StepKeeps, ReadModelAssumption
<1> QED
  BY <1>1, <1>2, PTL DEF Spec

(* However passes and syncs interleave and however far nodes lag, the rows are *)
(* numbered 0, 1, 2, ... with none left parked.                              *)
THEOREM RowsAreNumbered == Spec => [](TypeOK /\ NumbersAreSlots)
<1>1. Orderly => TypeOK /\ NumbersAreSlots
  BY DEF Orderly, Projected, Numbered, NumbersAreSlots
<1> QED
  BY <1>1, OrderlyInvariant, PTL

(* While nodes lag no more than the indexer waits for confirmations, no row is *)
(* older than the logs that were scanned unless a sync wrote it.             *)
THEOREM RowsSound ==
  ASSUME NodeLag <= Confirmations
  PROVE  Spec => []RowsAreSound
<1>1. Orderly /\ Current => RowsAreSound
  BY DEF Orderly, Projected, Numbered, NumbersAreSlots, Current, RowsAreSound
<1> QED
  BY <1>1, CurrentInvariant, PTL

(* Under the same condition the allocations of a row are what the chain owed   *)
(* at some height since the last scanned, as long as nothing was claimed and   *)
(* no sync wrote them.                                                       *)
THEOREM LedgerReads ==
  ASSUME NodeLag <= Confirmations
  PROVE  Spec => []LedgerIsAReading
<1>1. Orderly /\ Current => LedgerIsAReading
  <2> SUFFICES ASSUME Orderly, Current PROVE LedgerIsAReading
    OBVIOUS
  <2>1. ChainType /\ Lawful /\ last_block \in 0..head /\ head \in Nat
    BY Typed DEF Orderly
  <2>2. ASSUME NEW task \in DOMAIN tasks, ~Excused(task)
        PROVE  \E h \in last_block..head : tasks[task].amount = Outstanding(task, h)
    <3>1. PICK h \in last_block..head : tasks[task].amount = Standing(task, h)
      BY <2>2 DEF Current, Owed
    <3>2. h \in 0..head
      BY <2>1
    <3>3. Outstanding(task, h) = Standing(task, h)
      BY <2>1, <3>2, OutstandingIs
    <3> QED
      BY <3>1, <3>3
  <2>3. \A task : Excused(task) => Happened(task, {"claimed"})
          \/ \E n \in 1..Len(syncs) : syncs[n].task = task /\ syncs[n].done
    BY DEF Excused, Before, Happened
  <2> QED
    BY <2>2, <2>3 DEF LedgerIsAReading
<1> QED
  BY <1>1, CurrentInvariant, PTL

(* Whatever syncs wrote, a pass over confirmed blocks whose reads are current  *)
(* ends without a statement that throws.                                     *)
THEOREM NeverStuck == Spec => []NeverWedged
<1>1. Orderly => NeverWedged
  <2> SUFFICES ASSUME Orderly, last_block < head - Confirmations
               PROVE  Ingested(head, Least(last_block + BatchSize, head - Confirmations)) # {}
    BY DEF NeverWedged
  <2>1. ChainType /\ Lawful /\ last_block \in 0..head /\ head \in Nat /\ jobs \in Queue
        /\ Projected(tasks, last_block)
    BY Typed DEF Orderly
  <2>2. PICK n, scanned : n = head /\ scanned = Least(last_block + BatchSize, head - Confirmations)
    OBVIOUS
  <2>3. n \in 0..head /\ scanned \in last_block..n
    BY <2>1, <2>2, ReadModelAssumption DEF Least, ReadModelAssumption
  <2>4. Ingested(n, scanned) # {}
    BY <2>1, <2>2, <2>3, IngestedIs, ReadModelAssumption
  <2> QED
    BY <2>2, <2>4
<1> QED
  BY <1>1, OrderlyInvariant, PTL

(* A row that was shown verified stays so, and what it shows was proven.     *)
THEOREM VerifiedSticks == Spec => VerifiedStays
<1>1. Orderly /\ [Next]_vars => [ShownStays]_vars
  BY StepKeeps, ReadModelAssumption
<1>2. Spec => [][ShownStays]_vars
  BY <1>1, OrderlyInvariant, PTL DEF Spec
<1>3. [ShownStays]_vars => [\A task \in DOMAIN tasks :
       tasks[task].manifest_verified =>
         /\ task \in DOMAIN tasks' /\ tasks'[task].manifest_verified
         /\ ManifestOf[task] \in proven']_vars
  BY DEF ShownStays
<1> QED
  BY <1>2, <1>3, PTL DEF VerifiedStays
=============================================================================

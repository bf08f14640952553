------------------------------ MODULE RiskProofs ------------------------------
(***************************************************************************)
(* Theorems about the nightly risk batch, for every content of the         *)
(* external store, every finite set of accounts, every set of batches and  *)
(* every succession of builds.                                             *)
(***************************************************************************)
EXTENDS RiskBatch, FiniteSetTheorems, TLAPS

-----------------------------------------------------------------------------
(* Induction over the subsets of a finite set, and over a range: of some   *)
(* subsets there is one that contains no other, of some integers a least.  *)

SomeSubsets(bad, S) == IsFiniteSet(S) /\ bad \in SUBSET (SUBSET S) /\ bad # {}
Smallest(T, bad)    == T \in bad /\ \A U \in bad : U \subseteq T => U = T

(* Induction over the subsets of a finite set: among the bad ones there is *)
(* one that contains no other.                                             *)
LEMMA SmallestSubset ==
  ASSUME NEW S, NEW bad, SomeSubsets(bad, S)
  PROVE  \E T : Smallest(T, bad)
<1>1. FiniteSubsetsOf(S) = SUBSET S
  BY FS_FiniteSubsetsOfFinite DEF SomeSubsets
<1>2. IsWellFoundedOn(StrictSubsetOrdering(S), SUBSET S)
  BY <1>1, FS_StrictSubsetOrderingWellFounded
<1>3. PICK T \in bad : \A U \in bad : ~(<<U, T>> \in StrictSubsetOrdering(S))
  BY <1>2, WFMin, Zenon DEF SomeSubsets
<1>4. QED
  BY <1>3 DEF StrictSubsetOrdering, SomeSubsets, Smallest

(* A finite set of integers has a greatest member.                         *)
LEMMA GreatestMember ==
  ASSUME NEW S \in SUBSET Int, IsFiniteSet(S), S # {}
  PROVE  \E x \in S : \A y \in S : x >= y
<1> DEFINE bad == {T \in SUBSET S : T # {} /\ ~\E x \in T : \A y \in T : x >= y}
<1>1. bad \in SUBSET (SUBSET S)
  OBVIOUS
<1>2. \A T \in SUBSET S :
        T \in bad <=> T # {} /\ ~\E x \in T : \A y \in T : x >= y
  OBVIOUS
<1> HIDE DEF bad
<1>3. ASSUME bad # {}
      PROVE  FALSE
  <2> SomeSubsets(bad, S)
    BY <1>1, <1>3 DEF SomeSubsets
  <2>1. PICK T : Smallest(T, bad)
    BY SmallestSubset
  <2>2. T \in SUBSET S /\ T # {} /\ ~\E x \in T : \A y \in T : x >= y
    BY <1>1, <1>2, <2>1 DEF Smallest
  <2>3. PICK t \in T : TRUE
    BY <2>2
  <2>4. T \ {t} \in SUBSET S /\ T \ {t} \notin bad
    BY <2>1, <2>2, <2>3 DEF Smallest
  <2>5. T \ {t} # {}
    BY <2>2, <2>3
  <2>6. PICK x \in T \ {t} : \A y \in T \ {t} : x >= y
    BY <1>2, <2>4, <2>5
  <2>7. x \in Int /\ t \in Int /\ \A y \in T : y \in Int
    BY <2>2, <2>3, <2>6
  <2>8. CASE x >= t
    BY <2>2, <2>6, <2>8
  <2>9. CASE t >= x
    <3>1. \A y \in T : t >= y
      BY <2>6, <2>7, <2>9
    <3>2. QED
      BY <2>2, <2>3, <3>1
  <2>10. QED
    BY <2>7, <2>8, <2>9
<1>4. QED
  BY <1>2, <1>3

(* The values of a function on a finite set.                               *)
LEMMA FiniteImage ==
  ASSUME NEW S, IsFiniteSet(S), NEW f
  PROVE  /\ IsFiniteSet({f[x] : x \in S})
         /\ Cardinality({f[x] : x \in S}) <= Cardinality(S)
<1> DEFINE g == [x \in S |-> f[x]]
           T == {f[x] : x \in S}
<1>1. g \in Surjection(S, T)
  BY DEF Surjection
<1>2. QED
  BY <1>1, FS_Surjection

(* And a least one.                                                        *)
LEMMA LeastMember ==
  ASSUME NEW S \in SUBSET Int, IsFiniteSet(S), S # {}
  PROVE  \E x \in S : \A y \in S : x =< y
<1> DEFINE f == [x \in S |-> 0 - x]
           N == {f[x] : x \in S}
<1>1. \A x \in S : f[x] = 0 - x
  OBVIOUS
<1> HIDE DEF f
<1>2. IsFiniteSet(N)
  BY FiniteImage
<1>3. N \in SUBSET Int /\ N # {}
  BY <1>1
<1>4. PICK m \in N : \A n \in N : m >= n
  BY <1>2, <1>3, GreatestMember
<1>5. PICK x \in S : m = 0 - x
  BY <1>1, <1>4
<1>6. \A y \in S : 0 - x >= 0 - y
  BY <1>1, <1>4, <1>5
<1>7. QED
  BY <1>6

(* Which are what Max and Min choose.                                      *)
LEMMA MaxMin ==
  ASSUME NEW S \in SUBSET Int, IsFiniteSet(S), S # {}
  PROVE  /\ Max(S) \in S /\ \A y \in S : Max(S) >= y
         /\ Min(S) \in S /\ \A y \in S : Min(S) =< y
<1>1. Max(S) \in S /\ \A y \in S : Max(S) >= y
  BY GreatestMember DEF Max
<1>2. Min(S) \in S /\ \A y \in S : Min(S) =< y
  BY LeastMember DEF Min
<1>3. QED
  BY <1>1, <1>2

-----------------------------------------------------------------------------
(* Sums over a finite set, as the folds of the community modules compute   *)
(* them: they exist, they are unique and they are natural.                 *)

Picked(s) == CHOOSE x \in s : TRUE

Summing(D, f, it) ==
  [s \in D |-> IF s = {} THEN 0 ELSE f[Picked(s)] + it[s \ {Picked(s)}]]

IsSum(it, S, f) == it = Summing(SUBSET S, f, it)

(* The fold adds the members up in the order in which it picks them.       *)
LEMMA PickedIn ==
  \A s : s # {} => Picked(s) \in s
  BY DEF Picked

(* A sum over a finite set exists: one over the subsets of up to k members *)
(* gives one over those of k + 1, and no size is the least to have none.   *)
LEMMA SumExists ==
  ASSUME NEW S, IsFiniteSet(S), NEW f
  PROVE  \E it : IsSum(it, S, f)
<1> DEFINE n == Cardinality(S)
           Upto(k) == {s \in SUBSET S : Cardinality(s) <= k}
           Part(k, g) == g = Summing(Upto(k), f, g)
           bad == {k \in 0..n : ~\E g : Part(k, g)}
<1>1. n \in Nat /\ \A s \in SUBSET S : /\ IsFiniteSet(s)
                                     /\ Cardinality(s) \in Nat
                                     /\ Cardinality(s) <= n
  BY FS_CardinalityType, FS_Subset
<1> HIDE DEF n
<1>2. Upto(n) = SUBSET S
  BY <1>1
<1>3. \E g : Part(0, g)
  <2> DEFINE g == [s \in Upto(0) |-> 0]
  <2>1. \A s \in Upto(0) : s = {}
    BY <1>1, FS_EmptySet
  <2>2. Summing(Upto(0), f, g) = g
    BY <2>1 DEF Summing
  <2>3. QED
    BY <2>2
<1>4. ASSUME NEW k \in Nat, NEW g, Part(k, g)
      PROVE  \E h : Part(k + 1, h)
  <2> DEFINE h == Summing(Upto(k + 1), f, g)
  <2>1. \A s \in Upto(k + 1) :
          s # {} => s \ {Picked(s)} \in Upto(k)
    <3> SUFFICES ASSUME NEW s \in SUBSET S, Cardinality(s) <= k + 1, s # {}
                 PROVE  s \ {Picked(s)} \in Upto(k)
      OBVIOUS
    <3>1. Cardinality(s \ {Picked(s)}) = Cardinality(s) - 1
      BY <1>1, PickedIn, FS_RemoveElement
    <3>2. QED
      BY <1>1, <3>1
  <2>2. \A s \in Upto(k) : s \in Upto(k + 1)
    BY <1>1
  <2> HIDE DEF Upto
  <2>3. \A s \in Upto(k) : h[s] = g[s]
    BY <1>4, <2>2 DEF Summing
  <2>4. \A s \in Upto(k + 1) :
          s # {} => h[s \ {Picked(s)}] = g[s \ {Picked(s)}]
    BY <2>1, <2>3
  <2> HIDE DEF h
  <2>5. Summing(Upto(k + 1), f, h) = Summing(Upto(k + 1), f, g)
    BY <2>4 DEF Summing
  <2>6. h = Summing(Upto(k + 1), f, g)
    BY DEF h
  <2>7. QED
    BY <2>5, <2>6
<1> HIDE DEF Part
<1>5. \A k \in Nat : k \in bad <=> k <= n /\ ~\E g : Part(k, g)
  BY <1>1
<1>6. bad \in SUBSET (0..n)
  OBVIOUS
<1> HIDE DEF bad
<1>7. bad = {}
  <2> SUFFICES ASSUME bad # {}
               PROVE  FALSE
    OBVIOUS
  <2>1. bad \in SUBSET Int /\ IsFiniteSet(bad)
    <3>1. IsFiniteSet(0..n)
      BY <1>1, FS_Interval
    <3>2. IsFiniteSet(bad)
      BY <1>6, <3>1, FS_Subset
    <3>3. \A k \in 0..n : k \in Int
      OBVIOUS
    <3>4. QED
      BY <1>6, <3>2, <3>3
  <2>2. PICK k \in bad : \A j \in bad : k =< j
    BY <2>1, LeastMember
  <2>3. k \in Nat /\ k <= n /\ ~\E g : Part(k, g)
    BY <1>1, <1>5, <1>6
  <2>4. k # 0
    BY <1>3, <2>3
  <2>5. k - 1 \in Nat /\ k - 1 <= n /\ k - 1 \notin bad
    BY <1>1, <2>2, <2>3, <2>4
  <2>6. PICK g : Part(k - 1, g)
    BY <1>5, <2>5
  <2>7. \E h : Part((k - 1) + 1, h)
    BY <1>4, <2>5, <2>6
  <2>8. (k - 1) + 1 = k
    BY <2>3
  <2>9. QED
    BY <2>3, <2>7, <2>8
<1>8. PICK g : Part(n, g)
  BY <1>1, <1>5, <1>7
<1>9. QED
  BY <1>2, <1>8 DEF IsSum, Part

(* What adds naturals up is a natural.                                     *)
LEMMA SumInNat ==
  ASSUME NEW S, IsFiniteSet(S), NEW f, \A x \in S : f[x] \in Nat,
         NEW it, IsSum(it, S, f)
  PROVE  it[S] \in Nat
<1> DEFINE bad == {s \in SUBSET S : it[s] \notin Nat}
<1>1. \A s \in SUBSET S :
        it[s] = IF s = {} THEN 0 ELSE f[Picked(s)] + it[s \ {Picked(s)}]
  BY DEF IsSum, Summing
<1>2. ASSUME bad # {}
      PROVE  FALSE
  <2>1. SomeSubsets(bad, S)
    BY <1>2 DEF SomeSubsets
  <2>2. PICK T : Smallest(T, bad)
    BY <2>1, SmallestSubset
  <2>3. T \in SUBSET S /\ it[T] \notin Nat
    BY <2>2 DEF Smallest
  <2>4. T # {} /\ it[T] = f[Picked(T)] + it[T \ {Picked(T)}]
    BY <1>1, <2>3
  <2>5. Picked(T) \in T /\ f[Picked(T)] \in Nat
    BY <2>3, <2>4, PickedIn
  <2>6. T \ {Picked(T)} \in SUBSET S /\ T \ {Picked(T)} \notin bad
    BY <2>2, <2>3, <2>5 DEF Smallest
  <2>7. it[T \ {Picked(T)}] \in Nat
    BY <2>6
  <2>8. QED
    BY <2>3, <2>4, <2>5, <2>7
<1>3. QED
  BY <1>2

(* There is one sum only, so that equal terms have equal sums.             *)
LEMMA SumUnique ==
  ASSUME NEW S, IsFiniteSet(S), NEW f, NEW g, \A x \in S : f[x] = g[x],
         NEW it, IsSum(it, S, f), NEW jt, IsSum(jt, S, g)
  PROVE  it[S] = jt[S]
<1> DEFINE bad == {s \in SUBSET S : it[s] # jt[s]}
<1>1. \A s \in SUBSET S :
        /\ it[s] = IF s = {} THEN 0 ELSE f[Picked(s)] + it[s \ {Picked(s)}]
        /\ jt[s] = IF s = {} THEN 0 ELSE g[Picked(s)] + jt[s \ {Picked(s)}]
  BY DEF IsSum, Summing
<1>2. ASSUME bad # {}
      PROVE  FALSE
  <2>1. SomeSubsets(bad, S)
    BY <1>2 DEF SomeSubsets
  <2>2. PICK T : Smallest(T, bad)
    BY <2>1, SmallestSubset
  <2>3. T \in SUBSET S /\ it[T] # jt[T]
    BY <2>2 DEF Smallest
  <2>4. /\ T # {}
        /\ it[T] = f[Picked(T)] + it[T \ {Picked(T)}]
        /\ jt[T] = g[Picked(T)] + jt[T \ {Picked(T)}]
    BY <1>1, <2>3
  <2>5. Picked(T) \in T /\ f[Picked(T)] = g[Picked(T)]
    BY <2>3, <2>4, PickedIn
  <2>6. T \ {Picked(T)} \in SUBSET S /\ T \ {Picked(T)} \notin bad
    BY <2>2, <2>3, <2>5 DEF Smallest
  <2>7. it[T \ {Picked(T)}] = jt[T \ {Picked(T)}]
    BY <2>6
  <2>8. QED
    BY <2>3, <2>4, <2>5, <2>7
<1>3. QED
  BY <1>2

-----------------------------------------------------------------------------
(* The graph of some transfers.                                            *)

(* A finite log has finitely many accounts in it, and each has finitely    *)
(* many counterparties (graph.py:167-181, batch.py:93-98).                 *)
LEMMA GraphFinite ==
  ASSUME NEW ts \in SUBSET Transfer, NEW a
  PROVE  /\ Members(ts) \in SUBSET Accounts /\ IsFiniteSet(Members(ts))
         /\ Counterparties(ts, a) \in SUBSET Members(ts)
         /\ IsFiniteSet(Counterparties(ts, a))
<1>1. \A t \in ts : t.src \in Accounts /\ t.dst \in Accounts
  BY DEF Transfer
<1>2. Members(ts) \in SUBSET Accounts
  BY <1>1 DEF Members
<1>3. Counterparties(ts, a) \in SUBSET Members(ts)
  BY DEF Counterparties, Members
<1>4. QED
  BY <1>2, <1>3, AccountsAssumption, FS_Subset

(* An account takes part in a natural number of transactions               *)
(* (batch.py:94-101).                                                      *)
LEMMA TxnCountNatural ==
  ASSUME NEW ts \in SUBSET Transfer, IsFiniteSet(ts), NEW a
  PROVE  TxnCount(ts, a) \in Nat
<1> DEFINE S == {t \in ts : a \in {t.src, t.dst}}
           f == [t \in S |-> t.count]
           Counting(it) ==
             [s \in SUBSET S |->
                IF s = {} THEN 0
                ELSE (CHOOSE x \in s : TRUE).count
                       + it[s \ {CHOOSE x \in s : TRUE}]]
           sum == CHOOSE it : it = Counting(it)
<1>1. IsFiniteSet(S)
  BY FS_Subset
<1>2. \A t \in S : f[t] = t.count /\ t.count \in Nat
  BY DEF Transfer
<1>3. TxnCount(ts, a) = sum[S]
  BY DEF TxnCount, MapThenSumSet, MapThenFoldSet
<1> HIDE DEF S, f
<1>4. \A it : Counting(it) = Summing(SUBSET S, f, it)
  BY <1>2, PickedIn DEF Summing, Picked
<1>5. PICK it : IsSum(it, S, f)
  BY <1>1, SumExists
<1>6. it = Counting(it)
  BY <1>4, <1>5 DEF IsSum
<1>7. sum = Counting(sum)
  BY <1>6
<1> HIDE DEF sum
<1>8. IsSum(sum, S, f)
  BY <1>4, <1>7 DEF IsSum
<1>9. QED
  BY <1>1, <1>2, <1>3, <1>8, SumInNat

(* The values of a function to naturals add up to one.                     *)
LEMMA TotalNatural ==
  ASSUME NEW g, IsFiniteSet(DOMAIN g), \A k \in DOMAIN g : g[k] \in Nat
  PROVE  Total(g) \in Nat
<1> DEFINE S == DOMAIN g
           f == [k \in S |-> g[k]]
           Counting(it) ==
             [s \in SUBSET S |->
                IF s = {} THEN 0
                ELSE g[CHOOSE x \in s : TRUE] + it[s \ {CHOOSE x \in s : TRUE}]]
           sum == CHOOSE it : it = Counting(it)
<1>1. \A k \in S : f[k] = g[k] /\ f[k] \in Nat
  OBVIOUS
<1>2. Total(g) = sum[S]
  BY DEF Total, MapThenSumSet, MapThenFoldSet
<1> HIDE DEF S, f
<1>3. \A it : Counting(it) = Summing(SUBSET S, f, it)
  BY <1>1, PickedIn DEF Summing, Picked
<1>4. PICK it : IsSum(it, S, f)
  BY SumExists DEF S
<1>5. it = Counting(it)
  BY <1>3, <1>4 DEF IsSum
<1>6. sum = Counting(sum)
  BY <1>5
<1> HIDE DEF sum
<1>7. IsSum(sum, S, f)
  BY <1>3, <1>6 DEF IsSum
<1>8. QED
  BY <1>1, <1>2, <1>7, SumInNat DEF S

(* One more step of the walks.                                             *)
Onward(walks, k, s, C) == MapThenSumSet(LAMBDA v : walks[k][s][v], C)

(* It is the sum over the neighbours.                                      *)
LEMMA OnwardSums ==
  ASSUME NEW C, IsFiniteSet(C), NEW walks, NEW k, NEW s
  PROVE  \E it : /\ IsSum(it, C, [v \in C |-> walks[k][s][v]])
                 /\ Onward(walks, k, s, C) = it[C]
<1> DEFINE f == [v \in C |-> walks[k][s][v]]
           Counting(it) ==
             [r \in SUBSET C |->
                IF r = {} THEN 0
                ELSE walks[k][s][CHOOSE x \in r : TRUE]
                       + it[r \ {CHOOSE x \in r : TRUE}]]
           sum == CHOOSE it : it = Counting(it)
<1>1. Onward(walks, k, s, C) = sum[C]
  BY DEF Onward, MapThenSumSet, MapThenFoldSet
<1>2. \A v \in C : f[v] = walks[k][s][v]
  OBVIOUS
<1> HIDE DEF f
<1>4. \A it : Counting(it) = Summing(SUBSET C, f, it)
  BY <1>2, PickedIn DEF Summing, Picked
<1>5. PICK it : IsSum(it, C, f)
  BY SumExists
<1>6. it = Counting(it)
  BY <1>4, <1>5 DEF IsSum
<1>7. sum = Counting(sum)
  BY <1>6
<1> HIDE DEF sum
<1>8. IsSum(sum, C, f)
  BY <1>4, <1>7 DEF IsSum
<1>9. QED
  BY <1>1, <1>8 DEF f

(* A natural number of walks, if so many lead to each neighbour.           *)
LEMMA OnwardNatural ==
  ASSUME NEW C, IsFiniteSet(C), NEW walks, NEW k, NEW s,
         \A v \in C : walks[k][s][v] \in Nat
  PROVE  Onward(walks, k, s, C) \in Nat
<1> DEFINE f == [v \in C |-> walks[k][s][v]]
<1>1. \A v \in C : f[v] \in Nat
  OBVIOUS
<1>2. PICK it : IsSum(it, C, f) /\ Onward(walks, k, s, C) = it[C]
  BY OnwardSums
<1> HIDE DEF f
<1>3. QED
  BY <1>1, <1>2, SumInNat

(* It depends on the shorter walks only.                                   *)
LEMMA OnwardSame ==
  ASSUME NEW C, IsFiniteSet(C), NEW walks, NEW others, NEW k, NEW s,
         \A v \in C : walks[k][s][v] = others[k][s][v]
  PROVE  Onward(walks, k, s, C) = Onward(others, k, s, C)
<1> DEFINE f == [v \in C |-> walks[k][s][v]]
           g == [v \in C |-> others[k][s][v]]
<1>1. \A v \in C : f[v] = g[v]
  OBVIOUS
<1>2. PICK it : IsSum(it, C, f) /\ Onward(walks, k, s, C) = it[C]
  BY OnwardSums
<1>3. PICK jt : IsSum(jt, C, g) /\ Onward(others, k, s, C) = jt[C]
  BY OnwardSums
<1> HIDE DEF f, g
<1>4. QED
  BY <1>1, <1>2, <1>3, SumUnique

(* Walks of k steps from those of one step less, and so for every k in D.  *)
Walking(ts, walks, k) ==
  [s \in Members(ts) |-> [t \in Members(ts) |->
     IF k = 0 THEN (IF s = t THEN 1 ELSE 0)
     ELSE Onward(walks, k - 1, s, Counterparties(ts, t))]]

Tabulated(ts, D, walks) == [k \in D |-> Walking(ts, walks, k)]

(* The recursion by length has a solution, up to every length.             *)
LEMMA WalksExist ==
  ASSUME NEW ts \in SUBSET Transfer, NEW n \in Nat
  PROVE  \E walks : walks = Tabulated(ts, 0..n, walks)
<1> DEFINE Part(k, g) == g = Tabulated(ts, 0..k, g)
           bad == {k \in 0..n : ~\E g : Part(k, g)}
<1>1. \E g : Part(0, g)
  <2> DEFINE g == [k \in 0..0 |-> [s \in Members(ts) |-> [t \in Members(ts) |->
                     IF s = t THEN 1 ELSE 0]]]
  <2>1. g = Tabulated(ts, 0..0, g)
    BY DEF Tabulated, Walking
  <2>2. QED
    BY <2>1
<1>2. ASSUME NEW k \in Nat, NEW g, Part(k, g)
      PROVE  \E h : Part(k + 1, h)
  <2> DEFINE h == Tabulated(ts, 0..(k + 1), g)
  <2>1. \A j \in 0..k : h[j] = g[j]
    BY <1>2 DEF Tabulated
  <2> HIDE DEF h
  <2>2. ASSUME NEW j \in 0..(k + 1), j # 0, NEW s, NEW t
        PROVE  Onward(h, j - 1, s, Counterparties(ts, t))
                 = Onward(g, j - 1, s, Counterparties(ts, t))
    <3>1. j - 1 \in 0..k
      BY <2>2
    <3>2. h[j - 1] = g[j - 1]
      BY <2>1, <3>1
    <3>3. \A v \in Counterparties(ts, t) : h[j - 1][s][v] = g[j - 1][s][v]
      BY <3>2
    <3>4. QED
      BY <3>3, GraphFinite, OnwardSame
  <2>3. Tabulated(ts, 0..(k + 1), h) = Tabulated(ts, 0..(k + 1), g)
    BY <2>2 DEF Tabulated, Walking
  <2>4. h = Tabulated(ts, 0..(k + 1), g)
    BY DEF h
  <2>5. QED
    BY <2>3, <2>4
<1> HIDE DEF Part
<1>3. \A k \in Nat : k \in bad <=> k <= n /\ ~\E g : Part(k, g)
  OBVIOUS
<1>4. bad \in SUBSET (0..n)
  OBVIOUS
<1> HIDE DEF bad
<1>5. bad = {}
  <2> SUFFICES ASSUME bad # {}
               PROVE  FALSE
    OBVIOUS
  <2>1. bad \in SUBSET Int /\ IsFiniteSet(bad)
    <3> IsFiniteSet(0..n)
      BY FS_Interval
    <3>1. IsFiniteSet(bad)
      BY <1>4, FS_Subset
    <3>2. \A k \in 0..n : k \in Int
      OBVIOUS
    <3>3. QED
      BY <1>4, <3>1, <3>2
  <2>2. PICK k \in bad : \A j \in bad : k =< j
    BY <2>1, LeastMember
  <2>3. k \in Nat /\ k <= n /\ ~\E g : Part(k, g)
    BY <1>3, <1>4
  <2>4. k # 0
    BY <1>1, <2>3
  <2>5. k - 1 \in Nat /\ k - 1 <= n /\ k - 1 \notin bad
    BY <2>2, <2>3, <2>4
  <2>6. PICK g : Part(k - 1, g)
    BY <1>3, <2>5
  <2>7. \E h : Part((k - 1) + 1, h)
    BY <1>2, <2>5, <2>6
  <2>8. (k - 1) + 1 = k
    BY <2>3
  <2>9. QED
    BY <2>3, <2>7, <2>8
<1>6. PICK g : Part(n, g)
  BY <1>3, <1>5
<1>7. QED
  BY <1>6 DEF Part

(* And Walks is one.                                                       *)
LEMMA WalksTabulated ==
  ASSUME NEW ts \in SUBSET Transfer, NEW n \in Nat
  PROVE  Walks(ts, n) = Tabulated(ts, 0..n, Walks(ts, n))
<1>1. Walks(ts, n) = CHOOSE walks : walks = Tabulated(ts, 0..n, walks)
  BY Zenon DEF Walks, Tabulated, Walking, Onward
<1>2. QED
  BY <1>1, WalksExist

(* So the walks of every length number a natural.                          *)
LEMMA WalksNatural ==
  ASSUME NEW ts \in SUBSET Transfer, NEW n \in Nat,
         NEW k \in 0..n, NEW s \in Members(ts), NEW t \in Members(ts)
  PROVE  Walks(ts, n)[k][s][t] \in Nat
<1> DEFINE M == Members(ts)
           walks == Walks(ts, n)
           Typed(j) == \A x, y \in M : walks[j][x][y] \in Nat
           bad == {j \in 0..n : ~Typed(j)}
<1>1. \A j \in 0..n : \A x, y \in M :
        walks[j][x][y] = IF j = 0 THEN (IF x = y THEN 1 ELSE 0)
                         ELSE Onward(walks, j - 1, x, Counterparties(ts, y))
  <2> HIDE DEF walks
  <2>1. walks = Tabulated(ts, 0..n, walks)
    BY WalksTabulated DEF walks
  <2>2. \A j \in 0..n : walks[j] = Walking(ts, walks, j)
    BY <2>1 DEF Tabulated
  <2>3. \A j \in 0..n : \A x, y \in M :
          Walking(ts, walks, j)[x][y]
            = IF j = 0 THEN (IF x = y THEN 1 ELSE 0)
              ELSE Onward(walks, j - 1, x, Counterparties(ts, y))
    BY DEF Walking
  <2>4. QED
    BY <2>2, <2>3
<1> HIDE DEF walks
<1>2. Typed(0)
  BY <1>1
<1>3. ASSUME NEW j \in 0..n, j # 0, Typed(j - 1)
      PROVE  Typed(j)
  <2> SUFFICES ASSUME NEW x \in M, NEW y \in M
               PROVE  walks[j][x][y] \in Nat
    OBVIOUS
  <2>1. \A v \in Counterparties(ts, y) : walks[j - 1][x][v] \in Nat
    BY <1>3, GraphFinite
  <2>2. Onward(walks, j - 1, x, Counterparties(ts, y)) \in Nat
    BY <2>1, GraphFinite, OnwardNatural
  <2>3. QED
    BY <1>1, <1>3, <2>2
<1> HIDE DEF Typed
<1>4. bad \in SUBSET (0..n) /\ \A j \in 0..n : j \in bad <=> ~Typed(j)
  OBVIOUS
<1> HIDE DEF bad
<1>5. bad = {}
  <2> SUFFICES ASSUME bad # {}
               PROVE  FALSE
    OBVIOUS
  <2>1. bad \in SUBSET Int /\ IsFiniteSet(bad)
    <3> IsFiniteSet(0..n)
      BY FS_Interval
    <3>1. IsFiniteSet(bad)
      BY <1>4, FS_Subset
    <3>2. \A j \in 0..n : j \in Int
      OBVIOUS
    <3>3. QED
      BY <1>4, <3>1, <3>2
  <2>2. PICK j \in bad : \A i \in bad : j =< i
    BY <2>1, LeastMember
  <2>3. j \in 0..n /\ ~Typed(j) /\ j # 0
    BY <1>2, <1>4
  <2>4. j - 1 \in 0..n /\ j - 1 \notin bad
    BY <2>2, <2>3
  <2>5. QED
    BY <1>3, <1>4, <2>3, <2>4
<1>6. Typed(k)
  BY <1>4, <1>5
<1>7. QED
  BY <1>6 DEF Typed, walks

(* A quotient of naturals is one.                                          *)
LEMMA Quotient ==
  ASSUME NEW x \in Nat, NEW d \in Nat \ {0}
  PROVE  x \div d \in Nat
OBVIOUS

(* And a product.                                                          *)
LEMMA Product ==
  ASSUME NEW x \in Nat, NEW y \in Nat
  PROVE  x * y \in Nat
OBVIOUS

(* The distance is that of a walk that there is, or n when there is none.  *)
LEMMA DistanceReached ==
  ASSUME NEW walks, NEW n \in Nat, NEW s, NEW t
  PROVE  /\ Distance(walks, n, s, t) \in 0..n
         /\ \/ Distance(walks, n, s, t) = n
            \/ walks[Distance(walks, n, s, t)][s][t] > 0
<1> DEFINE D == {k \in 0..n : k = n \/ walks[k][s][t] > 0}
<1>1. D \in SUBSET (0..n) /\ n \in D
  OBVIOUS
<1>2. IsFiniteSet(D)
  <2> IsFiniteSet(0..n)
    BY FS_Interval
  <2>1. QED
    BY <1>1, FS_Subset
<1>3. \A k \in D : k \in 0..n /\ (k = n \/ walks[k][s][t] > 0)
  OBVIOUS
<1>4. Distance(walks, n, s, t) = Min(D)
  BY DEF Distance
<1> HIDE DEF D
<1>5. D \in SUBSET Int /\ D # {}
  BY <1>1
<1>6. Min(D) \in D
  BY <1>2, <1>5, MaxMin
<1>7. QED
  BY <1>3, <1>4, <1>6

(* What one pair contributes to the betweenness of a.                      *)
Share(walks, n, a, p) ==
  LET len == Distance(walks, n, p[1], p[2])
      there == Distance(walks, n, p[1], a) IN
  IF there <= len /\ len < n
    THEN Through(walks, p[1], a, p[2], len, there) ELSE 0

Pairs(nodes, a) ==
  {p \in (nodes \ {a}) \X (nodes \ {a}) : p[1] # p[2]}

(* The share of an account in the shortest paths of a pair is a natural:   *)
(* the divisor counts walks that there are.                                *)
LEMMA ShareNatural ==
  ASSUME NEW nodes, NEW n \in Nat, NEW walks,
         \A k \in 0..n : \A s, t \in nodes : walks[k][s][t] \in Nat,
         NEW a \in nodes, NEW p \in Pairs(nodes, a)
  PROVE  Share(walks, n, a, p) \in Nat
<1> DEFINE len == Distance(walks, n, p[1], p[2])
           there == Distance(walks, n, p[1], a)
<1>1. len \in 0..n /\ there \in 0..n /\ (len = n \/ walks[len][p[1]][p[2]] > 0)
  BY DistanceReached
<1>2. p[1] \in nodes /\ p[2] \in nodes
  BY DEF Pairs
<1>3. Share(walks, n, a, p)
        = IF there <= len /\ len < n
            THEN Through(walks, p[1], a, p[2], len, there) ELSE 0
  BY DEF Share
<1> HIDE DEF len, there
<1>4. CASE there <= len /\ len < n
  <2> DEFINE x == walks[there][p[1]][a]
             y == walks[len - there][a][p[2]]
             d == walks[len][p[1]][p[2]]
  <2>1. x \in Nat /\ d \in Nat \ {0}
    BY <1>1, <1>2, <1>4
  <2>2. len - there \in 0..n
    BY <1>1, <1>4
  <2>3. y \in Nat
    BY <1>2, <2>2
  <2>4. Through(walks, p[1], a, p[2], len, there) = (10000 * x * y) \div d
    BY DEF Through
  <2> HIDE DEF x, y, d
  <2>5. 10000 * x * y \in Nat
    BY <2>1, <2>3, Product
  <2>6. QED
    BY <1>3, <1>4, <2>1, <2>4, <2>5, Quotient
<1>5. QED
  BY <1>3, <1>4

(* So is the mean of those shares over all pairs of three accounts or      *)
(* more.                                                                   *)
LEMMA BetweennessInNatural ==
  ASSUME NEW nodes, IsFiniteSet(nodes), NEW n \in Nat, n >= 3, NEW walks,
         \A k \in 0..n : \A s, t \in nodes : walks[k][s][t] \in Nat,
         NEW a \in nodes
  PROVE  BetweennessIn(nodes, walks, n, a) \in Nat
<1> DEFINE S == Pairs(nodes, a)
           f == [p \in S |-> Share(walks, n, a, p)]
           Counting(it) ==
             [r \in SUBSET S |->
                IF r = {} THEN 0
                ELSE Share(walks, n, a, CHOOSE x \in r : TRUE)
                       + it[r \ {CHOOSE x \in r : TRUE}]]
           sum == CHOOSE it : it = Counting(it)
<1>1. BetweennessIn(nodes, walks, n, a) = sum[S] \div ((n - 1) * (n - 2))
  BY Zenon DEF BetweennessIn, MapThenSumSet, MapThenFoldSet, Share, Pairs
<1>2. \A p \in S : f[p] = Share(walks, n, a, p) /\ f[p] \in Nat
  BY ShareNatural
<1>3. IsFiniteSet(S)
  <2>1. IsFiniteSet(nodes \ {a})
    BY FS_Subset
  <2>2. IsFiniteSet((nodes \ {a}) \X (nodes \ {a}))
    BY <2>1, FS_Product
  <2>3. S \in SUBSET ((nodes \ {a}) \X (nodes \ {a}))
    BY DEF Pairs
  <2>4. QED
    BY <2>2, <2>3, FS_Subset
<1> HIDE DEF S, f
<1>4. \A it : Counting(it) = Summing(SUBSET S, f, it)
  BY <1>2, PickedIn DEF Summing, Picked
<1>5. PICK it : IsSum(it, S, f)
  BY <1>3, SumExists
<1>6. it = Counting(it)
  BY <1>4, <1>5 DEF IsSum
<1>7. sum = Counting(sum)
  BY <1>6
<1> HIDE DEF sum
<1>8. IsSum(sum, S, f)
  BY <1>4, <1>7 DEF IsSum
<1>9. sum[S] \in Nat
  BY <1>2, <1>3, <1>8, SumInNat
<1>10. (n - 1) * (n - 2) \in Nat \ {0}
  OBVIOUS
<1>11. QED
  BY <1>1, <1>9, <1>10, Quotient

(* And the betweenness of every account in every window                    *)
(* (graph.py:221-224).                                                     *)
LEMMA BetweennessNatural ==
  ASSUME NEW ts \in SUBSET Transfer, NEW a
  PROVE  Betweenness(ts, a) \in Nat
<1> DEFINE n == Cardinality(Members(ts))
           walks == Walks(ts, n)
<1>1. n \in Nat /\ IsFiniteSet(Members(ts))
  BY GraphFinite, FS_CardinalityType
<1>2. \A k \in 0..n : \A s, t \in Members(ts) : walks[k][s][t] \in Nat
  BY <1>1, WalksNatural
<1>3. Betweenness(ts, a) = IF a \notin Members(ts) \/ n < 3 THEN 0
                           ELSE BetweennessIn(Members(ts), walks, n, a)
  BY DEF Betweenness
<1> HIDE DEF n, walks
<1>4. CASE a \in Members(ts) /\ n >= 3
  BY <1>1, <1>2, <1>3, <1>4, BetweennessInNatural
<1>5. QED
  BY <1>1, <1>3, <1>4

-----------------------------------------------------------------------------
(* Fractions, medians and deviations.                                      *)

(* A part of a whole is at most a hundred percent of it.                   *)
LEMMA Percent ==
  ASSUME NEW x \in Nat, NEW d \in Nat \ {0}, x <= d
  PROVE  (100 * x) \div d \in Nat /\ (100 * x) \div d <= 100
<1>1. (100 * x) \div d \in Nat
  OBVIOUS
<1>2. (100 * x) \div d <= 100
  OBVIOUS
<1>3. QED
  BY <1>1, <1>2

(* The illicit fraction is a percentage, and 0 when no counterparty is     *)
(* risky (batch.py:117-136).                                               *)
LEMMA IllicitFractionRange ==
  ASSUME NEW home, NEW cps, IsFiniteSet(cps), NEW nodes
  PROVE  /\ IllicitFraction(home, cps, nodes) \in Nat
         /\ IllicitFraction(home, cps, nodes) <= 100
         /\ (\A cp \in cps : ~Risky(home, cp, nodes))
              => IllicitFraction(home, cps, nodes) = 0
<1> DEFINE R == {cp \in cps : Risky(home, cp, nodes)}
           x == Cardinality(R)
           d == Cardinality(cps)
<1>1. R \in SUBSET cps
  OBVIOUS
<1>2. IsFiniteSet(R) /\ x <= d
  BY <1>1, FS_Subset
<1>3. x \in Nat /\ d \in Nat /\ (x = 0 <=> R = {}) /\ (d = 0 <=> cps = {})
  BY <1>2, FS_CardinalityType, FS_EmptySet
<1>4. (\A cp \in cps : ~Risky(home, cp, nodes)) => x = 0
  BY <1>3
<1>5. IllicitFraction(home, cps, nodes)
        = IF cps = {} THEN 0 ELSE (100 * x) \div d
  BY DEF IllicitFraction
<1> HIDE DEF x, d
<1>6. CASE cps = {}
  BY <1>5, <1>6
<1>7. CASE cps # {}
  <2>1. d \in Nat \ {0}
    BY <1>3, <1>7
  <2>2. (100 * x) \div d \in Nat /\ (100 * x) \div d <= 100
    BY <1>2, <1>3, <2>1, Percent
  <2>3. x = 0 => (100 * x) \div d = 0
    BY <2>1
  <2>4. QED
    BY <1>4, <1>5, <1>7, <2>2, <2>3
<1>8. QED
  BY <1>6, <1>7

(* Twice the median of finitely many integers is an integer, and so is     *)
(* the median (batch.py:109-110, 182-187).                                 *)
LEMMA MedianInteger ==
  ASSUME NEW f, IsFiniteSet(DOMAIN f), DOMAIN f # {},
         \A k \in DOMAIN f : f[k] \in Int
  PROVE  Middle(f) \in Int /\ Median(f) \in Int
<1> DEFINE K == DOMAIN f
           n == Cardinality(K)
           Rank(v) == Cardinality({k \in K : f[k] <= v})
           Above(i) == {k \in K : Rank(f[k]) >= i}
           Values(i) == {f[k] : k \in Above(i)}
           Nth(i) == Min(Values(i))
<1>1. n \in Nat /\ n # 0
  BY FS_CardinalityType, FS_EmptySet
<1>2. \E k \in K : Above(n) # {}
  <2> DEFINE All == {f[k] : k \in K}
  <2>1. All \in SUBSET Int /\ All # {}
    OBVIOUS
  <2>2. IsFiniteSet(All)
    BY FiniteImage
  <2>3. PICK v \in All : \A u \in All : v >= u
    BY <2>1, <2>2, GreatestMember
  <2>4. PICK k \in K : f[k] = v
    OBVIOUS
  <2>5. {j \in K : f[j] <= f[k]} = K
    <3>1. \A j \in K : f[j] \in All /\ f[j] \in Int /\ v \in Int
      BY <2>1
    <3>2. QED
      BY <2>3, <2>4, <3>1
  <2>6. Rank(f[k]) = n
    BY <2>5
  <2>7. k \in Above(n)
    BY <1>1, <2>6
  <2>8. QED
    BY <2>7
<1>3. ASSUME NEW i \in Nat, i <= n
      PROVE  Nth(i) \in Int
  <2>1. \A k \in K : Rank(f[k]) \in Nat
    <3> SUFFICES ASSUME NEW k \in K
                 PROVE  Rank(f[k]) \in Nat
      OBVIOUS
    <3> DEFINE B == {j \in K : f[j] <= f[k]}
    <3>1. B \in SUBSET K
      OBVIOUS
    <3>2. IsFiniteSet(B)
      BY <3>1, FS_Subset
    <3>3. QED
      BY <3>2, FS_CardinalityType
  <2> HIDE DEF Rank, n
  <2>2. Above(i) # {} /\ Above(i) \in SUBSET K
    BY <1>1, <1>2, <1>3, <2>1
  <2> HIDE DEF Above
  <2>3. IsFiniteSet(Above(i))
    BY <2>2, FS_Subset
  <2>4. IsFiniteSet(Values(i))
    BY <2>3, FiniteImage
  <2>5. Values(i) # {} /\ Values(i) \in SUBSET Int
    BY <2>2
  <2> HIDE DEF Values
  <2>6. Min(Values(i)) \in Values(i)
    BY <2>4, <2>5, MaxMin
  <2>7. QED
    BY <2>5, <2>6
<1>4. /\ Middle(f) = Nth((n + 1) \div 2) + Nth(n \div 2 + 1)
      /\ Median(f) = Middle(f) \div 2
  BY DEF Middle, Median
<1> HIDE DEF n, Nth
<1>5. /\ (n + 1) \div 2 \in Nat /\ (n + 1) \div 2 <= n
      /\ n \div 2 + 1 \in Nat /\ n \div 2 + 1 <= n
  BY <1>1
<1>6. Nth((n + 1) \div 2) \in Int /\ Nth(n \div 2 + 1) \in Int
  BY <1>3, <1>5
<1>7. QED
  BY <1>4, <1>6

(* The floor of a deviation is never zero, so nothing divides by it        *)
(* (batch.py:182-187).                                                     *)
LEMMA FloorPositive ==
  ASSUME NEW f, IsFiniteSet(DOMAIN f), \A k \in DOMAIN f : f[k] \in Int
  PROVE  Floor(f) \in Nat \ {0}
<1> DEFINE positive == {k \in DOMAIN f : f[k] > 0}
           g == [k \in positive |-> f[k]]
<1>1. positive \in SUBSET DOMAIN f
  OBVIOUS
<1>2. IsFiniteSet(positive)
  BY <1>1, FS_Subset
<1>3. Floor(f) = IF positive = {} THEN 1 ELSE AtLeast(Median(g), 1)
  BY DEF Floor
<1>4. DOMAIN g = positive /\ \A k \in positive : g[k] \in Int
  OBVIOUS
<1> HIDE DEF positive, g
<1>5. CASE positive # {}
  <2>1. Median(g) \in Int
    BY <1>2, <1>4, <1>5, MedianInteger
  <2>2. QED
    BY <1>3, <1>5, <2>1 DEF AtLeast
<1>6. QED
  BY <1>3, <1>5

(* A root is one of the numbers from which it is counted.                  *)
LEMMA RootNatural ==
  ASSUME NEW v, NEW most \in Nat
  PROVE  Root(v, most) \in Nat
<1> DEFINE S == {r \in 1..most : r * r <= v}
<1>1. IsFiniteSet(1..most)
  BY FS_Interval
<1>2. S \in SUBSET (1..most)
  OBVIOUS
<1>3. IsFiniteSet(S)
  BY <1>1, <1>2, FS_Subset
<1>4. QED
  BY <1>3, FS_CardinalityType DEF Root

IsHistory(h) ==
  IsFiniteSet(DOMAIN h) /\ DOMAIN h # {} /\ \A k \in DOMAIN h : h[k] \in Nat

(* The standard deviation of a baseline is a natural.                      *)
LEMMA SpreadNatural ==
  ASSUME NEW h, IsHistory(h)
  PROVE  Spread(h) \in Nat
<1> DEFINE Values == {h[k] : k \in DOMAIN h}
           n == Cardinality(DOMAIN h)
           mean == (2 * Total(h)) \div n
           v == Total([k \in DOMAIN h |-> (2 * h[k] - mean) * (2 * h[k] - mean)])
                  \div n
<1>1. IsFiniteSet(Values)
  BY FiniteImage DEF IsHistory
<1>2. Values \in SUBSET Int /\ Values # {} /\ \A x \in Values : x \in Nat
  BY DEF IsHistory
<1>3. Spread(h) = Root(v, Max(Values))
  BY DEF Spread
<1> HIDE DEF Values, v
<1>4. Max(Values) \in Nat
  BY <1>1, <1>2, MaxMin
<1>5. QED
  BY <1>3, <1>4, RootNatural

(* A robust deviation from a baseline of any length stays within its caps, *)
(* as nothing is divided by less than the floor (batch.py:105-114).        *)
LEMMA RobustZRange ==
  ASSUME NEW value, NEW h, NEW floor, NEW cap,
         value \in Int, IsHistory(h), floor \in Nat \ {0}, cap \in Nat
  PROVE  /\ RobustZ(value, h, floor, cap) \in Int
         /\ -cap <= RobustZ(value, h, floor, cap)
         /\ RobustZ(value, h, floor, cap) <= cap
<1> DEFINE middle == Middle(h)
           off == [k \in DOMAIN h |-> Size(2 * h[k] - middle)]
           mad == Middle(off)
           std == Spread(h)
           scale == AtLeast(AtLeast((14826 * mad) \div 20000, std), floor)
           z == (100 * (2 * value - middle)) \div scale
<1>1. middle \in Int
  BY MedianInteger DEF IsHistory
<1>2. mad \in Int
  <2> HIDE DEF middle
  <2>1. DOMAIN off = DOMAIN h /\ \A k \in DOMAIN h : off[k] \in Int
    BY <1>1 DEF IsHistory, Size, AtLeast
  <2> HIDE DEF off
  <2>2. QED
    BY <2>1, MedianInteger DEF IsHistory
<1>3. std \in Nat
  BY SpreadNatural
<1>4. RobustZ(value, h, floor, cap) = AtLeast(AtMost(z, cap), -cap)
  BY DEF RobustZ
<1> HIDE DEF middle, mad, std
<1>5. scale \in Nat \ {0}
  <2>1. (14826 * mad) \div 20000 \in Int
    BY <1>2
  <2>2. QED
    BY <1>3, <2>1 DEF AtLeast
<1> HIDE DEF scale
<1>6. z \in Int
  BY <1>1, <1>5
<1> HIDE DEF z
<1>7. QED
  BY <1>4, <1>6 DEF AtLeast, AtMost

(* A gated term never exceeds what it gates, and is fifteen percent of it  *)
(* without a risky counterparty (batch.py:218-220, 259-260).               *)
LEMMA GatedRange ==
  ASSUME NEW x, NEW il, x \in Nat, il \in Nat, il <= 100
  PROVE  /\ Gated(x, il) \in Nat /\ Gated(x, il) <= x
         /\ il = 0 => 100 * Gated(x, il) <= 15 * x
<1> DEFINE w == 1500 + 85 * il
<1>1. w \in Nat /\ w <= 10000 /\ (il = 0 => w = 1500)
  OBVIOUS
<1>2. Gated(x, il) = (x * w) \div 10000
  BY DEF Gated
<1> HIDE DEF w
<1>3. x * w \in Nat /\ x * w <= x * 10000
  BY <1>1
<1>4. QED
  BY <1>1, <1>2, <1>3

-----------------------------------------------------------------------------
(* The windows of a log.                                                   *)

IsLog(log) == log \in SUBSET Transfer /\ IsFiniteSet(log)

(* The days of a log, of which the first and the last are two.             *)
LEMMA LogDays ==
  ASSUME NEW log, IsLog(log), log # {}
  PROVE  /\ FirstDay(log) \in Nat /\ LastDay(log) \in Nat
         /\ FirstDay(log) <= LastDay(log)
         /\ \A t \in log : /\ t.day \in Nat
                           /\ FirstDay(log) <= t.day /\ t.day <= LastDay(log)
<1> DEFINE f == [t \in log |-> t.day]
           Days == {t.day : t \in log}
<1>1. \A t \in log : t.day \in Nat
  BY DEF IsLog, Transfer
<1>2. Days \in SUBSET Int /\ Days # {} /\ \A d \in Days : d \in Nat
  BY <1>1
<1>3. Days = {f[t] : t \in log}
  OBVIOUS
<1>4. IsFiniteSet(Days)
  <2> IsFiniteSet(log)
    BY DEF IsLog
  <2> HIDE DEF f, Days
  <2>1. IsFiniteSet({f[t] : t \in log})
    BY FiniteImage
  <2>2. QED
    BY <1>3, <2>1
<1>5. FirstDay(log) = Min(Days) /\ LastDay(log) = Max(Days)
  BY DEF FirstDay, LastDay
<1>6. \A t \in log : t.day \in Days
  OBVIOUS
<1> HIDE DEF Days
<1>7. /\ Max(Days) \in Days /\ \A d \in Days : Max(Days) >= d
      /\ Min(Days) \in Days /\ \A d \in Days : Min(Days) =< d
  BY <1>2, <1>4, MaxMin
<1>8. QED
  BY <1>1, <1>2, <1>5, <1>6, <1>7

(* None of no day; of another as many as steps.                            *)
LEMMA WindowsOfLog ==
  ASSUME NEW log, IsLog(log), log # {}
  PROVE  LET n == Steps(LastDay(log) - FirstDay(log)) IN
         /\ n \in Nat
         /\ FirstDay(log) < LastDay(log) => n > 0
         /\ RollingWindows(log)
              = [i \in 1..n |->
                   [start |-> FirstDay(log) + (i - 1) * 7,
                    end |-> FirstDay(log) + (i - 1) * 7 + 14]]
<1> DEFINE first == FirstDay(log)
           last == LastDay(log)
           n == Steps(last - first)
<1>1. first \in Nat /\ last \in Nat /\ first <= last
  BY LogDays
<1>2. RollingWindows(log) = WindowsBetween(first, last, n)
  BY DEF RollingWindows
<1>3. n = (last - first + 6) \div 7
  BY DEF Steps, StepDays
<1> HIDE DEF n, first, last
<1>4. n \in Nat /\ (first < last => n > 0) /\ 7 * n >= last - first
  BY <1>1, <1>3
<1>5. ~(n > 0 /\ first + (n - 1) * 7 + 14 <= last)
  BY <1>1, <1>4
<1>6. WindowsBetween(first, last, n)
        = [i \in 1..n |-> [start |-> first + (i - 1) * 7,
                           end |-> first + (i - 1) * 7 + 14]]
  BY <1>5 DEF WindowsBetween, StepDays, WindowDays
<1>7. QED
  BY <1>2, <1>4, <1>6 DEF first, last, n

(* Each transfer is in one of them.                                        *)
LEMMA NoGap ==
  ASSUME NEW log, IsLog(log), log # {}, FirstDay(log) < LastDay(log),
         NEW t \in log
  PROVE  \E i \in DOMAIN RollingWindows(log) :
           t \in EdgesInWindow(log, RollingWindows(log)[i])
<1> DEFINE first == FirstDay(log)
           last == LastDay(log)
           n == Steps(last - first)
           k == (t.day - first) \div 7 + 1
           i == IF k <= n THEN k ELSE n
<1>1. /\ first \in Nat /\ last \in Nat /\ first < last
      /\ t.day \in Nat /\ first <= t.day /\ t.day <= last
  BY LogDays
<1>2. n \in Nat /\ n > 0
  BY WindowsOfLog
<1>3. n = (last - first + 6) \div 7
  BY DEF Steps, StepDays
<1>4. /\ DOMAIN RollingWindows(log) = 1..n
      /\ \A j \in 1..n :
           RollingWindows(log)[j] = [start |-> first + (j - 1) * 7,
                                     end |-> first + (j - 1) * 7 + 14]
  BY WindowsOfLog
<1> HIDE DEF n, first, last
<1>5. k \in Nat /\ k >= 1 /\ 7 * (k - 1) <= t.day - first
      /\ t.day - first < 7 * k
  BY <1>1
<1>6. 7 * n >= last - first /\ 7 * n < last - first + 7
  BY <1>1, <1>3
<1> HIDE DEF k
<1>7. i \in 1..n /\ first + (i - 1) * 7 <= t.day /\ t.day < first + (i - 1) * 7 + 14
  BY <1>1, <1>2, <1>5, <1>6
<1> HIDE DEF i
<1>8. t \in EdgesInWindow(log, RollingWindows(log)[i])
  BY <1>4, <1>7 DEF EdgesInWindow
<1>9. QED
  BY <1>4, <1>7, <1>8
-----------------------------------------------------------------------------
(* What is measured of a log.                                              *)

Signals ==
  [parties: [Accounts -> SUBSET Accounts], count: [Accounts -> Nat],
   betweenness: [Accounts -> Nat], pagerank: [Accounts -> Nat]]

IsMeasured(m, n) ==
  /\ m.signals \in [1..n -> Signals]
  /\ m.btwFloor \in Nat \ {0}
  /\ m.prFloor \in Nat \ {0}

(* What one window says of every account is typed.                         *)
LEMMA SignalsTyped ==
  ASSUME NEW log, IsLog(log), NEW w,
         \A a \in Accounts : PageRank(EdgesInWindow(log, w), a) \in Nat
  PROVE  WindowSignals(log, w) \in Signals
<1> DEFINE ts == EdgesInWindow(log, w)
<1>1. ts \in SUBSET log
  BY DEF EdgesInWindow
<1>2. ts \in SUBSET Transfer /\ IsFiniteSet(ts)
  BY <1>1, FS_Subset DEF IsLog
<1>3. WindowSignals(log, w)
        = [parties     |-> [a \in Accounts |-> Counterparties(ts, a)],
           count       |-> [a \in Accounts |-> TxnCount(ts, a)],
           betweenness |-> [a \in Accounts |-> Betweenness(ts, a)],
           pagerank    |-> [a \in Accounts |-> PageRank(ts, a)]]
  BY DEF WindowSignals
<1>4. \A a \in Accounts : PageRank(ts, a) \in Nat
  OBVIOUS
<1> HIDE DEF ts
<1>5. \A a \in Accounts : /\ Counterparties(ts, a) \in SUBSET Accounts
                          /\ TxnCount(ts, a) \in Nat
                          /\ Betweenness(ts, a) \in Nat
  BY <1>2, GraphFinite, TxnCountNatural, BetweennessNatural
<1>6. QED
  BY <1>3, <1>4, <1>5 DEF Signals

(* What a log is measured by is.                                           *)
LEMMA MeasuredTyped ==
  ASSUME NEW windows, NEW signals, NEW n \in Nat, windows # <<>>,
         DOMAIN windows = 1..n, signals \in [1..n -> Signals]
  PROVE  /\ IsMeasured(MeasuredIn(windows, signals), n)
         /\ MeasuredIn(windows, signals).signals = signals
         /\ MeasuredIn(windows, signals).windows = windows
<1> DEFINE m == MeasuredIn(windows, signals)
           K == (DOMAIN windows) \X Accounts
           f == [p \in K |-> signals[p[1]].betweenness[p[2]]]
           g == [p \in K |-> signals[p[1]].pagerank[p[2]]]
<1>1. /\ m.signals = signals /\ m.windows = windows
      /\ m.btwFloor = Floor(f) /\ m.prFloor = Floor(g)
  BY DEF MeasuredIn
<1>2. IsFiniteSet(K)
  <2> IsFiniteSet(DOMAIN windows)
    BY FS_Interval
  <2>1. QED
    BY FS_Product, AccountsAssumption
<1>3. \A i \in 1..n : \A a \in Accounts :
        signals[i].betweenness[a] \in Nat /\ signals[i].pagerank[a] \in Nat
  BY DEF Signals
<1>4. \A p \in K : p[1] \in 1..n /\ p[2] \in Accounts
  OBVIOUS
<1>5. \A p \in K : f[p] \in Int /\ g[p] \in Int
  BY <1>3, <1>4
<1>6. DOMAIN f = K /\ DOMAIN g = K
  OBVIOUS
<1> HIDE DEF m, f, g, K
<1>7. Floor(f) \in Nat \ {0} /\ Floor(g) \in Nat \ {0}
  BY <1>2, <1>5, <1>6, FloorPositive
<1>8. QED
  BY <1>1, <1>7 DEF IsMeasured, m

-----------------------------------------------------------------------------
(* The profile of one account.  Nothing but the unusual is risky to an     *)
(* account that keeps to its own in a window; its score is then at most    *)
(* 300, of the 3200 that there are.                                        *)

IsTable(nodes) ==
  DOMAIN nodes \in SUBSET Accounts /\ \A a \in DOMAIN nodes : nodes[a] \in Node

Score(x, il) == x \in Nat /\ x <= 3200 /\ (il = 0 => x <= 300)

(* The illicit fraction of an account in a window is a percentage.         *)
LEMMA IllicitRange ==
  ASSUME NEW n \in Nat, NEW m, IsMeasured(m, n), NEW nodes, NEW a \in Accounts,
         NEW i \in 1..n
  PROVE  Illicit(m, a, nodes, i) \in Nat /\ Illicit(m, a, nodes, i) <= 100
<1>1. m.signals[i].parties[a] \in SUBSET Accounts
  BY DEF IsMeasured, Signals
<1>2. IsFiniteSet(m.signals[i].parties[a])
  BY <1>1, AccountsAssumption, FS_Subset
<1>3. QED
  BY <1>2, IllicitFractionRange DEF Illicit

(* A term weighed by the illicit fraction.                                 *)
LEMMA Weighed ==
  ASSUME NEW x, NEW il, x \in Nat, il \in Nat, il <= 100
  PROVE  x * il \in Nat /\ x * il <= 100 * x /\ (il = 0 => x * il = 0)
<1>1. x * il \in Nat /\ x * (100 - il) \in Nat
  BY Product
<1>2. x * (100 - il) = 100 * x - x * il
  OBVIOUS
<1>3. QED
  BY <1>1, <1>2

(* A late, thin account scores at most 3200, and 300 when harmless         *)
(* (batch.py:210-224).                                                     *)
LEMMA EmergenceRange ==
  ASSUME NEW n \in Nat, NEW m, IsMeasured(m, n), NEW nodes, NEW a \in Accounts,
         NEW i \in 1..n
  PROVE  Score(EmergenceAt(m, a, nodes, i), Illicit(m, a, nodes, i))
<1> DEFINE s == m.signals[i]
           il == Illicit(m, a, nodes, i)
           x == AtMost((100 * s.betweenness[a]) \div m.btwFloor, 2000)
           y == AtMost(s.count[a], 20)
<1>1. il \in Nat /\ il <= 100
  BY IllicitRange
<1>2. s.betweenness[a] \in Nat /\ s.count[a] \in Nat /\ m.btwFloor \in Nat \ {0}
  BY DEF IsMeasured, Signals
<1>3. EmergenceAt(m, a, nodes, i) = Gated(x, il) + (30 * y * il) \div 100
  BY DEF EmergenceAt
<1> HIDE DEF s, il
<1>4. x \in Nat /\ x <= 2000 /\ y \in Nat /\ y <= 20
  <2> DEFINE q == (100 * s.betweenness[a]) \div m.btwFloor
  <2>1. q \in Nat
    BY <1>2
  <2>2. x = AtMost(q, 2000)
    OBVIOUS
  <2> HIDE DEF q, x
  <2>3. QED
    BY <1>2, <2>1, <2>2 DEF AtMost
<1> HIDE DEF x, y
<1> DEFINE u == y * il
           g == Gated(x, il)
<1>5. g \in Nat /\ g <= x /\ (il = 0 => 100 * g <= 15 * x)
  BY <1>1, <1>4, GatedRange
<1>6. u \in Nat /\ u <= 100 * y /\ (il = 0 => u = 0)
  BY <1>1, <1>4, Weighed
<1>7. 30 * y * il = 30 * u
  BY <1>1, <1>4
<1> HIDE DEF u, g
<1> DEFINE h == (30 * u) \div 100
<1>8. h \in Nat /\ h <= 600 /\ (il = 0 => h = 0)
  BY <1>4, <1>6
<1>9. EmergenceAt(m, a, nodes, i) = g + h
  BY <1>3, <1>7 DEF g
<1> HIDE DEF h
<1>10. g + h \in Nat /\ g + h <= 3200 /\ (il = 0 => g + h <= 300)
  BY <1>4, <1>5, <1>8
<1>11. QED
  BY <1>9, <1>10 DEF Score, il

(* The baseline of an account that is active at all has its windows.       *)
LEMMA BaselineFound ==
  ASSUME NEW n \in Nat, NEW active \in SUBSET (1..n), active # {}
  PROVE  /\ BaselineWindows(active) \in SUBSET active
         /\ IsFiniteSet(BaselineWindows(active))
         /\ BaselineWindows(active) # {}
<1> DEFINE base == BaselineWindows(active)
<1>1. IsFiniteSet(1..n) /\ active \in SUBSET Int
  BY FS_Interval
<1>2. IsFiniteSet(active)
  BY <1>1, FS_Subset
<1>3. Cardinality(active) \in Nat
  BY <1>2, FS_CardinalityType
<1>4. BaselineSize(Cardinality(active)) \in Nat /\ BaselineSize(Cardinality(active)) >= 2
  BY <1>3 DEF BaselineSize, AtLeast
<1>5. base \in SUBSET active
  BY DEF BaselineWindows
<1>6. base # {}
  <2>1. PICK i \in active : \A k \in active : i =< k
    BY <1>1, <1>2, LeastMember
  <2>2. {k \in active : k <= i} = {i}
    <3>1. \A k \in active : k \in Int
      BY <1>1
    <3>2. \A k \in active : k <= i <=> k = i
      BY <2>1, <3>1
    <3>3. QED
      BY <3>2
  <2>3. Cardinality({k \in active : k <= i}) = 1
    BY <2>2, FS_Singleton
  <2>4. i \in base
    BY <1>4, <2>3 DEF BaselineWindows
  <2>5. QED
    BY <2>4
<1> HIDE DEF base
<1>7. IsFiniteSet(base)
  BY <1>2, <1>5, FS_Subset
<1>8. QED
  BY <1>5, <1>6, <1>7 DEF base

(* So does an account against its baseline (batch.py:235-264).             *)
LEMMA DeviationRange ==
  ASSUME NEW n \in Nat, NEW m, IsMeasured(m, n), NEW nodes, NEW a \in Accounts,
         NEW i \in 1..n, Active(m.signals, a) # {}
  PROVE  Score(DeviationAt(m, a, nodes, i), Illicit(m, a, nodes, i))
<1> DEFINE s == m.signals[i]
           base == BaselineWindows(Active(m.signals, a))
           btw == [k \in base |-> m.signals[k].betweenness[a]]
           pr == [k \in base |-> m.signals[k].pagerank[a]]
           tc == [k \in base |-> m.signals[k].count[a]]
           btwZ == RobustZ(s.betweenness[a], btw, m.btwFloor, BetweennessCap)
           prZ == RobustZ(s.pagerank[a], pr, m.prFloor, PageRankCap)
           il == Illicit(m, a, nodes, i)
           known == UNION {m.signals[k].parties[a] : k \in base}
           new == s.parties[a] \ known
           turnover == (100 * Cardinality(new))
                         \div AtLeast(Cardinality(s.parties[a]), 1)
           ramp == (100 * Cardinality(base) * s.count[a])
                     \div (Total(tc) + Cardinality(base))
<1>1. DeviationAt(m, a, nodes, i)
        = Gated(AtLeast(btwZ, 0), il) + (Size(prZ) * il) \div 100
            + (3 * turnover * il) \div 100 + (60 * AtMost(ramp, 1000) * il) \div 10000
  BY DEF DeviationAt
<1>2. il \in Nat /\ il <= 100
  BY IllicitRange
<1>3. base \in SUBSET (1..n) /\ IsFiniteSet(base) /\ base # {}
  <2>1. Active(m.signals, a) \in SUBSET (1..n)
    BY DEF Active, IsMeasured
  <2>2. QED
    BY <2>1, BaselineFound
<1> HIDE DEF base
<1>4. s \in Signals /\ \A k \in base : m.signals[k] \in Signals
  BY <1>3 DEF IsMeasured
<1>5. m.btwFloor \in Nat \ {0} /\ m.prFloor \in Nat \ {0}
  BY DEF IsMeasured
<1> HIDE DEF s, il
<1>6. /\ s.betweenness[a] \in Nat /\ s.pagerank[a] \in Nat /\ s.count[a] \in Nat
      /\ s.parties[a] \in SUBSET Accounts
      /\ \A k \in base : /\ m.signals[k].betweenness[a] \in Nat
                         /\ m.signals[k].pagerank[a] \in Nat
                         /\ m.signals[k].count[a] \in Nat
  BY <1>4 DEF Signals
<1>7. /\ btwZ \in Int /\ btwZ <= 1500
      /\ prZ \in Int /\ -800 <= prZ /\ prZ <= 800
  <2>1. 1500 \in Nat /\ 800 \in Nat
    OBVIOUS
  <2>2. IsHistory(btw) /\ IsHistory(pr)
    BY <1>3, <1>6 DEF IsHistory
  <2> HIDE DEF btw, pr
  <2>3. btwZ \in Int /\ btwZ <= BetweennessCap
    BY <1>5, <1>6, <2>1, <2>2, RobustZRange DEF BetweennessCap
  <2>4. prZ \in Int /\ -PageRankCap <= prZ /\ prZ <= PageRankCap
    BY <1>5, <1>6, <2>1, <2>2, RobustZRange DEF PageRankCap
  <2> HIDE DEF btwZ, prZ
  <2>5. QED
    BY <2>3, <2>4 DEF BetweennessCap, PageRankCap
<1>8. turnover \in Nat /\ turnover <= 100
  <2> DEFINE x == Cardinality(new)
             d == Cardinality(s.parties[a])
  <2>1. IsFiniteSet(s.parties[a])
    BY <1>6, AccountsAssumption, FS_Subset
  <2>2. new \in SUBSET s.parties[a]
    OBVIOUS
  <2> HIDE DEF new, known
  <2>3. IsFiniteSet(new) /\ x <= d
    BY <2>1, <2>2, FS_Subset
  <2>4. x \in Nat /\ d \in Nat
    BY <2>1, <2>3, FS_CardinalityType
  <2> HIDE DEF x, d
  <2>5. AtLeast(d, 1) \in Nat \ {0} /\ x <= AtLeast(d, 1)
    BY <2>3, <2>4 DEF AtLeast
  <2> DEFINE e == AtLeast(d, 1)
  <2> HIDE DEF e
  <2>6. (100 * x) \div e \in Nat /\ (100 * x) \div e <= 100
    BY <2>4, <2>5, Percent DEF e
  <2>7. QED
    BY <2>6 DEF x, d, e
<1>9. ramp \in Nat
  <2> DEFINE c == Cardinality(base)
             d == Total(tc) + c
             x == 100 * c * s.count[a]
  <2>1. c \in Nat \ {0}
    BY <1>3, FS_CardinalityType, FS_EmptySet
  <2>2. Total(tc) \in Nat
    <3>1. DOMAIN tc = base /\ \A k \in base : tc[k] \in Nat
      BY <1>6
    <3> HIDE DEF tc
    <3>2. QED
      BY <1>3, <3>1, TotalNatural
  <2> HIDE DEF c, tc
  <2>3. d \in Nat \ {0}
    BY <2>1, <2>2
  <2>4. x \in Nat
    <3>1. c * s.count[a] \in Nat /\ 100 * c * s.count[a] = 100 * (c * s.count[a])
      BY <1>6, <2>1, Product
    <3>2. QED
      BY <3>1
  <2> HIDE DEF d, x
  <2>5. x \div d \in Nat
    BY <2>3, <2>4, Quotient
  <2>6. QED
    BY <2>5 DEF d, x, c
<1> HIDE DEF btwZ, prZ, turnover, ramp
<1> DEFINE up == AtLeast(btwZ, 0)
           size == Size(prZ)
           steep == AtMost(ramp, 1000)
<1>10. /\ up \in Nat /\ up <= 1500 /\ size \in Nat /\ size <= 800
       /\ steep \in Nat /\ steep <= 1000
  BY <1>7, <1>9 DEF AtLeast, AtMost, Size
<1> HIDE DEF up, size, steep
<1> DEFINE u == size * il
           v == turnover * il
           w == steep * il
           g == Gated(up, il)
<1>11. g \in Nat /\ g <= up /\ (il = 0 => 100 * g <= 15 * up)
  BY <1>2, <1>10, GatedRange
<1>12. u \in Nat /\ u <= 100 * size /\ (il = 0 => u = 0)
  BY <1>2, <1>10, Weighed
<1>13. v \in Nat /\ v <= 100 * turnover /\ (il = 0 => v = 0)
  BY <1>2, <1>8, Weighed
<1>14. w \in Nat /\ w <= 100 * steep /\ (il = 0 => w = 0)
  BY <1>2, <1>10, Weighed
<1>15. 3 * turnover * il = 3 * v /\ 60 * steep * il = 60 * w
  BY <1>2, <1>8, <1>10
<1> HIDE DEF u, v, w, g
<1> DEFINE p == u \div 100
           q == (3 * v) \div 100
           r == (60 * w) \div 10000
<1>16. p \in Nat /\ p <= 800 /\ (il = 0 => p = 0)
  BY <1>10, <1>12
<1>17. q \in Nat /\ q <= 300 /\ (il = 0 => q = 0)
  BY <1>8, <1>13
<1>18. r \in Nat /\ r <= 600 /\ (il = 0 => r = 0)
  BY <1>10, <1>14
<1>19. DeviationAt(m, a, nodes, i) = g + p + q + r
  BY <1>1, <1>15 DEF g, u, up, size, steep
<1> HIDE DEF p, q, r
<1>20. /\ g + p + q + r \in Nat /\ g + p + q + r <= 3200
       /\ il = 0 => g + p + q + r <= 300
  BY <1>10, <1>11, <1>16, <1>17, <1>18
<1>21. QED
  BY <1>19, <1>20 DEF Score, il

GraphRow ==
  [deviation: Deviations, fraction: Percents, peak: Nat,
   windows: Nat, baseline: Nat, insufficient: BOOLEAN]

(* The ranges of the columns, by their bounds.                             *)
LEMMA Ranges ==
  ASSUME NEW x, x \in Nat
  PROVE  /\ x <= 3200 => x \in Deviations
         /\ x <= 100 => x \in Percents
         /\ x <= 10000 => x \in ReturnsScores
<1>1. \A cap \in Nat : x <= cap => x \in 0..cap
  OBVIOUS
<1>2. MaxDeviation \in Nat /\ (x <= 3200 => x <= MaxDeviation)
  BY DEF MaxDeviation
<1>3. MaxReturns \in Nat /\ (x <= 10000 => x <= MaxReturns)
  BY DEF MaxReturns
<1>4. x <= 100 => x \in Percents
  BY DEF Percents
<1>5. QED
  BY <1>1, <1>2, <1>3, <1>4 DEF Deviations, ReturnsScores

(* An account to which no counterparty is risky in any window.             *)
Harmless(m, a, nodes, n) == \A i \in 1..n : Illicit(m, a, nodes, i) = 0

(* What is found of an account: a score, and the window of it.             *)
Found(e, n, harmless) ==
  /\ e.score \in Nat /\ e.score <= 3200 /\ e.at \in 0..n
  /\ harmless => e.score <= 300

(* The first window where a value is greatest is one of those where it is  *)
(* given.                                                                  *)
LEMMA PeakFound ==
  ASSUME NEW f, IsFiniteSet(DOMAIN f), DOMAIN f # {}, DOMAIN f \in SUBSET Int,
         \A k \in DOMAIN f : f[k] \in Int
  PROVE  Peak(f) \in DOMAIN f
<1> DEFINE K == DOMAIN f
           Values == {f[k] : k \in K}
           Highest == {i \in K : \A k \in K : f[k] <= f[i]}
<1>1. IsFiniteSet(Values)
  BY FiniteImage
<1>2. Values \in SUBSET Int /\ Values # {}
  OBVIOUS
<1>3. PICK v \in Values : \A u \in Values : v >= u
  BY <1>1, <1>2, GreatestMember
<1>4. PICK i \in K : f[i] = v
  OBVIOUS
<1>5. \A k \in K : f[k] <= f[i]
  <2>1. \A k \in K : f[k] \in Values /\ f[k] \in Int
    OBVIOUS
  <2>2. QED
    BY <1>3, <1>4, <2>1
<1>6. Highest # {} /\ Highest \in SUBSET K
  BY <1>4, <1>5
<1> HIDE DEF Highest
<1>7. IsFiniteSet(Highest) /\ Highest \in SUBSET Int
  BY <1>6, FS_Subset
<1>8. Min(Highest) \in Highest
  BY <1>6, <1>7, MaxMin
<1>9. Peak(f) = Min(Highest)
  BY DEF Peak, Highest
<1>10. QED
  BY <1>6, <1>8, <1>9

(* The emergence of an account, if there is one, is found in a window.     *)
LEMMA EmergenceFound ==
  ASSUME NEW n \in Nat, NEW m, IsMeasured(m, n), NEW nodes, NEW a \in Accounts,
         NEW active \in SUBSET (1..n)
  PROVE  Found(Emergence(m, a, nodes, active), n, Harmless(m, a, nodes, n))
<1> DEFINE late == {i \in active : m.windows[i].start >= m.midpoint}
           f == [i \in late |-> m.signals[i].betweenness[a]]
           hub == Peak(f)
           e == Emergence(m, a, nodes, active)
<1>1. e = IF Cardinality(active \ late) > 1 \/ late = {} THEN NoScore
          ELSE [score |-> EmergenceAt(m, a, nodes, hub), at |-> hub]
  BY DEF Emergence
<1>2. DOMAIN f = late /\ late \in SUBSET (1..n)
  OBVIOUS
<1>3. \A i \in late : f[i] \in Int
  BY DEF IsMeasured, Signals
<1>4. IsFiniteSet(late)
  <2> IsFiniteSet(1..n)
    BY FS_Interval
  <2> HIDE DEF late
  <2>1. QED
    BY <1>2, FS_Subset
<1> HIDE DEF late, f, e
<1>5. CASE e = NoScore
  <2>1. e.score = 0 /\ e.at = 0
    BY <1>5 DEF NoScore, NoWindow
  <2>2. QED
    BY <2>1 DEF Found, e
<1>6. CASE late # {} /\ e = [score |-> EmergenceAt(m, a, nodes, hub), at |-> hub]
  <2>1. late \in SUBSET Int
    BY <1>2
  <2>2. hub \in late
    BY <1>2, <1>3, <1>4, <1>6, <2>1, PeakFound
  <2> HIDE DEF hub
  <2>3. hub \in 1..n
    BY <1>2, <2>2
  <2>4. Score(EmergenceAt(m, a, nodes, hub), Illicit(m, a, nodes, hub))
    BY <2>3, EmergenceRange
  <2>5. e.score = EmergenceAt(m, a, nodes, hub) /\ e.at = hub
    BY <1>6
  <2>6. Harmless(m, a, nodes, n) => Illicit(m, a, nodes, hub) = 0
    BY <2>3 DEF Harmless
  <2>7. QED
    BY <2>3, <2>4, <2>5, <2>6 DEF Found, Score, e
<1>7. QED
  BY <1>1, <1>5, <1>6

(* And so is its shift.                                                    *)
LEMMA ShiftFound ==
  ASSUME NEW n \in Nat, NEW m, IsMeasured(m, n), NEW nodes, NEW a \in Accounts,
         Active(m.signals, a) # {}, NEW candidates \in SUBSET (1..n)
  PROVE  Found(Shift(m, a, nodes, candidates), n, Harmless(m, a, nodes, n))
<1> DEFINE f == [i \in candidates |-> DeviationAt(m, a, nodes, i)]
           top == Peak(f)
           e == Shift(m, a, nodes, candidates)
<1>1. e = IF candidates = {} THEN NoScore ELSE [score |-> f[top], at |-> top]
  BY DEF Shift, AtPeak
<1>2. \A i \in candidates :
        f[i] = DeviationAt(m, a, nodes, i) /\ Score(f[i], Illicit(m, a, nodes, i))
  BY DeviationRange
<1>3. DOMAIN f = candidates /\ \A i \in candidates : f[i] \in Int
  BY <1>2 DEF Score
<1>4. IsFiniteSet(candidates)
  <2> IsFiniteSet(1..n)
    BY FS_Interval
  <2>1. QED
    BY FS_Subset
<1> HIDE DEF f, e
<1>5. CASE e = NoScore
  <2>1. e.score = 0 /\ e.at = 0
    BY <1>5 DEF NoScore, NoWindow
  <2>2. QED
    BY <2>1 DEF Found, e
<1>6. CASE candidates # {} /\ e = [score |-> f[top], at |-> top]
  <2>1. candidates \in SUBSET Int
    OBVIOUS
  <2>2. top \in candidates
    BY <1>3, <1>4, <1>6, <2>1, PeakFound
  <2> HIDE DEF top
  <2>3. top \in 1..n
    BY <2>2
  <2>4. Score(f[top], Illicit(m, a, nodes, top))
    BY <1>2, <2>2
  <2>5. e.score = f[top] /\ e.at = top
    BY <1>6
  <2>6. Harmless(m, a, nodes, n) => Illicit(m, a, nodes, top) = 0
    BY <2>3 DEF Harmless
  <2>7. QED
    BY <2>3, <2>4, <2>5, <2>6 DEF Found, Score, e
<1>7. QED
  BY <1>1, <1>5, <1>6

(* A profile is a row's; of a harmless account it is low; it counts the    *)
(* windows that the account was active in.                                 *)
LEMMA ProfileSound ==
  ASSUME NEW n \in Nat, NEW m, IsMeasured(m, n), NEW nodes, NEW a \in Accounts
  PROVE  LET p == Profile(m, a, nodes, Active(m.signals, a)) IN
         /\ p \in GraphRow
         /\ Harmless(m, a, nodes, n) => p.deviation <= 300
         /\ Active(m.signals, a) # {} => p.windows > 0
<1> DEFINE active == Active(m.signals, a)
           c == Cardinality(active)
           candidates == Candidates(active)
           em == Emergence(m, a, nodes, active)
           sh == Shift(m, a, nodes, candidates)
           peak == PeakWindow(em, sh)
           p == Profile(m, a, nodes, active)
<1>1. active \in SUBSET (1..n)
  BY DEF Active, IsMeasured
<1>2. IsFiniteSet(active)
  <2> IsFiniteSet(1..n)
    BY FS_Interval
  <2>1. QED
    BY <1>1, FS_Subset
<1>3. c \in Nat /\ (c = 0 <=> active = {})
  BY <1>2, FS_CardinalityType, FS_EmptySet
<1>4. CASE active = {}
  <2>1. p = UnmeasuredProfile
    BY <1>4 DEF Profile
  <2>2. 0 \in Deviations /\ 0 \in Percents
    BY Ranges
  <2>3. UnmeasuredProfile \in GraphRow /\ UnmeasuredProfile.deviation = 0
    BY <2>2 DEF GraphRow, UnmeasuredProfile, NoWindow
  <2> HIDE DEF p, active
  <2>4. p \in GraphRow /\ p.deviation <= 300
    BY <2>1, <2>3
  <2>5. QED
    BY <1>4, <2>4 DEF p, active
<1>5. CASE active # {}
  <2>1. candidates \in SUBSET (1..n)
    BY <1>1 DEF Candidates
  <2>2. p = GraphProfile(m, a, nodes, c, em, sh)
    BY <1>5 DEF Profile
  <2> HIDE DEF active
  <2>3. /\ Found(em, n, Harmless(m, a, nodes, n))
        /\ Found(sh, n, Harmless(m, a, nodes, n))
    BY <1>1, <1>5, <2>1, EmergenceFound, ShiftFound DEF active
  <2> HIDE DEF candidates, em, sh, p, c
  <2>4. peak \in 0..n
    BY <2>3 DEF PeakWindow, Found, NoWindow
  <2> DEFINE d == AtLeast(sh.score, em.score)
             il == IF peak = NoWindow THEN 0 ELSE Illicit(m, a, nodes, peak)
             base == IF c >= MinWindowsForDeviation THEN BaselineSize(c) ELSE 0
             thin == em.score > sh.score \/ sh.at = NoWindow
  <2>5. p = [deviation |-> d, fraction |-> il, peak |-> peak, windows |-> c,
             baseline |-> base, insufficient |-> thin]
    BY <2>2 DEF GraphProfile
  <2>6. d \in Nat /\ d <= 3200 /\ (Harmless(m, a, nodes, n) => d <= 300)
    BY <2>3 DEF Found, AtLeast
  <2>7. il \in Nat /\ il <= 100
    <3>1. CASE peak = NoWindow
      BY <3>1
    <3>2. CASE peak # NoWindow
      <4> HIDE DEF peak
      <4>1. peak \in 1..n
        BY <2>4, <3>2 DEF NoWindow
      <4>2. QED
        BY <3>2, <4>1, IllicitRange
    <3>3. QED
      BY <3>1, <3>2
  <2>8. base \in Nat
    BY <1>3 DEF BaselineSize, AtLeast
  <2>9. thin \in BOOLEAN
    OBVIOUS
  <2>10. peak \in Nat
    BY <2>4
  <2> HIDE DEF d, il, base, thin, peak
  <2>11. d \in Deviations /\ il \in Percents
    BY <2>6, <2>7, Ranges
  <2>12. p \in GraphRow
    BY <1>3, <2>5, <2>8, <2>9, <2>10, <2>11 DEF GraphRow
  <2>13. p.deviation = d /\ p.windows = c
    BY <2>5
  <2>14. QED
    BY <1>3, <1>5, <2>6, <2>12, <2>13 DEF p, active
<1>6. QED
  BY <1>4, <1>5

-----------------------------------------------------------------------------
(* The returns signal.                                                     *)

(* The columns of a return history.                                        *)
LEMMA HistoryTyped ==
  ASSUME NEW h \in History
  PROVE  /\ h.rate \in Nat /\ h.ratio \in Nat /\ h.refusals \in Nat
         /\ h.disputes \in Nat /\ h.rate \in Percents
         /\ h.multi \in BOOLEAN /\ h.other \in BOOLEAN /\ h.young \in BOOLEAN
<1>1. \A x \in Percents : x \in Nat
  BY DEF Percents
<1>2. QED
  BY <1>1 DEF History

ReturnsTerms(h, dense) ==
  <<45 * AtMost(2 * h.rate, 100), 15 * AtMost(2 * h.ratio, 100),
    400 * AtMost(h.refusals, 3), (1000 * AtMost(h.disputes, 3)) \div 3,
    IF h.multi THEN 800 ELSE 0, IF h.other THEN 600 ELSE 0,
    IF dense THEN 400 ELSE 0, Surcharge(h)>>

(* The terms of a returns signal (batch.py:315-335) are naturals.          *)
LEMMA TermsTyped ==
  ASSUME NEW h \in History, NEW dense \in BOOLEAN
  PROVE  \A i \in 1..8 : ReturnsTerms(h, dense)[i] \in Nat
<1>1. AtMost(2 * h.rate, 100) \in Nat /\ AtMost(2 * h.ratio, 100) \in Nat
  BY HistoryTyped DEF AtMost
<1>2. AtMost(h.refusals, 3) \in Nat /\ AtMost(h.disputes, 3) \in Nat
  BY HistoryTyped DEF AtMost
<1>3. Surcharge(h) \in Nat
  BY DEF Surcharge
<1>4. QED
  BY <1>1, <1>2, <1>3 DEF ReturnsTerms

(* The signal is their sum, capped.                                        *)
LEMMA ReturnsSum ==
  ASSUME NEW h \in History, NEW dense \in BOOLEAN
  PROVE  LET t == ReturnsTerms(h, dense) IN
         ReturnsScore(h, dense)
           = AtMost(t[1] + t[2] + t[3] + t[4] + t[5] + t[6] + t[7] + t[8], 10000)
BY DEF ReturnsScore, ReturnsPoints, ReturnsTerms

(* So it is a returns score.                                               *)
LEMMA ReturnsRange ==
  ASSUME NEW h \in History, NEW dense \in BOOLEAN
  PROVE  ReturnsScore(h, dense) \in ReturnsScores
<1> DEFINE t == ReturnsTerms(h, dense)
           s == t[1] + t[2] + t[3] + t[4] + t[5] + t[6] + t[7] + t[8]
<1>1. \A i \in 1..8 : t[i] \in Nat
  BY TermsTyped
<1> HIDE DEF t
<1>2. s \in Nat
  BY <1>1
<1>3. ReturnsScore(h, dense) = AtMost(s, 10000)
  BY ReturnsSum DEF t
<1> HIDE DEF s
<1>4. AtMost(s, 10000) \in Nat /\ AtMost(s, 10000) <= 10000
  BY <1>2 DEF AtMost
<1>5. QED
  BY <1>3, <1>4, Ranges

(* No term is lower for a worse history, nor then is the signal.           *)
LEMMA ReturnsWorse ==
  ASSUME NEW g \in History, NEW h \in History, Worse(h, g),
         NEW d \in BOOLEAN, NEW e \in BOOLEAN, d => e
  PROVE  ReturnsScore(h, e) >= ReturnsScore(g, d)
<1> DEFINE t == ReturnsTerms(g, d)
           u == ReturnsTerms(h, e)
           s == t[1] + t[2] + t[3] + t[4] + t[5] + t[6] + t[7] + t[8]
           r == u[1] + u[2] + u[3] + u[4] + u[5] + u[6] + u[7] + u[8]
<1>1. /\ g.rate \in Nat /\ g.ratio \in Nat /\ g.refusals \in Nat
      /\ g.disputes \in Nat
      /\ h.rate \in Nat /\ h.ratio \in Nat /\ h.refusals \in Nat
      /\ h.disputes \in Nat
  BY HistoryTyped
<1>2. t[1] <= u[1] /\ t[2] <= u[2]
  BY <1>1 DEF Worse, ReturnsTerms, AtMost
<1>3. t[3] <= u[3]
  BY <1>1 DEF Worse, ReturnsTerms, AtMost
<1>4. t[4] <= u[4]
  <2> DEFINE x == AtMost(g.disputes, 3)
             y == AtMost(h.disputes, 3)
  <2>1. x \in Nat /\ y \in Nat /\ x <= y
    BY <1>1 DEF Worse, AtMost
  <2>2. t[4] = (1000 * x) \div 3 /\ u[4] = (1000 * y) \div 3
    BY DEF ReturnsTerms
  <2> HIDE DEF x, y, t, u
  <2>3. QED
    BY <2>1, <2>2
<1>5. t[5] <= u[5] /\ t[6] <= u[6] /\ t[7] <= u[7]
  BY DEF Worse, ReturnsTerms
<1>6. t[8] <= u[8]
  BY <1>1 DEF Worse, ReturnsTerms, Surcharge
<1>7. \A i \in 1..8 : t[i] \in Nat /\ u[i] \in Nat
  BY TermsTyped
<1>8. ReturnsScore(g, d) = AtMost(s, 10000) /\ ReturnsScore(h, e) = AtMost(r, 10000)
  BY ReturnsSum
<1> HIDE DEF t, u
<1>9. s \in Nat /\ r \in Nat /\ s <= r
  BY <1>2, <1>3, <1>4, <1>5, <1>6, <1>7
<1> HIDE DEF s, r
<1>10. QED
  BY <1>8, <1>9 DEF AtMost
-----------------------------------------------------------------------------
(* What the stores of a batch give.                                        *)

Names == Corpora \union {Nothing}
Reads == [Tables -> Names]

(* Whatever a batch read of, tables of a store or empty ones, is well      *)
(* formed.                                                                 *)
LEMMA StoresTyped ==
  ASSUME NEW c \in Names
  PROVE  /\ IsLog(Stored(c).edges) /\ IsTable(Stored(c).nodes)
         /\ DOMAIN Stored(c).history \in SUBSET Accounts
         /\ \A a \in DOMAIN Stored(c).history : Stored(c).history[a] \in History
         /\ c = Nothing => Stored(c).edges = {}
<1>1. CASE c \in Corpora
  <2>1. IsStore(Stored(c)) /\ c # Nothing
    BY <1>1, CorporaAssumption
  <2>2. QED
    BY <2>1 DEF IsStore, IsLog, IsTable
<1>2. CASE c = Nothing
  <2>1. Stored(c) = EmptyStore
    BY <1>2, CorporaAssumption
  <2>2. IsLog({})
    BY FS_EmptySet DEF IsLog
  <2>3. DOMAIN <<>> = {}
    OBVIOUS
  <2>4. /\ Stored(c).edges = {} /\ Stored(c).nodes = <<>>
        /\ Stored(c).history = <<>>
    BY <2>1 DEF EmptyStore
  <2>5. QED
    BY <1>2, <2>2, <2>3, <2>4 DEF IsTable
<1>3. QED
  BY <1>1, <1>2 DEF Names

(* No counterparty of an account that keeps to its own is risky to it.     *)
LEMMA NotRisky ==
  ASSUME NEW log, NEW nodes, NEW a, KeepsToItsOwn(log, nodes, a),
         NEW cp \in Counterparties(log, a)
  PROVE  ~Risky(nodes[a].cluster, cp, nodes)
BY DEF KeepsToItsOwn, Risky

(* A profile is a row's; of an account that keeps to its own it is low,    *)
(* however it bursts; and an account with a counterparty in some window is *)
(* measured.                                                               *)
LEMMA ProfileInSound ==
  ASSUME NEW read \in Reads, NEW a \in DOMAIN NodesOf(read)
  PROVE  /\ ProfileIn(read, a) \in GraphRow
         /\ KeepsToItsOwn(EdgesOf(read), NodesOf(read), a)
              => ProfileIn(read, a).deviation <= 300
         /\ \A i \in DOMAIN RollingWindows(EdgesOf(read)) :
              Counterparties(EdgesInWindow(EdgesOf(read),
                                           RollingWindows(EdgesOf(read))[i]), a) # {}
                => ProfileIn(read, a).windows > 0
<1> DEFINE log == EdgesOf(read)
           nodes == NodesOf(read)
           windows == RollingWindows(log)
           signals == [i \in DOMAIN windows |-> WindowSignals(log, windows[i])]
           m == MeasuredIn(windows, signals)
           p == ProfileIn(read, a)
           tables == {Stored(c).nodes : c \in Names}
<1>1. read.edges \in Names /\ read.nodes \in Names
  BY DEF Reads, Tables
<1>2. IsLog(log) /\ IsTable(nodes) /\ a \in Accounts
  BY <1>1, StoresTyped DEF EdgesOf, NodesOf, IsTable
<1>3. p = GraphProfiles(windows, m, nodes)[a]
  <2>1. nodes \in tables
    BY <1>1 DEF NodesOf
  <2>2. ProfilesOf[read.edges]
          = [table \in tables |-> GraphProfiles(windows, m, table)]
    BY <1>1 DEF ProfilesOf, EdgesOf, Names
  <2> HIDE DEF windows, m, nodes, tables
  <2>3. ProfilesOf[read.edges][nodes] = GraphProfiles(windows, m, nodes)
    BY <2>1, <2>2
  <2>4. QED
    BY <2>3 DEF ProfileIn, p, nodes
<1>4. CASE windows = <<>>
  <2>1. p = UnmeasuredProfile
    BY <1>3, <1>4 DEF GraphProfiles
  <2>2. DOMAIN windows = {}
    BY <1>4
  <2>3. UnmeasuredProfile \in GraphRow /\ UnmeasuredProfile.deviation = 0
    <3>1. 0 \in Deviations /\ 0 \in Percents
      BY Ranges
    <3>2. QED
      BY <3>1 DEF GraphRow, UnmeasuredProfile, NoWindow
  <2> HIDE DEF p, windows
  <2>4. p \in GraphRow /\ p.deviation <= 300
    BY <2>1, <2>3
  <2>5. QED
    BY <2>2, <2>4 DEF p, windows
<1>5. CASE windows # <<>>
  <2>1. log # {} /\ read.edges \in Corpora
    BY <1>1, <1>5, StoresTyped DEF RollingWindows, EdgesOf, Names
  <2> DEFINE n == Steps(LastDay(log) - FirstDay(log))
  <2>2. n \in Nat /\ DOMAIN windows = 1..n
    BY <1>2, <2>1, WindowsOfLog
  <2>3. p = Profile(m, a, nodes, Active(m.signals, a))
    BY <1>3, <1>5 DEF GraphProfiles, ProfilesIn
  <2> HIDE DEF log, nodes, windows, n, p
  <2>4. signals \in [1..n -> Signals]
    <3>1. ASSUME NEW i \in 1..n
          PROVE  WindowSignals(log, windows[i]) \in Signals
      <4>1. \A b \in Accounts : PageRank(EdgesInWindow(log, windows[i]), b) \in Nat
        BY <2>1, <2>2, PageRankAssumption DEF log, windows, EdgesOf
      <4>2. QED
        BY <1>2, <4>1, SignalsTyped
    <3>2. QED
      BY <2>2, <3>1
  <2>5. \A i \in 1..n : signals[i].parties[a]
                          = Counterparties(EdgesInWindow(log, windows[i]), a)
    BY <1>2, <2>2 DEF WindowSignals
  <2> HIDE DEF signals
  <2>6. IsMeasured(m, n) /\ m.signals = signals
    BY <1>5, <2>2, <2>4, MeasuredTyped
  <2> HIDE DEF m
  <2>7. /\ p \in GraphRow
        /\ Harmless(m, a, nodes, n) => p.deviation <= 300
        /\ Active(m.signals, a) # {} => p.windows > 0
    BY <1>2, <2>2, <2>3, <2>6, ProfileSound
  <2>8. ASSUME KeepsToItsOwn(log, nodes, a)
        PROVE  Harmless(m, a, nodes, n)
    <3> SUFFICES ASSUME NEW i \in 1..n
                 PROVE  Illicit(m, a, nodes, i) = 0
      BY DEF Harmless
    <3> DEFINE cps == Counterparties(EdgesInWindow(log, windows[i]), a)
    <3>1. cps \in SUBSET Counterparties(log, a)
      BY DEF Counterparties, EdgesInWindow
    <3>2. \A cp \in cps : ~Risky(nodes[a].cluster, cp, nodes)
      BY <2>8, <3>1, NotRisky
    <3>3. EdgesInWindow(log, windows[i]) \in SUBSET Transfer
      BY <1>2 DEF EdgesInWindow, IsLog
    <3>4. IsFiniteSet(cps)
      BY <3>3, GraphFinite
    <3>5. m.signals[i].parties[a] = cps
      BY <2>5, <2>6
    <3> HIDE DEF cps
    <3>6. QED
      BY <3>2, <3>4, <3>5, IllicitFractionRange DEF Illicit
  <2>9. ASSUME NEW i \in DOMAIN windows,
               Counterparties(EdgesInWindow(log, windows[i]), a) # {}
        PROVE  p.windows > 0
    <3>1. i \in Active(m.signals, a)
      BY <2>2, <2>4, <2>5, <2>6, <2>9 DEF Active
    <3>2. QED
      BY <2>7, <3>1
  <2>10. QED
    BY <2>7, <2>8, <2>9 DEF p, log, nodes, windows
<1>6. QED
  BY <1>4, <1>5

-----------------------------------------------------------------------------
(* The rows that a batch computes.                                         *)

(* The tables that a batch read.                                           *)
LEMMA Typed ==
  ASSUME NEW read \in Reads
  PROVE  /\ Scored(read) \in SUBSET Accounts
         /\ DOMAIN NodesOf(read) \in SUBSET Accounts
         /\ DOMAIN HistoryOf(read) \in SUBSET Accounts
         /\ \A a \in DOMAIN HistoryOf(read) : HistoryOf(read)[a] \in History
         /\ IsLog(EdgesOf(read))
<1>1. read.nodes \in Names /\ read.history \in Names /\ read.edges \in Names
  BY DEF Reads, Tables
<1>2. QED
  BY <1>1, StoresTyped DEF Scored, NodesOf, HistoryOf, EdgesOf, IsTable

(* A band is one of three.                                                 *)
LEMMA BandsTyped ==
  ASSUME NEW x
  PROVE  DeviationBand(x) \in Bands /\ ReturnsBand(x) \in Bands
BY DEF DeviationBand, ReturnsBand, Bands

(* A batch assigns whole rows, and assigning them again changes nothing:   *)
(* the one column that it may leave alone is one that the row had.         *)
LEMMA AssignedTyped ==
  ASSUME NEW read \in Reads, NEW a \in Accounts, NEW old \in Row \union {NoRow}
  PROVE  /\ Assigned(read, a, old) \in Row
         /\ Assigned(read, a, Assigned(read, a, old)) = Assigned(read, a, old)
         /\ Assigned(read, a, old).deviation \in Nat
         /\ Assigned(read, a, old).band
              = DeviationBand(Assigned(read, a, old).deviation)
<1> DEFINE known == a \in DOMAIN HistoryOf(read)
           g == GraphProfileOf(read, a)
           near == a \in DenseOf(read)
           score == ReturnsOf(read, a)
           rate(o) == RateOf(read, a, o)
           new(o) == RowOf(g, rate(o), near, score)
<1>1. \A o : Assigned(read, a, o) = new(o)
  BY DEF Assigned
<1>2. g \in GraphRow
  <2>1. UnmeasuredProfile \in GraphRow
    <3>1. 0 \in Deviations /\ 0 \in Percents
      BY Ranges
    <3>2. QED
      BY <3>1 DEF GraphRow, UnmeasuredProfile, NoWindow
  <2>2. QED
    BY <2>1, ProfileInSound DEF GraphProfileOf
<1>3. near \in BOOLEAN
  OBVIOUS
<1>4. score \in ReturnsScores
  <2>1. CASE known
    <3>1. HistoryOf(read)[a] \in History
      BY <2>1, Typed
    <3>2. CASE near
      <4>1. ReturnsScore(HistoryOf(read)[a], TRUE) \in ReturnsScores
        BY <3>1, ReturnsRange
      <4>2. (a \in DenseOf(read)) = TRUE
        BY <3>2
      <4>3. QED
        BY <2>1, <4>1, <4>2 DEF ReturnsOf
    <3>3. CASE ~near
      <4>1. ReturnsScore(HistoryOf(read)[a], FALSE) \in ReturnsScores
        BY <3>1, ReturnsRange
      <4>2. (a \in DenseOf(read)) = FALSE
        BY <3>3
      <4>3. QED
        BY <2>1, <4>1, <4>2 DEF ReturnsOf
    <3>4. QED
      BY <3>2, <3>3
  <2>2. CASE ~known
    BY <2>2, Ranges DEF ReturnsOf
  <2>3. QED
    BY <2>1, <2>2
<1>5. rate(old) \in Percents
  <2>1. old # NoRow => old.rate \in Percents
    BY DEF Row
  <2>2. 0 \in Percents
    BY Ranges
  <2>3. known => HistoryOf(read)[a].rate \in Percents
    BY Typed, HistoryTyped
  <2>4. QED
    BY <2>1, <2>2, <2>3 DEF RateOf
<1>6. \A x \in Deviations : x \in Nat
  BY DEF Deviations, MaxDeviation
<1>7. rate(new(old)) = rate(old)
  <2>1. CASE known
    BY <2>1 DEF RateOf
  <2>2. CASE ~known
    <3>1. rate(old) \in Percents /\ new(old).rate = rate(old)
      BY <1>5 DEF RowOf
    <3>2. new(old) # NoRow
      <4> HIDE DEF known, g, near, score, rate
      <4>1. new(old) \in Row
        BY <1>2, <1>3, <1>4, <1>5, BandsTyped DEF GraphRow, Row, RowOf
      <4>2. QED
        BY <4>1, NoProfileAssumption
    <3>3. QED
      BY <2>2, <3>1, <3>2 DEF RateOf
  <2>3. QED
    BY <2>1, <2>2
<1> HIDE DEF known, g, near, score, rate
<1>8. new(old) \in Row
  BY <1>2, <1>3, <1>4, <1>5, BandsTyped DEF GraphRow, Row, RowOf
<1>9. new(new(old)) = new(old)
  BY <1>7
<1>10. g.deviation \in Nat
  BY <1>2, <1>6 DEF GraphRow
<1>11. new(old).deviation = g.deviation /\ new(old).band = DeviationBand(g.deviation)
  BY DEF RowOf
<1>12. QED
  BY <1>1, <1>8, <1>9, <1>10, <1>11

(* Columns of two rows make a row.                                         *)
LEMMA MergedTyped ==
  ASSUME NEW was \in Row, NEW new \in Row, NEW now \in Row
  PROVE  MergedColumns(was, new, now) \in Row
<1>1. DOMAIN new = {"deviation", "band", "fraction", "peak", "windows",
                    "baseline", "insufficient", "rate", "dense", "returns",
                    "returnsBand"}
  BY DEF Row
<1>2. \A c \in DOMAIN new :
        MergedColumns(was, new, now)[c] = new[c]
          \/ MergedColumns(was, new, now)[c] = now[c]
  BY DEF MergedColumns, Column
<1>3. DOMAIN MergedColumns(was, new, now) = DOMAIN new
  BY DEF MergedColumns
<1>4. QED
  BY <1>1, <1>2, <1>3 DEF Row, MergedColumns

(* Nothing changed meanwhile: what is merged is what was assigned.         *)
LEMMA MergedAlone ==
  ASSUME NEW was, NEW new \in Row
  PROVE  MergedColumns(was, new, was) = new
<1>1. MergedColumns(was, new, was) = [c \in DOMAIN new |-> new[c]]
  BY DEF MergedColumns, Column
<1>2. QED
  BY <1>1 DEF Row

-----------------------------------------------------------------------------
(* The invariant.  The store grows by files, and a row is never deleted:   *)
(* what a batch loaded as a row is a row still when it commits, so that    *)
(* the columns it merges are those of a row.                               *)

Table  == [Accounts -> Row \union {NoRow}]
Loads  == Table \union {<<>>}
InHand == [stage: Stages, file: Nat, read: Reads, loaded: Loads]

Opened == {"nodes", "history", "dense", "rows", "commit"}

(* A batch in state s, when there are n files and the table is stored.     *)
Holding(s, n, stored) ==
  /\ s \in InHand /\ s.file <= n
  /\ s.stage \in Opened => s.file # 0
  /\ s.stage = "commit" =>
       /\ s.loaded \in Table
       /\ \A a \in Accounts : s.loaded[a] # NoRow => stored[a] # NoRow

RiskInv ==
  /\ files \in Seq(File)
  /\ rows \in Table
  /\ DOMAIN batches = Batches
  /\ \A b \in Batches : Holding(batches[b], Len(files), rows)

Kept(stored, later) ==
  \A a \in Accounts : stored[a] # NoRow => later[a] # NoRow

(* A batch that waits: files are only added, rows never removed.           *)
LEMMA HoldingStays ==
  ASSUME NEW s, NEW n, NEW k, NEW stored, NEW later, n \in Nat, k \in Nat,
         n <= k, Holding(s, n, stored), Kept(stored, later)
  PROVE  Holding(s, k, later)
<1>1. s.file \in Nat
  BY DEF Holding, InHand
<1>2. QED
  BY <1>1 DEF Holding, Kept

(* A batch that has nothing in hand, or is about to read.                  *)
LEMMA IdleHolds ==
  ASSUME NEW n, NEW stored, n \in Nat
  PROVE  /\ Holding(IdleBatch, n, stored)
         /\ Holding([IdleBatch EXCEPT !.stage = "edges"], n, stored)
<1>1. [t \in Tables |-> Nothing] \in Reads
  BY DEF Reads, Names
<1>2. <<>> \in Loads
  BY DEF Loads
<1>3. [IdleBatch EXCEPT !.stage = "edges"]
        = [stage |-> "edges", file |-> 0, read |-> [t \in Tables |-> Nothing],
           loaded |-> <<>>]
  BY DEF IdleBatch
<1>4. QED
  BY <1>1, <1>2, <1>3 DEF Holding, InHand, IdleBatch, Stages, Opened

(* What a file holds has a name.                                           *)
LEMMA ContentNamed ==
  ASSUME files \in Seq(File), NEW i \in 1..Len(files)
  PROVE  Content(i) \in Names
<1>1. files[i] \in File
  OBVIOUS
<1>2. files[i].corpus \in Corpora
  BY <1>1 DEF File
<1>3. QED
  BY <1>2 DEF Content, Names

(* A batch moves; the others wait.                                         *)
LEMMA MoveKeeps ==
  ASSUME RiskInv, NEW b \in Batches, NEW state, BatchMoves(b, state),
         Holding(state, Len(files), rows'), rows' \in Table, Kept(rows, rows')
  PROVE  RiskInv'
<1>1. files' = files /\ batches' = [batches EXCEPT ![b] = state]
  BY DEF BatchMoves
<1>2. Len(files) \in Nat
  BY DEF RiskInv
<1>3. ASSUME NEW c \in Batches
      PROVE  Holding(batches'[c], Len(files), rows')
  <2>1. CASE c = b
    BY <1>1, <2>1 DEF RiskInv
  <2>2. CASE c # b
    <3>1. batches'[c] = batches[c]
      BY <1>1, <2>2 DEF RiskInv
    <3>2. Holding(batches[c], Len(files), rows)
      BY DEF RiskInv
    <3>3. Holding(batches[c], Len(files), rows')
      BY <1>2, <3>2, HoldingStays
    <3>4. QED
      BY <3>1, <3>3
  <2>3. QED
    BY <2>1, <2>2
<1>4. DOMAIN batches' = Batches
  BY <1>1 DEF RiskInv
<1>5. QED
  BY <1>1, <1>3, <1>4 DEF RiskInv

(* A batch reads the next table of the file that it opened.                *)
LEMMA ReadingKeeps ==
  ASSUME RiskInv, NEW b \in Batches, NEW table \in Tables, NEW next,
         table # "edges", next \in Opened \ {"commit"}, Reading(b, table, next)
  PROVE  RiskInv'
<1> DEFINE s == batches[b]
           read == [s.read EXCEPT ![table] = Content(s.file)]
           state == [s EXCEPT !.stage = next, !.read[table] = Content(s.file)]
<1>1. s.stage = table /\ BatchMoves(b, state) /\ rows' = rows
  BY DEF Reading
<1>2. Holding(s, Len(files), rows)
  BY DEF RiskInv
<1>3. s.file \in 1..Len(files)
  <2>1. table \in Opened
    BY DEF Tables, Opened
  <2>2. s.file \in Nat /\ s.file <= Len(files) /\ s.file # 0
    BY <1>1, <1>2, <2>1 DEF Holding, InHand
  <2>3. QED
    BY <2>2 DEF RiskInv
<1>4. Content(s.file) \in Names
  BY <1>3, ContentNamed DEF RiskInv
<1>5. s \in InHand
  BY <1>2 DEF Holding
<1>6. read \in Reads
  BY <1>4, <1>5 DEF InHand, Reads
<1>7. state = [s EXCEPT !.stage = next, !.read = read]
  BY <1>5 DEF InHand
<1>8. next \in Stages /\ next # "commit"
  BY DEF Opened, Stages
<1> HIDE DEF state, read, s
<1>9. Holding(state, Len(files), rows)
  <2>1. state \in InHand
    BY <1>5, <1>6, <1>7, <1>8 DEF InHand
  <2>2. state.stage = next /\ state.file = s.file
    BY <1>5, <1>7 DEF InHand
  <2>3. QED
    BY <1>3, <1>8, <2>1, <2>2 DEF Holding, InHand
<1>10. rows' \in Table /\ Kept(rows, rows')
  BY <1>1 DEF RiskInv, Kept
<1>11. QED
  BY <1>1, <1>9, <1>10, MoveKeeps

(* Every row of a batch is one, and none that was there is lost.           *)
LEMMA CommittedTyped ==
  ASSUME NEW s \in InHand, NEW a \in Accounts, rows \in Table,
         s.loaded \in Table, s.loaded[a] # NoRow => rows[a] # NoRow
  PROVE  /\ Committed(s, a) \in Row \union {NoRow}
         /\ rows[a] # NoRow => Committed(s, a) # NoRow
<1> DEFINE was == s.loaded[a]
           new == Assigned(s.read, a, was)
<1>1. was \in Row \union {NoRow} /\ rows[a] \in Row \union {NoRow}
  BY DEF Table
<1>2. s.read \in Reads
  BY DEF InHand
<1>3. new \in Row
  BY <1>1, <1>2, AssignedTyped
<1>4. Committed(s, a) = IF a \notin Scored(s.read) THEN rows[a]
                        ELSE IF was = NoRow THEN new
                        ELSE MergedColumns(was, new, rows[a])
  BY DEF Committed
<1>5. was # NoRow => MergedColumns(was, new, rows[a]) \in Row
  <2> HIDE DEF new
  <2>1. QED
    BY <1>1, <1>3, MergedTyped
<1> HIDE DEF was, new
<1>6. QED
  BY <1>1, <1>3, <1>4, <1>5, NoProfileAssumption

(* At the start no batch has anything in hand.                             *)
LEMMA RiskInvInit == RiskInit => RiskInv
<1> SUFFICES ASSUME RiskInit PROVE RiskInv
  OBVIOUS
<1>1. Len(files) = 0 /\ Len(files) \in Nat /\ files \in Seq(File)
  BY DEF RiskInit
<1>2. rows \in Table /\ DOMAIN batches = Batches
  BY DEF RiskInit, Table
<1>3. \A b \in Batches : batches[b] = IdleBatch
  BY DEF RiskInit
<1>4. Holding(IdleBatch, Len(files), rows)
  BY <1>1, IdleHolds
<1>5. QED
  BY <1>1, <1>2, <1>3, <1>4 DEF RiskInv

(* Builds add a file or fill the present one.                              *)
LEMMA BuildKeeps ==
  ASSUME RiskInv, BeginBuild \/ CommitBuild
  PROVE  RiskInv'
<1>1. rows' = rows /\ batches' = batches
  BY DEF BeginBuild, CommitBuild
<1>2. files' \in Seq(File) /\ Len(files') >= Len(files) /\ Len(files') \in Nat
  <2>1. CASE BeginBuild
    <3>1. PICK c \in Corpora : files' = Append(files, [corpus |-> c, built |-> FALSE])
      BY <2>1 DEF BeginBuild
    <3>2. [corpus |-> c, built |-> FALSE] \in File
      BY DEF File
    <3>3. QED
      BY <3>1, <3>2 DEF RiskInv
  <2>2. CASE CommitBuild
    <3> DEFINE n == Len(files)
               f == [files[n] EXCEPT !.built = TRUE]
    <3>1. n \in 1..Len(files) /\ files \in Seq(File)
      BY <2>2 DEF CommitBuild, RiskInv
    <3>2. files' = [files EXCEPT ![n] = f]
      BY <2>2 DEF CommitBuild
    <3>3. files[n] \in File
      BY <3>1
    <3>4. f \in File
      BY <3>3 DEF File
    <3> HIDE DEF f
    <3>5. QED
      BY <3>1, <3>2, <3>4
  <2>3. QED
    BY <2>1, <2>2
<1>3. \A b \in Batches : Holding(batches[b], Len(files'), rows)
  <2>1. Len(files) \in Nat
    BY DEF RiskInv
  <2>2. Kept(rows, rows)
    BY DEF Kept
  <2>3. QED
    BY <1>2, <2>1, <2>2, HoldingStays DEF RiskInv
<1>4. QED
  BY <1>1, <1>2, <1>3 DEF RiskInv

(* Every step of a batch keeps the invariant.                              *)
LEMMA BatchKeeps ==
  ASSUME RiskInv, NEW b \in Batches, BatchStep(b)
  PROVE  RiskInv'
<1> DEFINE s == batches[b]
           n == Len(files)
<1>1. Holding(s, n, rows) /\ n \in Nat
  BY DEF RiskInv
<1>2. rows' = rows => rows' \in Table /\ Kept(rows, rows')
  BY DEF RiskInv, Kept
<1>3. ASSUME rows' = rows, BatchMoves(b, IdleBatch)
      PROVE  RiskInv'
  <2>1. Holding(IdleBatch, n, rows')
    BY <1>1, IdleHolds
  <2>2. QED
    BY <1>2, <1>3, <2>1, MoveKeeps
<1>4. CASE RunNightly(b) \/ EnsureProfiles(b)
  <2>1. Holding([IdleBatch EXCEPT !.stage = "edges"], n, rows')
    BY <1>1, IdleHolds
  <2>2. rows' = rows /\ BatchMoves(b, [IdleBatch EXCEPT !.stage = "edges"])
    BY <1>4 DEF RunNightly, EnsureProfiles
  <2>3. QED
    BY <1>2, <2>1, <2>2, MoveKeeps
<1>5. CASE LoadEdges(b)
  <2> DEFINE read == [s.read EXCEPT !.edges = Content(n)]
             state == [s EXCEPT !.stage = "nodes", !.file = n,
                                !.read.edges = Content(n)]
  <2>1. BatchMoves(b, state) /\ rows' = rows /\ files # <<>>
    BY <1>5 DEF LoadEdges
  <2>2. s \in InHand
    BY <1>1 DEF Holding
  <2>3. n # 0 /\ n \in 1..n
    BY <1>1, <2>1 DEF RiskInv
  <2>4. Content(n) \in Names
    BY <2>3, ContentNamed DEF RiskInv
  <2>5. read \in Reads
    BY <2>2, <2>4 DEF InHand, Reads
  <2>6. state = [s EXCEPT !.stage = "nodes", !.file = n, !.read = read]
    BY <2>2 DEF InHand
  <2> HIDE DEF state, read, s
  <2>7. Holding(state, n, rows')
    <3>1. state \in InHand
      BY <1>1, <2>2, <2>5, <2>6 DEF InHand, Stages
    <3>2. state.stage = "nodes" /\ state.file = n
      BY <2>2, <2>6 DEF InHand
    <3>3. QED
      BY <1>1, <2>3, <3>1, <3>2 DEF Holding
  <2>8. QED
    BY <1>2, <2>1, <2>7, MoveKeeps
<1>6. CASE LoadNodes(b) \/ LoadHistory(b) \/ LoadDense(b)
  <2>1. {"history", "dense", "rows"} \subseteq Opened \ {"commit"}
    BY DEF Opened
  <2>2. {"nodes", "history", "dense"} \subseteq Tables \ {"edges"}
    BY DEF Tables
  <2>3. CASE LoadNodes(b)
    BY <2>1, <2>2, <2>3, ReadingKeeps DEF LoadNodes
  <2>4. CASE LoadHistory(b)
    BY <2>1, <2>2, <2>4, ReadingKeeps DEF LoadHistory
  <2>5. CASE LoadDense(b)
    BY <2>1, <2>2, <2>5, ReadingKeeps DEF LoadDense
  <2>6. QED
    BY <1>6, <2>3, <2>4, <2>5
<1>7. CASE LoadRows(b)
  <2> DEFINE state == [s EXCEPT !.stage = "commit", !.loaded = rows]
  <2>1. BatchMoves(b, state) /\ rows' = rows /\ s.stage = "rows"
    BY <1>7 DEF LoadRows
  <2>2. s \in InHand /\ s.file # 0 /\ s.file <= n
    BY <1>1, <2>1 DEF Holding, Opened
  <2>3. rows \in Table
    BY DEF RiskInv
  <2>4. Holding(state, n, rows')
    <3> HIDE DEF s
    <3>1. state \in InHand
      BY <2>2, <2>3 DEF InHand, Loads, Stages
    <3>2. state.file = s.file /\ state.loaded = rows
      BY <2>2 DEF InHand
    <3> HIDE DEF state
    <3>3. QED
      BY <2>1, <2>2, <2>3, <3>1, <3>2 DEF Holding
  <2>5. QED
    BY <1>2, <2>1, <2>4, MoveKeeps
<1>8. CASE CommitBatch(b)
  <2>1. /\ BatchMoves(b, IdleBatch) /\ s.stage = "commit"
        /\ rows' = [a \in Accounts |-> Committed(s, a)]
    BY <1>8 DEF CommitBatch
  <2>2. /\ s \in InHand /\ s.loaded \in Table /\ rows \in Table
        /\ \A a \in Accounts : s.loaded[a] # NoRow => rows[a] # NoRow
    BY <1>1, <2>1 DEF Holding, RiskInv
  <2>3. \A a \in Accounts :
          /\ Committed(s, a) \in Row \union {NoRow}
          /\ rows[a] # NoRow => Committed(s, a) # NoRow
    <3> HIDE DEF s
    <3>1. QED
      BY <2>2, CommittedTyped
  <2> HIDE DEF s
  <2>4. rows' \in Table /\ Kept(rows, rows')
    BY <2>1, <2>3 DEF Table, Kept
  <2>5. Holding(IdleBatch, n, rows')
    BY <1>1, IdleHolds
  <2>6. QED
    BY <2>1, <2>4, <2>5, MoveKeeps
<1>9. CASE CommitConflict(b) \/ BatchAbort(b)
  <2>1. rows' = rows /\ BatchMoves(b, IdleBatch)
    BY <1>9 DEF CommitConflict, BatchAbort
  <2>2. QED
    BY <1>3, <2>1
<1>10. QED
  BY <1>4, <1>5, <1>6, <1>7, <1>8, <1>9 DEF BatchStep

(* And so does every step.                                                 *)
LEMMA RiskInvStep == RiskInv /\ [RiskNext]_riskVars => RiskInv'
<1> SUFFICES ASSUME RiskInv, [RiskNext]_riskVars
             PROVE  RiskInv'
  OBVIOUS
<1>1. CASE BeginBuild \/ CommitBuild
  BY <1>1, BuildKeeps
<1>2. CASE \E b \in Batches : BatchStep(b)
  BY <1>2, BatchKeeps
<1>3. CASE UNCHANGED riskVars
  BY <1>3 DEF riskVars, RiskInv
<1>4. QED
  BY <1>1, <1>2, <1>3 DEF RiskNext

(* The invariant holds in every reachable state.                           *)
THEOREM RiskInvariant == RiskSpec => []RiskInv
BY RiskInvInit, RiskInvStep, PTL DEF RiskSpec

(* Every row ever committed is one of the table's, each column in its      *)
(* range, and every batch reads tables that there were (batch.py:349-447). *)
THEOREM RiskTypeCorrect == RiskSpec => []RiskTypeOK
<1>1. RiskInv => RiskTypeOK
  <2> SUFFICES ASSUME RiskInv PROVE RiskTypeOK
    OBVIOUS
  <2>1. files \in Seq(File) /\ rows \in [Accounts -> Row \union {NoRow}]
    BY DEF RiskInv, Table
  <2>2. Len(files) \in Nat
    BY <2>1
  <2>3. ASSUME NEW b \in Batches
        PROVE  /\ batches[b].stage \in Stages
               /\ batches[b].file \in 0..Len(files)
               /\ batches[b].read \in [Tables -> Corpora \union {Nothing}]
    <3>1. batches[b] \in InHand /\ batches[b].file <= Len(files)
      BY DEF RiskInv, Holding
    <3>2. /\ batches[b].stage \in Stages /\ batches[b].file \in Nat
          /\ batches[b].read \in Reads
      BY <3>1 DEF InHand
    <3>3. QED
      BY <2>2, <3>1, <3>2 DEF Reads, Names
  <2>4. QED
    BY <2>1, <2>3 DEF RiskTypeOK
<1>2. QED
  BY <1>1, RiskInvariant, PTL

(* What a batch read has names.                                            *)
LEMMA ReadNamed == RiskInv => \A b \in Batches : batches[b].read \in Reads
BY DEF RiskInv, Holding, InHand

(* Overlapping windows leave no gap in a log that spans any time, of any   *)
(* length: an account that made a transfer is measured (graph.py:136-160,  *)
(* batch.py:191-197).                                                      *)
THEOREM EveryTransferWindowed == RiskSpec => []TransfersWindowed
<1>1. RiskInv => TransfersWindowed
  <2> SUFFICES ASSUME RiskInv, NEW b \in Batches,
                      EdgesOf(batches[b].read) # {},
                      FirstDay(EdgesOf(batches[b].read))
                        < LastDay(EdgesOf(batches[b].read)),
                      NEW t \in EdgesOf(batches[b].read)
               PROVE  /\ \E i \in DOMAIN RollingWindows(EdgesOf(batches[b].read)) :
                           t \in EdgesInWindow(EdgesOf(batches[b].read),
                                   RollingWindows(EdgesOf(batches[b].read))[i])
                      /\ \A a \in {t.src, t.dst} \intersect DOMAIN NodesOf(batches[b].read) :
                           ProfileIn(batches[b].read, a).windows > 0
    BY DEF TransfersWindowed, Ready
  <2> DEFINE read == batches[b].read
             log == EdgesOf(read)
             windows == RollingWindows(log)
  <2>1. read \in Reads
    BY ReadNamed
  <2> HIDE DEF read
  <2>2. IsLog(log)
    BY <2>1, Typed
  <2>3. PICK i \in DOMAIN windows : t \in EdgesInWindow(log, windows[i])
    BY <2>2, NoGap DEF read
  <2>4. ASSUME NEW a \in DOMAIN NodesOf(read), a \in {t.src, t.dst}
        PROVE  ProfileIn(read, a).windows > 0
    <3>1. Counterparties(EdgesInWindow(log, windows[i]), a) # {}
      BY <2>3, <2>4 DEF Counterparties
    <3>2. QED
      BY <2>1, <2>3, <3>1, ProfileInSound
  <2>5. QED
    BY <2>3, <2>4 DEF read
<1>2. QED
  BY <1>1, RiskInvariant, PTL

(* "A pure volume spike among the same counterparties barely moves the     *)
(* score": whatever the log, an account without a risky counterparty is    *)
(* "low" (batch.py:18-26, 117-136, 259-264).                               *)
THEOREM BurstsNotTrusted == RiskSpec => []BurstsStayLow
<1>1. RiskInv => BurstsStayLow
  <2> SUFFICES ASSUME RiskInv, NEW b \in Batches,
                      NEW a \in DOMAIN NodesOf(batches[b].read),
                      KeepsToItsOwn(EdgesOf(batches[b].read),
                                    NodesOf(batches[b].read), a)
               PROVE  DeviationBand(ProfileIn(batches[b].read, a).deviation) = "low"
    BY DEF BurstsStayLow, Ready
  <2> DEFINE d == ProfileIn(batches[b].read, a).deviation
  <2>1. d <= 300 /\ ProfileIn(batches[b].read, a) \in GraphRow
    BY ReadNamed, ProfileInSound
  <2>2. d \in Nat
    <3>1. \A x \in Deviations : x \in Nat
      BY DEF Deviations, MaxDeviation
    <3>2. d \in Deviations
      BY <2>1 DEF GraphRow
    <3>3. QED
      BY <3>1, <3>2
  <2> HIDE DEF d
  <2>3. DeviationBand(d) = "low"
    BY <2>1, <2>2 DEF DeviationBand, HighDeviation, ElevatedDeviation
  <2>4. QED
    BY <2>3 DEF d
<1>2. QED
  BY <1>1, RiskInvariant, PTL

(* A worse return history never scores lower (batch.py:315-335).           *)
THEOREM ReturnsNeverReward == RiskSpec => []ReturnsMonotone
<1>1. RiskInv => ReturnsMonotone
  <2> SUFFICES ASSUME RiskInv, NEW b \in Batches,
                      NEW a \in DOMAIN HistoryOf(batches[b].read),
                      NEW c \in DOMAIN HistoryOf(batches[b].read),
                      Worse(HistoryOf(batches[b].read)[a],
                            HistoryOf(batches[b].read)[c]),
                      c \in DenseOf(batches[b].read) => a \in DenseOf(batches[b].read)
               PROVE  ReturnsScore(HistoryOf(batches[b].read)[a],
                                   a \in DenseOf(batches[b].read))
                        >= ReturnsScore(HistoryOf(batches[b].read)[c],
                                        c \in DenseOf(batches[b].read))
    BY DEF ReturnsMonotone, Ready
  <2> DEFINE read == batches[b].read
             h == HistoryOf(read)[a]
             g == HistoryOf(read)[c]
  <2>1. h \in History /\ g \in History
    BY ReadNamed, Typed
  <2>2. CASE a \in DenseOf(read) /\ c \in DenseOf(read)
    <3>1. (a \in DenseOf(read)) = TRUE /\ (c \in DenseOf(read)) = TRUE
      BY <2>2
    <3>2. ReturnsScore(h, TRUE) >= ReturnsScore(g, TRUE)
      BY <2>1, ReturnsWorse
    <3>3. QED
      BY <3>1, <3>2
  <2>3. CASE a \in DenseOf(read) /\ c \notin DenseOf(read)
    <3>1. (a \in DenseOf(read)) = TRUE /\ (c \in DenseOf(read)) = FALSE
      BY <2>3
    <3>2. ReturnsScore(h, TRUE) >= ReturnsScore(g, FALSE)
      BY <2>1, ReturnsWorse
    <3>3. QED
      BY <3>1, <3>2
  <2>4. CASE a \notin DenseOf(read) /\ c \notin DenseOf(read)
    <3>1. (a \in DenseOf(read)) = FALSE /\ (c \in DenseOf(read)) = FALSE
      BY <2>4
    <3>2. ReturnsScore(h, FALSE) >= ReturnsScore(g, FALSE)
      BY <2>1, ReturnsWorse
    <3>3. QED
      BY <3>1, <3>2
  <2>5. QED
    BY <2>2, <2>3, <2>4
<1>2. QED
  BY <1>1, RiskInvariant, PTL

(* Band and scorer agree on what high deviation means (scorer.py:58-61).   *)
LEMMA BandsAgree ==
  ASSUME NEW d \in Nat
  PROVE  DeviationBand(d) = "high" <=> RiskFactorOf(d) = 0
<1> DEFINE x == AtMost(d, 800)
           q == (100 * x) \div 800
<1>1. x \in Nat /\ x <= 800 /\ (d >= 800 <=> x = 800)
  BY DEF AtMost
<1>2. RiskFactorOf(d) = 100 - q
  BY DEF RiskFactorOf, HighDeviation
<1> HIDE DEF x
<1>3. q \in Nat /\ (q = 100 <=> x = 800)
  BY <1>1
<1>4. DeviationBand(d) = "high" <=> d >= 800
  BY DEF DeviationBand, HighDeviation, ElevatedDeviation
<1> HIDE DEF q
<1>5. QED
  BY <1>1, <1>2, <1>3, <1>4

(* A batch that no other overtook leaves exactly its own results for the   *)
(* accounts it read, a second run over unchanged data would change         *)
(* nothing, and the band is high just when the scorer's factor is 0        *)
(* (batch.py:352-355, 397-438; scorer.py:58-61).                           *)
THEOREM BatchesLand == RiskSpec => UnracedBatchLands
<1> DEFINE Lands ==
      \A b \in Batches :
        CommitBatch(b) /\ batches[b].loaded = rows =>
          LET read == batches[b].read IN
          /\ rows' = Landing(read, rows)
          /\ Landing(read, rows') = rows'
          /\ \A a \in Scored(read) :
               (rows'[a].band = "high") <=> (RiskFactorOf(rows'[a].deviation) = 0)
<1>1. RiskInv => Lands
  <2> SUFFICES ASSUME RiskInv, NEW b \in Batches, CommitBatch(b),
                      batches[b].loaded = rows
               PROVE  /\ rows' = Landing(batches[b].read, rows)
                      /\ Landing(batches[b].read, rows') = rows'
                      /\ \A a \in Scored(batches[b].read) :
                           (rows'[a].band = "high")
                             <=> (RiskFactorOf(rows'[a].deviation) = 0)
    OBVIOUS
  <2> DEFINE s == batches[b]
             read == s.read
             new(a) == Assigned(read, a, rows[a])
  <2>1. read \in Reads /\ Scored(read) \in SUBSET Accounts
    BY ReadNamed, Typed
  <2>2. rows \in Table /\ rows' = [a \in Accounts |-> Committed(s, a)]
    BY DEF RiskInv, CommitBatch
  <2>3. \A a \in Accounts :
          /\ new(a) \in Row /\ Assigned(read, a, new(a)) = new(a)
          /\ new(a).deviation \in Nat
          /\ new(a).band = DeviationBand(new(a).deviation)
    <3> TAKE a \in Accounts
    <3>1. rows[a] \in Row \union {NoRow}
      BY <2>2 DEF Table
    <3>2. QED
      BY <2>1, <3>1, AssignedTyped
  <2>4. \A a \in Accounts :
          Committed(s, a) = IF a \in Scored(read) THEN new(a) ELSE rows[a]
    <3> TAKE a \in Accounts
    <3>1. Committed(s, a)
            = IF a \notin Scored(read) THEN rows[a]
              ELSE IF rows[a] = NoRow THEN new(a)
              ELSE MergedColumns(rows[a], new(a), rows[a])
      BY DEF Committed
    <3>2. new(a) \in Row
      BY <2>3
    <3> HIDE DEF new
    <3>3. MergedColumns(rows[a], new(a), rows[a]) = new(a)
      BY <3>2, MergedAlone
    <3>4. QED
      BY <3>1, <3>3
  <2> HIDE DEF s, read
  <2>5. rows' = Landing(read, rows)
    BY <2>2, <2>4 DEF Landing
  <2>6. \A a \in Accounts :
          rows'[a] = IF a \in Scored(read) THEN new(a) ELSE rows[a]
    BY <2>2, <2>4
  <2>7. Landing(read, rows') = rows'
    <3>1. \A a \in Accounts :
            (IF a \in Scored(read) THEN Assigned(read, a, rows'[a]) ELSE rows'[a])
              = rows'[a]
      BY <2>3, <2>6
    <3>2. rows' = [a \in Accounts |-> rows'[a]]
      BY <2>2
    <3>3. Landing(read, rows') = [a \in Accounts |-> rows'[a]]
      BY <3>1 DEF Landing
    <3>4. QED
      BY <3>2, <3>3
  <2>8. \A a \in Scored(read) :
          rows'[a].band = "high" <=> RiskFactorOf(rows'[a].deviation) = 0
    BY <2>1, <2>3, <2>6, BandsAgree
  <2>9. QED
    BY <2>5, <2>7, <2>8 DEF read, s
<1>2. QED
  BY <1>1, RiskInvariant, PTL DEF UnracedBatchLands
=============================================================================

------------------------------ MODULE Folding ------------------------------
(***************************************************************************)
(* Facts about folds of a sequence with an operator Step and about sums of *)
(* a Weight over a finite set, by induction over the natural numbers, and  *)
(* about sets collected along a chain of parents.                          *)
(* Both operators are parameters: a module that needs the facts for an     *)
(* operator of its own instantiates this one.                              *)
(***************************************************************************)
EXTENDS Integers, Sequences, FiniteSets, FiniteSetTheorems, WellFoundedInduction
LOCAL INSTANCE TLAPS

CONSTANTS Step(_, _), Weight(_)

(* The definitions of FoldLeft and MapThenSumSet in the community modules.  *)
Greatest(s) == CHOOSE x \in s : \A y \in s : x >= y
Fold(base, seq) ==
    LET iter[s \in SUBSET DOMAIN seq] ==
          IF s = {} THEN base
          ELSE LET x == Greatest(s) IN Step(iter[s \ {x}], seq[x])
    IN  iter[DOMAIN seq]

Pick(s) == CHOOSE x \in s : TRUE
Total(S) ==
    LET iter[s \in SUBSET S] ==
          IF s = {} THEN 0
          ELSE LET x == Pick(s) IN Weight(x) + iter[s \ {x}]
    IN  iter[S]
-----------------------------------------------------------------------------
(* Every set of numbers that is not empty has a least one.                  *)
LEMMA Least == ASSUME NEW T, T \subseteq Nat, T # {} PROVE \E n \in T : \A m \in T : n <= m
<1> DEFINE R == OpToRel(<, Nat)
<1>1. \A m, n \in T : <<m, n>> \in R <=> m < n
  BY DEF OpToRel
<1>2. IsWellFoundedOn(R, Nat)
  BY NatLessThanWellFounded
<1> HIDE DEF R
<1>3. PICK n \in T : \A m \in T : ~ (<<m, n>> \in R)
  BY <1>2, WFMin
<1>4. ASSUME NEW m \in T PROVE n <= m
  <2>1. ~ (m < n) /\ m \in Nat /\ n \in Nat
    BY <1>1, <1>3
  <2> QED
    BY <2>1
<1> QED
  BY <1>4

(* Induction: a set that has 0, and with each number of 0 .. k - 1 the      *)
(* next, has all of 0 .. k.                                                 *)
LEMMA Induction ==
  ASSUME NEW k \in Nat, NEW S, 0 \in S, \A n \in 0..(k - 1) : n \in S => n + 1 \in S
  PROVE  0..k \subseteq S
<1> DEFINE T == {n \in 0..k : n \notin S}
<1>1. T \subseteq Nat
  OBVIOUS
<1>2. \A n \in T : n \in 0..k /\ n \notin S
  OBVIOUS
<1>3. \A n \in 0..k : n \notin T => n \in S
  OBVIOUS
<1> HIDE DEF T
<1>4. ASSUME T # {} PROVE FALSE
  <2>1. PICK n \in T : \A m \in T : n <= m
    BY <1>1, <1>4, Least
  <2>2. n # 0 /\ n \in 0..k
    BY <1>2
  <2>3. n - 1 \in 0..(k - 1) /\ n - 1 \in 0..k /\ (n - 1) + 1 = n /\ ~ (n <= n - 1)
    BY <2>2
  <2>4. n - 1 \notin T
    BY <2>1, <2>3
  <2>5. n - 1 \in S
    BY <1>3, <2>3, <2>4
  <2>6. n \in S
    BY <2>3, <2>5
  <2> QED
    BY <1>2, <2>6
<1> QED
  BY <1>3, <1>4
-----------------------------------------------------------------------------
(* FoldLeft is defined by a function on the sets of indices.                *)
Iterates(base, seq, k, iter) ==
    iter = [s \in SUBSET (1..k) |->
              IF s = {} THEN base ELSE Step(iter[s \ {Greatest(s)}], seq[Greatest(s)])]

LEMMA GreatestIs == ASSUME NEW k \in Nat \ {0}, NEW s, s \subseteq 1..k, k \in s PROVE Greatest(s) = k
<1>1. \A y \in s : k >= y
  OBVIOUS
<1>2. \A x \in s : (\A y \in s : x >= y) => x = k
  OBVIOUS
<1> QED
  BY <1>1, <1>2 DEF Greatest

LEMMA IterExists ==
  ASSUME NEW base, NEW seq, NEW n \in Nat
  PROVE  \E iter : Iterates(base, seq, n, iter)
<1> DEFINE S == {k \in 0..n : \E iter : Iterates(base, seq, k, iter)}
<1>1. 0 \in S
  <2> DEFINE it == [s \in SUBSET (1..0) |-> base]
  <2>1. \A s \in SUBSET (1..0) : s = {}
    OBVIOUS
  <2>2. Iterates(base, seq, 0, it)
    BY <2>1 DEF Iterates
  <2> QED
    BY <2>2
<1>2. ASSUME NEW k \in 0..(n - 1), k \in S PROVE k + 1 \in S
  <2>1. PICK it : Iterates(base, seq, k, it)
    BY <1>2
  <2> DEFINE jt == [s \in SUBSET (1..(k + 1)) |->
                      IF k + 1 \in s THEN Step(it[s \ {k + 1}], seq[k + 1]) ELSE it[s]]
  <2>2. ASSUME NEW s \in SUBSET (1..(k + 1))
        PROVE  jt[s] = IF s = {} THEN base ELSE Step(jt[s \ {Greatest(s)}], seq[Greatest(s)])
    <3>1. CASE k + 1 \in s
      <4>1. Greatest(s) = k + 1
        <5>1. k + 1 \in Nat \ {0} /\ s \subseteq 1..(k + 1)
          OBVIOUS
        <5> HIDE DEF jt, S
        <5> QED
          BY <3>1, <5>1, GreatestIs
      <4>2. s \ {k + 1} \in SUBSET (1..(k + 1)) /\ k + 1 \notin s \ {k + 1} /\ s # {}
        BY <3>1
      <4>3. jt[s \ {k + 1}] = it[s \ {k + 1}]
        BY <4>2
      <4> QED
        BY <3>1, <4>1, <4>2, <4>3
    <3>2. CASE k + 1 \notin s
      <4>1. s \in SUBSET (1..k)
        BY <3>2
      <4>2. it[s] = IF s = {} THEN base ELSE Step(it[s \ {Greatest(s)}], seq[Greatest(s)])
        BY <2>1, <4>1 DEF Iterates
      <4>3. s \ {Greatest(s)} \in SUBSET (1..(k + 1)) /\ k + 1 \notin s \ {Greatest(s)}
        BY <3>2
      <4>4. jt[s] = it[s] /\ jt[s \ {Greatest(s)}] = it[s \ {Greatest(s)}]
        BY <3>2, <4>3
      <4> QED
        BY <4>2, <4>4
    <3> QED
      BY <3>1, <3>2
  <2>3. jt = [s \in SUBSET (1..(k + 1)) |->
                IF s = {} THEN base ELSE Step(jt[s \ {Greatest(s)}], seq[Greatest(s)])]
    <3>1. jt = [s \in SUBSET (1..(k + 1)) |-> jt[s]]
      OBVIOUS
    <3> HIDE DEF jt
    <3> QED
      BY <2>2, <3>1
  <2>4. Iterates(base, seq, k + 1, jt)
    <3> HIDE DEF jt
    <3> QED
      BY <2>3 DEF Iterates
  <2> QED
    BY <2>4
<1>3. 0..n \subseteq S
  <2> HIDE DEF S
  <2> QED
    BY <1>1, <1>2, Induction
<1>4. n \in S
  BY <1>3
<1> QED
  BY <1>4

(* The values a fold goes through, one by one.                              *)
Passes(base, seq, st) ==
    /\ DOMAIN st = 0..Len(seq)
    /\ st[0] = base
    /\ \A i \in 1..Len(seq) : st[i] = Step(st[i - 1], seq[i])

LEMMA FoldPasses ==
  ASSUME NEW base, NEW seq, Len(seq) \in Nat, DOMAIN seq = 1..Len(seq)
  PROVE  \E st : Passes(base, seq, st) /\ Fold(base, seq) = st[Len(seq)]
<1> DEFINE n == Len(seq)
           it == CHOOSE iter : Iterates(base, seq, n, iter)
           st == [k \in 0..n |-> it[1..k]]
<1>1. Iterates(base, seq, n, it)
  BY IterExists
<1>2. Fold(base, seq) = it[1..n]
  BY DEF Fold, Iterates
<1> HIDE DEF it
<1>3. st[0] = base
  <2>1. 1..0 = {} /\ {} \in SUBSET (1..n)
    OBVIOUS
  <2>2. it[{}] = base
    BY <1>1, <2>1 DEF Iterates
  <2> QED
    BY <2>1, <2>2
<1>4. ASSUME NEW i \in 1..n PROVE st[i] = Step(st[i - 1], seq[i])
  <2>1. /\ 1..i \in SUBSET (1..n) /\ i \in 1..i /\ (1..i) \ {i} = 1..(i - 1)
        /\ i \in 0..n /\ i - 1 \in 0..n /\ i \in Nat \ {0} /\ 1..i # {}
    <3>1. n \in Nat /\ i \in Nat /\ 1 <= i /\ i <= n
      OBVIOUS
    <3> HIDE DEF n
    <3>2. (1..i) \ {i} = 1..(i - 1)
      BY <3>1
    <3>3. \A j \in 1..i : j \in 1..n
      BY <3>1
    <3>4. i \in 1..i /\ i \in 0..n /\ i - 1 \in 0..n /\ i \in Nat \ {0}
      BY <3>1
    <3> QED
      BY <3>2, <3>3, <3>4
  <2>2. Greatest(1..i) = i
    BY <2>1, GreatestIs
  <2>3. it[1..i] = Step(it[(1..i) \ {Greatest(1..i)}], seq[Greatest(1..i)])
    BY <1>1, <2>1 DEF Iterates
  <2> QED
    BY <2>1, <2>2, <2>3
<1>5. DOMAIN st = 0..n /\ st[n] = it[1..n]
  OBVIOUS
<1>6. Passes(base, seq, st)
  <2> HIDE DEF st
  <2> QED
    BY <1>3, <1>4, <1>5 DEF Passes
<1> QED
  BY <1>2, <1>5, <1>6

(* What the base has, and a step from any value that has it preserves, the  *)
(* fold has.  Inv is given for every position.                              *)
LEMMA FoldStays ==
  ASSUME NEW base, NEW seq, Len(seq) \in Nat, DOMAIN seq = 1..Len(seq),
         NEW Inv, base \in Inv[0],
         \A i \in 1..Len(seq) : \A a \in Inv[i - 1] : Step(a, seq[i]) \in Inv[i]
  PROVE  Fold(base, seq) \in Inv[Len(seq)]
<1> DEFINE n == Len(seq)
<1>1. PICK st : Passes(base, seq, st) /\ Fold(base, seq) = st[n]
  BY FoldPasses
<1> DEFINE S == {k \in 0..n : st[k] \in Inv[k]}
<1>2. 0 \in S
  BY <1>1 DEF Passes
<1>3. ASSUME NEW k \in 0..(n - 1), k \in S PROVE k + 1 \in S
  <2>1. k + 1 \in 1..n /\ (k + 1) - 1 = k /\ st[k] \in Inv[k]
    BY <1>3
  <2>2. st[k + 1] = Step(st[k], seq[k + 1])
    BY <1>1, <2>1 DEF Passes
  <2> QED
    BY <2>1, <2>2
<1>4. 0..n \subseteq S
  <2> HIDE DEF S
  <2> QED
    BY <1>2, <1>3, Induction
<1>5. n \in S
  BY <1>4
<1> QED
  BY <1>1, <1>5
-----------------------------------------------------------------------------
(* A recursive function over the natural numbers has the values that its    *)
(* definition gives it.                                                     *)
Recurses(base, f) == f = [n \in Nat |-> IF n = 0 THEN base ELSE Step(f[n - 1], n)]
FirstNumbers(n) == [i \in 1..n |-> i]

LEMMA FirstNumbersPass ==
  ASSUME NEW base, NEW n \in Nat
  PROVE  \E st : Passes(base, FirstNumbers(n), st)
<1>1. Len(FirstNumbers(n)) = n /\ DOMAIN FirstNumbers(n) = 1..n
  BY DEF FirstNumbers
<1> QED
  BY <1>1, FoldPasses

LEMMA PassAgrees ==
  ASSUME NEW base, NEW n \in Nat, NEW m \in 0..n,
         NEW f, Passes(base, FirstNumbers(n), f), NEW g, Passes(base, FirstNumbers(m), g)
  PROVE  \A k \in 0..m : f[k] = g[k]
<1> DEFINE S == {k \in 0..m : f[k] = g[k]}
<1>1. /\ f[0] = base /\ \A i \in 1..n : f[i] = Step(f[i - 1], i)
      /\ g[0] = base /\ \A i \in 1..m : g[i] = Step(g[i - 1], i)
  <2>1. Len(FirstNumbers(n)) = n /\ \A i \in 1..n : FirstNumbers(n)[i] = i
    BY DEF FirstNumbers
  <2>2. Len(FirstNumbers(m)) = m /\ \A i \in 1..m : FirstNumbers(m)[i] = i
    BY DEF FirstNumbers
  <2> QED
    BY <2>1, <2>2 DEF Passes
<1>2. 0 \in S
  BY <1>1
<1>3. ASSUME NEW k \in 0..(m - 1), k \in S PROVE k + 1 \in S
  <2>1. k + 1 \in 1..m /\ k + 1 \in 1..n /\ k + 1 \in 0..m /\ (k + 1) - 1 = k /\ f[k] = g[k]
    BY <1>3
  <2> QED
    BY <1>1, <2>1
<1>4. 0..m \subseteq S
  <2> HIDE DEF S
  <2> QED
    BY <1>2, <1>3, Induction
<1> QED
  BY <1>4

LEMMA RecursionExists ==
  ASSUME NEW base
  PROVE  \E f : Recurses(base, f)
<1> DEFINE g(n) == CHOOSE st : Passes(base, FirstNumbers(n), st)
           f == [n \in Nat |-> g(n)[n]]
<1>1. \A n \in Nat : Passes(base, FirstNumbers(n), g(n))
  BY FirstNumbersPass
<1> HIDE DEF g
<1>2. ASSUME NEW n \in Nat PROVE f[n] = IF n = 0 THEN base ELSE Step(f[n - 1], n)
  <2>1. CASE n = 0
    BY <1>1, <2>1 DEF Passes
  <2>2. CASE n # 0
    <3>1. n - 1 \in 0..n /\ n - 1 \in Nat /\ n - 1 \in 0..(n - 1)
      BY <2>2
    <3>2. Len(FirstNumbers(n)) = n /\ FirstNumbers(n)[n] = n /\ n \in 1..n
      BY <2>2 DEF FirstNumbers
    <3>3. g(n)[n] = Step(g(n)[n - 1], n)
      BY <1>1, <3>2 DEF Passes
    <3>4. g(n)[n - 1] = g(n - 1)[n - 1]
      BY <1>1, <3>1, PassAgrees
    <3> QED
      BY <2>2, <3>1, <3>3, <3>4
  <2> QED
    BY <2>1, <2>2
<1>3. f = [n \in Nat |-> f[n]]
  OBVIOUS
<1> HIDE DEF f
<1> QED
  BY <1>2, <1>3 DEF Recurses

-----------------------------------------------------------------------------
(* A sum over a finite set: MapThenSumSet picks the elements in an order of *)
(* its own, so a partial sum is a function on the subsets of at most k      *)
(* elements.                                                                *)
UpTo(S, k) == {s \in SUBSET S : Cardinality(s) <= k}
Sums(D, sum) ==
    sum = [s \in D |-> IF s = {} THEN 0 ELSE Weight(Pick(s)) + sum[s \ {Pick(s)}]]

SumsOf(S, sum) == Sums(SUBSET S, sum)

LEMMA Smaller ==
  ASSUME NEW S, IsFiniteSet(S), NEW s \in SUBSET S, NEW x \in s
  PROVE  /\ s \ {x} \in SUBSET S
         /\ IsFiniteSet(s) /\ IsFiniteSet(s \ {x})
         /\ Cardinality(s) \in Nat \ {0} /\ Cardinality(s \ {x}) = Cardinality(s) - 1
<1>1. IsFiniteSet(s)
  BY FS_Subset
<1>2. IsFiniteSet(s \ {x}) /\ Cardinality(s \ {x}) = Cardinality(s) - 1
  BY <1>1, FS_RemoveElement
<1>3. Cardinality(s) \in Nat /\ Cardinality(s \ {x}) \in Nat
  BY <1>1, <1>2, FS_CardinalityType
<1> QED
  BY <1>1, <1>2, <1>3

LEMMA PickIn == ASSUME NEW s, s # {} PROVE Pick(s) \in s
  BY DEF Pick

LEMMA SumsExist ==
  ASSUME NEW S, IsFiniteSet(S), NEW n \in Nat
  PROVE  \E sum : Sums(UpTo(S, n), sum)
<1> DEFINE K == {k \in 0..n : \E sum : Sums(UpTo(S, k), sum)}
<1>1. 0 \in K
  <2> DEFINE it == [s \in UpTo(S, 0) |-> 0]
  <2>1. ASSUME NEW s \in UpTo(S, 0) PROVE s = {}
    <3>1. s \in SUBSET S /\ Cardinality(s) <= 0
      BY DEF UpTo
    <3>2. IsFiniteSet(s)
      BY <3>1, FS_Subset
    <3>3. Cardinality(s) \in Nat
      BY <3>2, FS_CardinalityType
    <3>4. Cardinality(s) = 0
      BY <3>1, <3>3
    <3> QED
      BY <3>2, <3>4, FS_EmptySet
  <2>2. Sums(UpTo(S, 0), it)
    BY <2>1 DEF Sums
  <2> QED
    BY <2>2
<1>2. ASSUME NEW k \in 0..(n - 1), k \in K PROVE k + 1 \in K
  <2>1. PICK it : Sums(UpTo(S, k), it)
    BY <1>2
  <2> DEFINE f(s) == IF s \in UpTo(S, k) THEN it[s] ELSE Weight(Pick(s)) + it[s \ {Pick(s)}]
             jt == [s \in UpTo(S, k + 1) |-> f(s)]
  <2>2. ASSUME NEW s \in UpTo(S, k + 1)
        PROVE  jt[s] = IF s = {} THEN 0 ELSE Weight(Pick(s)) + jt[s \ {Pick(s)}]
    <3>1. CASE s = {}
      <4>1. s \in UpTo(S, k)
        <5>1. Cardinality(s) = 0 /\ s \in SUBSET S
          BY <3>1, FS_EmptySet
        <5> QED
          BY <5>1 DEF UpTo
      <4>2. it[s] = 0
        BY <2>1, <3>1, <4>1 DEF Sums
      <4> QED
        BY <3>1, <4>1, <4>2
    <3>2. CASE s # {}
      <4> DEFINE p == Pick(s)
      <4>1. p \in s
        BY <3>2, PickIn
      <4> HIDE DEF p
      <4>2. s \in SUBSET S /\ Cardinality(s) <= k + 1
        BY DEF UpTo
      <4>3. /\ s \ {p} \in SUBSET S /\ Cardinality(s) \in Nat \ {0}
            /\ Cardinality(s \ {p}) = Cardinality(s) - 1
        BY <4>1, <4>2, Smaller
      <4>4. Cardinality(s \ {p}) <= k
        BY <4>2, <4>3
      <4>5. s \ {p} \in UpTo(S, k) /\ s \ {p} \in UpTo(S, k + 1)
        <5>1. Cardinality(s \ {p}) <= k + 1
          BY <4>2, <4>3
        <5> QED
          BY <4>3, <4>4, <5>1 DEF UpTo
      <4>6. jt[s] = f(s) /\ jt[s \ {p}] = it[s \ {p}]
        BY <4>5
      <4>7. s \in UpTo(S, k) => it[s] = Weight(p) + it[s \ {p}]
        BY <2>1, <3>2 DEF Sums, p
      <4> HIDE DEF jt
      <4> QED
        BY <3>2, <4>6, <4>7 DEF p
    <3> QED
      BY <3>1, <3>2
  <2>3. jt = [s \in UpTo(S, k + 1) |-> jt[s]]
    OBVIOUS
  <2> HIDE DEF jt
  <2>4. Sums(UpTo(S, k + 1), jt)
    BY <2>2, <2>3 DEF Sums
  <2> QED
    BY <2>4
<1>3. 0..n \subseteq K
  <2> HIDE DEF K
  <2> QED
    BY <1>1, <1>2, Induction
<1>4. n \in K
  BY <1>3
<1> QED
  BY <1>4

(* One function sums all the subsets of a finite set.                       *)
LEMMA SumsOfSubsets ==
  ASSUME NEW S, IsFiniteSet(S)
  PROVE  \E sum : SumsOf(S, sum)
<1>1. Cardinality(S) \in Nat
  BY FS_CardinalityType
<1>2. UpTo(S, Cardinality(S)) = SUBSET S
  BY FS_Subset DEF UpTo
<1>3. \E sum : Sums(UpTo(S, Cardinality(S)), sum)
  BY <1>1, SumsExist
<1> QED
  BY <1>2, <1>3 DEF SumsOf

LEMMA TotalIsSum ==
  ASSUME NEW S, IsFiniteSet(S)
  PROVE  \E sum : SumsOf(S, sum) /\ Total(S) = sum[S]
<1> DEFINE sum == CHOOSE f : SumsOf(S, f)
<1>1. SumsOf(S, sum)
  BY SumsOfSubsets
<1>2. Total(S) = sum[S]
  BY DEF Total, SumsOf, Sums, Pick
<1> QED
  BY <1>1, <1>2

(* A set T that is closed under taking out an element has every finite set  *)
(* of the subsets of S: induction on the number of elements.                *)
LEMMA SubsetInduction ==
  ASSUME NEW S, IsFiniteSet(S), NEW T, {} \in T,
         \A s \in SUBSET S : s # {} /\ (\A x \in s : s \ {x} \in T) => s \in T
  PROVE  SUBSET S \subseteq T
<1> DEFINE n == Cardinality(S)
           K == {k \in 0..n : UpTo(S, k) \subseteq T}
<1>1. n \in Nat
  BY FS_CardinalityType
<1>2. ASSUME NEW s \in SUBSET S
      PROVE  IsFiniteSet(s) /\ Cardinality(s) \in Nat /\ (Cardinality(s) = 0 => s = {}) /\ Cardinality(s) <= n
  <2>1. IsFiniteSet(s) /\ Cardinality(s) <= n
    BY FS_Subset
  <2> QED
    BY <2>1, FS_CardinalityType, FS_EmptySet
<1> HIDE DEF n
<1>3. 0 \in K
  <2>1. \A s \in UpTo(S, 0) : s = {}
    BY <1>2 DEF UpTo
  <2> QED
    BY <1>1, <2>1
<1>4. ASSUME NEW k \in 0..(n - 1), k \in K PROVE k + 1 \in K
  <2>1. ASSUME NEW s \in UpTo(S, k + 1), s # {} PROVE s \in T
    <3>1. s \in SUBSET S /\ Cardinality(s) <= k + 1
      BY DEF UpTo
    <3>2. ASSUME NEW x \in s PROVE s \ {x} \in T
      <4>1. /\ s \ {x} \in SUBSET S /\ Cardinality(s) \in Nat \ {0}
            /\ Cardinality(s \ {x}) = Cardinality(s) - 1
        BY <3>1, Smaller
      <4>2. Cardinality(s \ {x}) <= k
        BY <3>1, <4>1
      <4>3. s \ {x} \in UpTo(S, k)
        BY <4>1, <4>2 DEF UpTo
      <4> QED
        BY <1>4, <4>3
    <3> QED
      BY <2>1, <3>1, <3>2
  <2>2. k + 1 \in 0..n
    BY <1>1
  <2> QED
    BY <2>1, <2>2
<1>5. 0..n \subseteq K
  <2> HIDE DEF K
  <2> QED
    BY <1>1, <1>3, <1>4, Induction
<1>6. n \in K
  BY <1>1, <1>5
<1> QED
  BY <1>2, <1>6 DEF UpTo

(* Two such functions agree wherever both are defined. *)
LEMMA SumsAgree ==
  ASSUME NEW S, IsFiniteSet(S), NEW R, IsFiniteSet(R), R \subseteq S,
         NEW f, SumsOf(S, f), NEW g, SumsOf(R, g)
  PROVE  \A s \in SUBSET R : f[s] = g[s]
<1> DEFINE T == {s \in SUBSET R : f[s] = g[s]}
<1>1. \A s \in SUBSET R : s \in SUBSET S
  OBVIOUS
<1>2. {} \in T
  <2>1. {} \in SUBSET R /\ {} \in SUBSET S
    OBVIOUS
  <2> QED
    BY <2>1 DEF SumsOf, Sums
<1>3. ASSUME NEW s \in SUBSET R, s # {}, \A x \in s : s \ {x} \in T PROVE s \in T
  <2>1. Pick(s) \in s
    BY <1>3, PickIn
  <2>2. s \ {Pick(s)} \in T
    BY <1>3, <2>1
  <2>3. f[s] = Weight(Pick(s)) + f[s \ {Pick(s)}] /\ g[s] = Weight(Pick(s)) + g[s \ {Pick(s)}]
    BY <1>1, <1>3 DEF SumsOf, Sums
  <2> QED
    BY <2>2, <2>3
<1>4. SUBSET R \subseteq T
  <2> HIDE DEF T
  <2> QED
    BY <1>2, <1>3, SubsetInduction
<1> QED
  BY <1>4

LEMMA TotalOfSubset ==
  ASSUME NEW S, IsFiniteSet(S), NEW sum, SumsOf(S, sum), NEW s \in SUBSET S
  PROVE  Total(s) = sum[s]
<1>1. IsFiniteSet(s)
  BY FS_Subset
<1>2. PICK f : SumsOf(s, f) /\ Total(s) = f[s]
  BY <1>1, TotalIsSum
<1>3. s \subseteq S /\ s \in SUBSET s
  OBVIOUS
<1>4. \A r \in SUBSET s : sum[r] = f[r]
  BY <1>1, <1>2, <1>3, SumsAgree
<1> QED
  BY <1>2, <1>3, <1>4

LEMMA TotalEmpty == Total({}) = 0
<1>1. IsFiniteSet({})
  BY FS_EmptySet
<1>2. PICK f : SumsOf({}, f) /\ Total({}) = f[{}]
  BY <1>1, TotalIsSum
<1> QED
  BY <1>2 DEF SumsOf, Sums

(* An element can be taken out of a sum, whichever it is.                   *)
LEMMA TotalWithout ==
  ASSUME NEW S, IsFiniteSet(S), \A x \in S : Weight(x) \in Nat
  PROVE  /\ Total(S) \in Nat
         /\ \A x \in S : Total(S) = Weight(x) + Total(S \ {x})
<1>1. PICK sum : SumsOf(S, sum)
  BY SumsOfSubsets
<1> DEFINE N == {s \in SUBSET S : sum[s] \in Nat}
           T == {s \in SUBSET S : \A x \in s : sum[s] = Weight(x) + sum[s \ {x}]}
<1>2. ASSUME NEW s \in SUBSET S, s # {}
      PROVE  Pick(s) \in s /\ sum[s] = Weight(Pick(s)) + sum[s \ {Pick(s)}]
  <2>1. sum[s] = Weight(Pick(s)) + sum[s \ {Pick(s)}]
    BY <1>1, <1>2 DEF SumsOf, Sums
  <2> QED
    BY <1>2, <2>1, PickIn
<1>3. SUBSET S \subseteq N
  <2>1. {} \in N
    BY <1>1 DEF SumsOf, Sums
  <2>2. ASSUME NEW s \in SUBSET S, s # {}, \A x \in s : s \ {x} \in N PROVE s \in N
    <3>1. Pick(s) \in s /\ sum[s] = Weight(Pick(s)) + sum[s \ {Pick(s)}]
      BY <1>2, <2>2
    <3>2. Weight(Pick(s)) \in Nat /\ sum[s \ {Pick(s)}] \in Nat
      BY <2>2, <3>1
    <3> QED
      BY <3>1, <3>2
  <2> HIDE DEF N
  <2> QED
    BY <2>1, <2>2, SubsetInduction
<1>4. SUBSET S \subseteq T
  <2>1. {} \in T
    OBVIOUS
  <2>2. ASSUME NEW s \in SUBSET S, s # {}, \A x \in s : s \ {x} \in T PROVE s \in T
    <3> DEFINE p == Pick(s)
    <3>1. p \in s /\ sum[s] = Weight(p) + sum[s \ {p}]
      BY <1>2, <2>2
    <3> HIDE DEF p
    <3>2. ASSUME NEW x \in s, x # p PROVE sum[s] = Weight(x) + sum[s \ {x}]
      <4> DEFINE r == s \ {p, x}
      <4>1. /\ (s \ {p}) \ {x} = r /\ (s \ {x}) \ {p} = r
            /\ x \in s \ {p} /\ p \in s \ {x} /\ r \in SUBSET S
        BY <3>1, <3>2
      <4>2. sum[s \ {p}] = Weight(x) + sum[r] /\ sum[s \ {x}] = Weight(p) + sum[r]
        <5>1. s \ {p} \in T /\ s \ {x} \in T
          BY <2>2, <3>1
        <5> QED
          BY <4>1, <5>1
      <4>3. Weight(x) \in Nat /\ Weight(p) \in Nat /\ sum[r] \in Nat
        BY <1>3, <3>1, <4>1
      <4> HIDE DEF r, T, N
      <4> QED
        BY <3>1, <4>2, <4>3
    <3> QED
      BY <3>1, <3>2
  <2> HIDE DEF T
  <2> QED
    BY <2>1, <2>2, SubsetInduction
<1>5. ASSUME NEW s \in SUBSET S PROVE Total(s) = sum[s]
  BY <1>1, TotalOfSubset
<1>6. S \in N /\ S \in T /\ S \in SUBSET S /\ \A x \in S : S \ {x} \in SUBSET S
  BY <1>3, <1>4
<1> QED
  BY <1>5, <1>6

(* The sum over two sets that have nothing in common. *)
LEMMA TotalUnion ==
  ASSUME NEW S, IsFiniteSet(S), NEW R, IsFiniteSet(R), S \cap R = {},
         \A x \in S \cup R : Weight(x) \in Nat
  PROVE  Total(S \cup R) = Total(S) + Total(R)
<1> DEFINE T == {r \in SUBSET R : IsFiniteSet(S \cup r) /\ Total(S \cup r) = Total(S) + Total(r)}
<1>1. Total(S) \in Nat
  BY TotalWithout
<1>2. {} \in T
  <2>1. S \cup {} = S
    OBVIOUS
  <2> QED
    BY <1>1, <2>1, TotalEmpty
<1>3. ASSUME NEW r \in SUBSET R, r # {}, \A x \in r : r \ {x} \in T PROVE r \in T
  <2>1. PICK x \in r : TRUE
    BY <1>3
  <2>2. IsFiniteSet(r) /\ \A y \in r : Weight(y) \in Nat
    BY FS_Subset
  <2>3. Total(r) = Weight(x) + Total(r \ {x}) /\ Weight(x) \in Nat
    BY <2>2, TotalWithout
  <2>4. IsFiniteSet(S \cup (r \ {x})) /\ Total(S \cup (r \ {x})) = Total(S) + Total(r \ {x})
    BY <1>3
  <2>5. (S \cup (r \ {x})) \cup {x} = S \cup r /\ (S \cup r) \ {x} = S \cup (r \ {x}) /\ x \in S \cup r
    OBVIOUS
  <2>6. IsFiniteSet(S \cup r)
    BY <2>4, <2>5, FS_AddElement
  <2>7. \A y \in S \cup r : Weight(y) \in Nat
    OBVIOUS
  <2>8. Total(S \cup r) = Weight(x) + Total((S \cup r) \ {x})
    BY <2>5, <2>6, <2>7, TotalWithout
  <2>9. IsFiniteSet(r \ {x}) /\ \A y \in r \ {x} : Weight(y) \in Nat
    BY <2>2, FS_RemoveElement
  <2>10. Total(r \ {x}) \in Nat
    BY <2>9, TotalWithout
  <2>11. Total((S \cup r) \ {x}) = Total(S) + Total(r \ {x})
    BY <2>4, <2>5
  <2>12. Total(S \cup r) = Total(S) + Total(r)
    <3> HIDE DEF T
    <3> QED
      BY <1>1, <2>3, <2>8, <2>10, <2>11
  <2> QED
    BY <2>6, <2>12
<1>4. SUBSET R \subseteq T
  <2> HIDE DEF T
  <2> QED
    BY <1>2, <1>3, SubsetInduction
<1>5. R \in T
  BY <1>4
<1> QED
  BY <1>5
-----------------------------------------------------------------------------
(* A set collected on the way up from b to the root, over the parents up:   *)
(* the elements below the root are in every set that is closed under up.    *)
ClosedUp(S, root, up, b) ==
    {T \in SUBSET (S \ {root}) : /\ b # root => b \in T
                                 /\ \A x \in T : up[x] # root => up[x] \in T}
WayUp(S, root, up, b) == {x \in S \ {root} : \A T \in ClosedUp(S, root, up, b) : x \in T}

(* They are b and the elements on the way up from its parent. *)
LEMMA WayUpIs ==
  ASSUME NEW S, NEW root \in S, NEW up \in [S \ {root} -> S]
  PROVE  /\ WayUp(S, root, up, root) = {}
         /\ \A b \in S \ {root} : WayUp(S, root, up, b) = {b} \cup WayUp(S, root, up, up[b])
<1> DEFINE C(b) == ClosedUp(S, root, up, b)
           W(b) == WayUp(S, root, up, b)
<1>1. {} \in C(root)
  BY DEF ClosedUp
<1>2. W(root) = {}
  BY <1>1 DEF WayUp
<1>3. ASSUME NEW b \in S \ {root} PROVE W(b) = {b} \cup W(up[b])
  <2>1. {b} \cup W(up[b]) \in C(b)
    <3>1. up[b] # root => up[b] \in W(up[b])
      BY DEF WayUp, ClosedUp
    <3>2. \A x \in W(up[b]) : up[x] # root => up[x] \in W(up[b])
      BY DEF WayUp, ClosedUp
    <3>3. W(up[b]) \subseteq S \ {root}
      BY DEF WayUp
    <3> HIDE DEF W
    <3> QED
      BY <3>1, <3>2, <3>3 DEF ClosedUp
  <2>2. ASSUME NEW T \in C(b) PROVE b \in T /\ W(up[b]) \subseteq T
    <3>1. b \in T /\ T \in C(up[b])
      BY <2>2 DEF ClosedUp
    <3> QED
      BY <3>1 DEF WayUp
  <2> QED
    BY <2>1, <2>2 DEF WayUp
<1> QED
  BY <1>2, <1>3

(* What a recursive function says that collects sets on the way up to the   *)
(* root; there is such a function, also where the way never ends.           *)
Collects(S, root, up, F, f) == f = [b \in S |-> IF b = root THEN {} ELSE F[b] \cup f[up[b]]]

(* The elements on the way up give it.                                      *)
LEMMA CollectExists ==
  ASSUME NEW S, NEW root \in S, NEW up \in [S \ {root} -> S], NEW F
  PROVE  \E f : Collects(S, root, up, F, f)
<1> DEFINE W(b) == WayUp(S, root, up, b)
           f == [b \in S |-> UNION {F[x] : x \in W(b)}]
<1>1. W(root) = {} /\ \A b \in S \ {root} : W(b) = {b} \cup W(up[b])
  BY WayUpIs
<1> HIDE DEF W
<1>2. \A b \in S : f[b] = IF b = root THEN {} ELSE F[b] \cup f[up[b]]
  BY <1>1
<1>3. f = [b \in S |-> f[b]]
  OBVIOUS
<1> HIDE DEF f
<1> QED
  BY <1>2, <1>3 DEF Collects
=============================================================================

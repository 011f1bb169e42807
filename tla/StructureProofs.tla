-------------------------- MODULE StructureProofs --------------------------
(***************************************************************************)
(* Facts about the data that a node keeps, for every value of the          *)
(* constants: which block a hash makes, the proposer block tree, the       *)
(* ledger state that a block of transactions leaves, and Merkle trees.     *)
(* The lemmas about Insert and LedgerAfter are what the proofs about a     *)
(* node rest on.                                                           *)
(***************************************************************************)
EXTENDS Blockchain, Ledger, Sortition, Merkle, SequenceTheorems, FiniteSetTheorems, TLAPS

(* Which block a hash makes.                                                *)
Digit(n, d) == n * Base + d
TimesBase(p, n) == p * Base
Num == INSTANCE Folding WITH Step <- Digit, Weight <- Number
Pow == INSTANCE Folding WITH Step <- TimesBase, Weight <- Number

Digits == 0..(Base - 1)
(* Base ^ n *)
Power[n \in Nat] == IF n = 0 THEN 1 ELSE TimesBase(Power[n - 1], n)

LEMMA PowerIs ==
  /\ Power[0] = 1
  /\ \A n \in Nat : Power[n + 1] = Power[n] * Base
<1>1. \E f : Pow!Recurses(1, f)
  BY Pow!RecursionExists
<1>2. Pow!Recurses(1, Power)
  BY <1>1 DEF Power, Pow!Recurses
<1>3. ASSUME NEW n \in Nat PROVE Power[n + 1] = Power[n] * Base
  <2>1. n + 1 \in Nat /\ n + 1 # 0 /\ (n + 1) - 1 = n
    OBVIOUS
  <2> HIDE DEF Power
  <2> QED
    BY <1>2, <2>1 DEF Pow!Recurses, TimesBase
<1>4. Power[0] = 1
  <2> HIDE DEF Power
  <2> QED
    BY <1>2 DEF Pow!Recurses
<1> QED
  BY <1>3, <1>4

LEMMA Scale == ASSUME NEW a \in Nat, NEW b \in Nat, NEW c \in Nat, a <= b PROVE a * c <= b * c /\ a * c \in Nat
<1>1. PICK d \in Nat : b = a + d
  <2>1. b - a \in Nat /\ b = a + (b - a)
    OBVIOUS
  <2> QED
    BY <2>1
<1>2. b * c = a * c + d * c
  BY <1>1
<1>3. a * c \in Nat /\ d * c \in Nat
  OBVIOUS
<1> DEFINE x == a * c  y == d * c  z == b * c
<1> HIDE DEF x, y, z
<1>4. x \in Nat /\ y \in Nat /\ z = x + y
  BY <1>2, <1>3 DEF x, y, z
<1>5. x <= z
  BY <1>4
<1> QED
  BY <1>4, <1>5 DEF x, z

(* Pairs *)
LEMMA Positional ==
  ASSUME NEW p \in Nat, NEW a \in Nat, NEW b \in 0..(p - 1), NEW c \in Nat, NEW d \in 0..(p - 1)
  PROVE  a * p + b < c * p + d <=> (a < c \/ (a = c /\ b < d))
<1>1. a * p \in Nat /\ c * p \in Nat /\ b \in Nat /\ d \in Nat /\ b < p /\ d < p
  OBVIOUS
<1>2. ASSUME NEW e \in Nat, NEW f \in Nat, e < f PROVE e * p + p <= f * p
  <2>1. (e + 1) * p <= f * p
    BY <1>2, Scale
  <2>2. (e + 1) * p = e * p + p
    OBVIOUS
  <2> DEFINE x == e * p  y == f * p  z == (e + 1) * p
  <2> HIDE DEF x, y, z
  <2>3. z <= y /\ z = x + p
    BY <2>1, <2>2 DEF x, y, z
  <2> QED
    BY <2>3 DEF x, y
<1> DEFINE x == a * p  y == c * p
<1>3. /\ x \in Nat /\ y \in Nat /\ b \in Nat /\ d \in Nat /\ b < p /\ d < p
      /\ (a < c => x + p <= y) /\ (c < a => y + p <= x) /\ (a = c => x = y)
  BY <1>1, <1>2
<1> HIDE DEF x, y
<1>4. x + b < y + d <=> (a < c \/ (a = c /\ b < d))
  <2>1. CASE a < c
    BY <1>3, <2>1
  <2>2. CASE c < a
    BY <1>3, <2>2
  <2>3. CASE a = c
    BY <1>3, <2>3
  <2> QED
    BY <2>1, <2>2, <2>3
<1> QED
  BY <1>4 DEF x, y

LEMMA NumberPasses ==
  ASSUME NEW n \in Nat, NEW s \in [1..n -> Digits]
  PROVE  \E st : /\ st[0] = 0 /\ Number(s) = st[n]
                 /\ \A i \in 1..n : st[i] = st[i - 1] * Base + s[i]
<1>0. Len(s) = n /\ DOMAIN s = 1..n
  OBVIOUS
<1>1. PICK st : Num!Passes(0, s, st) /\ Num!Fold(0, s) = st[n]
  BY <1>0, Num!FoldPasses
<1>2. Number(s) = Num!Fold(0, s)
  BY DEF Number, Num!Fold, Num!Greatest, FoldLeft, MapThenFoldSet, Max, Digit
<1> QED
  BY <1>0, <1>1, <1>2 DEF Num!Passes, Digit

LEMMA DigitsBelow ==
  ASSUME NEW n \in Nat, NEW s \in [1..n -> Digits], NEW st, st[0] = 0,
         \A i \in 1..n : st[i] = st[i - 1] * Base + s[i]
  PROVE  \A k \in 0..n : st[k] \in 0..(Power[k] - 1) /\ Power[k] \in Nat
<1> DEFINE S == {k \in 0..n : st[k] \in 0..(Power[k] - 1) /\ Power[k] \in Nat}
<1>0. Base \in Nat \ {0, 1}
  BY SortitionAssumption
<1>1. 0 \in S
  BY PowerIs
<1>2. ASSUME NEW k \in 0..(n - 1), k \in S PROVE k + 1 \in S
  <2> DEFINE p == Power[k]  a == st[k]  d == s[k + 1]
  <2>1. /\ k + 1 \in 1..n /\ k + 1 \in 0..n /\ (k + 1) - 1 = k /\ k \in Nat
        /\ a \in 0..(p - 1) /\ p \in Nat /\ d \in 0..(Base - 1)
    BY <1>2 DEF Digits
  <2>2. st[k + 1] = a * Base + d /\ Power[k + 1] = p * Base
    BY <2>1, PowerIs
  <2> HIDE DEF p, a, d
  <2>3. a \in Nat /\ a + 1 \in Nat /\ a + 1 <= p
    BY <2>1
  <2>4. (a + 1) * Base <= p * Base /\ p * Base \in Nat
    BY <1>0, <2>1, <2>3, Scale
  <2>5. (a + 1) * Base = a * Base + Base /\ a * Base \in Nat
    BY <1>0, <2>3
  <2> DEFINE x == a * Base  y == p * Base
  <2> HIDE DEF x, y
  <2>6. x \in Nat /\ y \in Nat /\ x + Base <= y
    BY <2>4, <2>5 DEF x, y
  <2>7. x + d \in 0..(y - 1)
    BY <1>0, <2>1, <2>6
  <2> QED
    BY <2>1, <2>2, <2>6, <2>7 DEF x, y
<1>3. 0..n \subseteq S
  <2> HIDE DEF S
  <2> QED
    BY <1>1, <1>2, Num!Induction
<1> QED
  BY <1>3

(* Halves of a hash. *)
LEMMA Halves ==
  ASSUME NEW h \in Hashes
  PROVE  /\ Half \in Nat \ {0} /\ 2 * Half \in Nat /\ 2 * Half = Half + Half
         /\ Len(h) = 2 * Half /\ DOMAIN h = 1..(2 * Half)
         /\ Len(SubSeq(h, 1, Half)) = Half /\ SubSeq(h, 1, Half) \in [1..Half -> Digits]
         /\ Len(SubSeq(h, Half + 1, 2 * Half)) = Half /\ SubSeq(h, Half + 1, 2 * Half) \in [1..Half -> Digits]
         /\ \A i \in 1..Half : /\ SubSeq(h, 1, Half)[i] = h[i]
                              /\ SubSeq(h, Half + 1, 2 * Half)[i] = h[Half + i]
<1>1. Half \in Nat \ {0} /\ 2 * Half \in Nat /\ 2 * Half = Half + Half
  BY SortitionAssumption
<1>2. h \in [1..(2 * Half) -> Digits]
  BY DEF Hashes, Digits
<1>3. Len(h) = 2 * Half /\ DOMAIN h = 1..(2 * Half)
  BY <1>1, <1>2
<1> DEFINE u == SubSeq(h, 1, Half)
           l == SubSeq(h, Half + 1, 2 * Half)
<1>4. u \in Seq(Digits) /\ Len(u) = Half /\ \A i \in 1..Half : u[i] = h[i]
  <2>1. \A i \in 1..Half : h[i] \in Digits
    BY <1>1, <1>2
  <2>2. 1 \in Int /\ Half \in Int /\ 1 <= Half /\ Half - 1 + 1 = Half /\ \A i \in 1..Half : 1 + i - 1 = i
    BY <1>1
  <2> QED
    BY <2>1, <2>2, SubSeqProperties
<1>5. l \in Seq(Digits) /\ Len(l) = Half /\ \A i \in 1..Half : l[i] = h[Half + i]
  <2>1. \A i \in (Half + 1)..(2 * Half) : h[i] \in Digits
    BY <1>1, <1>2
  <2>2. /\ Half + 1 \in Int /\ 2 * Half \in Int /\ Half + 1 <= 2 * Half
        /\ 2 * Half - (Half + 1) + 1 = Half /\ \A i \in 1..Half : (Half + 1) + i - 1 = Half + i
    BY <1>1
  <2> QED
    BY <2>1, <2>2, SubSeqProperties
<1> HIDE DEF u, l
<1>6. u \in [1..Half -> Digits] /\ l \in [1..Half -> Digits]
  BY <1>1, <1>4, <1>5
<1> QED
  BY <1>1, <1>3, <1>4, <1>5, <1>6 DEF u, l

(* A hash is the number of its higher digits and of its lower ones. *)
LEMMA NumberOfHalves ==
  ASSUME NEW h \in Hashes
  PROVE  /\ Power[Half] \in Nat
         /\ Higher(h) \in 0..(Power[Half] - 1) /\ Lower(h) \in 0..(Power[Half] - 1)
         /\ Number(h) = Higher(h) * Power[Half] + Lower(h)
<1> DEFINE u == SubSeq(h, 1, Half)
           l == SubSeq(h, Half + 1, 2 * Half)
<1>1. /\ Half \in Nat \ {0} /\ 2 * Half \in Nat /\ 2 * Half = Half + Half
      /\ h \in [1..(2 * Half) -> Digits]
      /\ Len(u) = Half /\ u \in [1..Half -> Digits]
      /\ Len(l) = Half /\ l \in [1..Half -> Digits]
      /\ \A i \in 1..Half : u[i] = h[i] /\ l[i] = h[Half + i]
      /\ Base \in Nat
  BY Halves, SortitionAssumption DEF Hashes, Digits
<1>2. PICK st : /\ st[0] = 0 /\ Number(h) = st[2 * Half]
                /\ \A i \in 1..(2 * Half) : st[i] = st[i - 1] * Base + h[i]
  BY <1>1, NumberPasses
<1> HIDE DEF u, l
<1>3. PICK su : /\ su[0] = 0 /\ Number(u) = su[Half]
                /\ \A i \in 1..Half : su[i] = su[i - 1] * Base + u[i]
  BY <1>1, NumberPasses
<1>4. PICK sl : /\ sl[0] = 0 /\ Number(l) = sl[Half]
                /\ \A i \in 1..Half : sl[i] = sl[i - 1] * Base + l[i]
  BY <1>1, NumberPasses
<1>5. \A k \in 0..Half : /\ su[k] \in 0..(Power[k] - 1) /\ Power[k] \in Nat
                         /\ sl[k] \in 0..(Power[k] - 1)
  <2>0. Half \in Nat /\ u \in [1..Half -> Digits] /\ l \in [1..Half -> Digits]
    BY <1>1
  <2>1. \A k \in 0..Half : su[k] \in 0..(Power[k] - 1) /\ Power[k] \in Nat
    BY <2>0, <1>3, DigitsBelow
  <2>2. \A k \in 0..Half : sl[k] \in 0..(Power[k] - 1) /\ Power[k] \in Nat
    BY <2>0, <1>4, DigitsBelow
  <2> QED
    BY <2>1, <2>2
<1>6. st[Half] = su[Half]
  <2> DEFINE S == {k \in 0..Half : st[k] = su[k]}
  <2>1. 0 \in S
    BY <1>1, <1>2, <1>3
  <2>2. ASSUME NEW k \in 0..(Half - 1), k \in S PROVE k + 1 \in S
    <3>1. k + 1 \in 1..Half /\ k + 1 \in 1..(2 * Half) /\ k + 1 \in 0..Half /\ (k + 1) - 1 = k
      BY <1>1
    <3> QED
      BY <1>1, <1>2, <1>3, <2>2, <3>1
  <2>3. 0..Half \subseteq S
    <3> HIDE DEF S
    <3> QED
      BY <1>1, <2>1, <2>2, Num!Induction
  <2> QED
    BY <1>1, <2>3
<1>7. st[Half + Half] = st[Half] * Power[Half] + sl[Half]
  <2> DEFINE S == {k \in 0..Half : st[Half + k] = st[Half] * Power[k] + sl[k]}
             a == st[Half]
  <2>0. a \in Nat
    BY <1>1, <1>5, <1>6
  <2>1. 0 \in S
    <3>1. 0 \in 0..Half /\ st[Half + 0] = a /\ Power[0] = 1 /\ sl[0] = 0
      BY <1>1, <1>4, PowerIs
    <3> HIDE DEF a
    <3>2. a * 1 + 0 = a
      BY <2>0
    <3> QED
      BY <3>1, <3>2 DEF a
  <2>2. ASSUME NEW k \in 0..(Half - 1), k \in S PROVE k + 1 \in S
    <3> DEFINE p == Power[k]  b == sl[k]  d == l[k + 1]
    <3>1. /\ k + 1 \in 1..Half /\ k + 1 \in 0..Half /\ (k + 1) - 1 = k /\ k \in Nat /\ k \in 0..Half
          /\ Half + (k + 1) \in 1..(2 * Half) /\ (Half + (k + 1)) - 1 = Half + k
      BY <1>1
    <3>2. p \in Nat /\ b \in Nat /\ d \in Nat
      <4>1. b \in 0..(p - 1) /\ p \in Nat
        BY <1>5, <3>1
      <4>2. d \in 0..(Base - 1)
        BY <1>1, <3>1 DEF Digits
      <4> QED
        BY <4>1, <4>2
    <3>3. st[Half + (k + 1)] = st[Half + k] * Base + d
      BY <1>1, <1>2, <3>1
    <3>4. sl[k + 1] = b * Base + d
      BY <1>4, <3>1
    <3>5. Power[k + 1] = p * Base
      BY <3>1, PowerIs
    <3>6. st[Half + k] = a * p + b
      BY <2>2
    <3> HIDE DEF a, p, b, d
    <3>7. (a * p + b) * Base + d = a * (p * Base) + (b * Base + d)
      BY <1>1, <2>0, <3>2
    <3>8. st[Half + (k + 1)] = a * Power[k + 1] + sl[k + 1]
      BY <3>3, <3>4, <3>5, <3>6, <3>7
    <3> QED
      BY <3>1, <3>8 DEF a
  <2>3. 0..Half \subseteq S
    <3> HIDE DEF S
    <3> QED
      BY <1>1, <2>1, <2>2, Num!Induction
  <2>4. Half \in S
    BY <1>1, <2>3
  <2> QED
    BY <2>4
<1>8. Half \in 0..Half
  BY <1>1
<1> QED
  BY <1>1, <1>2, <1>3, <1>4, <1>5, <1>6, <1>7, <1>8 DEF Higher, Lower, u, l

(* Comparing by halves is comparing the numbers. *)
LEMMA LessIs == ASSUME NEW g \in Hashes, NEW h \in Hashes PROVE Less(g, h) <=> Number(g) < Number(h)
<1> DEFINE p == Power[Half]
<1>1. /\ p \in Nat
      /\ Higher(g) \in 0..(p - 1) /\ Lower(g) \in 0..(p - 1)
      /\ Higher(h) \in 0..(p - 1) /\ Lower(h) \in 0..(p - 1)
      /\ Number(g) = Higher(g) * p + Lower(g) /\ Number(h) = Higher(h) * p + Lower(h)
  BY NumberOfHalves
<1> HIDE DEF p
<1>2. Higher(g) \in Nat /\ Higher(h) \in Nat
  BY <1>1
<1> QED
  BY <1>1, <1>2, Positional DEF Less

(* The last digits of two numbers below a power are read off. *)
LEMMA LastDigit ==
  ASSUME NEW a \in Nat, NEW b \in Nat, NEW d \in Digits, NEW e \in Digits,
         a * Base + d = b * Base + e
  PROVE  a = b /\ d = e
<1>1. Base \in Nat /\ d \in 0..(Base - 1) /\ e \in 0..(Base - 1)
  BY SortitionAssumption DEF Digits
<1>2. ~ (a * Base + d < b * Base + e) /\ ~ (b * Base + e < a * Base + d)
  <2> DEFINE x == a * Base + d  y == b * Base + e
  <2>1. x \in Nat /\ y \in Nat /\ x = y
    BY <1>1
  <2> HIDE DEF x, y
  <2>2. ~ (x < y) /\ ~ (y < x)
    BY <2>1
  <2> QED
    BY <2>2 DEF x, y
<1>3. ~ (a < b) /\ ~ (b < a) /\ (a = b => ~ (d < e) /\ ~ (e < d))
  BY <1>1, <1>2, Positional
<1> QED
  BY <1>1, <1>3

(* Different hashes are different numbers. *)
LEMMA NumberIsInjective ==
  ASSUME NEW g \in Hashes, NEW h \in Hashes, Number(g) = Number(h)
  PROVE  g = h
<1> DEFINE n == 2 * Half
<1>1. n \in Nat /\ g \in [1..n -> Digits] /\ h \in [1..n -> Digits] /\ Base \in Nat
  BY Halves, SortitionAssumption DEF Hashes, Digits
<1> HIDE DEF n
<1>2. PICK sg : /\ sg[0] = 0 /\ Number(g) = sg[n]
                /\ \A i \in 1..n : sg[i] = sg[i - 1] * Base + g[i]
  BY <1>1, NumberPasses
<1>3. PICK sh : /\ sh[0] = 0 /\ Number(h) = sh[n]
                /\ \A i \in 1..n : sh[i] = sh[i - 1] * Base + h[i]
  BY <1>1, NumberPasses
<1>4. \A k \in 0..n : sg[k] \in 0..(Power[k] - 1) /\ Power[k] \in Nat
  BY <1>1, <1>2, DigitsBelow
<1>5. \A k \in 0..n : sh[k] \in 0..(Power[k] - 1) /\ Power[k] \in Nat
  BY <1>1, <1>3, DigitsBelow
<1>6. \A k \in 0..n : sg[k] \in Nat /\ sh[k] \in Nat
  BY <1>4, <1>5
<1>7. ASSUME NEW i \in 1..n, sg[i] = sh[i] PROVE sg[i - 1] = sh[i - 1] /\ g[i] = h[i]
  <2>1. /\ sg[i - 1] \in Nat /\ sh[i - 1] \in Nat /\ g[i] \in Digits /\ h[i] \in Digits
        /\ sg[i - 1] * Base + g[i] = sh[i - 1] * Base + h[i]
    BY <1>1, <1>2, <1>3, <1>6, <1>7
  <2> QED
    BY <2>1, LastDigit
<1> DEFINE S == {k \in 0..n : sg[n - k] = sh[n - k]}
<1>8. 0 \in S
  <2>1. 0 \in 0..n /\ n - 0 = n
    BY <1>1
  <2>2. sg[n] = sh[n]
    BY <1>2, <1>3
  <2> QED
    BY <2>1, <2>2
<1>9. ASSUME NEW k \in 0..(n - 1), k \in S PROVE k + 1 \in S
  <2>1. n - k \in 1..n /\ (n - k) - 1 = n - (k + 1) /\ k + 1 \in 0..n
    BY <1>1
  <2> QED
    BY <1>7, <1>9, <2>1
<1>10. 0..n \subseteq S
  <2> HIDE DEF S
  <2> QED
    BY <1>1, <1>8, <1>9, Num!Induction
<1>11. ASSUME NEW i \in 1..n PROVE g[i] = h[i]
  <2>1. n - i \in 0..n /\ n - (n - i) = i
    BY <1>1
  <2>2. sg[i] = sh[i]
    BY <1>10, <2>1
  <2> QED
    BY <1>7, <2>2
<1> QED
  BY <1>1, <1>11

LEMMA NumberType == ASSUME NEW h \in Hashes PROVE Number(h) \in Nat
<1> DEFINE p == Power[Half]
<1>1. p \in Nat /\ Higher(h) \in 0..(p - 1) /\ Lower(h) \in 0..(p - 1) /\ Number(h) = Higher(h) * p + Lower(h)
  BY NumberOfHalves
<1> HIDE DEF p
<1> QED
  BY <1>1

(* What has been said of the hash is what the comparisons say. *)
SortitionInv ==
    /\ {hash, proposer_difficulty, transaction_difficulty} \subseteq Hashes
    /\ verdict \in [Kinds -> {"unseen", "accepted", "rejected"}]
    /\ \A k \in Kinds : /\ verdict[k] = "rejected" => Rejects(k)
                        /\ verdict[k] = "accepted" => ~ Rejects(k)
    /\ mined = "proposer" => Less(hash, proposer_difficulty)
    /\ mined = "transaction" =>
          Less(hash, transaction_difficulty) /\ ~ Less(hash, proposer_difficulty)

LEMMA SortitionInitInv == SortitionInit => SortitionInv
  BY SortitionAssumption DEF SortitionInit, SortitionInv, Kinds

LEMMA SortitionStep == SortitionInv /\ [SortitionNext]_sortitionVars => SortitionInv'
<1> SUFFICES ASSUME SortitionInv, [SortitionNext]_sortitionVars PROVE SortitionInv'
  OBVIOUS
<1>1. CASE Mine
  BY <1>1 DEF Mine, header, SortitionInv, Rejects, Less, Higher, Lower
<1>2. ASSUME NEW k \in Kinds, Receive(k) PROVE SortitionInv'
  <2>1. /\ header' = header /\ mined' = mined
        /\ \A j \in Kinds : verdict'[j] = IF j # k THEN verdict[j]
                                           ELSE IF Rejects(k) THEN "rejected" ELSE "accepted"
        /\ verdict' \in [Kinds -> {"unseen", "accepted", "rejected"}]
    BY <1>2 DEF Receive, SortitionInv
  <2>2. \A j \in Kinds : Rejects(j)' <=> Rejects(j)
    BY <2>1 DEF header, Rejects, Less, Higher, Lower
  <2>3. /\ Less(hash, proposer_difficulty)' <=> Less(hash, proposer_difficulty)
        /\ Less(hash, transaction_difficulty)' <=> Less(hash, transaction_difficulty)
    BY <2>1 DEF header, Less, Higher, Lower
  <2>4. /\ {hash', proposer_difficulty', transaction_difficulty'} \subseteq Hashes
        /\ \A j \in Kinds : /\ verdict'[j] = "rejected" => Rejects(j)'
                            /\ verdict'[j] = "accepted" => ~ Rejects(j)'
    BY <2>1, <2>2 DEF header, SortitionInv
  <2> QED
    BY <2>1, <2>3, <2>4 DEF SortitionInv
<1>3. CASE UNCHANGED sortitionVars
  BY <1>3 DEF sortitionVars, header, SortitionInv, Rejects, Less, Higher, Lower
<1> QED
  BY <1>1, <1>2, <1>3 DEF SortitionNext

(* The two checks in numbers. *)
LEMMA Checks ==
  ASSUME {hash, proposer_difficulty, transaction_difficulty} \subseteq Hashes
  PROVE  LET p == Number(proposer_difficulty)
             q == Number(transaction_difficulty)
             n == Number(hash)
         IN  /\ p \in Nat /\ q \in Nat /\ n \in Nat
             /\ Rejects("proposer") <=> p < n
             /\ Rejects("transaction") <=> q < n \/ n <= p
             /\ Less(hash, proposer_difficulty) <=> n < p
             /\ n = p <=> hash = proposer_difficulty
             /\ n = q <=> hash = transaction_difficulty
<1>1. hash \in Hashes /\ proposer_difficulty \in Hashes /\ transaction_difficulty \in Hashes
  OBVIOUS
<1>2. /\ Number(proposer_difficulty) \in Nat /\ Number(transaction_difficulty) \in Nat
      /\ Number(hash) \in Nat
  BY <1>1, NumberType
<1>3. /\ Less(proposer_difficulty, hash) <=> Number(proposer_difficulty) < Number(hash)
      /\ Less(transaction_difficulty, hash) <=> Number(transaction_difficulty) < Number(hash)
      /\ Less(hash, proposer_difficulty) <=> Number(hash) < Number(proposer_difficulty)
  BY <1>1, LessIs
<1>4. /\ Number(hash) = Number(proposer_difficulty) <=> hash = proposer_difficulty
      /\ Number(hash) = Number(transaction_difficulty) <=> hash = transaction_difficulty
  BY <1>1, NumberIsInjective
<1> HIDE DEF Number
<1> QED
  BY <1>1, <1>2, <1>3, <1>4 DEF Rejects

LEMMA InvIsOneKind == SortitionInv => OneKind
<1> SUFFICES ASSUME SortitionInv, \A k \in Kinds : verdict[k] # "unseen"
             PROVE  /\ \E k \in Kinds : verdict[k] = "rejected"
                    /\ hash # transaction_difficulty =>
                          ((\E k \in Kinds : verdict[k] = "accepted")
                              <=> \/ Number(hash) <= Number(proposer_difficulty)
                                  \/ Number(hash) < Number(transaction_difficulty))
  BY DEF OneKind
<1>1. \A k \in Kinds : verdict[k] = IF Rejects(k) THEN "rejected" ELSE "accepted"
  BY DEF SortitionInv
<1> DEFINE p == Number(proposer_difficulty)
           q == Number(transaction_difficulty)
           n == Number(hash)
<1>2. /\ p \in Nat /\ q \in Nat /\ n \in Nat
      /\ Rejects("proposer") <=> p < n
      /\ Rejects("transaction") <=> q < n \/ n <= p
      /\ n = q <=> hash = transaction_difficulty
  BY Checks DEF SortitionInv
<1> HIDE DEF p, q, n
<1>3. n # q => (~ Rejects("proposer") \/ ~ Rejects("transaction") <=> n <= p \/ n < q)
  BY <1>2
<1>4. Rejects("proposer") \/ Rejects("transaction")
  BY <1>2
<1>5. Kinds = {"proposer", "transaction"}
  BY DEF Kinds
<1> QED
  BY <1>1, <1>2, <1>3, <1>4, <1>5 DEF n, p, q

LEMMA InvIsMinedIsAccepted == SortitionInv => MinedIsAccepted
<1> SUFFICES ASSUME SortitionInv, mined \in Kinds, verdict[mined] # "unseen"
             PROVE  verdict[mined] = "rejected" <=> hash = proposer_difficulty
  BY DEF MinedIsAccepted
<1>1. verdict[mined] = IF Rejects(mined) THEN "rejected" ELSE "accepted"
  BY DEF SortitionInv
<1> DEFINE p == Number(proposer_difficulty)
           q == Number(transaction_difficulty)
           n == Number(hash)
<1>2. /\ p \in Nat /\ q \in Nat /\ n \in Nat
      /\ Rejects("proposer") <=> p < n
      /\ Rejects("transaction") <=> q < n \/ n <= p
      /\ Less(hash, proposer_difficulty) <=> n < p
      /\ n = p <=> hash = proposer_difficulty
  BY Checks DEF SortitionInv
<1>3. Less(hash, transaction_difficulty) <=> n < q
  BY LessIs DEF SortitionInv
<1> HIDE DEF p, q, n
<1>4. CASE mined = "proposer"
  <2>1. n < p
    BY <1>2, <1>4 DEF SortitionInv
  <2> QED
    BY <1>1, <1>2, <1>4, <2>1
<1>5. CASE mined = "transaction"
  <2>1. n < q /\ ~ (n < p)
    BY <1>2, <1>3, <1>5 DEF SortitionInv
  <2> QED
    BY <1>1, <1>2, <1>5, <2>1
<1> QED
  BY <1>4, <1>5 DEF Kinds

(* No header passes the checks of both kinds of block, whatever it names as *)
(* its difficulties.                                                        *)
THEOREM OneKindCorrect == SortitionSpec => []OneKind
  BY SortitionInitInv, SortitionStep, InvIsOneKind, PTL DEF SortitionSpec

(* What the miner makes of a hash the workers accept, with one exception.   *)
THEOREM MinedIsAcceptedCorrect == SortitionSpec => []MinedIsAccepted
  BY SortitionInitInv, SortitionStep, InvIsMinedIsAccepted, PTL DEF SortitionSpec
-----------------------------------------------------------------------------
(* The proposer block tree.                                                 *)

(* The tree is closed under parents and a height counts the links: needed   *)
(* to see that inserting a block again gives it the height it had.          *)
HeightsAddUp ==
    \A b \in blocks \ {Genesis} :
        Parent[b] \in blocks /\ heights[b] = heights[Parent[b]] + 1

ChainInv == ChainTypeOK /\ TipIsHighest /\ HeightsAddUp

(* The body of ForkChoice. *)
Stable ==
    /\ blocks \subseteq blocks'
    /\ \A b \in blocks : heights'[b] = heights[b]
    /\ tip_node_hash' # tip_node_hash =>
          /\ tip_node_hash' \notin blocks
          /\ \A b \in blocks : heights'[tip_node_hash'] > heights[b]

(* The new tree is consistent before anything is inserted. *)
LEMMA ChainInitInv == ChainInit => ChainInv
  BY BlockAssumption DEF ChainInit, ChainInv, ChainTypeOK, TipIsHighest, HeightsAddUp

(* A block that is in the tree is inserted a second time: nothing changes. *)
LEMMA InsertAgain ==
  ASSUME ChainInv, NEW b \in Children, b \in blocks, Insert(b)
  PROVE  UNCHANGED chainVars
<1>1. b # Genesis /\ b \in blocks \ {Genesis}
  BY DEF Children
<1>2. heights[Parent[b]] + 1 = heights[b] /\ heights[b] <= longest
  BY <1>1 DEF ChainInv, HeightsAddUp, TipIsHighest
<1>3. longest \in Nat /\ heights[b] \in Nat /\ heights = [c \in blocks |-> heights[c]]
  BY DEF ChainInv, ChainTypeOK
<1>4. ~ (heights[b] > longest)
  BY <1>2, <1>3
<1>5. UNCHANGED <<longest, tip_node_hash>>
  BY <1>2, <1>4 DEF Insert
<1>6. blocks' = blocks
  BY DEF Insert
<1>7. heights' = heights
  <2>1. heights' = [c \in blocks |-> IF c = b THEN heights[b] ELSE heights[c]]
    BY <1>2, <1>3 DEF Insert, Put
  <2> QED
    BY <2>1, <1>3
<1> QED
  BY <1>5, <1>6, <1>7 DEF chainVars

(* An insertion under a parent that is there. *)
LEMMA InsertInv ==
  ASSUME ChainInv, NEW b \in Children, Parent[b] \in blocks, Insert(b)
  PROVE  ChainInv' /\ Stable
<1>1. CASE b \in blocks
  <2>1. UNCHANGED chainVars
    BY <1>1, InsertAgain
  <2> QED
    BY <2>1 DEF chainVars, ChainInv, ChainTypeOK, TipIsHighest, HeightsAddUp, Stable
<1>2. CASE b \notin blocks
  <2> DEFINE h == heights[Parent[b]] + 1
  <2>1. /\ b \in ProposerBlocks \ {Genesis}
        /\ heights \in [blocks -> Nat] /\ longest \in Nat /\ h \in Nat
        /\ tip_node_hash \in blocks /\ blocks \subseteq ProposerBlocks
    BY DEF Children, ChainInv, ChainTypeOK
  <2>2. /\ blocks' = blocks \cup {b}
        /\ heights' = [c \in blocks \cup {b} |-> IF c = b THEN h ELSE heights[c]]
    BY <2>1 DEF Insert, Put
  <2>3. /\ heights' \in [blocks' -> Nat] /\ heights'[b] = h
        /\ \A c \in blocks : heights'[c] = heights[c]
    BY <2>1, <2>2, <1>2
  <2>4. \/ h > longest /\ longest' = h /\ tip_node_hash' = b
        \/ ~ (h > longest) /\ longest' = longest /\ tip_node_hash' = tip_node_hash
    BY DEF Insert
  <2>5. ChainTypeOK'
    BY <2>1, <2>2, <2>3, <2>4 DEF ChainTypeOK
  <2>6. /\ Genesis \in blocks /\ longest = heights[tip_node_hash]
        /\ \A c \in blocks : heights[c] <= longest /\ heights[c] \in Nat
    BY <2>1 DEF ChainInv, TipIsHighest
  <2>7. TipIsHighest'
    <3>1. longest' = heights'[tip_node_hash']
      BY <2>1, <2>3, <2>4, <2>6
    <3>2. \A c \in blocks' : heights'[c] <= longest'
      BY <2>1, <2>2, <2>3, <2>4, <2>6
    <3> QED
      BY <3>1, <3>2, <2>2, <2>6 DEF TipIsHighest
  <2>8. HeightsAddUp'
    <3> SUFFICES ASSUME NEW c \in blocks' \ {Genesis}
                 PROVE  Parent[c] \in blocks' /\ heights'[c] = heights'[Parent[c]] + 1
      BY DEF HeightsAddUp
    <3>1. CASE c = b
      BY <3>1, <2>2, <2>3
    <3>2. CASE c # b
      <4>1. c \in blocks \ {Genesis} /\ Parent[c] \in blocks /\ heights[c] = heights[Parent[c]] + 1
        BY <3>2, <2>2 DEF ChainInv, HeightsAddUp
      <4> QED
        BY <4>1, <2>2, <2>3
    <3> QED
      BY <3>1, <3>2
  <2>9. Stable
    <3>1. ASSUME tip_node_hash' # tip_node_hash
          PROVE  tip_node_hash' \notin blocks /\ \A c \in blocks : heights'[tip_node_hash'] > heights[c]
      BY <3>1, <1>2, <2>1, <2>3, <2>4, <2>6
    <3> QED
      BY <3>1, <2>2, <2>3 DEF Stable
  <2> QED
    BY <2>5, <2>7, <2>8, <2>9 DEF ChainInv
<1> QED
  BY <1>1, <1>2

LEMMA ChainStep == ChainInv /\ [ChainNext]_chainVars => ChainInv' /\ (Stable \/ UNCHANGED chainVars)
<1> SUFFICES ASSUME ChainInv, [ChainNext]_chainVars
             PROVE  ChainInv' /\ (Stable \/ UNCHANGED chainVars)
  OBVIOUS
<1>1. CASE ChainNext
  BY <1>1, InsertInv DEF ChainNext
<1>2. CASE UNCHANGED chainVars
  BY <1>2 DEF chainVars, ChainInv, ChainTypeOK, TipIsHighest, HeightsAddUp
<1> QED
  BY <1>1, <1>2

(* The fields have their types: every block has a height, the tip is one.   *)
THEOREM ChainTypeCorrect == ChainSpec => []ChainTypeOK
<1>1. ChainInv => ChainTypeOK
  BY DEF ChainInv
<1> QED
  BY <1>1, ChainInitInv, ChainStep, PTL DEF ChainSpec

(* The tip is a highest block and longest its height, on every fork.        *)
THEOREM TipCorrect == ChainSpec => []TipIsHighest
<1>1. ChainInv => TipIsHighest
  BY DEF ChainInv
<1> QED
  BY <1>1, ChainInitInv, ChainStep, PTL DEF ChainSpec

(* The tip moves to strictly higher new blocks only; blocks and heights stay. *)
THEOREM ForkChoiceCorrect == ChainSpec => ForkChoice
<1>1. ChainInv /\ [ChainNext]_chainVars => [Stable]_chainVars
  BY ChainStep
<1>2. ChainSpec => [][Stable]_chainVars
  BY <1>1, ChainInitInv, ChainStep, PTL DEF ChainSpec
<1> QED
  BY <1>2 DEF ForkChoice, Stable

(* One step up the tree, as a step of a recursion over the natural numbers. *)
StepUp(b, n) == ParentHash(b)
Climb == INSTANCE Folding WITH Step <- StepUp, Weight <- Value

RootIsLowest == heights[Genesis] = 0

(* The walk from any block of a consistent tree stays in the tree as many   *)
(* steps as its height says, each block one lower than the one before.      *)
LEMMA WalkDown ==
  ASSUME ChainInv, RootIsLowest, NEW b \in blocks, NEW walk, Climb!Recurses(b, walk)
  PROVE  /\ \A k \in 0..heights[b] : walk[k] \in blocks /\ heights[walk[k]] = heights[b] - k
         /\ \A k \in 0..(heights[b] - 1) : walk[k] \in Children /\ walk[k + 1] = Parent[walk[k]]
         /\ walk[heights[b]] = Genesis
<1> DEFINE h == heights[b]
           S == {k \in 0..h : walk[k] \in blocks /\ heights[walk[k]] = h - k}
<1>1. /\ h \in Nat /\ Genesis \in blocks /\ blocks \subseteq ProposerBlocks
      /\ \A c \in blocks : heights[c] \in Nat
      /\ \A c \in blocks \ {Genesis} : /\ c \in Children /\ Parent[c] \in blocks
                                       /\ heights[c] = heights[Parent[c]] + 1
  BY DEF ChainInv, ChainTypeOK, TipIsHighest, HeightsAddUp, Children
<1>2. walk[0] = b /\ \A n \in Nat : walk[n + 1] = ParentHash(walk[n])
  <2>1. walk[0] = b
    BY DEF Climb!Recurses
  <2>2. ASSUME NEW n \in Nat PROVE walk[n + 1] = ParentHash(walk[n])
    <3>1. n + 1 \in Nat /\ n + 1 # 0 /\ (n + 1) - 1 = n
      OBVIOUS
    <3> QED
      BY <3>1 DEF Climb!Recurses, StepUp
  <2> QED
    BY <2>1, <2>2
<1> HIDE DEF h
<1>3. ASSUME NEW k \in 0..(h - 1), walk[k] \in blocks, heights[walk[k]] = h - k
      PROVE  walk[k] \in Children /\ walk[k + 1] = Parent[walk[k]] /\ k + 1 \in 0..h
             /\ walk[k + 1] \in blocks /\ heights[walk[k + 1]] = h - (k + 1)
  <2>1. k \in Nat /\ k + 1 \in 0..h /\ h - k # 0
    BY <1>1
  <2>2. walk[k] # Genesis
    BY <1>3, <2>1 DEF RootIsLowest
  <2>3. walk[k] \in Children /\ Parent[walk[k]] \in blocks /\ h - k = heights[Parent[walk[k]]] + 1
    BY <1>1, <1>3, <2>2
  <2>4. walk[k + 1] = Parent[walk[k]]
    BY <1>2, <2>1, <2>3 DEF ParentHash
  <2>5. heights[walk[k + 1]] = h - (k + 1)
    BY <1>1, <2>1, <2>3, <2>4
  <2> QED
    BY <2>1, <2>3, <2>4, <2>5
<1>4. 0 \in S
  BY <1>1, <1>2 DEF h
<1>5. 0..h \subseteq S
  <2>1. \A k \in 0..(h - 1) : k \in S => k + 1 \in S
    BY <1>3
  <2> HIDE DEF S
  <2> QED
    BY <1>1, <1>4, <2>1, Climb!Induction
<1>6. walk[h] = Genesis
  <2>1. h \in S
    BY <1>1, <1>5
  <2>2. walk[h] \in blocks /\ heights[walk[h]] = 0
    BY <1>1, <2>1
  <2> QED
    BY <1>1, <2>2
<1>7. \A k \in 0..(h - 1) : walk[k] \in Children /\ walk[k + 1] = Parent[walk[k]]
  <2>1. \A k \in 0..(h - 1) : k \in S
    BY <1>1, <1>5
  <2> QED
    BY <1>3, <2>1
<1> QED
  BY <1>5, <1>6, <1>7 DEF h

(* The walk of all_blocks_in_longest_chain, from the tip. *)
LEMMA ChainIsWalk ==
  ASSUME ChainInv, RootIsLowest
  PROVE  ChainReachesGenesis
<1>1. longest \in Nat /\ tip_node_hash \in blocks /\ longest = heights[tip_node_hash]
  BY DEF ChainInv, ChainTypeOK, TipIsHighest
<1>2. Climb!Recurses(tip_node_hash, StepsUp)
  <2>1. \E f : Climb!Recurses(tip_node_hash, f)
    BY Climb!RecursionExists
  <2> QED
    BY <2>1 DEF StepsUp, Climb!Recurses, StepUp
<1>3. /\ \A k \in 0..longest : heights[StepsUp[k]] = longest - k
      /\ \A k \in 0..(longest - 1) : StepsUp[k + 1] = Parent[StepsUp[k]]
      /\ StepsUp[longest] = Genesis
  BY <1>1, <1>2, WalkDown
<1>4. StepsUp[0] = tip_node_hash
  BY <1>2 DEF Climb!Recurses
<1> HIDE DEF StepsUp
<1>5. /\ Len(LongestChain) = longest + 1 /\ DOMAIN LongestChain = 1..(longest + 1)
      /\ \A i \in 1..(longest + 1) : LongestChain[i] = StepsUp[longest + 1 - i]
  <2>1. CASE longest = 0
    <3>1. LongestChain = <<tip_node_hash>>
      BY <2>1 DEF LongestChain
    <3>2. \A i \in 1..(longest + 1) : i = 1 /\ longest + 1 - i = 0
      BY <2>1
    <3> QED
      BY <1>4, <2>1, <3>1, <3>2
  <2>2. CASE longest # 0
    <3> DEFINE s == [i \in 1..(longest + 1) |-> StepsUp[i - 1]]
    <3>1. LongestChain = Reverse(s)
      BY <2>2 DEF LongestChain
    <3>2. Len(s) = longest + 1
      BY <1>1
    <3>3. Reverse(s) = [i \in 1..(longest + 1) |-> s[longest + 1 - i + 1]]
      BY <1>1, <3>2 DEF Reverse
    <3>4. Len(Reverse(s)) = longest + 1
      BY <1>1, <3>3
    <3>5. \A j \in 1..(longest + 1) : s[j] = StepsUp[j - 1]
      OBVIOUS
    <3> HIDE DEF s
    <3>6. ASSUME NEW i \in 1..(longest + 1) PROVE Reverse(s)[i] = StepsUp[longest + 1 - i]
      <4>1. Reverse(s)[i] = s[longest + 1 - i + 1]
        BY <3>3
      <4> DEFINE j == longest + 1 - i + 1
      <4>2. j \in 1..(longest + 1) /\ j - 1 = longest + 1 - i
        BY <1>1
      <4> HIDE DEF j
      <4>3. s[j] = StepsUp[longest + 1 - i]
        BY <3>5, <4>2
      <4> QED
        BY <4>1, <4>3 DEF j
    <3>7. DOMAIN Reverse(s) = 1..(longest + 1)
      BY <3>3
    <3> QED
      BY <3>1, <3>4, <3>6, <3>7
  <2> QED
    BY <2>1, <2>2
<1>6. LongestChain[1] = Genesis
  BY <1>1, <1>3, <1>5
<1>7. Last(LongestChain) = tip_node_hash
  BY <1>1, <1>4, <1>5 DEF Last
<1>8. ASSUME NEW i \in 2..Len(LongestChain) PROVE Parent[LongestChain[i]] = LongestChain[i - 1]
  <2>1. /\ i \in 1..(longest + 1) /\ i - 1 \in 1..(longest + 1)
        /\ longest + 1 - i \in 0..(longest - 1) /\ (longest + 1 - i) + 1 = longest + 1 - (i - 1)
    BY <1>1, <1>5
  <2> QED
    BY <1>3, <1>5, <2>1
<1>9. ASSUME NEW i \in DOMAIN LongestChain PROVE heights[LongestChain[i]] = i - 1
  <2>1. i \in 1..(longest + 1) /\ longest + 1 - i \in 0..longest /\ longest - (longest + 1 - i) = i - 1
    BY <1>1, <1>5
  <2> QED
    BY <1>3, <1>5, <2>1
<1> QED
  BY <1>6, <1>7, <1>8, <1>9 DEF ChainReachesGenesis

LEMMA RootStays ==
  ASSUME ChainInv, RootIsLowest, [ChainNext]_chainVars
  PROVE  RootIsLowest'
<1>1. CASE ChainNext
  <2>1. PICK b \in Children : Parent[b] \in blocks /\ Insert(b)
    BY <1>1 DEF ChainNext
  <2>2. b # Genesis /\ Genesis \in blocks /\ DOMAIN heights = blocks
    BY DEF Children, ChainInv, TipIsHighest, ChainTypeOK
  <2> QED
    BY <2>1, <2>2 DEF Insert, Put, RootIsLowest
<1>2. CASE UNCHANGED chainVars
  BY <1>2 DEF chainVars, RootIsLowest
<1> QED
  BY <1>1, <1>2

(* The walk up from the tip meets the genesis block after longest steps,    *)
(* and each block on it is one lower than the one before.                   *)
THEOREM ChainReachesGenesisCorrect == ChainSpec => []ChainReachesGenesis
<1> DEFINE I == ChainInv /\ RootIsLowest
<1>1. ChainInit => I
  BY ChainInitInv DEF ChainInit, RootIsLowest
<1>2. I /\ [ChainNext]_chainVars => I'
  BY ChainStep, RootStays
<1>3. I => ChainReachesGenesis
  BY ChainIsWalk
<1> HIDE DEF I
<1> QED
  BY <1>1, <1>2, <1>3, PTL DEF ChainSpec
-----------------------------------------------------------------------------
(* The ledger state along one chain.                                        *)

InputCoin(x) == InputsOf[x][1]

(* Why a spent coin stays out: the outputs of x can only be there if the    *)
(* coin that x spends has been spent, so x finds nothing the second time.   *)
EffectNeedsSpending ==
    \A x \in Txs : HasEffect(x) => InputCoin(x) \in spent

LedgerInv == SpentForGood /\ EffectNeedsSpending /\ OneSpender

(* The last input is the only one, of another transaction or of the ICO.    *)
LEMMA OneInput ==
  ASSUME NEW x \in Txs
  PROVE  /\ Last(InputsOf[x]) = InputCoin(x)
         /\ InputCoin(x)[1] # x
         /\ 1 \in DOMAIN InputsOf[x]
         /\ \A i \in DOMAIN InputsOf[x] : InputsOf[x][i] = InputCoin(x)
<1>1. InputsOf[x] \in Seq(Coins) /\ InputsOf[x] # <<>>
  BY TxAssumption
<1>2. Len(InputsOf[x]) \in Nat \ {0} /\ DOMAIN InputsOf[x] = 1..Len(InputsOf[x])
  BY <1>1
<1>3. Len(InputsOf[x]) \in DOMAIN InputsOf[x] /\ 1 \in DOMAIN InputsOf[x]
  BY <1>2
<1> QED
  BY <1>3, TxAssumption DEF Last, InputCoin

(* What one transaction does: nothing, or it removes its input coin and     *)
(* creates coins of its own.                                                *)
LEMMA ApplyTxEffect ==
  ASSUME NEW S, NEW x \in Txs
  PROVE  IF InputCoin(x) \in S
         THEN ApplyTx(S, x) = (S \cup {<<x, i>> : i \in DOMAIN InputsOf[x]}) \ {InputCoin(x)}
         ELSE ApplyTx(S, x) = S
<1> DEFINE found == {i \in DOMAIN InputsOf[x] : InputsOf[x][i] \in S}
<1>1. CASE InputCoin(x) \in S
  <2>1. found = DOMAIN InputsOf[x] /\ found # {}
    BY <1>1, OneInput
  <2> QED
    BY <1>1, <2>1, OneInput DEF ApplyTx
<1>2. CASE InputCoin(x) \notin S
  <2>1. found = {}
    BY <1>2, OneInput
  <2> QED
    BY <1>2, <2>1 DEF ApplyTx
<1> QED
  BY <1>1, <1>2

LEMMA LedgerInitInv == LedgerInit => LedgerInv
<1> SUFFICES ASSUME LedgerInit PROVE LedgerInv
  OBVIOUS
<1>1. \A x \in Txs : ~ HasEffect(x)
  BY TxAssumption DEF LedgerInit, IcoState, HasEffect
<1> QED
  BY <1>1 DEF LedgerInv, SpentForGood, EffectNeedsSpending, OneSpender, LedgerInit

LEMMA LedgerStep == LedgerInv /\ [LedgerNext]_ledgerVars => LedgerInv'
<1> SUFFICES ASSUME LedgerInv, [LedgerNext]_ledgerVars PROVE LedgerInv'
  OBVIOUS
<1> USE DEF LedgerInv
<1>1. ASSUME NEW x \in Txs, Confirm(x) PROVE LedgerInv'
  <2>1. CASE InputCoin(x) \notin utxo
    <3>1. utxo' = utxo /\ spent' = spent
      BY <1>1, <2>1, ApplyTxEffect DEF Confirm
    <3> QED
      BY <3>1 DEF SpentForGood, EffectNeedsSpending, OneSpender, HasEffect
  <2>2. CASE InputCoin(x) \in utxo
    <3> DEFINE new == {<<x, i>> : i \in DOMAIN InputsOf[x]}
    <3>1. utxo' = (utxo \cup new) \ {InputCoin(x)}
      BY <1>1, <2>2, ApplyTxEffect DEF Confirm
    <3>2. spent' = spent \cup {InputCoin(x)}
      BY <1>1, <2>2, <3>1 DEF Confirm
    <3>3. InputCoin(x) \notin spent /\ ~ HasEffect(x)
      BY <2>2 DEF SpentForGood, EffectNeedsSpending
    <3>4. SpentForGood'
      BY <3>1, <3>2, <3>3 DEF SpentForGood, HasEffect
    <3>5. \A y \in Txs : HasEffect(y)' => HasEffect(y) \/ y = x
      BY <3>1, <3>2, <2>2 DEF HasEffect
    <3>6. EffectNeedsSpending'
      BY <3>2, <3>5 DEF EffectNeedsSpending
    <3>7. \A y \in Txs : HasEffect(y) => InputCoin(y) # InputCoin(x)
      BY <3>3 DEF EffectNeedsSpending
    <3>8. OneSpender'
      <4> SUFFICES ASSUME NEW y \in Txs, NEW z \in Txs, HasEffect(y)', HasEffect(z)',
                          InputCoin(y) = InputCoin(z)
                   PROVE  y = z
        BY DEF OneSpender, InputCoin
      <4>1. CASE HasEffect(y) /\ HasEffect(z)
        BY <4>1 DEF OneSpender, InputCoin
      <4>2. CASE y = x \/ z = x
        BY <4>2, <3>5, <3>7
      <4> QED
        BY <4>1, <4>2, <3>5
    <3> QED
      BY <3>4, <3>6, <3>8
  <2> QED
    BY <2>1, <2>2
<1>2. CASE UNCHANGED ledgerVars
  BY <1>2 DEF ledgerVars, SpentForGood, EffectNeedsSpending, OneSpender, HasEffect
<1> QED
  BY <1>1, <1>2 DEF LedgerNext

(* A spent coin is never unspent again.                                     *)
THEOREM SpentForGoodCorrect == LedgerSpec => []SpentForGood
<1>1. LedgerInv => SpentForGood
  BY DEF LedgerInv
<1> QED
  BY <1>1, LedgerInitInv, LedgerStep, PTL DEF LedgerSpec

(* At most one transaction that spends a given coin takes effect.           *)
THEOREM OneSpenderCorrect == LedgerSpec => []OneSpender
<1>1. LedgerInv => OneSpender
  BY DEF LedgerInv
<1> QED
  BY <1>1, LedgerInitInv, LedgerStep, PTL DEF LedgerSpec
-----------------------------------------------------------------------------
(* The ledger state that a block leaves.                                    *)
TxFold == INSTANCE Folding WITH Step <- ApplyTx, Weight <- Value
BlockFold == INSTANCE Folding WITH Step <- ApplyTxBlock, Weight <- Value

(* What every transaction of a block preserves, the block preserves.        *)
LEMMA TxBlockStays ==
  ASSUME NEW t \in TxBlocks, NEW M, NEW S \in M,
         \A T \in M : \A x \in ToSet(ContentOf[t]) : ApplyTx(T, x) \in M
  PROVE  ApplyTxBlock(S, t) \in M
<1> DEFINE seq == ContentOf[t]
           Inv == [i \in 0..Len(seq) |-> M]
<1>1. seq \in Seq(Txs)
  BY BlockAssumption
<1>2. /\ Len(seq) \in Nat /\ DOMAIN seq = 1..Len(seq)
      /\ \A i \in 1..Len(seq) : seq[i] \in ToSet(seq)
  <2> HIDE DEF seq
  <2> QED
    BY <1>1 DEF ToSet
<1>3. S \in Inv[0] /\ \A i \in 1..Len(seq) : \A a \in Inv[i - 1] : ApplyTx(a, seq[i]) \in Inv[i]
  <2>1. \A i \in 1..Len(seq) : i - 1 \in 0..Len(seq) /\ i \in 0..Len(seq) /\ 0 \in 0..Len(seq)
    BY <1>2
  <2> QED
    BY <1>2, <2>1
<1> HIDE DEF Inv
<1>4. TxFold!Fold(S, seq) \in Inv[Len(seq)]
  BY <1>2, <1>3, TxFold!FoldStays
<1>5. TxFold!Fold(S, seq) = ApplyTxBlock(S, t)
  BY DEF TxFold!Fold, TxFold!Greatest, FoldLeft, MapThenFoldSet, Max, ApplyTxBlock
<1> QED
  BY <1>2, <1>4, <1>5 DEF Inv

LEMMA LedgerStays ==
  ASSUME NEW b \in Children, NEW M, NEW S \in M,
         \A T \in M : \A t \in Refs(b) : \A x \in ToSet(ContentOf[t]) : ApplyTx(T, x) \in M
  PROVE  LedgerAfter(S, b) \in M
<1> DEFINE seq == RefsOf[b]
           Inv == [i \in 0..Len(seq) |-> M]
<1>1. seq \in Seq(TxBlocks)
  BY BlockAssumption
<1>2. /\ Len(seq) \in Nat /\ DOMAIN seq = 1..Len(seq)
      /\ \A i \in 1..Len(seq) : seq[i] \in Refs(b) /\ seq[i] \in TxBlocks
  <2>1. Refs(b) = ToSet(seq)
    BY DEF Refs
  <2> HIDE DEF seq
  <2> QED
    BY <1>1, <2>1 DEF ToSet
<1>3. \A i \in 1..Len(seq) : \A T \in M : ApplyTxBlock(T, seq[i]) \in M
  BY <1>2, TxBlockStays
<1>4. S \in Inv[0] /\ \A i \in 1..Len(seq) : \A a \in Inv[i - 1] : ApplyTxBlock(a, seq[i]) \in Inv[i]
  <2>1. \A i \in 1..Len(seq) : i - 1 \in 0..Len(seq) /\ i \in 0..Len(seq) /\ 0 \in 0..Len(seq)
    BY <1>2
  <2> HIDE DEF seq
  <2> QED
    BY <1>2, <1>3, <2>1
<1> HIDE DEF Inv
<1>5. BlockFold!Fold(S, seq) \in Inv[Len(seq)]
  BY <1>2, <1>4, BlockFold!FoldStays
<1>6. BlockFold!Fold(S, seq) = LedgerAfter(S, b)
  BY DEF BlockFold!Fold, BlockFold!Greatest, FoldLeft, MapThenFoldSet, Max, LedgerAfter
<1> QED
  BY <1>2, <1>5, <1>6 DEF Inv

(* The coins that can be in a ledger state.                                 *)
Outs(x) == {<<x, i>> : i \in DOMAIN InputsOf[x]}
RealCoins == IcoState \cup UNION {Outs(x) : x \in Txs}

(* D holds the coins that were spent on the way to the state S.             *)
SpendInv(S, D) ==
    /\ S \cap D = {}
    /\ \A x \in Txs : (\E c \in S \cup D : c[1] = x) => InputCoin(x) \in D

(* The states that can be reached from S0 when the coins D0 were spent.     *)
Later(S0, D0) ==
    {S \in SUBSET RealCoins : \E D : D0 \subseteq D /\ SpendInv(S, D) /\ S0 \subseteq S \cup D}

LEMMA SpendStep ==
  ASSUME NEW S, NEW D, SpendInv(S, D), NEW x \in Txs
  PROVE  /\ SpendInv(ApplyTx(S, x), D \cup (S \ ApplyTx(S, x)))
         /\ InputCoin(x) \in S => Outs(x) \cap S = {} /\ InputCoin(x) \notin Outs(x)
<1>1. CASE InputCoin(x) \notin S
  <2>1. ApplyTx(S, x) = S
    BY <1>1, ApplyTxEffect
  <2> QED
    BY <1>1, <2>1 DEF SpendInv
<1>2. CASE InputCoin(x) \in S
  <2>1. ApplyTx(S, x) = (S \cup Outs(x)) \ {InputCoin(x)}
    BY <1>2, ApplyTxEffect DEF Outs
  <2>2. \A c \in Outs(x) : c[1] = x
    BY DEF Outs
  <2>3. InputCoin(x) \notin Outs(x) /\ InputCoin(x) \notin D /\ \A c \in S \cup D : c[1] # x
    BY <1>2, <2>2, OneInput DEF SpendInv
  <2>4. D \cup (S \ ApplyTx(S, x)) = D \cup {InputCoin(x)}
    BY <1>2, <2>1
  <2>5. SpendInv((S \cup Outs(x)) \ {InputCoin(x)}, D \cup {InputCoin(x)})
    <3>1. ((S \cup Outs(x)) \ {InputCoin(x)}) \cap (D \cup {InputCoin(x)}) = {}
      BY <2>2, <2>3 DEF SpendInv
    <3>2. \A y \in Txs : (\E c \in ((S \cup Outs(x)) \ {InputCoin(x)}) \cup (D \cup {InputCoin(x)}) : c[1] = y)
                           => InputCoin(y) \in D \cup {InputCoin(x)}
      BY <1>2, <2>2 DEF SpendInv
    <3> QED
      BY <3>1, <3>2 DEF SpendInv
  <2> QED
    BY <2>1, <2>2, <2>3, <2>4, <2>5
<1> QED
  BY <1>1, <1>2

LEMMA RealStays ==
  ASSUME NEW S \in SUBSET RealCoins, NEW x \in Txs
  PROVE  ApplyTx(S, x) \in SUBSET RealCoins
<1>1. Outs(x) \subseteq RealCoins
  BY DEF RealCoins
<1> QED
  BY <1>1, ApplyTxEffect DEF Outs

LEMMA LaterStays ==
  ASSUME NEW S0, NEW D0, NEW S \in Later(S0, D0), NEW x \in Txs
  PROVE  ApplyTx(S, x) \in Later(S0, D0)
<1>1. PICK D : D0 \subseteq D /\ SpendInv(S, D) /\ S0 \subseteq S \cup D
  BY DEF Later
<1> DEFINE S1 == ApplyTx(S, x)
           D1 == D \cup (S \ S1)
<1>2. SpendInv(S1, D1)
  BY <1>1, SpendStep
<1>3. S1 \in SUBSET RealCoins
  BY RealStays DEF Later
<1>4. D0 \subseteq D1 /\ S0 \subseteq S1 \cup D1
  BY <1>1
<1> HIDE DEF S1, D1
<1>5. S1 \in Later(S0, D0)
  BY <1>2, <1>3, <1>4 DEF Later
<1> QED
  BY <1>5 DEF S1

LEMMA ContentType ==
  ASSUME NEW b \in Children, NEW t \in Refs(b) PROVE t \in TxBlocks /\ ToSet(ContentOf[t]) \subseteq Txs
<1>1. RefsOf[b] \in Seq(TxBlocks)
  BY BlockAssumption
<1>2. t \in TxBlocks
  BY <1>1 DEF Refs, ToSet
<1>3. ContentOf[t] \in Seq(Txs)
  BY <1>2, BlockAssumption
<1> QED
  BY <1>2, <1>3 DEF ToSet

(* A block of transactions leaves a state that is reached from the parent's *)
LEMMA LedgerIsLater ==
  ASSUME NEW b \in Children, NEW S \in SUBSET RealCoins, NEW D, SpendInv(S, D)
  PROVE  LedgerAfter(S, b) \in Later(S, D)
<1>1. S \in Later(S, D)
  BY DEF Later
<1>2. \A T \in Later(S, D) : \A t \in Refs(b) : \A x \in ToSet(ContentOf[t]) : ApplyTx(T, x) \in Later(S, D)
  BY LaterStays, ContentType
<1> QED
  BY <1>1, <1>2, LedgerStays

(* The ICO state *)
LEMMA IcoSpends == SpendInv(IcoState, {}) /\ IcoState \in SUBSET RealCoins
  BY TxAssumption DEF SpendInv, IcoState, RealCoins

-----------------------------------------------------------------------------
(* The outputs of a transaction are together worth its input (generator.rs). *)
Balanced(x) == TotalValue(Outs(x)) = Value(InputCoin(x))

(* The states worth v: finitely many coins, no output made twice.           *)
Worth(v) ==
    {S \in SUBSET RealCoins : IsFiniteSet(S) /\ TotalValue(S) = v /\ \E D : SpendInv(S, D)}

LEMMA TotalIs == ASSUME NEW S PROVE TotalValue(S) = TxFold!Total(S)
  BY DEF TotalValue, TxFold!Total, TxFold!Pick, MapThenSumSet, MapThenFoldSet

LEMMA FiniteIs == ASSUME NEW S PROVE IsFiniteSet(S) <=> TxFold!IsFiniteSet(S)
  BY DEF IsFiniteSet, TxFold!IsFiniteSet

LEMMA Outputs ==
  ASSUME NEW x \in Txs
  PROVE  IsFiniteSet(Outs(x)) /\ \A c \in Outs(x) : Value(c) \in Nat
<1> DEFINE n == Len(InputsOf[x])
<1>1. n \in Nat /\ DOMAIN InputsOf[x] = 1..n
  <2>1. InputsOf[x] \in Seq(Coins)
    BY TxAssumption
  <2> QED
    BY <2>1
<1>2. ValuesOf[x] \in Seq(Nat) /\ Len(ValuesOf[x]) = n /\ x # ZeroHash
  BY OutputAssumption, TxAssumption
<1> HIDE DEF n
<1>3. \A i \in 1..n : ValuesOf[x][i] \in Nat
  BY <1>2
<1>4. \A c \in Outs(x) : Value(c) \in Nat
  BY <1>1, <1>2, <1>3 DEF Outs, Value
<1>5. IsFiniteSet(Outs(x))
  <2> DEFINE f == [i \in 1..n |-> <<x, i>>]
  <2>1. f \in Surjection(1..n, Outs(x))
    BY <1>1 DEF Surjection, Outs
  <2>2. IsFiniteSet(1..n)
    BY <1>1, FS_Interval
  <2> QED
    BY <2>1, <2>2, FS_Surjection
<1> QED
  BY <1>4, <1>5

LEMMA CoinValues == \A c \in RealCoins : Value(c) \in Nat
<1>1. \A c \in IcoState : Value(c) \in Nat
  BY DEF IcoState, Value, IcoValue
<1>2. \A x \in Txs : \A c \in Outs(x) : Value(c) \in Nat
  BY Outputs
<1> QED
  BY <1>1, <1>2 DEF RealCoins

LEMMA WorthStays ==
  ASSUME NEW v, NEW S \in Worth(v), NEW x \in Txs, Balanced(x)
  PROVE  ApplyTx(S, x) \in Worth(v)
<1>1. PICK D : SpendInv(S, D)
  BY DEF Worth
<1>2. S \in SUBSET RealCoins /\ IsFiniteSet(S) /\ TotalValue(S) = v
  BY DEF Worth
<1>3. ApplyTx(S, x) \in SUBSET RealCoins /\ SpendInv(ApplyTx(S, x), D \cup (S \ ApplyTx(S, x)))
  BY <1>1, <1>2, RealStays, SpendStep
<1>4. CASE InputCoin(x) \notin S
  <2>1. ApplyTx(S, x) = S
    BY <1>4, ApplyTxEffect
  <2> QED
    BY <2>1
<1>5. CASE InputCoin(x) \in S
  <2> DEFINE c == InputCoin(x)
             U == S \cup Outs(x)
  <2>1. ApplyTx(S, x) = U \ {c} /\ c \in U /\ c \in S
    BY <1>5, ApplyTxEffect DEF Outs
  <2>2. S \cap Outs(x) = {}
    BY <1>1, <1>5, SpendStep
  <2>3. /\ IsFiniteSet(Outs(x)) /\ Outs(x) \subseteq RealCoins
        /\ \A d \in U : Value(d) \in Nat
    BY <1>2, Outputs, CoinValues DEF RealCoins
  <2>4. IsFiniteSet(U)
    BY <1>2, <2>3, FS_Union
  <2>5. TxFold!Total(U) = TxFold!Total(S) + TxFold!Total(Outs(x))
    BY <1>2, <2>2, <2>3, TxFold!TotalUnion, FiniteIs
  <2>6. TxFold!Total(Outs(x)) = Value(c)
    BY TotalIs DEF Balanced
  <2> HIDE DEF U, c
  <2>7. TxFold!Total(U) = Value(c) + TxFold!Total(U \ {c})
    BY <2>1, <2>3, <2>4, TxFold!TotalWithout, FiniteIs
  <2>8. IsFiniteSet(U \ {c})
    BY <2>4, FS_RemoveElement
  <2>9. TxFold!Total(U \ {c}) \in Nat /\ TxFold!Total(S) \in Nat /\ Value(c) \in Nat
    <3>1. \A d \in U \ {c} : Value(d) \in Nat
      BY <2>3
    <3>2. \A d \in S : Value(d) \in Nat
      BY <1>2, CoinValues
    <3> QED
      BY <1>2, <2>1, <2>3, <2>8, <3>1, <3>2, TxFold!TotalWithout, FiniteIs
  <2>10. TxFold!Total(U \ {c}) = TxFold!Total(S)
    BY <2>5, <2>6, <2>7, <2>9
  <2>11. TotalValue(ApplyTx(S, x)) = v
    BY <1>2, <2>1, <2>10, TotalIs
  <2> QED
    BY <1>3, <2>1, <2>8, <2>11 DEF Worth
<1> QED
  BY <1>4, <1>5

LEMMA LedgerIsWorth ==
  ASSUME NEW b \in Children, NEW v, NEW S \in Worth(v),
         \A t \in Refs(b) : \A x \in ToSet(ContentOf[t]) : Balanced(x)
  PROVE  LedgerAfter(S, b) \in Worth(v)
<1>1. \A T \in Worth(v) : \A t \in Refs(b) : \A x \in ToSet(ContentOf[t]) : ApplyTx(T, x) \in Worth(v)
  BY WorthStays, ContentType
<1> QED
  BY <1>1, LedgerStays

LEMMA IcoIsWorth == IcoState \in Worth(TotalValue(IcoState))
<1> DEFINE n == Len(IcoAddresses)
           f == [i \in 1..n |-> <<ZeroHash, i>>]
<1>1. n \in Nat /\ DOMAIN IcoAddresses = 1..n
  <2>1. IcoAddresses \in Seq(Range(IcoAddresses))
    BY OutputAssumption
  <2> QED
    BY <2>1
<1> HIDE DEF n
<1>2. f \in Surjection(1..n, IcoState)
  BY <1>1 DEF Surjection, IcoState
<1>3. IsFiniteSet(1..n)
  BY <1>1, FS_Interval
<1>4. IsFiniteSet(IcoState)
  BY <1>2, <1>3, FS_Surjection
<1> QED
  BY <1>4, IcoSpends DEF Worth
-----------------------------------------------------------------------------
(* Merkle trees: powers of two, and the height of a tree. *)
Doubled(p, n) == 2 * p
Two == INSTANCE Folding WITH Step <- Doubled, Weight <- HashOf

LEMMA TwoToIs ==
  /\ TwoTo[0] = 1
  /\ \A n \in Nat : TwoTo[n + 1] = 2 * TwoTo[n]
<1>1. \E f : Two!Recurses(1, f)
  BY Two!RecursionExists
<1>2. Two!Recurses(1, TwoTo)
  BY <1>1 DEF TwoTo, Two!Recurses, Doubled
<1>3. ASSUME NEW n \in Nat PROVE TwoTo[n + 1] = 2 * TwoTo[n]
  <2>1. n + 1 \in Nat /\ n + 1 # 0 /\ (n + 1) - 1 = n
    OBVIOUS
  <2> HIDE DEF TwoTo
  <2> QED
    BY <1>2, <2>1 DEF Two!Recurses, Doubled
<1>4. TwoTo[0] = 1
  <2> HIDE DEF TwoTo
  <2> QED
    BY <1>2 DEF Two!Recurses
<1> QED
  BY <1>3, <1>4

LEMMA TwoToGrows == \A n \in Nat : TwoTo[n] \in Nat /\ TwoTo[n] > n
<1> SUFFICES ASSUME NEW n \in Nat PROVE TwoTo[n] \in Nat /\ TwoTo[n] > n
  OBVIOUS
<1> DEFINE S == {k \in 0..n : TwoTo[k] \in Nat /\ TwoTo[k] > k}
<1>1. 0 \in S
  BY TwoToIs
<1>2. ASSUME NEW k \in 0..(n - 1), k \in S PROVE k + 1 \in S
  BY <1>2, TwoToIs
<1>3. 0..n \subseteq S
  <2> HIDE DEF S
  <2> QED
    BY <1>1, <1>2, Two!Induction
<1>4. n \in S
  BY <1>3
<1> QED
  BY <1>4

LEMMA TwoToOrdered == ASSUME NEW m \in Nat, NEW n \in Nat, m < n PROVE TwoTo[m] < TwoTo[n]
<1> DEFINE d == n - m - 1
           S == {k \in 0..d : TwoTo[m] < TwoTo[m + k + 1]}
<1>1. d \in Nat /\ m + d + 1 = n
  OBVIOUS
<1> HIDE DEF d
<1>2. 0 \in S
  BY <1>1, TwoToIs, TwoToGrows
<1>3. ASSUME NEW k \in 0..(d - 1), k \in S PROVE k + 1 \in S
  <2>1. k \in Nat /\ k + 1 \in 0..d /\ m + k + 1 \in Nat /\ m + (k + 1) + 1 = (m + k + 1) + 1
    BY <1>1
  <2>2. TwoTo[m] < TwoTo[m + k + 1]
    BY <1>3
  <2>3. TwoTo[(m + k + 1) + 1] = 2 * TwoTo[m + k + 1] /\ TwoTo[m + k + 1] \in Nat /\ TwoTo[m] \in Nat
    BY <2>1, TwoToIs, TwoToGrows
  <2>4. TwoTo[m] < TwoTo[(m + k + 1) + 1]
    BY <2>2, <2>3
  <2> QED
    BY <2>1, <2>4
<1>4. 0..d \subseteq S
  <2> HIDE DEF S
  <2> QED
    BY <1>1, <1>2, <1>3, Two!Induction
<1>5. d \in S
  BY <1>1, <1>4
<1> QED
  BY <1>1, <1>5

LEMMA ModHeightIs ==
  ASSUME NEW s, Len(s) \in Nat
  PROVE  ModHeight(s) \in 0..Len(s) /\ TwoTo[ModHeight(s)] >= Len(s)
<1> DEFINE n == Len(s)
           T == {k \in 0..n : TwoTo[k] >= n}
<1>1. \A k \in Nat : TwoTo[k] \in Nat /\ TwoTo[k] > k
  BY TwoToGrows
<1> HIDE DEF n
<1>2. n \in Nat /\ T \subseteq Nat /\ n \in T
  BY <1>1 DEF n
<1>3. PICK k \in T : \A m \in T : k <= m
  BY <1>2, Two!Least
<1>4. \A j \in 0..(k - 1) : TwoTo[j] < n
  <2>1. ASSUME NEW j \in 0..(k - 1) PROVE TwoTo[j] < n
    <3>1. k \in Nat /\ k <= n /\ j \in Nat /\ j \in 0..n /\ ~ (k <= j)
      BY <1>2
    <3>2. j \notin T
      BY <1>3, <3>1
    <3> QED
      BY <1>1, <1>2, <3>1, <3>2
  <2> QED
    BY <2>1
<1>5. \E h \in 0..Len(s) : TwoTo[h] >= Len(s) /\ \A j \in 0..(h - 1) : TwoTo[j] < Len(s)
  BY <1>3, <1>4 DEF n
<1> QED
  BY <1>5 DEF ModHeight

(* The index above another one, and the sibling in the same pair.           *)
LEMMA Halving ==
  ASSUME NEW i \in Nat, NEW t \in Nat, i < 2 * t
  PROVE  /\ i \div 2 \in Nat /\ i \div 2 < t
         /\ Sibling(i) \in Nat /\ Sibling(i) < 2 * t
         /\ i % 2 = 0 => i = 2 * (i \div 2) /\ Sibling(i) = 2 * (i \div 2) + 1
         /\ i % 2 # 0 => i = 2 * (i \div 2) + 1 /\ Sibling(i) = 2 * (i \div 2)
BY DEF Sibling

(* The tree as rows of pairs: the leaves of s, and the row above a row.     *)
Bottom(s) == [i \in Nat |-> Leaves(s)[i + 1]]
RowAbove(row, n) == [i \in Nat |-> Combined(row[2 * i], row[2 * i + 1])]
Tower == INSTANCE Folding WITH Step <- RowAbove, Weight <- HashOf
Rows(s) == CHOOSE f : Tower!Recurses(Bottom(s), f)

LEMMA RowsAre ==
  ASSUME NEW s
  PROVE  /\ Rows(s)[0] = Bottom(s)
         /\ \A l, i \in Nat : Rows(s)[l + 1][i] = Combined(Rows(s)[l][2 * i], Rows(s)[l][2 * i + 1])
<1>1. Tower!Recurses(Bottom(s), Rows(s))
  BY Tower!RecursionExists DEF Rows
<1>2. Rows(s)[0] = Bottom(s)
  BY <1>1 DEF Tower!Recurses
<1>3. ASSUME NEW l \in Nat, NEW i \in Nat
      PROVE  Rows(s)[l + 1][i] = Combined(Rows(s)[l][2 * i], Rows(s)[l][2 * i + 1])
  <2>1. l + 1 \in Nat /\ l + 1 # 0 /\ (l + 1) - 1 = l
    OBVIOUS
  <2>2. Rows(s)[l + 1] = RowAbove(Rows(s)[l], l + 1)
    BY <1>1, <2>1 DEF Tower!Recurses
  <2> QED
    BY <2>2 DEF RowAbove
<1> QED
  BY <1>2, <1>3

(* The vector while it is made: k rows above the leaves are there, each     *)
(* where the loops that read it expect it.                                  *)
Built(s, made, k) ==
    LET h == ModHeight(s)
    IN  /\ \E S : made.nodes \in Seq(S)
        /\ Len(made.nodes) = 2 * TwoTo[h] - TwoTo[h - k]
        /\ made.offset = 2 * TwoTo[h] - 2 * TwoTo[h - k]
        /\ \A l \in 0..k : \A i \in 0..(TwoTo[h - l] - 1) :
              made.nodes[2 * TwoTo[h] - 2 * TwoTo[h - l] + i + 1] = Rows(s)[l][i]

LEMMA BuiltStep ==
  ASSUME NEW s, Len(s) \in Nat, NEW k \in 0..(ModHeight(s) - 1), NEW made, Built(s, made, k)
  PROVE  Built(s, AddLevel(made, TwoTo[ModHeight(s) - (k + 1)]), k + 1)
<1> DEFINE h == ModHeight(s)
           ns == made.nodes
           o == made.offset
           r == TwoTo[h - (k + 1)]
           row == [i \in 1..r |-> Combined(ns[o + 2 * i - 1], ns[o + 2 * i])]
           new == AddLevel(made, r)
           R == Rows(s)
           T(l) == TwoTo[h - l]
<1>1. h \in Nat /\ k \in Nat /\ k < h
  BY ModHeightIs
<1>2. /\ T(k) = 2 * r /\ r \in Nat /\ r > 0
      /\ \A l \in 0..h : T(l) \in Nat /\ T(l) > 0
      /\ \A l \in 0..k : T(l) >= T(k)
  <2>1. h - (k + 1) \in Nat /\ h - k = (h - (k + 1)) + 1
    BY <1>1
  <2>2. \A l \in 0..h : h - l \in Nat
    BY <1>1
  <2>3. \A l \in 0..k : h - l \in Nat /\ h - k \in Nat /\ (h - l = h - k \/ h - k < h - l)
    BY <1>1
  <2> HIDE DEF h
  <2>4. T(k) = 2 * r /\ r \in Nat /\ r > 0
    <3>1. TwoTo[(h - (k + 1)) + 1] = 2 * TwoTo[h - (k + 1)]
      BY <2>1, TwoToIs
    <3>2. TwoTo[h - (k + 1)] \in Nat /\ TwoTo[h - (k + 1)] > 0
      BY <2>1, TwoToGrows
    <3> QED
      BY <2>1, <3>1, <3>2
  <2>5. \A l \in 0..h : T(l) \in Nat /\ T(l) > 0
    BY <2>2, TwoToGrows
  <2>6. \A l \in 0..k : T(l) >= T(k)
    BY <2>3, TwoToGrows, TwoToOrdered
  <2> QED
    BY <2>4, <2>5, <2>6
<1>3. /\ Len(ns) = 2 * T(0) - T(k)
      /\ o = 2 * T(0) - 2 * T(k)
      /\ \A l \in 0..k : \A i \in 0..(T(l) - 1) : ns[2 * T(0) - 2 * T(l) + i + 1] = R[l][i]
  <2>1. h - 0 = h
    BY <1>1
  <2> QED
    BY <2>1 DEF Built
<1>4. PICK S : ns \in Seq(S)
  BY DEF Built
<1> DEFINE S1 == S \cup {row[i] : i \in 1..r}
<1>5. ns \in Seq(S1) /\ row \in Seq(S1) /\ Len(row) = r
  <2>1. DOMAIN ns = 1..Len(ns) /\ Len(ns) \in Nat /\ \A i \in 1..Len(ns) : ns[i] \in S1
    BY <1>4
  <2>2. ns = [i \in 1..Len(ns) |-> ns[i]]
    BY <1>4
  <2>3. DOMAIN row = 1..r /\ \A i \in 1..r : row[i] \in S1
    OBVIOUS
  <2> HIDE DEF ns, row, S1, r
  <2>4. ns \in Seq(S1)
    BY <2>1, <2>2
  <2>5. row \in [1..r -> S1]
    <3>1. row = [i \in 1..r |-> row[i]]
      BY DEF row
    <3> QED
      BY <2>3, <3>1
  <2> QED
    BY <1>2, <2>4, <2>5
<1>6. new.nodes = ns \o row /\ new.offset = Len(ns)
  BY DEF AddLevel
<1> HIDE DEF ns, row, S1, o, R, new, r, h, T
<1>7. /\ ns \o row \in Seq(S1) /\ Len(ns \o row) = Len(ns) + r
      /\ \A i \in 1..Len(ns) : (ns \o row)[i] = ns[i]
      /\ \A i \in 1..r : (ns \o row)[Len(ns) + i] = row[i]
  <2>1. Len(ns) \in Nat /\ r \in Nat
    BY <1>2, <1>5
  <2>2. /\ ns \o row \in Seq(S1) /\ Len(ns \o row) = Len(ns) + r
        /\ \A i \in 1..Len(ns) + r : (ns \o row)[i] = IF i <= Len(ns) THEN ns[i] ELSE row[i - Len(ns)]
    BY <1>5, ConcatProperties
  <2> QED
    BY <2>1, <2>2
<1>8. ASSUME NEW l \in 0..(k + 1), NEW i \in 0..(T(l) - 1)
      PROVE  (ns \o row)[2 * T(0) - 2 * T(l) + i + 1] = R[l][i]
  <2>1. CASE l \in 0..k
    <3>1. ns[2 * T(0) - 2 * T(l) + i + 1] = R[l][i]
      BY <1>3, <2>1
    <3>2. T(l) \in Nat /\ T(k) \in Nat /\ T(0) \in Nat /\ T(l) >= T(k) /\ T(0) >= T(l)
      <4>1. l \in 0..h /\ k \in 0..h /\ 0 \in 0..h
        BY <1>1, <2>1
      <4>2. h - 0 = h - l \/ h - l < h - 0
        BY <1>1, <4>1
      <4>3. h - 0 \in Nat /\ h - l \in Nat
        BY <1>1, <4>1
      <4> QED
        BY <1>2, <2>1, <4>1, <4>2, <4>3, TwoToGrows, TwoToOrdered DEF T
    <3>3. 2 * T(0) - 2 * T(l) + i + 1 \in 1..Len(ns)
      <4> DEFINE t0 == T(0)  tl == T(l)  tk == T(k)  n == Len(ns)
      <4>1. n = 2 * t0 - tk
        BY <1>3
      <4>2. tl \in Nat /\ tk \in Nat /\ t0 \in Nat /\ tl >= tk /\ t0 >= tl
        BY <3>2
      <4>3. i \in 0..(tl - 1)
        OBVIOUS
      <4> HIDE DEF t0, tl, tk, n
      <4>4. 2 * t0 - 2 * tl + i + 1 \in 1..n
        BY <4>1, <4>2, <4>3
      <4> QED
        BY <4>4 DEF t0, tl, tk, n
    <3> QED
      BY <1>7, <3>1, <3>3
  <2>2. CASE l = k + 1
    <3>1. T(l) = r
      BY <2>2 DEF T, r
    <3>2. 2 * T(0) - 2 * T(l) + i + 1 = Len(ns) + (i + 1) /\ i + 1 \in 1..r
      <4>1. T(0) \in Nat /\ T(k) \in Nat
        BY <1>1, <1>2
      <4> QED
        BY <1>2, <1>3, <3>1, <4>1
    <3>3. row[i + 1] = Combined(ns[o + 2 * (i + 1) - 1], ns[o + 2 * (i + 1)])
      BY <3>2 DEF row
    <3>4. ns[o + 2 * (i + 1) - 1] = R[k][2 * i] /\ ns[o + 2 * (i + 1)] = R[k][2 * i + 1]
      <4>1. T(0) \in Nat /\ T(k) \in Nat /\ k \in 0..k
        BY <1>1, <1>2
      <4>2. 2 * i \in 0..(T(k) - 1) /\ 2 * i + 1 \in 0..(T(k) - 1)
        BY <1>2, <3>2
      <4>3. ns[2 * T(0) - 2 * T(k) + 2 * i + 1] = R[k][2 * i]
        BY <1>3, <4>1, <4>2
      <4>4. ns[2 * T(0) - 2 * T(k) + (2 * i + 1) + 1] = R[k][2 * i + 1]
        BY <1>3, <4>1, <4>2
      <4>5. /\ 2 * T(0) - 2 * T(k) + 2 * i + 1 = o + 2 * (i + 1) - 1
            /\ 2 * T(0) - 2 * T(k) + (2 * i + 1) + 1 = o + 2 * (i + 1)
        BY <1>3, <4>1, <4>2
      <4> QED
        BY <4>3, <4>4, <4>5
    <3>5. R[k + 1][i] = Combined(R[k][2 * i], R[k][2 * i + 1])
      <4>1. i \in Nat
        BY <1>2, <3>1
      <4> QED
        BY <1>1, <4>1, RowsAre DEF R
    <3> QED
      BY <1>7, <2>2, <3>2, <3>3, <3>4, <3>5
  <2>3. l \in 0..k \/ l = k + 1
    BY <1>1
  <2> QED
    BY <2>1, <2>2, <2>3
<1>9. /\ Len(ns \o row) = 2 * T(0) - T(k + 1)
      /\ Len(ns) = 2 * T(0) - 2 * T(k + 1)
  <2>1. T(k + 1) = r
    BY DEF T, r
  <2>2. T(0) \in Nat /\ T(k) \in Nat
    BY <1>1, <1>2
  <2> QED
    BY <1>2, <1>3, <1>7, <2>1, <2>2
<1> QED
  <2>1. h - 0 = h
    BY <1>1
  <2>2. Built(s, new, k + 1)
    BY <1>6, <1>7, <1>8, <1>9, <2>1 DEF Built, T, R, h
  <2> QED
    BY <2>2 DEF new, r, h

Growing == INSTANCE Folding WITH Step <- AddLevel, Weight <- HashOf

LEMMA BuiltStart ==
  ASSUME NEW s, Len(s) \in Nat
  PROVE  Built(s, [nodes |-> Leaves(s), offset |-> 0], 0)
<1> DEFINE h == ModHeight(s)
           t == TwoTo[h]
           base == [nodes |-> Leaves(s), offset |-> 0]
           S == {Leaves(s)[i] : i \in 1..t}
<1>1. h \in Nat /\ h - 0 = h /\ t \in Nat /\ base.nodes = Leaves(s) /\ base.offset = 0
  BY ModHeightIs, TwoToGrows
<1>2. Leaves(s) = [i \in 1..t |-> Leaves(s)[i]] /\ \A i \in 1..t : Leaves(s)[i] \in S
  BY DEF Leaves
<1>3. Leaves(s) \in [1..t -> S]
  <2> HIDE DEF S, t
  <2> QED
    BY <1>2
<1> HIDE DEF S, t, h, base
<1>4. Leaves(s) \in Seq(S) /\ Len(Leaves(s)) = t
  BY <1>1, <1>3
<1>5. ASSUME NEW l \in 0..0, NEW i \in 0..(TwoTo[h - l] - 1)
      PROVE  Leaves(s)[2 * t - 2 * TwoTo[h - l] + i + 1] = Rows(s)[l][i]
  <2>1. l = 0 /\ TwoTo[h - l] = t
    BY <1>1 DEF t
  <2>2. i \in Nat /\ 2 * t - 2 * t + i + 1 = i + 1
    BY <1>1, <2>1
  <2>3. Rows(s)[0][i] = Leaves(s)[i + 1]
    <3>1. Rows(s)[0] = Bottom(s)
      BY RowsAre
    <3>2. Bottom(s)[i] = Leaves(s)[i + 1]
      BY <2>2 DEF Bottom
    <3> QED
      BY <3>1, <3>2
  <2> QED
    BY <2>1, <2>2, <2>3
<1>6. t = 2 * t - t /\ 0 = 2 * t - 2 * t
  BY <1>1
<1>7. Built(s, base, 0)
  BY <1>1, <1>4, <1>5, <1>6 DEF Built, t, h
<1> QED
  BY <1>7 DEF base

(* What a tree is made of: all the rows, where proof looks for them.        *)
LEMMA AllNodesAre ==
  ASSUME NEW s, Len(s) \in Nat, s # <<>>
  PROVE  /\ \A l \in 0..ModHeight(s) : \A i \in 0..(TwoTo[ModHeight(s) - l] - 1) :
              AllNodes(s)[2 * TwoTo[ModHeight(s)] - 2 * TwoTo[ModHeight(s) - l] + i + 1] = Rows(s)[l][i]
         /\ Root(s) = Rows(s)[ModHeight(s)][0]
<1> DEFINE h == ModHeight(s)
           base == [nodes |-> Leaves(s), offset |-> 0]
           seq == Ranges(h)
<1>1. h \in Nat /\ Len(seq) = h /\ DOMAIN seq = 1..h /\ \A k \in 1..h : seq[k] = TwoTo[h - k]
  BY ModHeightIs DEF Ranges
<1> HIDE DEF seq
<1>2. PICK st : Growing!Passes(base, seq, st) /\ Growing!Fold(base, seq) = st[h]
  BY <1>1, Growing!FoldPasses
<1>3. AllNodes(s) = Growing!Fold(base, seq).nodes
  BY DEF AllNodes, Growing!Fold, Growing!Greatest, FoldLeft, MapThenFoldSet, Max, seq
<1> DEFINE K == {k \in 0..h : Built(s, st[k], k)}
<1>4. 0 \in K
  BY <1>1, <1>2, BuiltStart DEF Growing!Passes
<1>5. ASSUME NEW k \in 0..(h - 1), k \in K PROVE k + 1 \in K
  <2>1. k + 1 \in 1..h /\ k + 1 \in 0..h /\ (k + 1) - 1 = k
    BY <1>1
  <2>2. st[k + 1] = AddLevel(st[k], seq[k + 1]) /\ seq[k + 1] = TwoTo[h - (k + 1)]
    BY <1>1, <1>2, <2>1 DEF Growing!Passes
  <2>3. Built(s, st[k], k)
    BY <1>5
  <2>4. Built(s, st[k + 1], k + 1)
    BY <2>2, <2>3, BuiltStep
  <2> QED
    BY <2>1, <2>4
<1>6. 0..h \subseteq K
  <2> HIDE DEF K, h
  <2> QED
    BY <1>1, <1>4, <1>5, Growing!Induction
<1>7. Built(s, st[h], h) /\ AllNodes(s) = st[h].nodes
  BY <1>1, <1>2, <1>3, <1>6
<1> DEFINE ns == AllNodes(s)
<1>8. \A l \in 0..h : \A i \in 0..(TwoTo[h - l] - 1) :
        ns[2 * TwoTo[h] - 2 * TwoTo[h - l] + i + 1] = Rows(s)[l][i]
  BY <1>7 DEF Built
<1>9. Root(s) = Rows(s)[h][0]
  <2>1. h - h = 0 /\ TwoTo[0] = 1 /\ TwoTo[h] \in Nat /\ TwoTo[h] > 0 /\ h \in 0..h
    <3>1. h \in Nat
      BY <1>1
    <3> HIDE DEF h
    <3>2. h - h = 0 /\ h \in 0..h
      BY <3>1
    <3>3. TwoTo[h] \in Nat /\ TwoTo[h] > h
      BY <3>1, TwoToGrows
    <3>4. TwoTo[0] = 1
      BY TwoToIs
    <3>5. TwoTo[h] > 0
      BY <3>1, <3>3
    <3> QED
      BY <3>2, <3>3, <3>4, <3>5
  <2>2. Len(ns) = 2 * TwoTo[h] - 1
    <3>1. Len(ns) = 2 * TwoTo[h] - TwoTo[h - h]
      BY <1>7 DEF Built
    <3> QED
      BY <2>1, <3>1
  <2>3. PICK S : ns \in Seq(S)
    BY <1>7 DEF Built
  <2>4. ns # <<>>
    <3> HIDE DEF ns, h
    <3> QED
      BY <2>1, <2>2
  <2>5. ns[Len(ns)] = Rows(s)[h][0]
    <3>1. 0 \in 0..(TwoTo[h - h] - 1)
      BY <2>1
    <3>2. ns[2 * TwoTo[h] - 2 * TwoTo[h - h] + 0 + 1] = Rows(s)[h][0]
      BY <1>8, <2>1, <3>1
    <3>3. 2 * TwoTo[h] - 2 * TwoTo[h - h] + 0 + 1 = Len(ns)
      BY <2>1, <2>2
    <3> QED
      BY <3>2, <3>3
  <2>6. Last(ns) = ns[Len(ns)]
    BY DEF Last
  <2> QED
    BY <2>4, <2>5, <2>6 DEF Root
<1> QED
  BY <1>8, <1>9

(* The indices on the way up from index.                                    *)
Halved(i, n) == i \div 2
Up == INSTANCE Folding WITH Step <- Halved, Weight <- HashOf
Path(index) == CHOOSE f : Up!Recurses(index, f)

LEMMA PathIs ==
  ASSUME NEW h \in Nat, NEW index \in 0..(TwoTo[h] - 1)
  PROVE  /\ Path(index)[0] = index
         /\ \A k \in Nat : Path(index)[k + 1] = Path(index)[k] \div 2
         /\ \A k \in 0..h : Path(index)[k] \in 0..(TwoTo[h - k] - 1)
<1> DEFINE p == Path(index)
<1>1. Up!Recurses(index, p)
  BY Up!RecursionExists DEF Path
<1> HIDE DEF p
<1>2. p[0] = index
  BY <1>1 DEF Up!Recurses
<1>3. ASSUME NEW k \in Nat PROVE p[k + 1] = p[k] \div 2
  <2>1. k + 1 \in Nat /\ k + 1 # 0 /\ (k + 1) - 1 = k
    OBVIOUS
  <2> QED
    BY <1>1, <2>1 DEF Up!Recurses, Halved
<1> DEFINE K == {k \in 0..h : p[k] \in 0..(TwoTo[h - k] - 1)}
<1>4. 0 \in K
  <2>1. h - 0 = h /\ 0 \in 0..h
    OBVIOUS
  <2> QED
    BY <1>2, <2>1
<1>5. ASSUME NEW k \in 0..(h - 1), k \in K PROVE k + 1 \in K
  <2>1. k \in Nat /\ k + 1 \in 0..h /\ h - (k + 1) \in Nat /\ h - k = (h - (k + 1)) + 1
    OBVIOUS
  <2> DEFINE t == TwoTo[h - (k + 1)]
  <2>2. TwoTo[(h - (k + 1)) + 1] = 2 * t /\ t \in Nat
    BY <2>1, TwoToIs, TwoToGrows
  <2>3. TwoTo[h - k] = 2 * t
    BY <2>1, <2>2
  <2> HIDE DEF t
  <2>4. p[k] \in 0..(2 * t - 1)
    BY <1>5, <2>3
  <2>5. p[k] \in Nat /\ p[k] < 2 * t
    BY <2>2, <2>4
  <2>6. p[k] \div 2 \in 0..(t - 1)
    BY <2>2, <2>5, Halving
  <2>7. p[k + 1] \in 0..(t - 1)
    BY <1>3, <2>1, <2>6
  <2> QED
    BY <2>1, <2>7 DEF t
<1>6. 0..h \subseteq K
  <2> HIDE DEF K
  <2> QED
    BY <1>4, <1>5, Up!Induction
<1>7. \A k \in 0..h : p[k] \in 0..(TwoTo[h - k] - 1)
  BY <1>6
<1> QED
  BY <1>2, <1>3, <1>7 DEF p

Descent == INSTANCE Folding WITH Step <- NextSibling, Weight <- HashOf
Ascent == INSTANCE Folding WITH Step <- Combine, Weight <- HashOf

(* proof after k rows. *)
Told(h, index, at, k) ==
    /\ at.index = Path(index)[k]
    /\ at.offset = 2 * TwoTo[h] - 2 * TwoTo[h - k]
    /\ at.ret \in Seq(Int) /\ Len(at.ret) = k
    /\ \A m \in 0..(k - 1) : at.ret[m + 1] = 2 * TwoTo[h] - 2 * TwoTo[h - m] + Sibling(Path(index)[m])

LEMMA ToldStep ==
  ASSUME NEW h \in Nat, NEW index \in 0..(TwoTo[h] - 1), NEW k \in 0..(h - 1),
         NEW at, Told(h, index, at, k)
  PROVE  Told(h, index, NextSibling(at, TwoTo[h - (k + 1)]), k + 1)
<1> DEFINE t == TwoTo[h]
           tk == TwoTo[h - k]
           r == TwoTo[h - (k + 1)]
           p == Path(index)
           x == at.offset + Sibling(at.index)
           new == NextSibling(at, r)
<1>1. /\ p[k + 1] = p[k] \div 2 /\ p[k] \in 0..(tk - 1)
      /\ k \in Nat /\ h - k = (h - (k + 1)) + 1 /\ h - (k + 1) \in Nat /\ h - k \in Nat
  <2>1. k \in Nat /\ k \in 0..h /\ h - k = (h - (k + 1)) + 1 /\ h - (k + 1) \in Nat /\ h - k \in Nat
    OBVIOUS
  <2> QED
    BY <2>1, PathIs
<1>2. t \in Nat /\ tk \in Nat /\ r \in Nat /\ tk = 2 * r
  <2>1. TwoTo[(h - (k + 1)) + 1] = 2 * TwoTo[h - (k + 1)]
    BY <1>1, TwoToIs
  <2>2. TwoTo[h] \in Nat /\ TwoTo[h - k] \in Nat /\ TwoTo[h - (k + 1)] \in Nat
    BY <1>1, TwoToGrows
  <2> QED
    BY <1>1, <2>1, <2>2
<1>3. /\ at.index = p[k] /\ at.offset = 2 * t - 2 * tk
      /\ at.ret \in Seq(Int) /\ Len(at.ret) = k
      /\ \A m \in 0..(k - 1) : at.ret[m + 1] = 2 * t - 2 * TwoTo[h - m] + Sibling(p[m])
  BY DEF Told
<1>4. new.ret = Append(at.ret, x) /\ new.index = at.index \div 2 /\ new.offset = at.offset + 2 * r
  BY DEF NextSibling
<1> HIDE DEF t, tk, r, p, new
<1>5. x = 2 * t - 2 * tk + Sibling(p[k]) /\ x \in Int
  <2>1. p[k] \in Nat /\ p[k] < 2 * r
    BY <1>1, <1>2
  <2>2. Sibling(p[k]) \in Nat
    BY <1>2, <2>1, Halving
  <2> QED
    BY <1>2, <1>3, <2>2
<1> HIDE DEF x
<1>6. /\ new.ret \in Seq(Int) /\ Len(new.ret) = k + 1 /\ new.ret[k + 1] = x
      /\ \A m \in 0..(k - 1) : new.ret[m + 1] = at.ret[m + 1]
  <2> DEFINE ret == at.ret
  <2>1. ret \in Seq(Int) /\ Len(ret) = k
    BY <1>3
  <2> HIDE DEF ret
  <2>2. Append(ret, x) \in Seq(Int) /\ Len(Append(ret, x)) = k + 1 /\ Append(ret, x)[k + 1] = x
    BY <1>1, <1>5, <2>1
  <2>3. ASSUME NEW m \in 0..(k - 1) PROVE Append(ret, x)[m + 1] = ret[m + 1]
    <3>1. m + 1 \in 1..Len(ret)
      BY <1>1, <2>1
    <3> QED
      BY <1>5, <2>1, <3>1, AppendProperties
  <2> QED
    BY <1>4, <2>2, <2>3 DEF ret
<1>7. ASSUME NEW m \in 0..k
      PROVE  new.ret[m + 1] = 2 * t - 2 * TwoTo[h - m] + Sibling(p[m])
  <2>1. m = k \/ m \in 0..(k - 1)
    BY <1>1
  <2>2. CASE m = k
    BY <1>5, <1>6, <2>2 DEF tk
  <2>3. CASE m \in 0..(k - 1)
    BY <1>3, <1>6, <2>3
  <2> QED
    BY <2>1, <2>2, <2>3
<1>8. new.index = p[k + 1] /\ new.offset = 2 * t - 2 * r /\ (k + 1) - 1 = k
  BY <1>1, <1>2, <1>3, <1>4
<1>9. Told(h, index, new, k + 1)
  BY <1>6, <1>7, <1>8 DEF Told, t, r, p
<1> QED
  BY <1>9 DEF new, r

(* proof finds the sibling in every row on the way up.                      *)
LEMMA ProofIs ==
  ASSUME NEW s, Len(s) \in Nat, s # <<>>, NEW index \in 0..(TwoTo[ModHeight(s)] - 1)
  PROVE  /\ Len(Proof(s, index)) = ModHeight(s)
         /\ DOMAIN Proof(s, index) = 1..ModHeight(s)
         /\ \A m \in 0..(ModHeight(s) - 1) :
               Proof(s, index)[m + 1] = Rows(s)[m][Sibling(Path(index)[m])]
<1> DEFINE h == ModHeight(s)
           base == [ret |-> <<>>, index |-> index, offset |-> 0]
           seq == Ranges(h)
           p == Path(index)
<1>1. h \in Nat /\ Len(seq) = h /\ DOMAIN seq = 1..h /\ \A k \in 1..h : seq[k] = TwoTo[h - k]
  BY ModHeightIs DEF Ranges
<1> HIDE DEF seq, h, p
<1>2. PICK st : Descent!Passes(base, seq, st) /\ Descent!Fold(base, seq) = st[h]
  BY <1>1, Descent!FoldPasses
<1>3. Siblings(h, index) = Descent!Fold(base, seq).ret
  BY DEF Siblings, Descent!Fold, Descent!Greatest, FoldLeft, MapThenFoldSet, Max, seq
<1>4. Told(h, index, base, 0)
  <2>1. base.ret \in Seq(Int) /\ Len(base.ret) = 0 /\ base.index = index /\ base.offset = 0
    OBVIOUS
  <2>2. h - 0 = h /\ TwoTo[h] \in Nat /\ 0 = 2 * TwoTo[h] - 2 * TwoTo[h] /\ 0..(0 - 1) = {}
    BY <1>1, TwoToGrows
  <2>3. Path(index)[0] = index
    BY <1>1, PathIs DEF h
  <2> HIDE DEF base
  <2> QED
    BY <2>1, <2>2, <2>3 DEF Told
<1> DEFINE K == {k \in 0..h : Told(h, index, st[k], k)}
<1>5. 0 \in K
  BY <1>1, <1>2, <1>4 DEF Descent!Passes
<1>6. ASSUME NEW k \in 0..(h - 1), k \in K PROVE k + 1 \in K
  <2>1. k + 1 \in 1..h /\ k + 1 \in 0..h /\ (k + 1) - 1 = k
    BY <1>1
  <2>2. st[k + 1] = NextSibling(st[k], seq[k + 1]) /\ seq[k + 1] = TwoTo[h - (k + 1)]
    BY <1>1, <1>2, <2>1 DEF Descent!Passes
  <2>3. Told(h, index, st[k], k)
    BY <1>6
  <2>4. Told(h, index, st[k + 1], k + 1)
    BY <1>1, <2>2, <2>3, ToldStep DEF h
  <2> QED
    BY <2>1, <2>4
<1>7. 0..h \subseteq K
  <2> HIDE DEF K
  <2> QED
    BY <1>1, <1>5, <1>6, Descent!Induction
<1>8. Told(h, index, st[h], h)
  BY <1>1, <1>7
<1> DEFINE ret == Siblings(h, index)
<1>9. ret = st[h].ret
  BY <1>2, <1>3
<1>10. /\ Len(ret) = h
       /\ \A m \in 0..(h - 1) : ret[m + 1] = 2 * TwoTo[h] - 2 * TwoTo[h - m] + Sibling(p[m])
  <2> HIDE DEF ret
  <2> QED
    BY <1>8, <1>9 DEF Told, p
<1> HIDE DEF ret
<1> DEFINE pf == Proof(s, index)
<1>11. pf = [k \in 1..h |-> AllNodes(s)[ret[k] + 1]]
  BY <1>10 DEF Proof, ret, h
<1>12. Len(pf) = h /\ DOMAIN pf = 1..h
  <2> HIDE DEF pf
  <2> QED
    BY <1>1, <1>11
<1>13. ASSUME NEW m \in 0..(h - 1) PROVE pf[m + 1] = Rows(s)[m][Sibling(p[m])]
  <2>1. m \in Nat /\ m \in 0..h /\ m + 1 \in 1..h /\ h - m = (h - (m + 1)) + 1 /\ h - (m + 1) \in Nat
    BY <1>1
  <2>2. pf[m + 1] = AllNodes(s)[ret[m + 1] + 1]
    <3> HIDE DEF pf
    <3> QED
      BY <1>11, <2>1
  <2> DEFINE r == TwoTo[h - (m + 1)]
             t == TwoTo[h]
             tm == TwoTo[h - m]
             sib == Sibling(p[m])
  <2>3. tm = 2 * r /\ r \in Nat /\ t \in Nat
    <3>1. TwoTo[(h - (m + 1)) + 1] = 2 * r
      BY <2>1, TwoToIs
    <3> QED
      BY <1>1, <2>1, <3>1, TwoToGrows
  <2>4. p[m] \in 0..(tm - 1)
    BY <1>1, <2>1, PathIs DEF h, p
  <2>5. sib \in Nat /\ sib < 2 * r
    <3> HIDE DEF r, tm
    <3>1. p[m] \in Nat /\ p[m] < 2 * r
      BY <2>3, <2>4
    <3> QED
      BY <2>3, <3>1, Halving
  <2>6. ret[m + 1] = 2 * t - 2 * tm + sib
    BY <1>10
  <2>7. AllNodes(s)[2 * t - 2 * tm + sib + 1] = Rows(s)[m][sib]
    <3>1. sib \in 0..(tm - 1)
      <4> HIDE DEF sib, tm, r
      <4> QED
        BY <2>3, <2>5
    <3> HIDE DEF sib
    <3> QED
      BY <2>1, <3>1, AllNodesAre DEF h
  <2> QED
    BY <2>2, <2>6, <2>7
<1> QED
  BY <1>12, <1>13 DEF h, p, pf

(* What verify computes, row after row, with the proof for index, taking    *)
(* the datum to be at index j.                                              *)
Climbed(s, index, j, h, st) ==
    \A k \in 0..(h - 1) :
        LET sibling == Rows(s)[k][Sibling(Path(index)[k])]
        IN  st[k + 1] = IF Path(j)[k] % 2 = 0 THEN Combined(st[k], sibling)
                        ELSE Combined(sibling, st[k])

LEMMA VerifyIs ==
  ASSUME NEW s, Len(s) \in Nat, s # <<>>, NEW datum,
         NEW index \in 0..(TwoTo[ModHeight(s)] - 1), NEW j \in 0..(TwoTo[ModHeight(s)] - 1)
  PROVE  \E st : /\ Climbed(s, index, j, ModHeight(s), st)
                 /\ st[0] = datum
                 /\ Verifies(Root(s), datum, Proof(s, index), j)
                      <=> st[ModHeight(s)] = Rows(s)[ModHeight(s)][0]
<1> DEFINE h == ModHeight(s)
           pf == Proof(s, index)
           base == [cur |-> datum, idx |-> j]
<1>1. h \in Nat /\ Len(pf) = h /\ DOMAIN pf = 1..h
      /\ \A m \in 0..(h - 1) : pf[m + 1] = Rows(s)[m][Sibling(Path(index)[m])]
  BY ModHeightIs, ProofIs
<1>2. Path(j)[0] = j /\ \A k \in Nat : Path(j)[k + 1] = Path(j)[k] \div 2
  BY <1>1, PathIs
<1>3. Root(s) = Rows(s)[h][0]
  BY AllNodesAre
<1> HIDE DEF h, pf
<1>4. PICK sq : Ascent!Passes(base, pf, sq) /\ Ascent!Fold(base, pf) = sq[h]
  BY <1>1, Ascent!FoldPasses
<1>5. Verifies(Root(s), datum, pf, j) <=> Root(s) = Ascent!Fold(base, pf).cur
  BY DEF Verifies, Ascent!Fold, Ascent!Greatest, FoldLeft, MapThenFoldSet, Max
<1>6. ASSUME NEW k \in 0..(h - 1)
      PROVE  /\ sq[k + 1].idx = sq[k].idx \div 2
             /\ sq[k + 1].cur = IF sq[k].idx % 2 = 0 THEN Combined(sq[k].cur, pf[k + 1])
                                ELSE Combined(pf[k + 1], sq[k].cur)
  <2>1. k + 1 \in 1..h /\ (k + 1) - 1 = k
    BY <1>1
  <2>2. sq[k + 1] = Combine(sq[k], pf[k + 1])
    BY <1>1, <1>4, <2>1 DEF Ascent!Passes
  <2> QED
    BY <2>2 DEF Combine
<1>7. sq[0].idx = j /\ sq[0].cur = datum
  BY <1>4 DEF Ascent!Passes
<1> DEFINE K == {k \in 0..h : sq[k].idx = Path(j)[k]}
<1>8. 0 \in K
  <2>1. 0 \in 0..h
    BY <1>1
  <2>2. sq[0].idx = Path(j)[0]
    BY <1>2, <1>7
  <2> QED
    BY <2>1, <2>2
<1>9. ASSUME NEW k \in 0..(h - 1), k \in K PROVE k + 1 \in K
  <2>1. k \in Nat /\ k + 1 \in 0..h
    BY <1>1
  <2> QED
    BY <1>2, <1>6, <1>9, <2>1
<1>10. 0..h \subseteq K
  <2> HIDE DEF K
  <2> QED
    BY <1>1, <1>8, <1>9, Ascent!Induction
<1> DEFINE st == [k \in 0..h |-> sq[k].cur]
<1>11. st[0] = datum /\ st[h] = sq[h].cur
  BY <1>1, <1>7
<1>12. ASSUME NEW k \in 0..(h - 1)
       PROVE  LET sibling == Rows(s)[k][Sibling(Path(index)[k])]
              IN  st[k + 1] = IF Path(j)[k] % 2 = 0 THEN Combined(st[k], sibling)
                              ELSE Combined(sibling, st[k])
  <2>1. k \in 0..h /\ k + 1 \in 0..h
    BY <1>1
  <2>2. st[k] = sq[k].cur /\ st[k + 1] = sq[k + 1].cur /\ sq[k].idx = Path(j)[k]
    BY <1>10, <2>1
  <2>3. pf[k + 1] = Rows(s)[k][Sibling(Path(index)[k])]
    BY <1>1
  <2> QED
    BY <1>6, <2>2, <2>3
<1> HIDE DEF st
<1>13. Climbed(s, index, j, h, st)
  BY <1>12 DEF Climbed
<1>14. Verifies(Root(s), datum, pf, j) <=> st[h] = Rows(s)[h][0]
  BY <1>3, <1>4, <1>5, <1>11
<1> QED
  BY <1>11, <1>13, <1>14 DEF h, pf

(* Who reaches the root started at the leaf: each hash fixes the two below. *)
LEMMA OnlyTheLeafVerifies ==
  ASSUME NEW s, NEW h \in Nat, NEW index, NEW j \in 0..(TwoTo[h] - 1), NEW st,
         Climbed(s, index, j, h, st), st[h] = Rows(s)[h][0]
  PROVE  st[0] = Rows(s)[0][j]
<1> DEFINE p == Path(j)
           R == Rows(s)
           K == {n \in 0..h : st[h - n] = R[h - n][p[h - n]]}
<1>1. p[0] = j /\ p[h] = 0 /\ \A k \in 0..h : p[k] \in Nat
  <2>1. p[0] = j /\ \A k \in 0..h : p[k] \in 0..(TwoTo[h - k] - 1)
    BY PathIs
  <2>2. h \in 0..h /\ h - h = 0 /\ TwoTo[h - h] = 1
    BY TwoToIs
  <2>3. p[h] = 0
    BY <2>1, <2>2
  <2> QED
    BY <2>1, <2>3
<1>2. 0 \in K
  <2>1. h - 0 = h /\ 0 \in 0..h
    OBVIOUS
  <2> QED
    BY <1>1, <2>1
<1>3. ASSUME NEW n \in 0..(h - 1), n \in K PROVE n + 1 \in K
  <2> DEFINE k == h - (n + 1)
  <2>1. k \in 0..(h - 1) /\ k \in Nat /\ k + 1 = h - n /\ n + 1 \in 0..h /\ k \in 0..h
    OBVIOUS
  <2> DEFINE i == p[k]
             half == i \div 2
             sibling == R[k][Sibling(Path(index)[k])]
  <2>2. st[k + 1] = R[k + 1][p[k + 1]] /\ p[k + 1] = half
    BY <1>3, <2>1, PathIs
  <2>3. st[k + 1] = IF i % 2 = 0 THEN Combined(st[k], sibling) ELSE Combined(sibling, st[k])
    BY <2>1 DEF Climbed
  <2>4. i \in Nat /\ half \in Nat
    BY <1>1, <2>1
  <2>5. R[k + 1][half] = Combined(R[k][2 * half], R[k][2 * half + 1])
    BY <2>1, <2>4, RowsAre
  <2>6. st[k] = R[k][i]
    <3>1. i % 2 = 0 => i = 2 * half
      BY <2>4
    <3>2. i % 2 # 0 => i = 2 * half + 1
      BY <2>4
    <3> HIDE DEF i, half, sibling, k, R
    <3>3. CASE i % 2 = 0
      <4>1. Combined(st[k], sibling) = Combined(R[k][2 * half], R[k][2 * half + 1])
        BY <2>2, <2>3, <2>5, <3>3
      <4> QED
        BY <3>1, <3>3, <4>1 DEF Combined
    <3>4. CASE i % 2 # 0
      <4>1. Combined(sibling, st[k]) = Combined(R[k][2 * half], R[k][2 * half + 1])
        BY <2>2, <2>3, <2>5, <3>4
      <4> QED
        BY <3>2, <3>4, <4>1 DEF Combined
    <3> QED
      BY <3>3, <3>4
  <2> QED
    BY <2>1, <2>6
<1>4. 0..h \subseteq K
  <2> HIDE DEF K
  <2> QED
    BY <1>2, <1>3, Ascent!Induction
<1>5. h \in K /\ h - h = 0
  BY <1>4
<1> QED
  BY <1>1, <1>5

(* The leaf reaches the root.                                               *)
LEMMA TheLeafVerifies ==
  ASSUME NEW s, NEW h \in Nat, NEW j \in 0..(TwoTo[h] - 1), NEW st,
         Climbed(s, j, j, h, st), st[0] = Rows(s)[0][j]
  PROVE  st[h] = Rows(s)[h][0]
<1> DEFINE p == Path(j)
           R == Rows(s)
           K == {k \in 0..h : st[k] = R[k][p[k]]}
<1>1. p[0] = j /\ p[h] = 0 /\ \A k \in 0..h : p[k] \in Nat
  <2>1. p[0] = j /\ \A k \in 0..h : p[k] \in 0..(TwoTo[h - k] - 1)
    BY PathIs
  <2>2. h \in 0..h /\ h - h = 0 /\ TwoTo[h - h] = 1
    BY TwoToIs
  <2>3. p[h] = 0
    BY <2>1, <2>2
  <2> QED
    BY <2>1, <2>3
<1>2. 0 \in K
  BY <1>1
<1>3. ASSUME NEW k \in 0..(h - 1), k \in K PROVE k + 1 \in K
  <2> DEFINE i == p[k]
             half == i \div 2
  <2>1. k \in Nat /\ k \in 0..h /\ k + 1 \in 0..h /\ st[k] = R[k][i]
    BY <1>3
  <2>2. p[k + 1] = half /\ i \in Nat /\ half \in Nat
    BY <1>1, <2>1, PathIs
  <2>3. st[k + 1] = IF i % 2 = 0 THEN Combined(st[k], R[k][Sibling(i)]) ELSE Combined(R[k][Sibling(i)], st[k])
    BY DEF Climbed
  <2>4. R[k + 1][half] = Combined(R[k][2 * half], R[k][2 * half + 1])
    BY <2>1, <2>2, RowsAre
  <2>5. /\ i % 2 = 0 => i = 2 * half /\ Sibling(i) = 2 * half + 1
        /\ i % 2 # 0 => i = 2 * half + 1 /\ Sibling(i) = 2 * half
    <3> HIDE DEF i
    <3>1. i + 1 \in Nat /\ i < 2 * (i + 1)
      BY <2>2
    <3> QED
      BY <2>2, <3>1, Halving
  <2>6. st[k + 1] = R[k + 1][half]
    <3> HIDE DEF half, i, R
    <3> QED
      BY <2>1, <2>3, <2>4, <2>5
  <2> QED
    BY <2>1, <2>2, <2>6
<1>4. 0..h \subseteq K
  <2> HIDE DEF K
  <2> QED
    BY <1>2, <1>3, Ascent!Induction
<1>5. h \in K
  BY <1>4
<1> QED
  BY <1>1, <1>5

(* Hashes differ if what is hashed does.                                    *)
LEMMA HashesDiffer ==
  /\ \A a, b, c, d : Combined(a, b) = Combined(c, d) => a = c /\ b = d
  /\ \A a, b, d : HashOf(d) # Combined(a, b) /\ HashOf(d) # NoRoot /\ Combined(a, b) # NoRoot
BY DEF Combined, HashOf, NoRoot

(* The two ends of a tree: every hash of a row above the leaves is made of  *)
(* two, the leaves are hashes of datums.                                    *)
LEMMA RowHashes ==
  ASSUME NEW s, Len(s) \in Nat, s # <<>>, NEW i \in Nat
  PROVE  /\ \A l \in Nat \ {0} : Rows(s)[l][i] = Combined(Rows(s)[l - 1][2 * i], Rows(s)[l - 1][2 * i + 1])
         /\ i < TwoTo[ModHeight(s)] => \E d : Rows(s)[0][i] = HashOf(d)
<1>1. ASSUME NEW l \in Nat \ {0}
      PROVE  Rows(s)[l][i] = Combined(Rows(s)[l - 1][2 * i], Rows(s)[l - 1][2 * i + 1])
  <2>1. l - 1 \in Nat /\ l = (l - 1) + 1
    OBVIOUS
  <2>2. Rows(s)[(l - 1) + 1][i] = Combined(Rows(s)[l - 1][2 * i], Rows(s)[l - 1][2 * i + 1])
    BY <2>1, RowsAre
  <2> QED
    BY <2>1, <2>2
<1>2. ASSUME i < TwoTo[ModHeight(s)] PROVE \E d : Rows(s)[0][i] = HashOf(d)
  <2> DEFINE t == TwoTo[ModHeight(s)]
  <2>1. t \in Nat
    BY ModHeightIs, TwoToGrows
  <2>2. i + 1 \in 1..t
    BY <1>2, <2>1
  <2>3. Rows(s)[0][i] = Leaves(s)[i + 1]
    <3>1. Rows(s)[0] = Bottom(s)
      BY RowsAre
    <3> QED
      BY <3>1 DEF Bottom
  <2>4. Leaves(s)[i + 1] = HashOf(s[IF i + 1 <= Len(s) THEN i + 1 ELSE Len(s)])
    BY <2>2 DEF Leaves
  <2> QED
    BY <2>3, <2>4
<1> QED
  BY <1>1, <1>2

(* Trees with the same root have, row by row from the root down, the same   *)
(* hashes; so neither has a leaf where the other one has not.               *)
LEMMA SameRows ==
  ASSUME NEW s, Len(s) \in Nat, s # <<>>, NEW q, Len(q) \in Nat, q # <<>>, Root(s) = Root(q),
         ModHeight(s) <= ModHeight(q)
  PROVE  ModHeight(s) = ModHeight(q) /\ Leaves(s) = Leaves(q)
<1> DEFINE h == ModHeight(s)
           e == ModHeight(q)
           R == Rows(s)
           Q == Rows(q)
           N == {n \in 0..h : \A i \in 0..(TwoTo[n] - 1) : R[h - n][i] = Q[e - n][i]}
<1>1. h \in Nat /\ e \in Nat /\ h <= e
  BY ModHeightIs
<1>2. R[h][0] = Q[e][0]
  BY AllNodesAre
<1>3. \A i \in Nat : /\ \A l \in Nat \ {0} : R[l][i] = Combined(R[l - 1][2 * i], R[l - 1][2 * i + 1])
                     /\ i < TwoTo[h] => \E d : R[0][i] = HashOf(d)
  BY RowHashes
<1>4. \A i \in Nat : /\ \A l \in Nat \ {0} : Q[l][i] = Combined(Q[l - 1][2 * i], Q[l - 1][2 * i + 1])
                     /\ i < TwoTo[e] => \E d : Q[0][i] = HashOf(d)
  BY RowHashes
<1> HIDE DEF h, e, R, Q
<1>5. 0 \in N
  <2>1. 0 \in 0..h /\ h - 0 = h /\ e - 0 = e
    BY <1>1
  <2>2. \A i \in 0..(TwoTo[0] - 1) : i = 0
    BY TwoToIs
  <2> QED
    BY <1>2, <2>1, <2>2
<1>6. ASSUME NEW n \in 0..(h - 1), n \in N PROVE n + 1 \in N
  <2>1. /\ n \in Nat /\ n + 1 \in 0..h /\ h - n \in Nat \ {0} /\ e - n \in Nat \ {0}
        /\ (h - n) - 1 = h - (n + 1) /\ (e - n) - 1 = e - (n + 1)
    BY <1>1
  <2>2. TwoTo[n + 1] = 2 * TwoTo[n] /\ TwoTo[n] \in Nat
    BY <2>1, TwoToIs, TwoToGrows
  <2>3. ASSUME NEW i \in 0..(TwoTo[n + 1] - 1) PROVE R[h - (n + 1)][i] = Q[e - (n + 1)][i]
    <3> DEFINE half == i \div 2
    <3>1. i \in Nat /\ half \in 0..(TwoTo[n] - 1) /\ half \in Nat
      <4> DEFINE t == TwoTo[n]
      <4>1. t \in Nat /\ i \in 0..(2 * t - 1)
        BY <2>2
      <4> HIDE DEF t
      <4>2. half \in 0..(t - 1)
        BY <4>1
      <4> QED
        BY <4>1, <4>2 DEF t
    <3>2. i = 2 * half \/ i = 2 * half + 1
      BY <3>1
    <3> HIDE DEF half
    <3>3. R[h - n][half] = Q[e - n][half]
      BY <1>6, <3>1
    <3>4. /\ R[h - n][half] = Combined(R[h - (n + 1)][2 * half], R[h - (n + 1)][2 * half + 1])
          /\ Q[e - n][half] = Combined(Q[e - (n + 1)][2 * half], Q[e - (n + 1)][2 * half + 1])
      <4>1. /\ R[h - n][half] = Combined(R[(h - n) - 1][2 * half], R[(h - n) - 1][2 * half + 1])
            /\ Q[e - n][half] = Combined(Q[(e - n) - 1][2 * half], Q[(e - n) - 1][2 * half + 1])
        <5>1. h - n \in Nat \ {0} /\ e - n \in Nat \ {0} /\ half \in Nat
          BY <2>1, <3>1
        <5>2. R[h - n][half] = Combined(R[(h - n) - 1][2 * half], R[(h - n) - 1][2 * half + 1])
          BY <1>3, <5>1
        <5>3. Q[e - n][half] = Combined(Q[(e - n) - 1][2 * half], Q[(e - n) - 1][2 * half + 1])
          BY <1>4, <5>1
        <5> QED
          BY <5>2, <5>3
      <4> QED
        BY <2>1, <4>1
    <3>5. /\ R[h - (n + 1)][2 * half] = Q[e - (n + 1)][2 * half]
          /\ R[h - (n + 1)][2 * half + 1] = Q[e - (n + 1)][2 * half + 1]
      <4> DEFINE a == R[h - (n + 1)][2 * half]  b == R[h - (n + 1)][2 * half + 1]
                 c == Q[e - (n + 1)][2 * half]  d == Q[e - (n + 1)][2 * half + 1]
      <4>1. Combined(a, b) = Combined(c, d)
        BY <3>3, <3>4
      <4> HIDE DEF a, b, c, d
      <4>2. a = c /\ b = d
        BY <4>1, HashesDiffer
      <4> QED
        BY <4>2 DEF a, b, c, d
    <3> QED
      BY <3>2, <3>5
  <2> QED
    BY <2>1, <2>3
<1>7. 0..h \subseteq N
  <2> HIDE DEF N
  <2> QED
    BY <1>1, <1>5, <1>6, Tower!Induction
<1>8. \A i \in 0..(TwoTo[h] - 1) : R[0][i] = Q[e - h][i]
  <2>1. h \in N /\ h - h = 0
    BY <1>1, <1>7
  <2> QED
    BY <2>1
<1>9. h = e
  <2>1. SUFFICES ASSUME h # e PROVE FALSE
    OBVIOUS
  <2>2. e - h \in Nat \ {0}
    BY <1>1, <2>1
  <2>3. TwoTo[h] \in Nat /\ TwoTo[h] > 0
    BY <1>1, TwoToGrows
  <2>4. R[0][0] = Q[e - h][0]
    BY <1>8, <2>3
  <2>5. PICK d : R[0][0] = HashOf(d)
    BY <1>3, <2>3
  <2>6. Q[e - h][0] = Combined(Q[(e - h) - 1][2 * 0], Q[(e - h) - 1][2 * 0 + 1])
    BY <1>4, <2>2
  <2> QED
    <3> DEFINE a == Q[(e - h) - 1][2 * 0]  b == Q[(e - h) - 1][2 * 0 + 1]
    <3>1. HashOf(d) = Combined(a, b)
      BY <2>4, <2>5, <2>6
    <3> HIDE DEF a, b
    <3> QED
      BY <3>1, HashesDiffer
<1>10. ASSUME NEW i \in 1..TwoTo[h] PROVE Leaves(s)[i] = Leaves(q)[i]
  <2>1. TwoTo[h] \in Nat
    BY <1>1, TwoToGrows
  <2>2. i - 1 \in 0..(TwoTo[h] - 1) /\ i - 1 \in Nat /\ (i - 1) + 1 = i /\ e - h = 0
    BY <1>1, <1>9, <2>1
  <2>3. R[0][i - 1] = Q[0][i - 1]
    BY <1>8, <2>2
  <2>4. R[0] = Bottom(s) /\ Q[0] = Bottom(q)
    BY RowsAre DEF R, Q
  <2> QED
    BY <2>2, <2>3, <2>4 DEF Bottom
<1>11. Leaves(s) = Leaves(q)
  <2>1. Leaves(s) = [i \in 1..TwoTo[h] |-> Leaves(s)[i]] /\ Leaves(q) = [i \in 1..TwoTo[e] |-> Leaves(q)[i]]
    BY DEF Leaves, h, e
  <2> QED
    BY <1>9, <1>10, <2>1
<1> QED
  BY <1>9, <1>11 DEF h, e

(* Trees with the same leaves are the same.                                 *)
LEMMA SameLeaves ==
  ASSUME NEW s, Len(s) \in Nat, s # <<>>, NEW q, Len(q) \in Nat, q # <<>>, Leaves(s) = Leaves(q)
  PROVE  Root(s) = Root(q)
<1> DEFINE h == ModHeight(s)
           e == ModHeight(q)
<1>1. h \in Nat /\ e \in Nat
  BY ModHeightIs
<1>2. DOMAIN Leaves(s) = 1..TwoTo[h] /\ DOMAIN Leaves(q) = 1..TwoTo[e]
  BY DEF Leaves
<1> HIDE DEF h, e
<1>3. TwoTo[h] = TwoTo[e]
  <2> DEFINE t == TwoTo[h]  u == TwoTo[e]
  <2>1. t \in Nat /\ u \in Nat /\ 1..t = 1..u
    BY <1>1, <1>2, TwoToGrows
  <2> HIDE DEF t, u
  <2>2. t = u
    <3>1. \A n \in 1..t : n <= u
      BY <2>1
    <3>2. \A n \in 1..u : n <= t
      BY <2>1
    <3>3. t <= u
      BY <2>1, <3>1
    <3>4. u <= t
      BY <2>1, <3>2
    <3> QED
      BY <2>1, <3>3, <3>4
  <2> QED
    BY <2>2 DEF t, u
<1>4. h = e
  <2>1. h < e \/ e < h \/ h = e
    BY <1>1
  <2>2. h < e => TwoTo[h] < TwoTo[e]
    BY <1>1, TwoToOrdered
  <2>3. e < h => TwoTo[e] < TwoTo[h]
    BY <1>1, TwoToOrdered
  <2>4. TwoTo[h] \in Nat
    BY <1>1, TwoToGrows
  <2> QED
    BY <1>3, <2>1, <2>2, <2>3, <2>4
<1>5. AllNodes(s) = AllNodes(q)
  BY <1>4 DEF AllNodes, h, e
<1> QED
  BY <1>5 DEF Root
-----------------------------------------------------------------------------
DataInv == data \in Seq(Datums) /\ other \in Seq(Datums)

LEMMA DataStays ==
  /\ MerkleInit => DataInv
  /\ DataInv /\ [MerkleNext]_merkleVars => DataInv'
<1>1. MerkleInit => DataInv
  BY DEF MerkleInit, DataInv
<1>2. ASSUME DataInv, [MerkleNext]_merkleVars PROVE DataInv'
  <2>1. CASE PushData
    BY <1>2, <2>1 DEF DataInv, PushData
  <2>2. CASE PushOther
    BY <1>2, <2>2 DEF DataInv, PushOther
  <2>3. CASE UNCHANGED merkleVars
    BY <1>2, <2>3 DEF DataInv, merkleVars
  <2> QED
    BY <1>2, <2>1, <2>2, <2>3 DEF MerkleNext
<1> QED
  BY <1>1, <1>2

LEMMA DataInvSound == DataInv => ProofsAreSound
<1> SUFFICES ASSUME DataInv, NEW i \in 1..Len(data), NEW j \in 1..TwoTo[ModHeight(data)], NEW d \in Datums
             PROVE  LET verified == Verifies(Root(data), HashOf(d), Proof(data, i - 1), j - 1)
                    IN  /\ verified => Leaves(data)[j] = HashOf(d)
                        /\ i = j => (verified <=> data[i] = d)
  BY DEF ProofsAreSound
<1> DEFINE h == ModHeight(data)
           t == TwoTo[h]
           n == Len(data)
           verified == Verifies(Root(data), HashOf(d), Proof(data, i - 1), j - 1)
<1>1. n \in Nat /\ data # <<>>
  <2>1. n \in Nat
    BY DEF DataInv
  <2>2. n # 0
    BY <2>1
  <2> QED
    BY <2>1, <2>2
<1>2. h \in Nat /\ t \in Nat /\ n <= t
  BY <1>1, ModHeightIs, TwoToGrows
<1>3. i \in 1..t /\ i - 1 \in 0..(t - 1) /\ j - 1 \in 0..(t - 1) /\ j - 1 \in Nat /\ (j - 1) + 1 = j
      /\ i \in Nat /\ i <= n
  <2>1. j \in 1..t /\ i \in 1..n
    OBVIOUS
  <2> HIDE DEF t, n
  <2> QED
    BY <1>1, <1>2, <2>1
<1>4. PICK st : /\ Climbed(data, i - 1, j - 1, h, st) /\ st[0] = HashOf(d)
                /\ verified <=> st[h] = Rows(data)[h][0]
  BY <1>1, <1>3, VerifyIs
<1>5. Rows(data)[0][j - 1] = Leaves(data)[j]
  <2>1. Rows(data)[0] = Bottom(data)
    BY RowsAre
  <2> QED
    BY <1>3, <2>1 DEF Bottom
<1>6. verified => Leaves(data)[j] = HashOf(d)
  BY <1>2, <1>3, <1>4, <1>5, OnlyTheLeafVerifies
<1>7. ASSUME i = j PROVE verified <=> data[i] = d
  <2>1. Leaves(data)[i] = HashOf(data[i])
    <3>1. Leaves(data)[i] = HashOf(data[IF i <= n THEN i ELSE n])
      BY <1>3 DEF Leaves
    <3> QED
      BY <1>3, <3>1
  <2>2. data[i] = d => verified
    <3>1. i - 1 = j - 1 /\ Climbed(data, j - 1, j - 1, h, st)
      BY <1>4, <1>7
    <3>2. data[i] = d => st[0] = Rows(data)[0][j - 1]
      BY <1>4, <1>5, <1>7, <2>1
    <3> QED
      BY <1>2, <1>3, <1>4, <3>1, <3>2, TheLeafVerifies
  <2>3. verified => data[i] = d
    BY <1>6, <1>7, <2>1 DEF HashOf
  <2> QED
    BY <2>2, <2>3
<1> QED
  BY <1>6, <1>7

LEMMA DataInvBinds == DataInv => RootBindsLeaves
<1> SUFFICES ASSUME DataInv
             PROVE  Root(data) = Root(other) <=>
                       \/ data = other
                       \/ data # <<>> /\ other # <<>> /\ Leaves(data) = Leaves(other)
  BY DEF RootBindsLeaves
<1>1. Len(data) \in Nat /\ Len(other) \in Nat
  BY DEF DataInv
<1>2. \A s : Len(s) \in Nat /\ s # <<>> => Root(s) # NoRoot
  <2> SUFFICES ASSUME NEW s, Len(s) \in Nat, s # <<>> PROVE Root(s) # NoRoot
    OBVIOUS
  <2> DEFINE h == ModHeight(s)
  <2>1. h \in Nat /\ Root(s) = Rows(s)[h][0] /\ TwoTo[h] > 0
    BY ModHeightIs, AllNodesAre, TwoToGrows
  <2>2. CASE h = 0
    <3>1. \E d : Rows(s)[0][0] = HashOf(d)
      BY <2>1, RowHashes
    <3> QED
      BY <2>1, <2>2, <3>1, HashesDiffer
  <2>3. CASE h # 0
    <3>1. Rows(s)[h][0] = Combined(Rows(s)[h - 1][2 * 0], Rows(s)[h - 1][2 * 0 + 1])
      <4> HIDE DEF h
      <4>1. h \in Nat \ {0} /\ 0 \in Nat
        BY <2>1, <2>3
      <4> QED
        BY <4>1, RowHashes
    <3> QED
      BY <2>1, <3>1, HashesDiffer
  <2> QED
    BY <2>2, <2>3
<1>3. Root(<<>>) = NoRoot
  BY DEF Root, AllNodes
<1>4. CASE data # <<>> /\ other # <<>>
  <2>1. ASSUME Root(data) = Root(other) PROVE Leaves(data) = Leaves(other)
    <3>1. ModHeight(data) \in Nat /\ ModHeight(other) \in Nat
      BY <1>1, ModHeightIs
    <3>2. ModHeight(data) <= ModHeight(other) \/ ModHeight(other) <= ModHeight(data)
      BY <3>1
    <3> QED
      BY <1>1, <1>4, <2>1, <3>2, SameRows
  <2>2. Leaves(data) = Leaves(other) => Root(data) = Root(other)
    BY <1>1, <1>4, SameLeaves
  <2> QED
    BY <1>4, <2>1, <2>2
<1>5. CASE data = <<>> \/ other = <<>>
  BY <1>1, <1>2, <1>3, <1>5
<1> QED
  BY <1>4, <1>5

(* With a leaf's proof only that leaf's datum verifies at its index, and at *)
(* another index only a datum that is the leaf there: the indices and the   *)
(* offsets of proof (merkle.rs:63) and verify (merkle.rs:87) name the nodes *)
(* that new (merkle.rs:11) put there, whatever the number of leaves.        *)
THEOREM ProofsAreSoundCorrect == MerkleSpec => []ProofsAreSound
BY DataStays, DataInvSound, PTL DEF MerkleSpec

(* A root (merkle.rs:55) stands for one list of leaves, the last datum      *)
(* repeated.                                                                *)
THEOREM RootBindsLeavesCorrect == MerkleSpec => []RootBindsLeaves
BY DataStays, DataInvBinds, PTL DEF MerkleSpec
=============================================================================

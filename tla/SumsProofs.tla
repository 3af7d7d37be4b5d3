----------------------------- MODULE SumsProofs -----------------------------
(***************************************************************************)
(* What SumSeq computes for every sequence of integers: how the total      *)
(* moves when an element is appended or removed and that no rearrangement  *)
(* changes it.  The proofs are by a smallest counterexample (LeastNat),    *)
(* which needs no induction over an operator.                              *)
(***************************************************************************)
EXTENDS Sums, FiniteSetTheorems, SequenceTheorems, WellFoundedInduction, TLAPS

LessThan == {p \in Nat \X Nat : p[1] < p[2]}
LEMMA LessThanWF == IsWellFoundedOn(LessThan, Nat)
  BY NatLessThanWellFounded DEF OpToRel, LessThan
LEMMA LeastNat ==
  ASSUME NEW T, T \subseteq Nat, T # {}
  PROVE \E x \in T : \A y \in T : x <= y
<1>1. PICK x \in T : \A y \in T : ~(<<y, x>> \in LessThan)
  BY LessThanWF, WFMin
<1>2. ASSUME NEW y \in T, ~(x <= y) PROVE FALSE
  <2>1. y \in Nat /\ x \in Nat /\ y < x BY <1>2
  <2>2. <<y, x>> \in LessThan BY <2>1 DEF LessThan
  <2> QED BY <2>2, <1>1
<1> QED BY <1>2

(* A partial sum function of s up to n *)
Partial(s, n) == {g \in [0 .. n -> Int] : g[0] = 0 /\ \A i \in 1 .. n : g[i] = g[i-1] + s[i]}

LEMMA PartialExists ==
  ASSUME NEW s \in Seq(Int), NEW n \in 0 .. Len(s)
  PROVE  Partial(s, n) # {}
<1> DEFINE Bad == {m \in 0 .. Len(s) : Partial(s, m) = {}}
<1> SUFFICES ASSUME Bad # {} PROVE FALSE
  OBVIOUS
<1>1. PICK m \in Bad : \A k \in Bad : m <= k
  <2>1. Bad \subseteq Nat OBVIOUS
  <2> HIDE DEF Bad
  <2> QED BY <2>1, LeastNat
<1>2. m # 0
  <2>1. [i \in 0 .. 0 |-> 0] \in Partial(s, 0) BY DEF Partial
  <2> QED BY <2>1
<1>3. m - 1 \in 0 .. Len(s) /\ m - 1 \notin Bad
  <2>1. m \in 0 .. Len(s) /\ Len(s) \in Nat BY <1>1
  <2>2. m - 1 \in 0 .. Len(s) BY <2>1, <1>2
  <2>3. m - 1 < m BY <2>1
  <2> HIDE DEF Bad
  <2> QED BY <1>1, <2>1, <2>2, <2>3
<1>4. PICK g \in Partial(s, m - 1) : TRUE
  BY <1>3
<1> DEFINE h == [i \in 0 .. m |-> IF i = m THEN g[m-1] + s[m] ELSE g[i]]
<1>5. h \in Partial(s, m)
  <2>1. g \in [0 .. m-1 -> Int] /\ g[0] = 0 /\ \A i \in 1 .. m-1 : g[i] = g[i-1] + s[i]
    BY <1>4 DEF Partial
  <2>2. m \in 1 .. Len(s) /\ s[m] \in Int
    BY <1>1, <1>2
  <2>3. h \in [0 .. m -> Int] 
    BY <2>1, <2>2
  <2>4. h[0] = 0 BY <2>1, <2>2
  <2>5. \A i \in 1 .. m : h[i] = h[i-1] + s[i]
    BY <2>1, <2>2
  <2> HIDE DEF h
  <2> QED BY <2>3, <2>4, <2>5 DEF Partial
<1> QED BY <1>5, <1>1

LEMMA PartialUnique ==
  ASSUME NEW s \in Seq(Int), NEW n \in 0 .. Len(s), NEW g \in Partial(s, n),
         NEW m \in 0 .. n, NEW h \in Partial(s, m)
  PROVE  \A i \in 0 .. m : g[i] = h[i]
<1> DEFINE Bad == {i \in 0 .. m : g[i] # h[i]}
<1> SUFFICES ASSUME Bad # {} PROVE FALSE
  OBVIOUS
<1>1. PICK k \in Bad : \A j \in Bad : k <= j
  <2>1. Bad \subseteq Nat OBVIOUS
  <2> HIDE DEF Bad
  <2> QED BY <2>1, LeastNat
<1>2. k # 0 BY DEF Partial
<1>3. k \in 1 .. m /\ k - 1 \in 0 .. m /\ k - 1 \notin Bad
  BY <1>1, <1>2
<1>4. g[k-1] = h[k-1] BY <1>3
<1>5. g[k] = g[k-1] + s[k] /\ h[k] = h[k-1] + s[k]
  BY <1>3 DEF Partial
<1> QED BY <1>1, <1>4, <1>5

LEMMA SumIsPartial ==
  ASSUME NEW s \in Seq(Int), NEW g \in Partial(s, Len(s))
  PROVE  SumSeq(s) = g[Len(s)]
<1> DEFINE Rec(f) == [i \in 0 .. Len(s) |-> IF i = 0 THEN 0 ELSE f[i - 1] + s[i]]
           total == CHOOSE f : f = Rec(f)
<1>1. Rec(g) = g
  <2>1. g \in [0 .. Len(s) -> Int] /\ g[0] = 0 /\ \A i \in 1 .. Len(s) : g[i] = g[i-1] + s[i]
    BY DEF Partial
  <2> QED BY <2>1
<1>2. total = Rec(total)
  <2>1. \E f : f = Rec(f) BY <1>1
  <2> QED BY <2>1
<1>3. \A i \in 0 .. Len(s) : total[i] = IF i = 0 THEN 0 ELSE total[i-1] + s[i]
  <2> HIDE DEF total
  <2> QED BY <1>2
<1>4. SumSeq(s) = total[Len(s)]
  BY DEF SumSeq
<1> HIDE DEF total
<1> DEFINE Bad == {i \in 0 .. Len(s) : g[i] # total[i]}
<1>5. Bad = {}
  <2> SUFFICES ASSUME Bad # {} PROVE FALSE
    OBVIOUS
  <2>1. PICK k \in Bad : \A j \in Bad : k <= j
    <3>1. Bad \subseteq Nat OBVIOUS
    <3> HIDE DEF Bad
    <3> QED BY <3>1, LeastNat
  <2>2. k # 0 BY <1>3 DEF Partial
  <2>3. k \in 1 .. Len(s) /\ k - 1 \in 0 .. Len(s) /\ k - 1 \notin Bad
    BY <2>1, <2>2
  <2>4. g[k-1] = total[k-1] BY <2>3
  <2>5. g[k] = g[k-1] + s[k] /\ total[k] = total[k-1] + s[k]
    BY <2>3, <1>3 DEF Partial
  <2> QED BY <2>1, <2>4, <2>5
<1> QED BY <1>4, <1>5

THEOREM SumSeqInt == ASSUME NEW s \in Seq(Int) PROVE SumSeq(s) \in Int
<1>1. PICK g \in Partial(s, Len(s)) : TRUE BY PartialExists
<1>2. SumSeq(s) = g[Len(s)] BY SumIsPartial
<1>3. g[Len(s)] \in Int BY DEF Partial
<1> QED BY <1>2, <1>3

THEOREM SumSeqAppend ==
  ASSUME NEW s \in Seq(Int), NEW x \in Int
  PROVE  SumSeq(Append(s, x)) = SumSeq(s) + x
<1> DEFINE t == Append(s, x)
<1>0. t \in Seq(Int) /\ Len(t) = Len(s) + 1 /\ \A i \in 1 .. Len(s) : t[i] = s[i]
  OBVIOUS
<1>00. t[Len(s) + 1] = x OBVIOUS
<1> HIDE DEF t
<1>1. PICK g \in Partial(t, Len(t)) : TRUE BY <1>0, PartialExists
<1>2. g \in [0 .. Len(s) + 1 -> Int] /\ g[0] = 0 /\ \A i \in 1 .. Len(s) + 1 : g[i] = g[i-1] + t[i]
  BY <1>1, <1>0 DEF Partial
<1> DEFINE h == [i \in 0 .. Len(s) |-> g[i]]
<1>3. h \in Partial(s, Len(s))
  <2>1. h \in [0 .. Len(s) -> Int] BY <1>2
  <2>2. h[0] = 0 BY <1>2
  <2>3. \A i \in 1 .. Len(s) : h[i] = h[i-1] + s[i] BY <1>2, <1>0
  <2> HIDE DEF h
  <2> QED BY <2>1, <2>2, <2>3 DEF Partial
<1>4. SumSeq(s) = h[Len(s)] BY <1>3, SumIsPartial
<1>5. SumSeq(t) = g[Len(s) + 1] BY <1>0, <1>1, SumIsPartial
<1>6. g[Len(s) + 1] = g[Len(s)] + x BY <1>2, <1>00
<1> QED BY <1>4, <1>5, <1>6 DEF t

(* Amounts are not negative, nor are their totals. *)
LEMMA SumSeqNat ==
  ASSUME NEW s \in Seq(Nat)
  PROVE  SumSeq(s) \in Nat
<1>1. s \in Seq(Int)
  OBVIOUS
<1>2. PICK g \in Partial(s, Len(s)) : TRUE
  BY <1>1, PartialExists
<1>3. SumSeq(s) = g[Len(s)]
  BY <1>1, SumIsPartial
<1>4. g \in [0 .. Len(s) -> Int] /\ g[0] = 0
  BY <1>2 DEF Partial
<1>5. \A i \in 1 .. Len(s) : g[i] = g[i - 1] + s[i]
  BY <1>2 DEF Partial
<1> DEFINE Bad == {i \in 0 .. Len(s) : g[i] < 0}
<1>6. Bad = {}
  <2> SUFFICES ASSUME Bad # {} PROVE FALSE
    OBVIOUS
  <2>1. PICK k \in Bad : \A j \in Bad : k <= j
    <3>1. Bad \subseteq Nat OBVIOUS
    <3> HIDE DEF Bad
    <3> QED BY <3>1, LeastNat
  <2>2. k # 0 BY <1>4
  <2>3. k \in 1 .. Len(s) /\ k - 1 \in 0 .. Len(s) /\ k - 1 \notin Bad
    BY <2>1, <2>2
  <2>4. g[k - 1] \in Int /\ s[k] \in Nat
    BY <2>3, <1>4
  <2>6. g[k - 1] >= 0
    BY <2>3, <2>4
  <2>5. g[k] = g[k - 1] + s[k] BY <2>3, <1>5
  <2> QED BY <2>1, <2>4, <2>5, <2>6
<1> QED BY <1>3, <1>4, <1>6

LEMMA RemoveAtElements ==
  ASSUME NEW S, NEW s \in Seq(S), NEW i \in 1 .. Len(s)
  PROVE  /\ RemoveAt(s, i) \in Seq(S)
         /\ Len(RemoveAt(s, i)) = Len(s) - 1
         /\ \A j \in 1 .. Len(s) - 1 :
              RemoveAt(s, i)[j] = IF j < i THEN s[j] ELSE s[j + 1]
<1> DEFINE a == SubSeq(s, 1, i - 1)
           b == SubSeq(s, i + 1, Len(s))
<1>0. Len(s) \in Nat /\ i \in Nat
  OBVIOUS
<1>1. a \in Seq(S) /\ Len(a) = i - 1 /\ \A j \in 1 .. i - 1 : a[j] = s[j]
  BY <1>0
<1>2. b \in Seq(S) /\ Len(b) = Len(s) - i /\ \A j \in 1 .. Len(s) - i : b[j] = s[i + j]
  BY <1>0
<1> HIDE DEF a, b
<1>3. a \o b \in Seq(S) /\ Len(a \o b) = Len(s) - 1
  <2>1. a \o b \in Seq(S) /\ Len(a \o b) = Len(a) + Len(b)
    BY <1>1, <1>2, ConcatProperties
  <2> QED BY <2>1, <1>0, <1>1, <1>2
<1>4. \A j \in 1 .. Len(s) - 1 : (a \o b)[j] = IF j < i THEN s[j] ELSE s[j + 1]
  <2> SUFFICES ASSUME NEW j \in 1 .. Len(s) - 1
               PROVE  (a \o b)[j] = IF j < i THEN s[j] ELSE s[j + 1]
    OBVIOUS
  <2>1. CASE j < i
    BY <2>1, <1>0, <1>1, <1>2
  <2>2. CASE ~(j < i)
    <3>1. (a \o b)[j] = b[j - Len(a)]
      BY <2>2, <1>0, <1>1, <1>2
    <3>2. j - Len(a) \in 1 .. Len(s) - i /\ i + (j - Len(a)) = j + 1
      BY <2>2, <1>0, <1>1
    <3> QED BY <3>1, <3>2, <1>2, <2>2
  <2> QED BY <2>1, <2>2
<1> QED BY <1>3, <1>4 DEF RemoveAt, a, b

(* removeOutput and removeInput: the total of what is left. *)
LEMMA SumSeqRemoveAt ==
  ASSUME NEW s \in Seq(Int), NEW i \in 1 .. Len(s)
  PROVE  SumSeq(RemoveAt(s, i)) = SumSeq(s) - s[i]
<1> DEFINE r == RemoveAt(s, i)
           n == Len(s) - 1
<1>1. /\ r \in Seq(Int) /\ Len(r) = n
      /\ \A j \in 1 .. n : r[j] = IF j < i THEN s[j] ELSE s[j + 1]
  BY RemoveAtElements
<1>2. n \in Nat /\ n + 1 = Len(s) /\ i \in 1 .. n + 1 /\ s[i] \in Int
  OBVIOUS
<1>3. PICK g \in Partial(s, Len(s)) : TRUE
  BY PartialExists
<1>4. SumSeq(s) = g[n + 1]
  BY <1>2, <1>3, SumIsPartial
<1>5. g \in [0 .. n + 1 -> Int] /\ g[0] = 0
  BY <1>2, <1>3 DEF Partial
<1>9. \A j \in 1 .. n + 1 : g[j] = g[j - 1] + s[j]
  BY <1>2, <1>3 DEF Partial
<1> HIDE DEF r, n
<1> DEFINE h == [j \in 0 .. n |-> IF j < i THEN g[j] ELSE g[j + 1] - s[i]]
<1>6. h \in Partial(r, n)
  <2>1. h \in [0 .. n -> Int]
    BY <1>2, <1>5
  <2>2. h[0] = 0
    BY <1>2, <1>5
  <2>3. ASSUME NEW j \in 1 .. n PROVE h[j] = h[j - 1] + r[j]
    <3>1. CASE j < i
      <4>1. h[j] = g[j] /\ h[j - 1] = g[j - 1] /\ r[j] = s[j]
        BY <3>1, <1>1, <1>2
      <4>2. j \in 1 .. n + 1
        BY <1>2
      <4>3. g[j] = g[j - 1] + s[j]
        BY <4>2, <1>9
      <4> QED BY <4>1, <4>3
    <3>2. CASE j = i
      <4>1. h[j] = g[j + 1] - s[i] /\ h[j - 1] = g[j - 1] /\ r[j] = s[j + 1]
        BY <3>2, <1>1, <1>2
      <4>4. j \in 1 .. n + 1 /\ j + 1 \in 1 .. n + 1 /\ (j + 1) - 1 = j
        BY <1>2
      <4>2. g[j + 1] = g[j] + s[j + 1] /\ g[j] = g[j - 1] + s[j]
        BY <4>4, <1>9
      <4>3. g[j] \in Int /\ g[j - 1] \in Int /\ s[j + 1] \in Int
        BY <1>2, <1>5
      <4> QED BY <4>1, <4>2, <4>3, <3>2, <1>2
    <3>3. CASE j > i
      <4>1. h[j] = g[j + 1] - s[i] /\ h[j - 1] = g[j] - s[i] /\ r[j] = s[j + 1]
        BY <3>3, <1>1, <1>2
      <4>4. j + 1 \in 1 .. n + 1 /\ (j + 1) - 1 = j
        BY <1>2
      <4>2. g[j + 1] = g[j] + s[j + 1]
        BY <4>4, <1>9
      <4>3. g[j] \in Int /\ s[j + 1] \in Int
        BY <1>2, <1>5
      <4> QED BY <4>1, <4>2, <4>3, <1>2
    <3> QED BY <3>1, <3>2, <3>3, <1>2
  <2> HIDE DEF h
  <2> QED BY <2>1, <2>2, <2>3 DEF Partial
<1>7. SumSeq(r) = h[n]
  BY <1>1, <1>6, SumIsPartial
<1>8. h[n] = g[n + 1] - s[i]
  <2>1. CASE n < i
    <3>1. i = n + 1
      BY <2>1, <1>2
    <3>2. h[n] = g[n] /\ g[n] \in Int
      BY <3>1, <1>2, <1>5
    <3>3. g[n + 1] = g[n] + s[n + 1]
      BY <1>2, <1>9
    <3> QED BY <3>1, <3>2, <3>3, <1>2
  <2>2. CASE ~(n < i)
    BY <2>2, <1>2
  <2> QED BY <2>1, <2>2
<1> QED BY <1>4, <1>7, <1>8 DEF r

(* sortInputs, sortOutputs and sort: a rearrangement keeps the elements. *)
LEMMA ReorderElements ==
  ASSUME NEW S, NEW s \in Seq(S), NEW p \in Orders(Len(s))
  PROVE  /\ Reorder(s, p) \in Seq(S)
         /\ Len(Reorder(s, p)) = Len(s)
         /\ \A i \in 1 .. Len(s) : p[i] \in 1 .. Len(s) /\ Reorder(s, p)[i] = s[p[i]]
         /\ \A j \in 1 .. Len(s) : \E i \in 1 .. Len(s) : Reorder(s, p)[i] = s[j]
<1> DEFINE n == Len(s)
<1>1. /\ p \in [1 .. n -> 1 .. n]
      /\ \A j \in 1 .. n : \E i \in 1 .. n : p[i] = j
  BY DEF Orders, Bijection, Surjection
<1>2. n \in Nat /\ \A i \in 1 .. n : s[i] \in S
  OBVIOUS
<1>3. Reorder(s, p) = [i \in 1 .. n |-> s[p[i]]]
  BY DEF Reorder
<1> HIDE DEF n
<1> DEFINE r == [i \in 1 .. n |-> s[p[i]]]
<1>4. r \in [1 .. n -> S]
  BY <1>1, <1>2
<1>5. r \in Seq(S) /\ Len(r) = n
  BY <1>2, <1>4, IsASeq
<1>6. \A i \in 1 .. n : p[i] \in 1 .. n /\ r[i] = s[p[i]]
  BY <1>1
<1>7. ASSUME NEW j \in 1 .. n PROVE \E i \in 1 .. n : r[i] = s[j]
  BY <1>1
<1> HIDE DEF r
<1>8. Reorder(s, p) = r
  BY <1>3 DEF r
<1> QED BY <1>5, <1>6, <1>7, <1>8 DEF n

(* Dropping the last element of a reordering and closing the gap it leaves
   is a reordering again. *)
LEMMA OrderWithoutLast ==
  ASSUME NEW n \in Nat \ {0}, NEW q \in Orders(n)
  PROVE  LET rest == [i \in 1 .. n - 1 |-> IF q[i] < q[n] THEN q[i] ELSE q[i] - 1]
         IN  /\ q[n] \in 1 .. n
             /\ rest \in Orders(n - 1)
             /\ \A i \in 1 .. n - 1 : q[i] \in 1 .. n /\ q[i] # q[n]
<1> DEFINE k == q[n]
           rest == [i \in 1 .. n - 1 |-> IF q[i] < k THEN q[i] ELSE q[i] - 1]
<1>1. q \in [1 .. n -> 1 .. n]
  BY DEF Orders, Bijection, Injection
<1>2. \A i, j \in 1 .. n : q[i] = q[j] => i = j
  BY DEF Orders, Bijection, Injection, IsInjective
<1>3. \A j \in 1 .. n : \E i \in 1 .. n : q[i] = j
  BY DEF Orders, Bijection, Surjection
<1>4. k \in 1 .. n /\ n \in 1 .. n
  BY <1>1
<1>5. \A i \in 1 .. n - 1 : i \in 1 .. n /\ q[i] \in 1 .. n /\ q[i] # k
  <2> SUFFICES ASSUME NEW i \in 1 .. n - 1
               PROVE  i \in 1 .. n /\ q[i] \in 1 .. n /\ q[i] # k
    OBVIOUS
  <2>1. i \in 1 .. n /\ i # n
    OBVIOUS
  <2> QED BY <2>1, <1>1, <1>2, <1>4
<1> HIDE DEF k
<1>6. rest \in [1 .. n - 1 -> 1 .. n - 1]
  <2> SUFFICES ASSUME NEW i \in 1 .. n - 1
               PROVE  (IF q[i] < k THEN q[i] ELSE q[i] - 1) \in 1 .. n - 1
    OBVIOUS
  <2> QED BY <1>4, <1>5
<1>7. ASSUME NEW i \in 1 .. n - 1, NEW j \in 1 .. n - 1, rest[i] = rest[j]
      PROVE  i = j
  <2>1. (IF q[i] < k THEN q[i] ELSE q[i] - 1) = (IF q[j] < k THEN q[j] ELSE q[j] - 1)
    BY <1>7
  <2>2. q[i] = q[j]
    BY <2>1, <1>4, <1>5
  <2> QED BY <2>2, <1>2, <1>5
<1>8. ASSUME NEW j \in 1 .. n - 1 PROVE \E i \in 1 .. n - 1 : rest[i] = j
  <2> DEFINE m == IF j < k THEN j ELSE j + 1
  <2>1. m \in 1 .. n /\ m # k /\ j = IF m < k THEN m ELSE m - 1
    BY <1>4
  <2>2. PICK i \in 1 .. n : q[i] = m
    BY <2>1, <1>3
  <2>3. i # n
    BY <2>1, <2>2 DEF k
  <2>4. i \in 1 .. n - 1
    BY <2>3
  <2>5. rest[i] = IF m < k THEN m ELSE m - 1
    BY <2>2, <2>4
  <2> QED BY <2>1, <2>4, <2>5
<1>9. rest \in Orders(n - 1)
  <2> HIDE DEF rest
  <2> QED BY <1>6, <1>7, <1>8 DEF Orders, Bijection, Injection, Surjection, IsInjective
<1> QED BY <1>4, <1>5, <1>9 DEF k

(* ... and so the total. *)
LEMMA SumSeqReorder ==
  ASSUME NEW s \in Seq(Int), NEW p \in Orders(Len(s))
  PROVE  SumSeq(Reorder(s, p)) = SumSeq(s)
<1> DEFINE Bad == {n \in Nat : \E t \in Seq(Int), q \in Orders(n) :
                     Len(t) = n /\ SumSeq(Reorder(t, q)) # SumSeq(t)}
<1>1. SUFFICES Bad = {}
  OBVIOUS
<1>2. SUFFICES ASSUME Bad # {} PROVE FALSE
  OBVIOUS
<1>3. PICK n \in Bad : \A m \in Bad : n <= m
  <2>1. Bad \subseteq Nat
    OBVIOUS
  <2> HIDE DEF Bad
  <2> QED BY <1>2, <2>1, LeastNat
<1>4. PICK t \in Seq(Int), q \in Orders(n) : Len(t) = n /\ SumSeq(Reorder(t, q)) # SumSeq(t)
  BY <1>3
<1>5. n \in Nat
  BY <1>3
<1> HIDE DEF Bad
<1> DEFINE r == Reorder(t, q)
<1>6. /\ r \in Seq(Int) /\ Len(r) = n
      /\ \A i \in 1 .. n : q[i] \in 1 .. n /\ r[i] = t[q[i]]
  BY <1>4, ReorderElements
<1>7. n # 0
  <2> SUFFICES ASSUME n = 0 PROVE FALSE
    OBVIOUS
  <2>1. r = <<>> /\ t = <<>>
    <3> HIDE DEF r
    <3> QED BY <1>4, <1>6
  <2> QED BY <2>1, <1>4
<1> DEFINE k  == q[n]
           u  == RemoveAt(t, k)
           q1 == [i \in 1 .. n - 1 |-> IF q[i] < k THEN q[i] ELSE q[i] - 1]
           r1 == Reorder(u, q1)
<1>8. k \in 1 .. n /\ n - 1 \in Nat /\ n \in 1 .. n
  BY <1>5, <1>6, <1>7
<1>9. /\ u \in Seq(Int) /\ Len(u) = n - 1
      /\ \A j \in 1 .. n - 1 : u[j] = IF j < k THEN t[j] ELSE t[j + 1]
  BY <1>4, <1>8, RemoveAtElements
<1>12. /\ q1 \in Orders(n - 1)
       /\ \A i \in 1 .. n - 1 : q[i] \in 1 .. n /\ q[i] # k
  BY <1>5, <1>7, OrderWithoutLast
<1>10. \A i \in 1 .. n - 1 : q1[i] = IF q[i] < k THEN q[i] ELSE q[i] - 1
  OBVIOUS
<1> HIDE DEF k, r, u, q1
<1>13. /\ r1 \in Seq(Int) /\ Len(r1) = n - 1
       /\ \A i \in 1 .. n - 1 : q1[i] \in 1 .. n - 1 /\ r1[i] = u[q1[i]]
  <2>1. u \in Seq(Int) /\ Len(u) = n - 1 /\ q1 \in Orders(Len(u))
    BY <1>9, <1>12
  <2> HIDE DEF r1
  <2>2. /\ Reorder(u, q1) \in Seq(Int) /\ Len(Reorder(u, q1)) = Len(u)
        /\ \A i \in 1 .. Len(u) : q1[i] \in 1 .. Len(u) /\ Reorder(u, q1)[i] = u[q1[i]]
    BY <2>1, ReorderElements
  <2> QED BY <2>1, <2>2 DEF r1
<1> HIDE DEF r1
<1>14. \A i \in 1 .. n - 1 : r1[i] = r[i]
  <2> SUFFICES ASSUME NEW i \in 1 .. n - 1 PROVE r1[i] = r[i]
    OBVIOUS
  <2>1. r1[i] = u[q1[i]] /\ q1[i] \in 1 .. n - 1
    BY <1>13
  <2>2. r[i] = t[q[i]] /\ q[i] \in 1 .. n /\ q[i] # k
    BY <1>6, <1>8, <1>12
  <2>3. q1[i] = IF q[i] < k THEN q[i] ELSE q[i] - 1
    BY <1>10
  <2>4. u[q1[i]] = IF q1[i] < k THEN t[q1[i]] ELSE t[q1[i] + 1]
    BY <2>1, <1>9
  <2>5. CASE q[i] < k
    BY <2>1, <2>2, <2>3, <2>4, <2>5
  <2>6. CASE ~(q[i] < k)
    <3>1. ~(q1[i] < k) /\ q1[i] + 1 = q[i]
      BY <2>2, <2>3, <2>6, <1>8
    <3> QED BY <3>1, <2>1, <2>2, <2>4
  <2> QED BY <2>5, <2>6
<1>15. r = Append(r1, t[k])
  <2>1. r[n] = t[k]
    BY <1>6, <1>8 DEF k
  <2>2. Append(r1, t[k]) \in Seq(Int) /\ Len(Append(r1, t[k])) = n
    BY <1>4, <1>8, <1>13
  <2>3. \A i \in 1 .. n : Append(r1, t[k])[i] = r[i]
    BY <1>8, <1>13, <1>14, <2>1
  <2> QED BY <1>6, <2>2, <2>3
<1>16. SumSeq(r) = SumSeq(r1) + t[k]
  BY <1>4, <1>8, <1>13, <1>15, SumSeqAppend
<1>17. SumSeq(r1) = SumSeq(u)
  <2>1. n - 1 \notin Bad
    BY <1>3, <1>5
  <2> QED BY <2>1, <1>8, <1>9, <1>12 DEF r1, Bad
<1>18. SumSeq(u) = SumSeq(t) - t[k]
  BY <1>4, <1>8, SumSeqRemoveAt DEF u
<1>19. SumSeq(t) \in Int /\ t[k] \in Int
  BY <1>4, <1>8, SumSeqInt
<1> QED BY <1>4, <1>16, <1>17, <1>18, <1>19 DEF r
=============================================================================

---------------------------- MODULE ClientProofs -----------------------------
(***************************************************************************)
(* What the transaction builder promises its clients about their payments, *)
(* for any number of coins, payments and calls: they change as requested.  *)
(* The change output may be removed, put back or moved by every call, and  *)
(* a call may throw half way; what remains of the outputs without it       *)
(* changes only as the client asked.  Bags of payments are compared by     *)
(* counting the positions of every output.                                 *)
(***************************************************************************)
EXTENDS MCClients, SignatureProofs

-----------------------------------------------------------------------------
(* Counting *)

At(s, o) == {i \in DOMAIN s : s[i] = o}
N(s, o) == Cardinality(At(s, o))

LEMMA CountType ==
  ASSUME NEW S, NEW s \in Seq(S), NEW o
  PROVE  /\ IsFiniteSet(At(s, o)) /\ N(s, o) \in Nat
         /\ N(s, o) > 0 <=> o \in ToSet(s)
<1>1. DOMAIN s = 1 .. Len(s) /\ Len(s) \in Nat
  OBVIOUS
<1>2. At(s, o) \subseteq 1 .. Len(s)
  BY <1>1 DEF At
<1>3. IsFiniteSet(1 .. Len(s))
  BY <1>1, FS_Interval
<1>4. IsFiniteSet(At(s, o))
  BY <1>2, <1>3, FS_Subset
<1>5. N(s, o) \in Nat /\ (N(s, o) = 0 <=> At(s, o) = {})
  BY <1>4, FS_CardinalityType, FS_EmptySet DEF N
<1>6. At(s, o) = {} <=> o \notin ToSet(s)
  BY DEF At, ToSet
<1> QED BY <1>4, <1>5, <1>6

LEMMA CountAppend ==
  ASSUME NEW S, NEW s \in Seq(S), NEW o \in S, NEW p
  PROVE  N(Append(s, o), p) = IF p = o THEN N(s, p) + 1 ELSE N(s, p)
<1> DEFINE u == Append(s, o)
           n == Len(s)
<1>1. /\ n \in Nat /\ DOMAIN s = 1 .. n /\ DOMAIN u = 1 .. n + 1
      /\ \A i \in 1 .. n : u[i] = s[i]
      /\ u[n + 1] = o
  OBVIOUS
<1> HIDE DEF u, n
<1>2. At(u, p) = IF p = o THEN At(s, p) \cup {n + 1} ELSE At(s, p)
  BY <1>1 DEF At
<1>3. n + 1 \notin At(s, p)
  BY <1>1 DEF At
<1>4. IsFiniteSet(At(s, p))
  BY CountType
<1>5. Cardinality(At(s, p) \cup {n + 1}) = Cardinality(At(s, p)) + 1
  BY Zenon, <1>3, <1>4, FS_AddElement
<1> QED BY <1>2, <1>5 DEF N, u

LEMMA CountRemove ==
  ASSUME NEW S, NEW s \in Seq(S), NEW k \in 1 .. Len(s), NEW p
  PROVE  N(RemoveAt(s, k), p) = IF p = s[k] THEN N(s, p) - 1 ELSE N(s, p)
<1> DEFINE u == RemoveAt(s, k)
           n == Len(s)
           rest == At(s, p) \ {k}
           f == [i \in rest |-> IF i < k THEN i ELSE i - 1]
<1>1. /\ n \in Nat /\ DOMAIN s = 1 .. n /\ k \in 1 .. n
      /\ u \in Seq(S) /\ Len(u) = n - 1
      /\ \A j \in 1 .. n - 1 : u[j] = IF j < k THEN s[j] ELSE s[j + 1]
  <2> HIDE DEF u
  <2>1. n \in Nat /\ DOMAIN s = 1 .. n
    OBVIOUS
  <2> QED BY Zenon, <2>1, RemoveAtElements DEF u
<1>2. DOMAIN u = 1 .. n - 1
  BY <1>1
<1> HIDE DEF u, n
<1>3. IsFiniteSet(At(s, p))
  BY CountType
<1>4. /\ IsFiniteSet(rest)
      /\ Cardinality(rest) = IF k \in At(s, p) THEN Cardinality(At(s, p)) - 1
                             ELSE Cardinality(At(s, p))
  BY <1>3, FS_RemoveElement
<1>5. \A i \in rest : i \in 1 .. n /\ i # k /\ s[i] = p
  BY <1>1 DEF At
<1>6. \A j \in At(u, p) : /\ j \in 1 .. n - 1
                          /\ (j < k => s[j] = p) /\ (j >= k => s[j + 1] = p)
  BY <1>1, <1>2 DEF At
<1>7. f \in Bijection(rest, At(u, p))
  <2>1. f \in [rest -> At(u, p)]
    <3> SUFFICES ASSUME NEW i \in rest
                 PROVE  (IF i < k THEN i ELSE i - 1) \in At(u, p)
      OBVIOUS
    <3>1. i \in 1 .. n /\ i # k /\ s[i] = p
      BY <1>5
    <3>2. CASE i < k
      BY <1>1, <1>2, <3>1, <3>2 DEF At
    <3>3. CASE i > k
      <4>1. i - 1 \in 1 .. n - 1 /\ ~(i - 1 < k) /\ (i - 1) + 1 = i
        BY <1>1, <3>1, <3>3
      <4>2. u[i - 1] = s[i]
        BY <1>1, <4>1
      <4> QED BY <1>1, <1>2, <3>1, <3>3, <4>1, <4>2 DEF At
    <3> QED BY <1>1, <3>1, <3>2, <3>3
  <2>2. \A i, j \in rest : f[i] = f[j] => i = j
    BY <1>1, <1>5
  <2>3. \A j \in At(u, p) : \E i \in rest : f[i] = j
    <3> SUFFICES ASSUME NEW j \in At(u, p) PROVE \E i \in rest : f[i] = j
      OBVIOUS
    <3>1. CASE j < k
      <4>1. j \in rest
        BY <1>1, <1>6, <3>1 DEF At
      <4>2. f[j] = j
        BY <3>1, <4>1
      <4> QED BY <4>1, <4>2
    <3>2. CASE j >= k
      <4>1. j + 1 \in rest
        BY <1>1, <1>6, <3>2 DEF At
      <4>2. f[j + 1] = j
        BY <1>1, <1>6, <3>2, <4>1
      <4> QED BY <4>1, <4>2
    <3> QED BY <1>1, <1>6, <3>1, <3>2
  <2> HIDE DEF f, rest
  <2> QED BY <2>1, <2>2, <2>3 DEF Bijection, Injection, Surjection, IsInjective
<1>8. ExistsBijection(rest, At(u, p))
  BY <1>7 DEF ExistsBijection
<1> HIDE DEF rest
<1>9. Cardinality(At(u, p)) = Cardinality(rest)
  BY <1>4, <1>8, FS_Bijection
<1>10. k \in At(s, p) <=> p = s[k]
  BY <1>1 DEF At
<1> QED BY <1>4, <1>9, <1>10 DEF N, u

LEMMA CountReorder ==
  ASSUME NEW S, NEW s \in Seq(S), NEW q \in Orders(Len(s)), NEW p
  PROVE  N(Reorder(s, q), p) = N(s, p)
<1> DEFINE u == Reorder(s, q)
           n == Len(s)
           f == [i \in At(u, p) |-> q[i]]
<1>1. /\ n \in Nat /\ DOMAIN s = 1 .. n /\ q \in [1 .. n -> 1 .. n]
      /\ \A i, j \in 1 .. n : q[i] = q[j] => i = j
      /\ \A j \in 1 .. n : \E i \in 1 .. n : q[i] = j
  BY DEF Orders, Bijection, Injection, Surjection, IsInjective
<1>2. DOMAIN u = 1 .. n /\ \A i \in 1 .. n : u[i] = s[q[i]]
  BY <1>1 DEF Reorder
<1>3. u \in Seq(S)
  BY ReorderElements
<1> HIDE DEF u, n
<1>4. f \in Bijection(At(u, p), At(s, p))
  <2>1. f \in [At(u, p) -> At(s, p)]
    BY <1>1, <1>2 DEF At
  <2>2. \A i, j \in At(u, p) : f[i] = f[j] => i = j
    BY <1>1, <1>2 DEF At
  <2>3. \A j \in At(s, p) : \E i \in At(u, p) : f[i] = j
    <3> SUFFICES ASSUME NEW j \in At(s, p) PROVE \E i \in At(u, p) : f[i] = j
      OBVIOUS
    <3>1. j \in 1 .. n /\ s[j] = p
      BY <1>1 DEF At
    <3>2. PICK i \in 1 .. n : q[i] = j
      BY <1>1, <3>1
    <3>3. i \in At(u, p)
      BY <1>2, <3>1, <3>2 DEF At
    <3> QED BY <3>2, <3>3
  <2> HIDE DEF f
  <2> QED BY <2>1, <2>2, <2>3 DEF Bijection, Injection, Surjection, IsInjective
<1>5. ExistsBijection(At(u, p), At(s, p))
  BY <1>4 DEF ExistsBijection
<1>6. IsFiniteSet(At(u, p))
  BY <1>3, CountType
<1> QED BY <1>5, <1>6, FS_Bijection DEF N, u

\* The same bag, by its counts
LEMMA SameBag ==
  ASSUME NEW S, NEW s \in Seq(S), NEW u \in Seq(S), \A o : N(u, o) = N(s, o)
  PROVE  BagOf(u) = BagOf(s) /\ ToSet(u) = ToSet(s)
<1>1. \A o : o \in ToSet(u) <=> o \in ToSet(s)
  BY CountType
<1>2. ToSet(u) = ToSet(s)
  BY <1>1
<1>3. \A v : BagOf(v) = [o \in ToSet(v) |-> N(v, o)]
  BY DEF BagOf, N, At
<1> QED BY <1>2, <1>3

\* What Payments calls Adjusted, for any bag
CountIn(bag, o) == IF o \in DOMAIN bag THEN bag[o] ELSE 0
AdjustedBag(bag, o, n) ==
  [p \in {q \in DOMAIN bag \cup {o} : q # o \/ CountIn(bag, o) + n > 0} |->
     IF p = o THEN CountIn(bag, o) + n ELSE bag[p]]

LEMMA ChangedBag ==
  ASSUME NEW S, NEW s \in Seq(S), NEW u \in Seq(S), NEW o, NEW n \in Int,
         N(u, o) = N(s, o) + n, \A p : p # o => N(u, p) = N(s, p)
  PROVE  BagOf(u) = AdjustedBag(BagOf(s), o, n)
<1>1. \A v : BagOf(v) = [p \in ToSet(v) |-> N(v, p)]
  BY DEF BagOf, N, At
<1>2. \A p : /\ N(s, p) \in Nat /\ N(u, p) \in Nat
             /\ N(s, p) > 0 <=> p \in ToSet(s)
             /\ N(u, p) > 0 <=> p \in ToSet(u)
  BY CountType
<1>3. CountIn(BagOf(s), o) = N(s, o)
  BY <1>1, <1>2 DEF CountIn
<1>4. ToSet(u) = {q \in DOMAIN BagOf(s) \cup {o} : q # o \/ N(s, o) + n > 0}
  <2>1. DOMAIN BagOf(s) = ToSet(s)
    BY <1>1
  <2>2. \A q : q \in ToSet(u) <=> (q \in ToSet(s) \cup {o} /\ (q # o \/ N(s, o) + n > 0))
    <3> TAKE q
    <3>1. CASE q = o
      BY <1>2, <3>1
    <3>2. CASE q # o
      BY <1>2, <3>2
    <3> QED BY <3>1, <3>2
  <2> QED BY <2>1, <2>2
<1>5. \A p \in ToSet(u) : N(u, p) = IF p = o THEN N(s, o) + n ELSE BagOf(s)[p]
  BY <1>1, <1>2
<1> HIDE DEF N, BagOf
<1>6. BagOf(u) = [p \in ToSet(u) |-> N(u, p)]
  BY <1>1
<1> QED BY <1>3, <1>4, <1>5, <1>6 DEF AdjustedBag

-----------------------------------------------------------------------------
(* The payments among the outputs *)

\* The change index, when there is one, names an output that pays a change
\* script, whatever the calls that threw have left behind.
Located(t) ==
  t.changeIndex # Undefined =>
    /\ t.changeIndex \in DOMAIN t.outputs
    /\ t.outputs[t.changeIndex].script \in ChangeScripts
    /\ t.changeScript # Undefined

Known(t) == \A i \in DOMAIN t.inputs : HasOutput(t.inputs[i])

LEMMA PaymentsType ==
  ASSUME NEW t \in Transactions
  PROVE  /\ PaymentOutputs(t) \in Seq(Outputs)
         /\ t.changeIndex = Undefined => PaymentOutputs(t) = t.outputs
<1>1. t.outputs \in Seq(Outputs)
  BY DEF Transactions
<1>2. t.changeIndex \in DOMAIN t.outputs => RemoveAt(t.outputs, t.changeIndex) \in Seq(Outputs)
  BY <1>1, RemoveAtElements
<1>3. Undefined \notin DOMAIN t.outputs
  BY <1>1, UndefinedAssumption
<1> QED BY <1>1, <1>2, <1>3 DEF PaymentOutputs

\* Only the outputs and the change index count.
LEMMA PaymentsSame ==
  ASSUME NEW t, NEW u, u.outputs = t.outputs, u.changeIndex = t.changeIndex
  PROVE  /\ PaymentOutputs(u) = PaymentOutputs(t)
         /\ u.changeScript = t.changeScript /\ Located(t) => Located(u)
BY DEF PaymentOutputs, Located

LEMMA LoadedPayments ==
  ASSUME NEW t \in Transactions
  PROVE  /\ LoadInputAmount(t).outputs = t.outputs /\ LoadAmounts(t).outputs = t.outputs
         /\ LoadInputAmount(t).changeIndex = t.changeIndex
         /\ LoadAmounts(t).changeIndex = t.changeIndex
         /\ ClearSignatures(t).outputs = t.outputs
         /\ ClearSignatures(t).changeIndex = t.changeIndex
<1>1. \A u \in Transactions : /\ LoadInputAmount(u).outputs = u.outputs
                              /\ LoadInputAmount(u).changeIndex = u.changeIndex
  BY DEF LoadInputAmount, Transactions
<1>2. \A u \in Transactions : /\ LoadOutputAmount(u).outputs = u.outputs
                              /\ LoadOutputAmount(u).changeIndex = u.changeIndex
  BY DEF LoadOutputAmount, Transactions
<1>3. LoadInputAmount(t) \in Transactions
  BY LoadInputAmountType
<1>4. LoadAmounts(t).outputs = t.outputs /\ LoadAmounts(t).changeIndex = t.changeIndex
  BY <1>1, <1>2, <1>3 DEF LoadAmounts
<1>5. /\ ClearSignatures(t).outputs = t.outputs
      /\ ClearSignatures(t).changeIndex = t.changeIndex
  BY DEF ClearSignatures, Transactions
<1> QED BY <1>1, <1>4, <1>5

\* The last lines of _updateChangeOutput add a change output behind the payments.
LEMMA PlacedPayments ==
  ASSUME NEW t \in Transactions, t.changeScript # Undefined
  PROVE  /\ PaymentOutputs(PlaceChange(t)) = t.outputs
         /\ Located(PlaceChange(t))
<1> DEFINE change == UnspentValue(t) - GetFee(t)
           o == [script |-> t.changeScript, satoshis |-> change]
           u == PlaceChange(t)
           n == Len(t.outputs)
<1>0. t.outputs \in Seq(Outputs) /\ t.changeScript \in ChangeScripts /\ n \in Nat
  BY DEF Transactions
<1>u. u \in Transactions /\ u.changeScript = t.changeScript
  BY PlaceChangeType, SameScript
<1>1. CASE change > 0
  <2>1. change \in Int
    BY LoadAmountsType, GetFeeType
  <2>2. o \in Outputs
    BY <1>0, <1>1, <2>1, ArgumentsAssumption DEF Outputs
  <2>3. u = [t EXCEPT !.changeIndex = n + 1, !.outputs = Append(@, o),
                      !.outputAmount = Undefined]
    BY <1>1 DEF PlaceChange
  <2> HIDE DEF u
  <2>4. u.changeIndex = n + 1 /\ u.outputs = Append(t.outputs, o)
    BY <2>3 DEF Transactions
  <2>5. o.script = t.changeScript
    OBVIOUS
  <2> HIDE DEF o, change
  <2>6. /\ n + 1 \in DOMAIN u.outputs /\ u.outputs[n + 1] = o
        /\ Len(u.outputs) = n + 1 /\ u.outputs \in Seq(Outputs)
        /\ \A i \in 1 .. n : u.outputs[i] = t.outputs[i]
    BY <1>0, <2>2, <2>4
  <2>7. RemoveAt(u.outputs, n + 1) = t.outputs
    <3>1. /\ RemoveAt(u.outputs, n + 1) \in Seq(Outputs)
          /\ Len(RemoveAt(u.outputs, n + 1)) = n
          /\ \A j \in 1 .. n : RemoveAt(u.outputs, n + 1)[j] = u.outputs[j]
      <4> DEFINE v == u.outputs
      <4>1. v \in Seq(Outputs) /\ Len(v) = n + 1 /\ n + 1 \in 1 .. Len(v)
        BY <1>0, <2>6
      <4> HIDE DEF v, n
      <4>2. /\ RemoveAt(v, n + 1) \in Seq(Outputs)
            /\ Len(RemoveAt(v, n + 1)) = Len(v) - 1
            /\ \A j \in 1 .. Len(v) - 1 :
                 RemoveAt(v, n + 1)[j] = IF j < n + 1 THEN v[j] ELSE v[j + 1]
        BY <4>1, RemoveAtElements
      <4> QED BY <1>0, <4>1, <4>2 DEF v
    <3> QED BY <1>0, <2>6, <3>1
  <2>8. Located(u)
    BY <1>0, <1>u, <2>4, <2>5, <2>6 DEF Located
  <2>9. PaymentOutputs(u) = t.outputs
    BY <2>4, <2>6, <2>7 DEF PaymentOutputs
  <2> QED BY <2>8, <2>9 DEF u
<1>2. CASE ~(change > 0)
  <2>1. u = [t EXCEPT !.changeIndex = Undefined]
    BY <1>2 DEF PlaceChange
  <2> HIDE DEF u
  <2>2. u.changeIndex = Undefined /\ u.outputs = t.outputs
    BY <2>1 DEF Transactions
  <2>3. PaymentOutputs(u) = t.outputs /\ Located(u)
    BY <1>u, <2>2, PaymentsType DEF Located
  <2> QED BY <2>3 DEF u
<1> QED BY <1>1, <1>2

\* Clearing signatures keeps the coins.
LEMMA ClearedKnown ==
  ASSUME NEW t \in Transactions, Known(t)
  PROVE  Known(ClearSignatures(t))
<1> DEFINE cleared == [i \in DOMAIN t.inputs |->
                         IF \A j \in 1 .. i : Subclassed(t.inputs[j])
                         THEN Unsign(t.inputs[i]) ELSE t.inputs[i]]
<1>1. t.inputs \in Seq(Inputs) /\ \A i \in DOMAIN t.inputs : t.inputs[i] \in Inputs
  <2>1. t.inputs \in Seq(Inputs)
    BY DEF Transactions
  <2> QED BY <2>1
<1>2. \A i \in DOMAIN t.inputs : HasOutput(cleared[i])
  BY <1>1 DEF Known, HasOutput, Unsign, Inputs
<1>3. DOMAIN cleared = DOMAIN t.inputs
  OBVIOUS
<1> HIDE DEF cleared
<1>4. ClearSignatures(t) = [t EXCEPT !.inputs = cleared]
  BY DEF ClearSignatures, cleared
<1>5. ClearSignatures(t).inputs = cleared
  BY <1>4 DEF Transactions
<1> QED BY <1>2, <1>3, <1>5 DEF Known

(* Whatever a method has changed, updating the change output leaves the payments
   alone, also where it cannot clear the signatures. *)
LEMMA UpdatedPayments ==
  ASSUME NEW t \in Transactions, Located(t), t.changeScript = Undefined \/ Known(t)
  PROVE  LET u == UpdateChangeOutput(t).tx
         IN  /\ u \in Transactions /\ Located(u) /\ u.changeScript = t.changeScript
             /\ PaymentOutputs(u) = PaymentOutputs(t)
             /\ Known(t) => Known(u)
<1> DEFINE cleared == ClearSignatures(t)
           removed == IF t.changeIndex = Undefined THEN cleared
                      ELSE RemoveOutputAt(cleared, t.changeIndex)
           u == UpdateChangeOutput(t).tx
<1>u. u \in Transactions /\ u.changeScript = t.changeScript
  BY UpdateChangeOutputType, UpdateScript
<1>1. CASE t.changeScript = Undefined
  BY <1>1, <1>u DEF UpdateChangeOutput, Return
<1>2. CASE t.changeScript # Undefined
  <2>1. /\ cleared \in Transactions /\ Known(cleared) /\ cleared.outputs = t.outputs
        /\ cleared.changeIndex = t.changeIndex /\ cleared.changeScript = t.changeScript
    BY <1>2, ClearSignaturesType, ClearedKnown, LoadedPayments, SameScript
  <2>2. PaymentOutputs(cleared) = PaymentOutputs(t) /\ Located(cleared)
    BY <2>1, PaymentsSame
  <2> HIDE DEF cleared
  <2>3. /\ removed \in Transactions /\ removed.inputs = cleared.inputs
        /\ removed.changeScript = t.changeScript
        /\ removed.outputs = PaymentOutputs(t)
    <3>1. CASE t.changeIndex = Undefined
      BY <2>1, <3>1, PaymentsType
    <3>2. CASE t.changeIndex # Undefined
      <4>1. t.changeIndex \in DOMAIN t.outputs
        BY <3>2 DEF Located
      <4>2. removed \in Transactions
        BY <2>1, <3>2, RemoveOutputAtType
      <4>3. removed = [cleared EXCEPT !.outputs = RemoveAt(@, t.changeIndex),
                                      !.outputAmount = Undefined]
        BY <2>1, <3>2, <4>1 DEF RemoveOutputAt
      <4> HIDE DEF removed
      <4>4. /\ removed.inputs = cleared.inputs
            /\ removed.changeScript = cleared.changeScript
            /\ removed.outputs = RemoveAt(t.outputs, t.changeIndex)
        BY <2>1, <4>3 DEF Transactions
      <4> QED BY <2>1, <4>1, <4>2, <4>4 DEF PaymentOutputs
    <3> QED BY <3>1, <3>2
  <2> HIDE DEF removed
  <2>4. ~MissingPreviousOutput(removed)
    BY <2>1, <2>3 DEF MissingPreviousOutput, Known
  <2>5. u = cleared \/ u = PlaceChange(LoadAmounts(removed))
    BY <1>2, <2>4 DEF UpdateChangeOutput, Return, Throw, cleared, removed
  <2>6. ASSUME u = PlaceChange(LoadAmounts(removed))
        PROVE  /\ Located(u) /\ PaymentOutputs(u) = PaymentOutputs(t) /\ Known(u)
    <3> DEFINE loaded == LoadAmounts(removed)
    <3>1. /\ loaded \in Transactions /\ loaded.changeScript # Undefined
          /\ loaded.outputs = PaymentOutputs(t) /\ loaded.inputs = cleared.inputs
      BY <1>2, <2>3, LoadAmountsType, SameScript, LoadedPayments, SameInputs
    <3> HIDE DEF loaded
    <3>2. /\ PaymentOutputs(PlaceChange(loaded)) = PaymentOutputs(t)
          /\ Located(PlaceChange(loaded)) /\ PlaceChange(loaded).inputs = cleared.inputs
      BY <3>1, PlacedPayments, SameInputs
    <3> QED BY <2>1, <2>6, <3>2 DEF Known, loaded
  <2>7. Located(u) /\ PaymentOutputs(u) = PaymentOutputs(t) /\ Known(u)
    <3> HIDE DEF u
    <3> QED BY <2>1, <2>2, <2>5, <2>6
  <2> QED BY <1>u, <2>7
<1> QED BY <1>1, <1>2

\* Adding a payment behind, removing one behind the change output, and sorting
LEMMA AddedPayment ==
  ASSUME NEW t \in Transactions, Located(t), NEW o \in Outputs,
         NEW u \in Transactions, u.outputs = Append(t.outputs, o),
         u.changeIndex = t.changeIndex, u.changeScript = t.changeScript
  PROVE  Located(u) /\ PaymentOutputs(u) = Append(PaymentOutputs(t), o)
<1> DEFINE s == t.outputs
           c == t.changeIndex
           n == Len(s)
           v == Append(s, o)
<1>1. s \in Seq(Outputs) /\ n \in Nat /\ DOMAIN s = 1 .. n
  BY DEF Transactions
<1>2. /\ v \in Seq(Outputs) /\ Len(v) = n + 1 /\ DOMAIN v = 1 .. n + 1
      /\ v[n + 1] = o /\ \A i \in 1 .. n : v[i] = s[i]
  BY <1>1
<1>3. CASE c = Undefined
  BY <1>3, PaymentsType DEF Located
<1>4. CASE c # Undefined
  <2>1. c \in 1 .. n /\ c \in 1 .. Len(v)
    BY <1>1, <1>2, <1>4 DEF Located
  <2>2. Located(u)
    BY <1>1, <1>2, <1>4, <2>1 DEF Located
  <2>3. PaymentOutputs(t) = RemoveAt(s, c) /\ PaymentOutputs(u) = RemoveAt(v, c)
    BY <1>1, <1>2, <2>1 DEF PaymentOutputs
  <2> HIDE DEF s, c, n, v
  <2>4. /\ RemoveAt(s, c) \in Seq(Outputs) /\ Len(RemoveAt(s, c)) = n - 1
        /\ \A j \in 1 .. n - 1 : RemoveAt(s, c)[j] = IF j < c THEN s[j] ELSE s[j + 1]
    BY Zenon, <1>1, <2>1, RemoveAtElements DEF n
  <2>5. /\ RemoveAt(v, c) \in Seq(Outputs) /\ Len(RemoveAt(v, c)) = Len(v) - 1
        /\ \A j \in 1 .. Len(v) - 1 : RemoveAt(v, c)[j] = IF j < c THEN v[j] ELSE v[j + 1]
    BY <1>2, <2>1, RemoveAtElements
  <2> DEFINE a == RemoveAt(s, c)
             b == RemoveAt(v, c)
  <2>6. /\ Append(a, o) \in Seq(Outputs) /\ Len(Append(a, o)) = n
        /\ \A j \in 1 .. n : Append(a, o)[j] = IF j = n THEN o ELSE a[j]
    BY <1>1, <2>1, <2>4
  <2>7. \A j \in 1 .. n : b[j] = IF j = n THEN o ELSE a[j]
    BY <1>1, <1>2, <2>1, <2>4, <2>5
  <2>8. Len(b) = n /\ b \in Seq(Outputs)
    BY <1>1, <1>2, <2>5
  <2> HIDE DEF a, b
  <2>9. b = Append(a, o)
    BY <1>1, <2>6, <2>7, <2>8
  <2> QED BY <2>2, <2>3, <2>9 DEF a, b
<1> QED BY <1>3, <1>4

LEMMA RemovedPayment ==
  ASSUME NEW t \in Transactions, Located(t), NEW i \in DOMAIN t.outputs,
         t.changeIndex # Undefined => i > t.changeIndex,
         NEW u \in Transactions, u.outputs = RemoveAt(t.outputs, i),
         u.changeIndex = t.changeIndex, u.changeScript = t.changeScript
  PROVE  /\ Located(u)
         /\ \E j \in DOMAIN PaymentOutputs(t) :
              /\ PaymentOutputs(t)[j] = t.outputs[i]
              /\ PaymentOutputs(u) = RemoveAt(PaymentOutputs(t), j)
<1> DEFINE s == t.outputs
           c == t.changeIndex
           n == Len(s)
           v == RemoveAt(s, i)
<1>1. s \in Seq(Outputs) /\ n \in Nat /\ DOMAIN s = 1 .. n /\ i \in 1 .. n
  BY DEF Transactions
<1>2. /\ v \in Seq(Outputs) /\ Len(v) = n - 1
      /\ \A j \in 1 .. n - 1 : v[j] = IF j < i THEN s[j] ELSE s[j + 1]
  <2> HIDE DEF s, v
  <2> QED BY Zenon, <1>1, RemoveAtElements DEF v
<1>d. DOMAIN v = 1 .. n - 1
  BY <1>1, <1>2
<1>3. CASE c = Undefined
  <2>1. PaymentOutputs(t) = s /\ PaymentOutputs(u) = v
    BY <1>3, PaymentsType
  <2> QED BY <1>3, <2>1 DEF Located
<1>4. CASE c # Undefined
  <2>1. c \in 1 .. n /\ c < i /\ c \in 1 .. n - 1 /\ s[c].script \in ChangeScripts
        /\ t.changeScript # Undefined
    BY <1>1, <1>4 DEF Located
  <2>2. v[c] = s[c]
    <3> HIDE DEF s, v, c, n
    <3> QED BY <1>2, <2>1
  <2>3. Located(u)
    BY <1>d, <2>1, <2>2 DEF Located
  <2>4. PaymentOutputs(t) = RemoveAt(s, c) /\ PaymentOutputs(u) = RemoveAt(v, c)
    BY <1>1, <1>d, <2>1 DEF PaymentOutputs
  <2> DEFINE a == RemoveAt(s, c)
             b == RemoveAt(v, c)
             d == RemoveAt(a, i - 1)
  <2> HIDE DEF s, c, n, v
  <2>5. /\ a \in Seq(Outputs) /\ Len(a) = n - 1
        /\ \A j \in 1 .. n - 1 : a[j] = IF j < c THEN s[j] ELSE s[j + 1]
    BY Zenon, <1>1, <2>1, RemoveAtElements DEF n
  <2>6. /\ b \in Seq(Outputs) /\ Len(b) = n - 1 - 1
        /\ \A j \in 1 .. n - 1 - 1 : b[j] = IF j < c THEN v[j] ELSE v[j + 1]
    <3>1. c \in 1 .. Len(v) BY <1>2, <2>1
    <3>2. v \in Seq(Outputs) /\ Len(v) = n - 1 BY <1>2
    <3>3. /\ b \in Seq(Outputs) /\ Len(b) = Len(v) - 1
          /\ \A j \in 1 .. Len(v) - 1 : b[j] = IF j < c THEN v[j] ELSE v[j + 1]
      BY Zenon, <3>1, <3>2, RemoveAtElements
    <3> HIDE DEF b
    <3> QED BY Zenon, <3>2, <3>3
  <2> HIDE DEF a, b
  <2>7. i - 1 \in 1 .. n - 1
    BY <1>1, <2>1
  <2>8. /\ d \in Seq(Outputs) /\ Len(d) = n - 1 - 1
        /\ \A j \in 1 .. n - 1 - 1 : d[j] = IF j < i - 1 THEN a[j] ELSE a[j + 1]
    <3>1. i - 1 \in 1 .. Len(a)
      BY <2>5, <2>7
    <3>2. /\ d \in Seq(Outputs) /\ Len(d) = Len(a) - 1
          /\ \A j \in 1 .. Len(a) - 1 : d[j] = IF j < i - 1 THEN a[j] ELSE a[j + 1]
      BY <2>5, <3>1, RemoveAtElements
    <3> HIDE DEF d
    <3> QED BY <2>5, <3>2
  <2> HIDE DEF d
  <2>9. ASSUME NEW j \in 1 .. n - 1 - 1 PROVE b[j] = d[j]
    <3>1. /\ j \in 1 .. n - 1 /\ j + 1 \in 1 .. n - 1 /\ j \in Nat /\ i \in Nat /\ c \in Nat
      BY <1>1, <2>1
    <3>2. b[j] = IF j < c THEN s[j] ELSE IF j + 1 < i THEN s[j + 1] ELSE s[j + 1 + 1]
      BY <1>2, <2>1, <2>6, <3>1
    <3>3. d[j] = IF j < i - 1 THEN (IF j < c THEN s[j] ELSE s[j + 1])
                 ELSE s[j + 1 + 1]
      <4>1. j >= i - 1 => ~(j + 1 < c)
        BY <2>1, <3>1
      <4> QED BY <2>5, <2>8, <3>1, <4>1
    <3> QED BY <2>1, <3>1, <3>2, <3>3
  <2>10. b = d
    BY <1>1, <2>1, <2>6, <2>8, <2>9
  <2>11. i - 1 \in DOMAIN a /\ a[i - 1] = s[i]
    <3>1. ~(i - 1 < c) /\ (i - 1) + 1 = i
      BY <1>1, <2>1
    <3> QED BY <2>5, <2>7, <3>1
  <2> QED BY <2>3, <2>4, <2>10, <2>11 DEF a, b, d, s
<1> QED BY <1>3, <1>4

LEMMA ReorderedPayments ==
  ASSUME NEW t \in Transactions, Located(t), NEW p \in Orders(Len(t.outputs))
  PROVE  LET u == NewOutputOrder(t, Reorder(t.outputs, p))
         IN  /\ u \in Transactions /\ Located(u)
             /\ \A o : N(PaymentOutputs(u), o) = N(PaymentOutputs(t), o)
<1> DEFINE s == t.outputs
           c == t.changeIndex
           n == Len(s)
           v == Reorder(s, p)
           u == NewOutputOrder(t, v)
           found == {i \in DOMAIN v : v[i] = s[c]}
           k == CHOOSE i \in found : \A j \in found : i <= j
<1>1. s \in Seq(Outputs) /\ n \in Nat /\ DOMAIN s = 1 .. n
  BY DEF Transactions
<1>2. /\ v \in Seq(Outputs) /\ Len(v) = n
      /\ \A j \in 1 .. n : \E i \in 1 .. n : v[i] = s[j]
  <2>1. p \in Orders(Len(s))
    OBVIOUS
  <2> HIDE DEF s, v
  <2> QED BY <1>1, <2>1, ReorderElements DEF v
<1>3. DOMAIN v = 1 .. n
  BY <1>1, <1>2
<1>4. \A o : N(v, o) = N(s, o)
  <2>1. p \in Orders(Len(s))
    OBVIOUS
  <2> HIDE DEF s
  <2> QED BY <1>1, <2>1, CountReorder
<1>5. u \in Transactions /\ u.changeScript = t.changeScript /\ u.outputs = v
  <2>1. u \in Transactions
    BY <1>2, NewOutputOrderType
  <2> HIDE DEF v
  <2> QED BY Zenon, <2>1, SameScript DEF NewOutputOrder, Transactions
<1>6. CASE c = Undefined
  <2>1. u.changeIndex = Undefined
    BY <1>6 DEF NewOutputOrder, Transactions
  <2>2. PaymentOutputs(t) = s /\ PaymentOutputs(u) = v
    BY <1>5, <1>6, <2>1, PaymentsType
  <2>3. Located(u)
    BY <2>1 DEF Located
  <2> QED BY <1>4, <1>5, <2>2, <2>3
<1>7. CASE c # Undefined
  <2>1. /\ c \in 1 .. n /\ s[c].script \in ChangeScripts /\ t.changeScript # Undefined
    BY <1>1, <1>7 DEF Located
  <2>2. found # {} /\ found \subseteq 1 .. n
    BY <1>2, <1>3, <2>1
  <2>3. k \in 1 .. n /\ v[k] = s[c]
    <3>1. found \subseteq Nat
      BY <2>2
    <3>2. \E i \in found : \A j \in found : i <= j
      <4> HIDE DEF found
      <4> QED BY <2>2, <3>1, LeastNat
    <3>3. k \in found
      <4> HIDE DEF found
      <4> QED BY <3>2
    <3> HIDE DEF k
    <3> QED BY <1>3, <3>3
  <2>4. u.changeIndex = k
    <3>1. NewOutputOrder(t, v) = [t EXCEPT !.outputs = v,
                                          !.changeIndex = IF @ = Undefined THEN Undefined
                                                          ELSE IF found = {} THEN 0 ELSE k]
      BY <1>1, <2>1 DEF NewOutputOrder
    <3> HIDE DEF found, k, v
    <3> QED BY <1>7, <2>2, <3>1 DEF Transactions
  <2> HIDE DEF u, found, k
  <2>5. Located(u)
    BY <1>3, <1>5, <2>1, <2>3, <2>4 DEF Located
  <2>6. PaymentOutputs(t) = RemoveAt(s, c) /\ PaymentOutputs(u) = RemoveAt(v, k)
    BY <1>1, <1>3, <1>5, <2>1, <2>3, <2>4 DEF PaymentOutputs
  <2> HIDE DEF s, c, v, n
  <2>7. ASSUME NEW o PROVE N(RemoveAt(v, k), o) = N(RemoveAt(s, c), o)
    <3>1. N(RemoveAt(s, c), o) = IF o = s[c] THEN N(s, o) - 1 ELSE N(s, o)
      BY <1>1, <2>1, CountRemove DEF n
    <3>2. N(RemoveAt(v, k), o) = IF o = v[k] THEN N(v, o) - 1 ELSE N(v, o)
      BY <1>2, <2>3, CountRemove
    <3> QED BY <1>4, <2>3, <3>1, <3>2
  <2> QED BY <1>5, <2>5, <2>6, <2>7 DEF u, v, s
<1> QED BY <1>6, <1>7

-----------------------------------------------------------------------------
(* What each call does to the payments *)

(* A client whose payments follow its requests: once it uses change addresses
   it removes only payments behind the change output (removeOutput in front of
   it makes the index point elsewhere, clearOutputs may throw after emptying
   the outputs), does not reload or reparse (a change output in the first place
   is forgotten) and has the outputs of all its coins. *)
FollowsRequests(c) ==
  LET used == Clients[c].calls IN
  "change" \in used =>
    /\ used \cap {"clearOutputs", "removeOutput", "reload", "reparse"} = {}
    /\ \A u \in Utxos \cap Clients[c].coins : HasOutput(u)

Part(c, t) ==
  /\ Located(t)
  /\ IF "change" \in Clients[c].calls THEN Known(t) ELSE t.changeScript = Undefined

\* Every payment is as often in u as in s.
Kept(s, u) == \A o : N(u, o) = N(s, o)

\* The payments s become u by the call that was made.
Moved(s, u) ==
  /\ \A o \in Payments : AddOutput(o) => u = Append(s, o)
  /\ \A i \in 1 .. MaxOutputs + 1 :
       RemoveOutput(i) \/ RemoveLaterOutput(i) =>
         IF i \in DOMAIN tx.outputs
         THEN \E j \in DOMAIN s : s[j] = tx.outputs[i] /\ u = RemoveAt(s, j)
         ELSE u = s
  /\ ClearOutputs => u = <<>>
  /\ OtherCall => Kept(s, u)

LEMMA UpdatedPart ==
  ASSUME NEW c, NEW t \in Transactions, Part(c, t)
  PROVE  LET u == UpdateChangeOutput(t).tx
         IN  Part(c, u) /\ PaymentOutputs(u) = PaymentOutputs(t)
<1>1. Located(t) /\ (t.changeScript = Undefined \/ Known(t))
  BY DEF Part
<1> DEFINE u == UpdateChangeOutput(t).tx
<1>2. /\ Located(u) /\ u.changeScript = t.changeScript
      /\ PaymentOutputs(u) = PaymentOutputs(t)
      /\ Known(t) => Known(u)
  BY <1>1, UpdatedPayments
<1> HIDE DEF u
<1>3. Part(c, u) /\ PaymentOutputs(u) = PaymentOutputs(t)
  BY <1>2 DEF Part
<1> QED BY <1>3 DEF u

LEMMA PushedPart ==
  ASSUME TypeOK, NEW c, Part(c, tx), NEW u \in Utxos,
         "change" \in Clients[c].calls => HasOutput(u)
  PROVE  /\ Part(c, PushInput(tx, NewInput(u)).tx)
         /\ PaymentOutputs(PushInput(tx, NewInput(u)).tx) = PaymentOutputs(tx)
<1> DEFINE input == NewInput(u)
           t == [tx EXCEPT !.inputs = Append(@, input), !.inputAmount = Undefined]
<1>1. tx \in Transactions /\ tx.inputs \in Seq(Inputs) /\ input \in Inputs
  BY NewInputType DEF TypeOK, Transactions
<1>2. "change" \in Clients[c].calls => HasOutput(input)
  BY DEF HasOutput, NewInput
<1> HIDE DEF input
<1>3. /\ Append(tx.inputs, input) \in Seq(Inputs)
      /\ Known(tx) /\ HasOutput(input) =>
           \A i \in DOMAIN Append(tx.inputs, input) : HasOutput(Append(tx.inputs, input)[i])
  BY <1>1 DEF Known
<1>4. /\ t \in Transactions /\ t.inputs = Append(tx.inputs, input) /\ t.outputs = tx.outputs
      /\ t.changeIndex = tx.changeIndex /\ t.changeScript = tx.changeScript
  BY <1>1, <1>3 DEF Transactions
<1> HIDE DEF t
<1>5. Part(c, t) /\ PaymentOutputs(t) = PaymentOutputs(tx)
  BY <1>2, <1>3, <1>4, PaymentsSame DEF Part, Known
<1>6. /\ Part(c, UpdateChangeOutput(t).tx)
      /\ PaymentOutputs(UpdateChangeOutput(t).tx) = PaymentOutputs(tx)
  BY <1>4, <1>5, UpdatedPart
<1> QED BY <1>6 DEF PushInput, t, input

LEMMA ReorderedPart ==
  ASSUME TypeOK, NEW c, Part(c, tx), NEW p \in Orders(Len(tx.inputs))
  PROVE  LET u == ClearSignatures([tx EXCEPT !.inputs = Reorder(@, p)])
         IN  /\ u \in Transactions /\ Part(c, u)
             /\ u.outputs = tx.outputs /\ u.changeIndex = tx.changeIndex
<1> DEFINE new == Reorder(tx.inputs, p)
           t == [tx EXCEPT !.inputs = new]
           u == ClearSignatures(t)
<1>1. tx \in Transactions /\ tx.inputs \in Seq(Inputs)
  BY DEF TypeOK, Transactions
<1>2. /\ new \in Seq(Inputs) /\ Len(new) = Len(tx.inputs)
      /\ \A i \in 1 .. Len(tx.inputs) : /\ p[i] \in 1 .. Len(tx.inputs)
                                        /\ new[i] = tx.inputs[p[i]]
  BY <1>1, ReorderElements
<1> HIDE DEF new
<1>3. Known(tx) => \A i \in DOMAIN new : HasOutput(new[i])
  BY <1>1, <1>2 DEF Known
<1>4. /\ t \in Transactions /\ t.inputs = new /\ t.outputs = tx.outputs
      /\ t.changeIndex = tx.changeIndex /\ t.changeScript = tx.changeScript
  BY <1>1, <1>2 DEF Transactions
<1> HIDE DEF t
<1>5. /\ u \in Transactions /\ u.outputs = tx.outputs /\ u.changeIndex = tx.changeIndex
      /\ u.changeScript = tx.changeScript
      /\ Known(t) => Known(u)
  BY <1>4, ClearSignaturesType, ClearedKnown, LoadedPayments, SameScript
<1> HIDE DEF u
<1>6. Part(c, u)
  BY <1>3, <1>4, <1>5, PaymentsSame DEF Part, Known
<1> QED BY <1>5, <1>6 DEF u, t, new

LEMMA ReorderedOutputsPart ==
  ASSUME NEW c, NEW t \in Transactions, Part(c, t), NEW p \in Orders(Len(t.outputs))
  PROVE  LET u == NewOutputOrder(t, Reorder(t.outputs, p))
         IN  Part(c, u) /\ Kept(PaymentOutputs(t), PaymentOutputs(u))
<1> DEFINE outputs == Reorder(t.outputs, p)
           u == NewOutputOrder(t, outputs)
<1>1. Located(u) /\ \A o : N(PaymentOutputs(u), o) = N(PaymentOutputs(t), o)
  BY ReorderedPayments DEF Part
<1>2. u.inputs = t.inputs /\ u.changeScript = t.changeScript
  BY SameInputs, SameScript
<1> HIDE DEF u
<1>3. Part(c, u) /\ Kept(PaymentOutputs(t), PaymentOutputs(u))
  BY <1>1, <1>2 DEF Part, Kept, Known
<1> QED BY <1>3 DEF u

LEMMA PaymentStep ==
  ASSUME TypeOK, [Next]_vars, FollowsRequests(client), Part(client, tx)
  PROVE  Part(client, tx') /\ Moved(PaymentOutputs(tx), PaymentOutputs(tx'))
<1> DEFINE Goal == Part(client, tx') /\ Kept(PaymentOutputs(tx), PaymentOutputs(tx'))
           Changes == "change" \in Clients[client].calls
<1>0. tx \in Transactions /\ tx.inputs \in Seq(Inputs) /\ tx.outputs \in Seq(Outputs)
  BY DEF TypeOK, Transactions
<1>00. \A i \in DOMAIN tx.inputs : tx.inputs[i] \in Inputs
  BY <1>0
<1>000. /\ Return(tx).tx = tx
        /\ \A t, error : Return(t).tx = t /\ Throw(t, error).tx = t
  BY DEF Return, Throw
<1>c. \A method, result : Call(method, result) =>
         tx' = result.tx /\ method \in Clients[client].calls
  BY DEF Call
<1>n. tx' \in Transactions
  BY NextType DEF TypeOK
<1>a. \A method \in {"clearOutputs", "removeOutput", "reload", "reparse"} :
        method \in Clients[client].calls => ~Changes
  BY DEF FollowsRequests
<1>w. ASSUME ~Changes PROVE /\ tx.changeScript = Undefined /\ tx.changeIndex = Undefined
                            /\ PaymentOutputs(tx) = tx.outputs
  <2>1. tx.changeScript = Undefined /\ tx.changeIndex = Undefined
    BY <1>w DEF Part, Located
  <2> QED BY <1>0, <2>1, PaymentsType
<1>k. ASSUME Part(client, tx'), PaymentOutputs(tx') = PaymentOutputs(tx) PROVE Goal
  BY <1>k DEF Kept
<1>s. ASSUME tx' = tx PROVE Goal
  BY <1>k, <1>s
<1>m. ASSUME tx'.outputs = tx.outputs, tx'.changeIndex = tx.changeIndex,
             tx'.changeScript = tx.changeScript, DOMAIN tx'.inputs = DOMAIN tx.inputs,
             \A i \in DOMAIN tx.inputs : tx'.inputs[i].satoshis = tx.inputs[i].satoshis
      PROVE  Goal
  BY <1>k, <1>m, PaymentsSame DEF Part, Known, HasOutput
<1>u. ASSUME NEW t \in Transactions, tx' = UpdateChangeOutput(t).tx, Part(client, t)
      PROVE  Part(client, tx') /\ PaymentOutputs(tx') = PaymentOutputs(t)
  BY <1>u, UpdatedPart
<1>v. ASSUME NEW t \in Transactions, tx' = UpdateChangeOutput(t).tx, Part(client, t),
             t.outputs = tx.outputs, t.changeIndex = tx.changeIndex
      PROVE  Goal
  BY <1>k, <1>v, UpdatedPart, PaymentsSame
<1>p. ASSUME NEW u \in Utxos \cap Clients[client].coins, tx' = PushInput(tx, NewInput(u)).tx
      PROVE  Goal
  BY <1>k, <1>p, PushedPart DEF FollowsRequests
<1>1. ASSUME NEW u \in Utxos, From(u) PROVE Goal
  BY <1>000, <1>c, <1>p, <1>s, <1>1 DEF From
<1>2. ASSUME NEW u \in Utxos, AddInput(u) PROVE Goal
  BY <1>000, <1>c, <1>p, <1>s, <1>2 DEF AddInput
<1>3. ASSUME NEW u \in Utxos, UncheckedAddInput(u) PROVE Goal
  BY <1>c, <1>p, <1>3 DEF UncheckedAddInput
<1>4. ASSUME NEW i \in 1 .. MaxInputs + 1, RemoveInput(i) PROVE Goal
  <2> DEFINE t == [tx EXCEPT !.inputs = RemoveAt(@, i), !.inputAmount = Undefined]
  <2>1. ASSUME i \in DOMAIN tx.inputs, tx' = UpdateChangeOutput(t).tx PROVE Goal
    <3> DEFINE new == RemoveAt(tx.inputs, i)
    <3>0. i \in 1 .. Len(tx.inputs)
      BY <1>0, <2>1
    <3>1. /\ new \in Seq(Inputs) /\ Len(new) = Len(tx.inputs) - 1
          /\ \A j \in 1 .. Len(tx.inputs) - 1 :
               new[j] = IF j < i THEN tx.inputs[j] ELSE tx.inputs[j + 1]
      BY <1>0, <3>0, RemoveAtElements
    <3> HIDE DEF new
    <3>2. Known(tx) => \A j \in DOMAIN new : HasOutput(new[j])
      BY <1>0, <3>0, <3>1 DEF Known
    <3>3. /\ t \in Transactions /\ t.inputs = new /\ t.changeScript = tx.changeScript
          /\ t.outputs = tx.outputs /\ t.changeIndex = tx.changeIndex
      BY <1>0, <3>1 DEF Transactions, new
    <3> HIDE DEF t
    <3>4. Part(client, t)
      BY <3>2, <3>3, PaymentsSame DEF Part, Known
    <3> QED BY <1>v, <2>1, <3>3, <3>4
  <2> HIDE DEF t
  <2> QED BY <1>000, <1>c, <1>s, <1>4, <2>1 DEF RemoveInput, t
<1>5. ASSUME NEW f \in Fees, Fee(f) PROVE Goal
  <2> DEFINE t == [tx EXCEPT !.fee = f]
  <2>1. /\ t \in Transactions /\ t.inputs = tx.inputs /\ t.changeScript = tx.changeScript
        /\ t.outputs = tx.outputs /\ t.changeIndex = tx.changeIndex
    BY <1>0, ArgumentsAssumption DEF Transactions
  <2> HIDE DEF t
  <2>2. Part(client, t)
    BY <2>1, PaymentsSame DEF Part, Known
  <2> QED BY <1>5, <1>c, <1>v, <2>1, <2>2 DEF Fee, t
<1>6. ASSUME NEW r \in FeeRates, FeePerKb(r) PROVE Goal
  <2> DEFINE t == [tx EXCEPT !.feePerKb = r]
  <2>1. /\ t \in Transactions /\ t.inputs = tx.inputs /\ t.changeScript = tx.changeScript
        /\ t.outputs = tx.outputs /\ t.changeIndex = tx.changeIndex
    BY <1>0, ArgumentsAssumption DEF Transactions
  <2> HIDE DEF t
  <2>2. Part(client, t)
    BY <2>1, PaymentsSame DEF Part, Known
  <2> QED BY <1>6, <1>c, <1>v, <2>1, <2>2 DEF FeePerKb, t
<1>7. ASSUME NEW s \in ChangeScripts, Change(s) PROVE Goal
  <2> DEFINE t == [tx EXCEPT !.changeScript = s]
  <2>1. /\ t \in Transactions /\ t.inputs = tx.inputs /\ t.changeScript = s
        /\ t.outputs = tx.outputs /\ t.changeIndex = tx.changeIndex
    BY <1>0 DEF Transactions
  <2> HIDE DEF t
  <2>2. tx' = UpdateChangeOutput(t).tx /\ Changes
    BY <1>7, <1>c DEF Change, t
  <2>3. s # Undefined
    BY ArgumentsAssumption, UndefinedAssumption
  <2>4. Part(client, t)
    BY <2>1, <2>2, <2>3 DEF Part, Located, Known
  <2> QED BY <1>v, <2>1, <2>2, <2>4
<1>8. ASSUME NEW o \in Payments, AddOutput(o)
      PROVE  Part(client, tx') /\ PaymentOutputs(tx') = Append(PaymentOutputs(tx), o)
  <2> DEFINE t == [tx EXCEPT !.outputs = Append(@, o), !.outputAmount = Undefined]
  <2>0. o \in Outputs
    BY ArgumentsAssumption
  <2>1. Append(tx.outputs, o) \in Seq(Outputs)
    BY <1>0, <2>0
  <2>2. /\ t \in Transactions /\ t.inputs = tx.inputs /\ t.changeScript = tx.changeScript
        /\ t.outputs = Append(tx.outputs, o) /\ t.changeIndex = tx.changeIndex
    BY <1>0, <2>1 DEF Transactions
  <2>3. tx' = UpdateChangeOutput(t).tx
    BY <1>8, <1>c DEF AddOutput
  <2> HIDE DEF t
  <2>4. Located(t) /\ PaymentOutputs(t) = Append(PaymentOutputs(tx), o)
    BY <1>0, <2>0, <2>2, AddedPayment DEF Part
  <2>5. Part(client, t)
    BY <2>2, <2>4 DEF Part, Known
  <2> QED BY <1>u, <2>2, <2>3, <2>4, <2>5
<1>9. ASSUME ClearOutputs PROVE Part(client, tx') /\ PaymentOutputs(tx') = <<>>
  <2> DEFINE emptied == [tx EXCEPT !.outputs = <<>>]
             cleared == ClearSignatures(emptied)
             reset == [cleared EXCEPT !.outputAmount = Undefined, !.changeIndex = Undefined]
  <2>0. ~Changes
    BY <1>9, <1>a, <1>c DEF ClearOutputs
  <2>1. /\ emptied \in Transactions /\ emptied.outputs = <<>>
        /\ emptied.changeScript = tx.changeScript /\ emptied.changeIndex = tx.changeIndex
    <3>1. <<>> \in Seq(Outputs)
      OBVIOUS
    <3> QED BY <1>0, <3>1 DEF Transactions
  <2> HIDE DEF emptied
  <2>2. /\ cleared \in Transactions /\ cleared.changeScript = Undefined
        /\ cleared.changeIndex = Undefined /\ cleared.outputs = <<>>
    BY <1>w, <2>0, <2>1, ClearSignaturesType, SameScript, LoadedPayments
  <2> HIDE DEF cleared
  <2>3. /\ reset \in Transactions /\ reset.changeScript = Undefined
        /\ reset.changeIndex = Undefined /\ reset.outputs = <<>>
    BY <2>2 DEF Transactions
  <2> HIDE DEF reset
  <2>4. ASSUME NEW t \in {cleared, reset}
        PROVE  Part(client, t) /\ PaymentOutputs(t) = <<>>
    BY <2>0, <2>2, <2>3, PaymentsType DEF Part, Located
  <2>5. tx' = cleared \/ tx' = UpdateChangeOutput(reset).tx
    BY <1>9, <1>000, <1>c DEF ClearOutputs, emptied, cleared, reset
  <2> QED BY <1>u, <2>3, <2>4, <2>5
<1> DEFINE Removed(i) ==
             IF i \in DOMAIN tx.outputs
             THEN \E j \in DOMAIN PaymentOutputs(tx) :
                    /\ PaymentOutputs(tx)[j] = tx.outputs[i]
                    /\ PaymentOutputs(tx') = RemoveAt(PaymentOutputs(tx), j)
             ELSE PaymentOutputs(tx') = PaymentOutputs(tx)
<1>10. ASSUME NEW i \in 1 .. MaxOutputs + 1, RemoveOutput(i)
       PROVE  Part(client, tx') /\ Removed(i)
  <2> DEFINE t == RemoveOutputAt(tx, i)
  <2>0. ~Changes
    BY <1>10, <1>a, <1>c DEF RemoveOutput
  <2>1. /\ t \in Transactions /\ t.changeScript = Undefined /\ t.changeIndex = Undefined
        /\ t.outputs = IF i \in DOMAIN tx.outputs THEN RemoveAt(tx.outputs, i) ELSE tx.outputs
    <3>1. t \in Transactions
      BY <1>0, RemoveOutputAtType
    <3> QED BY <1>0, <1>w, <2>0, <3>1 DEF RemoveOutputAt, Transactions
  <2>2. tx' = UpdateChangeOutput(t).tx
    BY <1>10, <1>c DEF RemoveOutput
  <2> HIDE DEF t
  <2>3. PaymentOutputs(t) = t.outputs /\ PaymentOutputs(tx) = tx.outputs
    BY <1>w, <2>0, <2>1, PaymentsType
  <2>4. Part(client, t)
    BY <2>0, <2>1 DEF Part, Located
  <2>5. Part(client, tx') /\ PaymentOutputs(tx') = t.outputs
    BY <1>u, <2>1, <2>2, <2>3, <2>4
  <2> QED BY <2>1, <2>3, <2>5
<1>11. ASSUME NEW i \in 1 .. MaxOutputs + 1, RemoveLaterOutput(i)
       PROVE  Part(client, tx') /\ Removed(i)
  <2> DEFINE t == RemoveOutputAt(tx, i)
  <2>1. i \in DOMAIN tx.outputs /\ (tx.changeIndex # Undefined => i > tx.changeIndex)
    BY <1>11 DEF RemoveLaterOutput
  <2>2. /\ t \in Transactions /\ t.inputs = tx.inputs /\ t.changeScript = tx.changeScript
        /\ t.outputs = RemoveAt(tx.outputs, i) /\ t.changeIndex = tx.changeIndex
    <3>1. t \in Transactions
      BY <1>0, RemoveOutputAtType
    <3> QED BY <1>0, <2>1, <3>1 DEF RemoveOutputAt, Transactions
  <2>3. tx' = UpdateChangeOutput(t).tx
    BY <1>11, <1>c DEF RemoveLaterOutput
  <2> HIDE DEF t
  <2>4. /\ Located(t)
        /\ \E j \in DOMAIN PaymentOutputs(tx) :
             /\ PaymentOutputs(tx)[j] = tx.outputs[i]
             /\ PaymentOutputs(t) = RemoveAt(PaymentOutputs(tx), j)
    BY <1>0, <2>1, <2>2, RemovedPayment DEF Part
  <2>5. Part(client, t)
    BY <2>2, <2>4 DEF Part, Known
  <2>6. Part(client, tx') /\ PaymentOutputs(tx') = PaymentOutputs(t)
    BY <1>u, <2>2, <2>3, <2>5
  <2> QED BY <2>1, <2>4, <2>6
<1>12. ASSUME NEW p \in Orders(Len(tx.outputs)), SortOutputs(p) PROVE Goal
  <2>1. tx' = NewOutputOrder(tx, Reorder(tx.outputs, p))
    BY <1>000, <1>c, <1>12 DEF SortOutputs
  <2> QED BY <1>0, <2>1, ReorderedOutputsPart
<1>13. ASSUME SortOutputsBadly PROVE Goal
  BY <1>000, <1>c, <1>s, <1>13 DEF SortOutputsBadly
<1>15. ASSUME NEW p \in Orders(Len(tx.inputs)), SortInputs(p) PROVE Goal
  <2> DEFINE sorted == ClearSignatures([tx EXCEPT !.inputs = Reorder(tx.inputs, p)])
  <2>1. /\ sorted \in Transactions /\ Part(client, sorted)
        /\ sorted.outputs = tx.outputs /\ sorted.changeIndex = tx.changeIndex
    BY ReorderedPart
  <2> HIDE DEF sorted
  <2>2. tx' = sorted
    BY <1>000, <1>c, <1>15 DEF SortInputs, sorted
  <2> QED BY <1>k, <2>1, <2>2, PaymentsSame
<1>16. ASSUME NEW p \in Orders(Len(tx.inputs)), NEW q \in Orders(Len(tx.outputs)), Sort(p, q)
       PROVE  Goal
  <2> DEFINE sorted == ClearSignatures([tx EXCEPT !.inputs = Reorder(tx.inputs, p)])
  <2>1. /\ sorted \in Transactions /\ Part(client, sorted)
        /\ sorted.outputs = tx.outputs /\ sorted.changeIndex = tx.changeIndex
    BY ReorderedPart
  <2>2. tx' = sorted \/ tx' = NewOutputOrder(sorted, Reorder(tx.outputs, q))
    BY <1>000, <1>c, <1>16 DEF Sort
  <2> HIDE DEF sorted
  <2>3. q \in Orders(Len(sorted.outputs)) /\ PaymentOutputs(sorted) = PaymentOutputs(tx)
    BY <2>1, PaymentsSame
  <2>4. CASE tx' = sorted
    BY <1>k, <2>1, <2>3, <2>4
  <2>5. CASE tx' = NewOutputOrder(sorted, Reorder(sorted.outputs, q))
    BY <2>1, <2>3, <2>5, ReorderedOutputsPart
  <2> QED BY <2>1, <2>2, <2>4, <2>5
<1>17. ASSUME NEW date \in BOOLEAN, NEW time \in LockTimes, LockUntil(date, time)
       PROVE  Goal
  <2> DEFINE inputs == [i \in DOMAIN tx.inputs |->
                IF tx.inputs[i].sequenceNumber = DEFAULT_SEQNUMBER
                THEN [tx.inputs[i] EXCEPT !.sequenceNumber = DEFAULT_LOCKTIME_SEQNUMBER]
                ELSE tx.inputs[i]]
             u == [tx EXCEPT !.nLockTime = time, !.inputs = inputs]
  <2>1. /\ DOMAIN inputs = DOMAIN tx.inputs
        /\ \A i \in DOMAIN tx.inputs : inputs[i].satoshis = tx.inputs[i].satoshis
    BY <1>00 DEF Inputs
  <2> HIDE DEF inputs
  <2>2. /\ u.inputs = inputs /\ u.changeScript = tx.changeScript
        /\ u.outputs = tx.outputs /\ u.changeIndex = tx.changeIndex
    BY <1>0 DEF Transactions
  <2> HIDE DEF u
  <2>3. tx' = tx \/ tx' = u
    BY <1>000, <1>c, <1>17 DEF LockUntil, u, inputs
  <2> QED BY <1>s, <1>m, <2>1, <2>2, <2>3
<1>18. ASSUME NEW key \in PrivateKeys, NEW sigtype \in SigTypes, Sign(key, sigtype)
       PROVE  Goal
  <2> DEFINE Signed(i) == /\ key \in tx.inputs[i].keys
                          /\ \A j \in 1 .. i : ~(/\ key \in tx.inputs[j].keys
                                                 /\ IsMultiSig(tx.inputs[j])
                                                 /\ InputFullySigned(tx.inputs[j]))
             inputs == [i \in DOMAIN tx.inputs |->
                          IF Signed(i)
                          THEN [tx.inputs[i] EXCEPT !.sigs[key] = Signature(tx, sigtype, i)]
                          ELSE tx.inputs[i]]
             u == [tx EXCEPT !.inputs = inputs]
  <2>1. /\ DOMAIN inputs = DOMAIN tx.inputs
        /\ \A i \in DOMAIN tx.inputs : inputs[i].satoshis = tx.inputs[i].satoshis
    BY <1>00 DEF Inputs
  <2> HIDE DEF inputs
  <2>2. /\ u.inputs = inputs /\ u.changeScript = tx.changeScript
        /\ u.outputs = tx.outputs /\ u.changeIndex = tx.changeIndex
    BY <1>0 DEF Transactions
  <2> HIDE DEF u
  <2>3. tx' = tx \/ tx' = u
    BY <1>000, <1>c, <1>18 DEF Sign, u, inputs
  <2> QED BY <1>s, <1>m, <2>1, <2>2, <2>3
<1>19. ASSUME NEW key, NEW sigtype, GetSignatures(key, sigtype) PROVE Goal
  BY <1>s, <1>19 DEF GetSignatures
<1>20. ASSUME ApplySignature PROVE Goal
  <2> DEFINE i == detached.inputIndex
             u == [tx EXCEPT !.inputs[i].sigs[detached.publicKey] = detached.signature]
  <2>1. /\ u.changeScript = tx.changeScript
        /\ u.outputs = tx.outputs /\ u.changeIndex = tx.changeIndex
        /\ DOMAIN u.inputs = DOMAIN tx.inputs
        /\ \A j \in DOMAIN tx.inputs : u.inputs[j].satoshis = tx.inputs[j].satoshis
    BY <1>0, <1>00 DEF Transactions, Inputs
  <2> HIDE DEF u
  <2>2. tx' = tx \/ tx' = u
    BY <1>000, <1>c, <1>20 DEF ApplySignature, u
  <2> QED BY <1>s, <1>m, <2>1, <2>2
<1>21. ASSUME ReadInputAmount \/ ReadFee \/ \E opts \in SerializeOpts : Serialize(opts)
       PROVE  Goal
  <2>1. tx' = tx \/ tx' = LoadInputAmount(tx) \/ tx' = LoadAmounts(tx)
    BY <1>000, <1>c, <1>21 DEF ReadInputAmount, ReadFee, Serialize
  <2>2. /\ tx'.inputs = tx.inputs /\ tx'.outputs = tx.outputs
        /\ tx'.changeScript = tx.changeScript /\ tx'.changeIndex = tx.changeIndex
    BY <1>0, <2>1, SameInputs, SameScript, LoadedPayments
  <2> QED BY <1>m, <2>2
<1>24. ASSUME Reload PROVE Goal
  <2> DEFINE inputs == [i \in DOMAIN tx.inputs |->
                          IF HasOutput(tx.inputs[i]) THEN tx.inputs[i]
                          ELSE [tx.inputs[i] EXCEPT !.class = "Input"]]
             copy == [tx EXCEPT
                        !.changeIndex = IF @ = 1 THEN Undefined ELSE @,
                        !.fee = IF @ = 0 THEN Undefined ELSE @,
                        !.feePerKb = Undefined,
                        !.inputAmount = Undefined, !.outputAmount = Undefined]
             u == [copy EXCEPT !.inputs = inputs]
  <2>0. ~Changes
    BY <1>24, <1>a, <1>c DEF Reload
  <2>1. /\ DOMAIN inputs = DOMAIN tx.inputs
        /\ \A i \in DOMAIN tx.inputs : inputs[i].satoshis = tx.inputs[i].satoshis
    BY <1>00 DEF Inputs
  <2> HIDE DEF inputs
  <2>2. /\ copy \in Transactions /\ copy.inputs = tx.inputs
        /\ copy.changeScript = tx.changeScript /\ copy.outputs = tx.outputs
        /\ copy.changeIndex = tx.changeIndex
    <3>1. tx.changeIndex = Undefined
      BY <1>w, <2>0
    <3>2. tx.fee \in Nat \cup {Undefined}
      BY <1>0 DEF Transactions
    <3> DEFINE fee == IF tx.fee = 0 THEN Undefined ELSE tx.fee
               index == IF tx.changeIndex = 1 THEN Undefined ELSE tx.changeIndex
    <3>3. fee \in Nat \cup {Undefined} /\ index = Undefined
      BY <3>1, <3>2
    <3>4. copy = [tx EXCEPT !.changeIndex = index, !.fee = fee, !.feePerKb = Undefined,
                            !.inputAmount = Undefined, !.outputAmount = Undefined]
      OBVIOUS
    <3> HIDE DEF fee, index, copy
    <3>5. copy \in Transactions
      BY <1>0, <3>3, <3>4 DEF Transactions
    <3>6. /\ copy.inputs = tx.inputs /\ copy.changeScript = tx.changeScript
          /\ copy.outputs = tx.outputs /\ copy.changeIndex = index
      BY Zenon, <1>0, <3>4 DEF Transactions
    <3> QED BY Zenon, <3>1, <3>3, <3>5, <3>6
  <2> HIDE DEF copy
  <2>3. /\ u.inputs = inputs /\ u.changeScript = tx.changeScript
        /\ u.outputs = tx.outputs /\ u.changeIndex = tx.changeIndex
    BY <2>2 DEF Transactions
  <2> HIDE DEF u
  <2>4. tx' = tx \/ tx' = u
    BY <1>000, <1>c, <1>24, <2>2 DEF Reload, u, copy, inputs
  <2> QED BY <1>s, <1>m, <2>1, <2>3, <2>4
<1>25. ASSUME Reparse PROVE Goal
  <2> DEFINE inputs == [i \in DOMAIN tx.inputs |->
                         [tx.inputs[i] EXCEPT !.class = "Input", !.satoshis = Undefined]]
             u == [EmptyTransaction EXCEPT !.inputs = inputs, !.outputs = tx.outputs,
                                           !.nLockTime = tx.nLockTime]
  <2>0. ~Changes
    BY <1>25, <1>a, <1>c DEF Reparse
  <2> HIDE DEF inputs
  <2>1. u.changeScript = Undefined /\ u.changeIndex = Undefined /\ u.outputs = tx.outputs
    BY DEF EmptyTransaction
  <2> HIDE DEF u
  <2>2. tx' = u
    BY <1>c, <1>25 DEF Reparse, Return, u, inputs
  <2>3. PaymentOutputs(tx') = PaymentOutputs(tx)
    BY <1>n, <1>w, <2>0, <2>1, <2>2, PaymentsType
  <2>4. Part(client, tx')
    BY <2>0, <2>1, <2>2 DEF Part, Located
  <2> QED BY <1>k, <2>3, <2>4
<1>26. ASSUME UNCHANGED vars PROVE Goal
  BY <1>s, <1>26 DEF vars
<1> HIDE DEF Goal, Removed
<1>27. OtherCall => Goal
  BY <1>1, <1>2, <1>3, <1>4, <1>5, <1>6, <1>7, <1>12, <1>13, <1>15, <1>16, <1>17, <1>18,
     <1>19, <1>20, <1>21, <1>24, <1>25
  DEF OtherCall
<1>28. Part(client, tx')
  BY <1>8, <1>9, <1>10, <1>11, <1>26, <1>27 DEF Next, PaymentCall, Goal
<1>29. Moved(PaymentOutputs(tx), PaymentOutputs(tx'))
  BY <1>8, <1>9, <1>10, <1>11, <1>27 DEF Moved, Goal, Removed
<1> QED BY <1>28, <1>29

-----------------------------------------------------------------------------
(* The promise *)

\* What the requests of Payments do to the bag of a sequence
LEMMA KeptBag ==
  ASSUME NEW s \in Seq(Outputs), NEW u \in Seq(Outputs), Kept(s, u)
  PROVE  BagOf(u) = BagOf(s)
BY SameBag DEF Kept

LEMMA AppendedBag ==
  ASSUME NEW s \in Seq(Outputs), NEW o \in Outputs
  PROVE  BagOf(Append(s, o)) = AdjustedBag(BagOf(s), o, 1)
<1>1. \A p : N(Append(s, o), p) = IF p = o THEN N(s, p) + 1 ELSE N(s, p)
  BY CountAppend
<1> DEFINE u == Append(s, o)
<1>2. u \in Seq(Outputs)
  OBVIOUS
<1>3. \A p : N(s, p) \in Nat
  BY CountType
<1>4. N(u, o) = N(s, o) + 1 /\ \A p : p # o => N(u, p) = N(s, p)
  BY <1>1, <1>3
<1> HIDE DEF u
<1>5. BagOf(u) = AdjustedBag(BagOf(s), o, 1)
  BY <1>2, <1>4, ChangedBag
<1> QED BY <1>5 DEF u

LEMMA RemovedBag ==
  ASSUME NEW s \in Seq(Outputs), NEW j \in DOMAIN s
  PROVE  /\ CountIn(BagOf(s), s[j]) > 0
         /\ BagOf(RemoveAt(s, j)) = AdjustedBag(BagOf(s), s[j], -1)
<1> DEFINE u == RemoveAt(s, j)
           o == s[j]
<1>1. j \in 1 .. Len(s) /\ o \in ToSet(s)
  BY DEF ToSet
<1>2. u \in Seq(Outputs)
  BY <1>1, RemoveAtElements
<1>3. \A p : N(u, p) = IF p = o THEN N(s, p) - 1 ELSE N(s, p)
  BY <1>1, CountRemove
<1>4. \A p : N(s, p) \in Nat
  BY CountType
<1>5. N(u, o) = N(s, o) + -1 /\ \A p : p # o => N(u, p) = N(s, p)
  BY <1>3, <1>4
<1>6. CountIn(BagOf(s), o) = N(s, o) /\ N(s, o) > 0
  BY <1>1, CountType DEF CountIn, BagOf, N, At
<1> HIDE DEF o, u
<1>7. BagOf(u) = AdjustedBag(BagOf(s), o, -1)
  BY <1>2, <1>5, ChangedBag
<1> QED BY <1>6, <1>7 DEF o, u

LEMMA MovedBag ==
  ASSUME TypeOK, [Next]_vars, Moved(PaymentOutputs(tx), PaymentOutputs(tx'))
  PROVE  AsRequested
<1> DEFINE s == PaymentOutputs(tx)
           u == PaymentOutputs(tx')
<1>1. s \in Seq(Outputs) /\ u \in Seq(Outputs)
  BY NextType, PaymentsType DEF TypeOK
<1>2. Owed = BagOf(s) /\ Owed' = BagOf(u)
  BY DEF Owed
<1>3. ASSUME NEW o \in Payments, AddOutput(o) PROVE Promise!Pay(o)
  <2>1. u = Append(s, o) /\ o \in Outputs
    BY <1>3, ArgumentsAssumption DEF Moved
  <2> HIDE DEF s, u
  <2>2. Owed' = AdjustedBag(Owed, o, 1)
    BY <1>1, <1>2, <2>1, AppendedBag
  <2> QED BY <2>2 DEF Promise!Pay, Promise!Adjusted, Promise!Count, AdjustedBag, CountIn
<1>4. ASSUME NEW i \in 1 .. MaxOutputs + 1, RemoveOutput(i) \/ RemoveLaterOutput(i)
      PROVE  IF i \in DOMAIN tx.outputs THEN Promise!TakeBack(tx.outputs[i]) ELSE Promise!Keep
  <2>1. CASE i \in DOMAIN tx.outputs
    <3>1. PICK j \in DOMAIN s : s[j] = tx.outputs[i] /\ u = RemoveAt(s, j)
      BY <1>4, <2>1 DEF Moved
    <3> DEFINE o == tx.outputs[i]
    <3> HIDE DEF s, u, o
    <3>2. CountIn(Owed, o) > 0 /\ Owed' = AdjustedBag(Owed, o, -1)
      BY <1>1, <1>2, <3>1, RemovedBag DEF o
    <3>3. Promise!TakeBack(o)
      BY <3>2 DEF Promise!TakeBack, Promise!Adjusted, Promise!Count, AdjustedBag, CountIn
    <3> QED BY <2>1, <3>3 DEF o
  <2>2. CASE i \notin DOMAIN tx.outputs
    <3>1. u = s
      BY <1>4, <2>2 DEF Moved
    <3> HIDE DEF s, u
    <3> QED BY <1>2, <2>2, <3>1 DEF Promise!Keep
  <2> QED BY <2>1, <2>2
<1>5. ClearOutputs => Promise!Clear
  <2>1. ClearOutputs => u = <<>>
    BY DEF Moved
  <2>2. BagOf(<<>>) = <<>>
    BY DEF BagOf, ToSet
  <2> HIDE DEF u
  <2> QED BY <1>2, <2>1, <2>2 DEF Promise!Clear
<1>6. OtherCall => Promise!Keep
  <2>1. OtherCall => Kept(s, u)
    BY DEF Moved
  <2> HIDE DEF s, u
  <2>2. OtherCall => BagOf(u) = BagOf(s)
    BY <1>1, <2>1, KeptBag
  <2> QED BY <1>2, <2>2 DEF Promise!Keep
<1> HIDE DEF s, u
<1> QED BY <1>3, <1>4, <1>5, <1>6 DEF AsRequested

AskedInv == FollowsRequests(client) => Part(client, tx)

LEMMA InitAsked == Init => AskedInv
BY DEF Init, EmptyTransaction, AskedInv, Part, Located, Known

LEMMA SameClient == [Next]_vars => client' = client
BY Zenon DEF Next, PaymentCall, OtherCall, vars, Call, From, AddInput, UncheckedAddInput,
       RemoveInput, Fee, FeePerKb, Change, AddOutput, ClearOutputs, RemoveOutput,
       RemoveLaterOutput, SortOutputs, SortOutputsBadly, SortInputs, Sort, LockUntil, Sign,
       GetSignatures, ApplySignature, ReadInputAmount, ReadFee, Serialize, Reload, Reparse

LEMMA AskedStep ==
  ASSUME TypeOK, AskedInv, [Next]_vars
  PROVE  AskedInv' /\ (FollowsRequests(client) => AsRequested)
<1>1. client' = client
  BY SameClient
<1>2. CASE ~FollowsRequests(client)
  BY <1>1, <1>2 DEF AskedInv
<1>3. CASE FollowsRequests(client)
  <2>1. Part(client, tx') /\ Moved(PaymentOutputs(tx), PaymentOutputs(tx'))
    BY <1>3, PaymentStep DEF AskedInv
  <2>2. AsRequested
    BY <2>1, MovedBag
  <2> QED BY <1>1, <2>1, <2>2 DEF AskedInv
<1> QED BY <1>2, <1>3

(* Every client that follows FollowsRequests: an addOutput adds the payment it
   was given, a removeOutput takes back the one at its index, clearOutputs takes
   back all, and no other method, sorting, fees, signing and round trips among
   them, changes what is owed beside the change, whether it returns or throws
   half way. *)
THEOREM PaymentsAreAsked == Spec => [][FollowsRequests(client) => AsRequested]_vars
<1>1. Init => AskedInv
  BY InitAsked
<1>2. TypeOK /\ AskedInv /\ [Next]_vars =>
        AskedInv' /\ [FollowsRequests(client) => AsRequested]_vars
  BY AskedStep
<1> QED BY <1>1, <1>2, TypeCorrect, PTL DEF Spec

(* For every such client the change index, when there is one, names an output
   that pays a change script, also after a call threw half way. *)
THEOREM ChangeStaysLocated == Spec => [](FollowsRequests(client) => Located(tx))
<1>1. Init => AskedInv
  BY InitAsked
<1>2. TypeOK /\ AskedInv /\ [Next]_vars => AskedInv'
  BY AskedStep
<1>3. AskedInv => (FollowsRequests(client) => Located(tx))
  BY DEF AskedInv, Part
<1> QED BY <1>1, <1>2, <1>3, TypeCorrect, PTL DEF Spec

-----------------------------------------------------------------------------
(* The three clients of MCClients, for every bound, fee and lock time *)

LEMMA ThreeClientsRely ==
  ASSUME Clients = ThreeClients
  PROVE  /\ DOMAIN Clients = {"paying", "signing", "scoping"}
         /\ FollowsRequests("paying") /\ FollowsRequests("scoping")
         /\ ~FollowsRequests("signing")
         /\ SignsSafely("signing") /\ SignsSafely("scoping")
<1>1. DOMAIN Clients = {"paying", "signing", "scoping"}
  BY DEF ThreeClients
<1>2. /\ Clients["paying"].calls = PayingCalls /\ Clients["paying"].coins = CoinAndAnyone
      /\ Clients["paying"].payments = TwoPayments
  BY DEF ThreeClients
<1>3. /\ Clients["signing"].calls = SigningCalls /\ Clients["signing"].coins = CoinAndMultiSig
      /\ Clients["signing"].payments = OnePayment
  BY DEF ThreeClients
<1>4. Clients["scoping"].calls = ScopingCalls /\ Clients["scoping"].payments = TwoPayments
  BY DEF ThreeClients
<1>5. \A u \in CoinAndAnyone : HasOutput(u)
  BY UndefinedAssumption DEF CoinAndAnyone, P2PKH, AnyoneCanSpend, HasOutput
<1>6. \A u \in CoinAndMultiSig : HasOutput(u) /\ Subclassed(u)
  BY UndefinedAssumption DEF CoinAndMultiSig, P2PKH, P2SH, HasOutput, Subclassed
<1>7. FollowsRequests("paying")
  BY <1>2, <1>5 DEF FollowsRequests, PayingCalls
<1>8. FollowsRequests("scoping") /\ SignsSafely("scoping")
  BY <1>4 DEF FollowsRequests, SignsSafely, ScopingCalls
<1>9. ~FollowsRequests("signing")
  BY <1>3 DEF FollowsRequests, SigningCalls
<1>10. SignsSafely("signing")
  BY <1>3, <1>6 DEF SignsSafely, SigningCalls
<1> QED BY <1>1, <1>7, <1>8, <1>9, <1>10

(* The paying and the scoping client of MCClients: their payments follow their
   requests, however many inputs they add and calls they make. *)
THEOREM ThreeClientsPayments == ASSUME Clients = ThreeClients PROVE Spec => PaymentsFollowRequests
<1>1. TypeOK => (client # "signing" => FollowsRequests(client))
  BY ThreeClientsRely DEF TypeOK
<1>2. TypeOK /\ [FollowsRequests(client) => AsRequested]_vars =>
        [client # "signing" => AsRequested]_vars
  BY <1>1
<1> QED BY <1>2, TypeCorrect, PaymentsAreAsked, PTL DEF PaymentsFollowRequests

(* What each of the three clients relies on: the change output stays where the
   index says for the one whose calls throw half way, and no stale signature
   survives for the others.  There is one change script: when a second change()
   with another script throws, the output still pays the first one, and
   _checkConsistency would object. *)
THEOREM ThreeClientsRelyOn ==
  ASSUME Clients = ThreeClients, \A s, t \in ChangeScripts : s = t
  PROVE  Spec => []ReliedOn
<1>1. TypeOK /\ AskedInv /\ (SignsSafely(client) => SignaturesFresh) => ReliedOn
  <2> SUFFICES ASSUME TypeOK, AskedInv, SignsSafely(client) => SignaturesFresh PROVE ReliedOn
    OBVIOUS
  <2>1. client \in {"paying", "signing", "scoping"}
    BY ThreeClientsRely DEF TypeOK
  <2>2. CASE client = "paying"
    <3>1. Located(tx)
      BY <2>2, ThreeClientsRely DEF AskedInv, Part
    <3>2. tx.changeScript \in ChangeScripts \cup {Undefined}
      BY DEF TypeOK, Transactions
    <3>3. ChangeOutputTracked
      BY <3>1, <3>2 DEF Located, ChangeOutputTracked
    <3> QED BY <2>2, <3>3 DEF ReliedOn
  <2>3. CASE client \in {"signing", "scoping"}
    BY <2>3, ThreeClientsRely DEF ReliedOn
  <2> QED BY <2>1, <2>2, <2>3
<1>2. Init => AskedInv
  BY InitAsked
<1>3. TypeOK /\ AskedInv /\ [Next]_vars => AskedInv'
  BY AskedStep
<1> QED BY <1>1, <1>2, <1>3, TypeCorrect, SignaturesStayFresh, PTL DEF Spec
=============================================================================

--------------------------- MODULE SignatureProofs ---------------------------
(***************************************************************************)
(* What the transaction builder promises its signers: multisig inputs      *)
(* never collect more signatures than they need, a signature outlives      *)
(* every change that its type does not cover, and no call makes the        *)
(* network ignore a lock time.                                             *)
(***************************************************************************)
EXTENDS TransactionProofs, FiniteSetTheorems

-----------------------------------------------------------------------------
(* Thresholds.  isFullySigned of a multisig input compares with = and not   *)
(* with >=, so one signature too many would make it unfinished again.       *)

Within(input) ==
  IsMultiSig(input) => Cardinality(Signers(input)) <= input.threshold

AllWithin(inputs) == \A i \in DOMAIN inputs : Within(inputs[i])

LEMMA SignersFinite ==
  ASSUME NEW input
  PROVE  /\ IsFiniteSet(Signers(input))
         /\ Cardinality(Signers(input)) \in Nat
<1> DEFINE sets == {u.keys : u \in Utxos}
<1>1. IsFiniteSet(sets)
  <2> DEFINE f == [u \in Utxos |-> u.keys]
  <2>1. f \in [Utxos -> sets] /\ \A s \in sets : \E u \in Utxos : f[u] = s
    OBVIOUS
  <2>2. f \in Surjection(Utxos, sets)
    BY <2>1 DEF Surjection
  <2> HIDE DEF f, sets
  <2> QED BY <2>2, UtxosAssumption, FS_Surjection
<1>2. \A keys \in sets : IsFiniteSet(keys)
  BY UtxosAssumption
<1>3. IsFiniteSet(PublicKeys)
  BY <1>1, <1>2, FS_UNION DEF PublicKeys
<1>4. Signers(input) \subseteq PublicKeys
  BY DEF Signers
<1> QED BY <1>3, <1>4, FS_Subset, FS_CardinalityType

\* An input without signatures, or of the base class, is within its threshold,
\* and so is one that takes over the signatures and threshold of one that is.
LEMMA UnsignedWithin ==
  ASSUME NEW input, input.threshold \in Nat, input.sigs = NoSignatures
  PROVE  Within(input)
<1>1. Signers(input) = {}
  BY DEF Signers, NoSignatures
<1> QED BY <1>1, FS_EmptySet DEF Within

LEMMA KeptWithin ==
  ASSUME NEW input, NEW kept, Within(input), kept.class \in {input.class, "Input"},
         kept.sigs = input.sigs, kept.threshold = input.threshold
  PROVE  Within(kept)
<1>1. Signers(kept) = Signers(input)
  BY DEF Signers
<1>2. IsMultiSig(kept) => IsMultiSig(input)
  BY DEF IsMultiSig
<1> QED BY <1>1, <1>2 DEF Within

LEMMA ClearedWithin ==
  ASSUME NEW t \in Transactions, AllWithin(t.inputs)
  PROVE  AllWithin(ClearSignatures(t).inputs)
<1> DEFINE cleared == [i \in DOMAIN t.inputs |->
                         IF \A j \in 1 .. i : Subclassed(t.inputs[j])
                         THEN Unsign(t.inputs[i]) ELSE t.inputs[i]]
<1>1. t.inputs \in Seq(Inputs)
  BY DEF Transactions
<1>2. ASSUME NEW i \in DOMAIN t.inputs PROVE Within(Unsign(t.inputs[i]))
  <2>1. t.inputs[i] \in Inputs
    BY <1>1
  <2>2. /\ Unsign(t.inputs[i]).sigs = NoSignatures
        /\ Unsign(t.inputs[i]).threshold \in Nat
    BY <2>1 DEF Unsign, Inputs
  <2> QED BY <2>2, UnsignedWithin
<1>3. AllWithin(cleared)
  BY <1>2 DEF AllWithin
<1>4. ClearSignatures(t).inputs = cleared
  BY DEF ClearSignatures, Transactions
<1> QED BY <1>3, <1>4

LEMMA SameInputs ==
  ASSUME NEW t \in Transactions
  PROVE  /\ LoadInputAmount(t).inputs = t.inputs
         /\ LoadAmounts(t).inputs = t.inputs
         /\ \A i : RemoveOutputAt(t, i).inputs = t.inputs
         /\ PlaceChange(t).inputs = t.inputs
         /\ \A outputs : NewOutputOrder(t, outputs).inputs = t.inputs
<1>1. \A u \in Transactions : LoadInputAmount(u).inputs = u.inputs
  BY DEF LoadInputAmount, Transactions
<1>2. \A u \in Transactions : LoadOutputAmount(u).inputs = u.inputs
  BY DEF LoadOutputAmount, Transactions
<1>3. LoadInputAmount(t) \in Transactions
  BY LoadInputAmountType
<1>4. LoadAmounts(t).inputs = t.inputs
  BY <1>1, <1>2, <1>3 DEF LoadAmounts
<1>5. \A i : RemoveOutputAt(t, i).inputs = t.inputs
  BY DEF RemoveOutputAt, Transactions
<1>6. PlaceChange(t).inputs = t.inputs
  BY DEF PlaceChange, Transactions
<1>7. \A outputs : NewOutputOrder(t, outputs).inputs = t.inputs
  BY DEF NewOutputOrder, Transactions
<1> QED BY <1>1, <1>4, <1>5, <1>6, <1>7

LEMMA UpdateWithin ==
  ASSUME NEW t \in Transactions, AllWithin(t.inputs)
  PROVE  AllWithin(UpdateChangeOutput(t).tx.inputs)
<1> DEFINE cleared == ClearSignatures(t)
           removed == IF t.changeIndex = Undefined THEN cleared
                      ELSE RemoveOutputAt(cleared, t.changeIndex)
<1>1. cleared \in Transactions /\ AllWithin(cleared.inputs)
  BY ClearSignaturesType, ClearedWithin
<1> HIDE DEF cleared
<1>2. removed \in Transactions /\ removed.inputs = cleared.inputs
  <2>1. RemoveOutputAt(cleared, t.changeIndex) \in Transactions
    BY <1>1, RemoveOutputAtType
  <2> QED BY <1>1, <2>1, SameInputs
<1> HIDE DEF removed
<1>3. /\ LoadInputAmount(removed).inputs = cleared.inputs
      /\ PlaceChange(LoadAmounts(removed)).inputs = cleared.inputs
  BY <1>2, SameInputs, LoadAmountsType
<1>4. UpdateChangeOutput(t).tx \in
        {t, cleared, LoadInputAmount(removed), PlaceChange(LoadAmounts(removed))}
  BY DEF UpdateChangeOutput, Return, Throw, cleared, removed
<1> QED BY <1>1, <1>3, <1>4

\* One more signature for an input that is not fully signed
LEMMA SignedWithin ==
  ASSUME NEW input \in Inputs, NEW key \in PublicKeys, NEW sig, Within(input),
         IsMultiSig(input) => ~InputFullySigned(input)
  PROVE  Within([input EXCEPT !.sigs[key] = sig])
<1> DEFINE signed == [input EXCEPT !.sigs[key] = sig]
<1>1. input.sigs \in [PublicKeys -> Signatures \cup {Undefined}]
      /\ input.threshold \in Nat
  BY DEF Inputs
<1>2. /\ signed.class = input.class /\ signed.threshold = input.threshold
      /\ signed.sigs = [input.sigs EXCEPT ![key] = sig]
  BY DEF Inputs
<1> HIDE DEF signed
<1>3. Signers(signed) \subseteq Signers(input) \cup {key}
  BY <1>1, <1>2 DEF Signers
<1>4. Cardinality(Signers(signed)) <= Cardinality(Signers(input)) + 1
  <2>1. IsFiniteSet(Signers(input) \cup {key})
        /\ Cardinality(Signers(input) \cup {key}) <= Cardinality(Signers(input)) + 1
    <3>1. IsFiniteSet(Signers(input)) /\ Cardinality(Signers(input)) \in Nat
      BY SignersFinite
    <3>2. /\ IsFiniteSet(Signers(input) \cup {key})
          /\ Cardinality(Signers(input) \cup {key}) =
               IF key \in Signers(input) THEN Cardinality(Signers(input))
               ELSE Cardinality(Signers(input)) + 1
      BY <3>1, FS_AddElement
    <3> QED BY <3>1, <3>2
  <2>2. Cardinality(Signers(signed)) <= Cardinality(Signers(input) \cup {key})
    BY <1>3, <2>1, FS_Subset
  <2>3. /\ Cardinality(Signers(signed)) \in Nat /\ Cardinality(Signers(input)) \in Nat
        /\ Cardinality(Signers(input) \cup {key}) \in Nat
    BY <2>1, SignersFinite, FS_CardinalityType
  <2> QED BY <2>1, <2>2, <2>3
<1>5. IsMultiSig(input) => Cardinality(Signers(input)) < input.threshold
  BY <1>1, SignersFinite DEF Within, InputFullySigned
<1>6. IsMultiSig(signed) <=> IsMultiSig(input)
  BY <1>2 DEF IsMultiSig
<1>7. Cardinality(Signers(signed)) \in Nat /\ Cardinality(Signers(input)) \in Nat
  BY SignersFinite
<1>8. Within(signed)
  BY <1>1, <1>2, <1>4, <1>5, <1>6, <1>7 DEF Within
<1> QED BY <1>8 DEF signed

LEMMA PushWithin ==
  ASSUME NEW u \in Utxos, TypeOK, AllWithin(tx.inputs)
  PROVE  AllWithin(PushInput(tx, NewInput(u)).tx.inputs)
<1> DEFINE input == NewInput(u)
           t == [tx EXCEPT !.inputs = Append(@, input), !.inputAmount = Undefined]
<1>1. tx \in Transactions /\ tx.inputs \in Seq(Inputs) /\ input \in Inputs
  BY NewInputType DEF TypeOK, Transactions
<1>2. Within(input)
  <2>1. input.sigs = NoSignatures /\ input.threshold \in Nat
    BY UtxosAssumption DEF NewInput
  <2> QED BY <2>1, UnsignedWithin
<1> HIDE DEF input
<1>3. Append(tx.inputs, input) \in Seq(Inputs) /\ AllWithin(Append(tx.inputs, input))
  BY <1>1, <1>2 DEF AllWithin
<1>4. t \in Transactions /\ t.inputs = Append(tx.inputs, input)
  BY <1>1, <1>3 DEF Transactions
<1> HIDE DEF t
<1>5. AllWithin(UpdateChangeOutput(t).tx.inputs)
  BY <1>3, <1>4, UpdateWithin
<1> QED BY <1>5 DEF PushInput, t, input

LEMMA ReorderWithin ==
  ASSUME TypeOK, AllWithin(tx.inputs), NEW p \in Orders(Len(tx.inputs))
  PROVE  LET u == [tx EXCEPT !.inputs = Reorder(@, p)]
         IN  AllWithin(ClearSignatures(u).inputs) /\ ClearSignatures(u) \in Transactions
<1> DEFINE new == Reorder(tx.inputs, p)
           u == [tx EXCEPT !.inputs = new]
<1>1. tx \in Transactions /\ tx.inputs \in Seq(Inputs)
  BY DEF TypeOK, Transactions
<1>2. /\ new \in Seq(Inputs) /\ Len(new) = Len(tx.inputs)
      /\ \A i \in 1 .. Len(tx.inputs) : /\ p[i] \in 1 .. Len(tx.inputs)
                                        /\ new[i] = tx.inputs[p[i]]
  BY <1>1, ReorderElements
<1> HIDE DEF new
<1>3. AllWithin(new)
  BY <1>1, <1>2 DEF AllWithin
<1>4. u \in Transactions /\ u.inputs = new
  BY <1>1, <1>2 DEF Transactions
<1> HIDE DEF u
<1>5. AllWithin(ClearSignatures(u).inputs) /\ ClearSignatures(u) \in Transactions
  BY <1>3, <1>4, ClearedWithin, ClearSignaturesType
<1> QED BY <1>5 DEF u, new

LEMMA WithinStep == TypeOK /\ AllWithin(tx.inputs) /\ [Next]_vars => AllWithin(tx.inputs)'
<1> SUFFICES ASSUME TypeOK, AllWithin(tx.inputs), [Next]_vars
             PROVE  AllWithin(tx'.inputs)
  BY DEF AllWithin, Within
<1> DEFINE Goal == AllWithin(tx'.inputs)
<1>0. tx \in Transactions /\ tx.inputs \in Seq(Inputs) /\ tx.outputs \in Seq(Outputs)
  BY DEF TypeOK, Transactions
<1>00. \A i \in DOMAIN tx.inputs : tx.inputs[i] \in Inputs
  BY <1>0
<1>000. /\ Return(tx).tx = tx
        /\ \A t, error : Return(t).tx = t /\ Throw(t, error).tx = t
  BY DEF Return, Throw
<1>c. \A method, result : Call(method, result) => tx' = result.tx
  BY DEF Call
<1>u. ASSUME NEW t \in Transactions, t.inputs = tx.inputs, tx' = UpdateChangeOutput(t).tx
      PROVE  Goal
  BY <1>u, UpdateWithin
<1>1. ASSUME NEW u \in Utxos, From(u) PROVE Goal
  BY <1>000, <1>c, <1>1, PushWithin DEF From
<1>2. ASSUME NEW u \in Utxos, AddInput(u) PROVE Goal
  BY <1>000, <1>c, <1>2, PushWithin DEF AddInput
<1>3. ASSUME NEW u \in Utxos, UncheckedAddInput(u) PROVE Goal
  BY <1>c, <1>3, PushWithin DEF UncheckedAddInput
<1>4. ASSUME NEW i \in 1 .. MaxInputs + 1, RemoveInput(i) PROVE Goal
  <2> DEFINE t == [tx EXCEPT !.inputs = RemoveAt(@, i), !.inputAmount = Undefined]
  <2>1. ASSUME i \in DOMAIN tx.inputs PROVE AllWithin(UpdateChangeOutput(t).tx.inputs)
    <3> DEFINE new == RemoveAt(tx.inputs, i)
    <3>0. i \in 1 .. Len(tx.inputs)
      BY <1>0, <2>1
    <3>1. /\ new \in Seq(Inputs) /\ Len(new) = Len(tx.inputs) - 1
          /\ \A j \in 1 .. Len(tx.inputs) - 1 :
               new[j] = IF j < i THEN tx.inputs[j] ELSE tx.inputs[j + 1]
      BY <1>0, <3>0, RemoveAtElements
    <3> HIDE DEF new
    <3>2. AllWithin(new)
      BY <1>0, <3>1 DEF AllWithin
    <3>3. t \in Transactions /\ t.inputs = new
      BY <1>0, <3>1 DEF Transactions, new
    <3> HIDE DEF t
    <3> QED BY <3>2, <3>3, UpdateWithin
  <2> HIDE DEF t
  <2> QED BY <1>000, <1>c, <1>4, <2>1 DEF RemoveInput, t
<1>5. ASSUME NEW f \in Fees, Fee(f) PROVE Goal
  <2>1. [tx EXCEPT !.fee = f] \in Transactions /\ [tx EXCEPT !.fee = f].inputs = tx.inputs
    BY <1>0, ArgumentsAssumption DEF Transactions
  <2> QED BY <1>5, <1>c, <1>u, <2>1 DEF Fee
<1>6. ASSUME NEW r \in FeeRates, FeePerKb(r) PROVE Goal
  <2>1. /\ [tx EXCEPT !.feePerKb = r] \in Transactions
        /\ [tx EXCEPT !.feePerKb = r].inputs = tx.inputs
    BY <1>0, ArgumentsAssumption DEF Transactions
  <2> QED BY <1>6, <1>c, <1>u, <2>1 DEF FeePerKb
<1>7. ASSUME NEW s \in ChangeScripts, Change(s) PROVE Goal
  <2>1. /\ [tx EXCEPT !.changeScript = s] \in Transactions
        /\ [tx EXCEPT !.changeScript = s].inputs = tx.inputs
    BY <1>0 DEF Transactions
  <2> QED BY <1>7, <1>c, <1>u, <2>1 DEF Change
<1>8. ASSUME NEW o \in Payments, AddOutput(o) PROVE Goal
  <2> DEFINE t == [tx EXCEPT !.outputs = Append(@, o), !.outputAmount = Undefined]
  <2>1. Append(tx.outputs, o) \in Seq(Outputs)
    BY <1>0, ArgumentsAssumption
  <2>2. t \in Transactions /\ t.inputs = tx.inputs
    BY <1>0, <2>1 DEF Transactions
  <2> HIDE DEF t
  <2> QED BY <1>8, <1>c, <1>u, <2>2 DEF AddOutput, t
<1>9. ASSUME ClearOutputs PROVE Goal
  <2> DEFINE emptied == [tx EXCEPT !.outputs = <<>>]
             cleared == ClearSignatures(emptied)
             reset == [cleared EXCEPT !.outputAmount = Undefined, !.changeIndex = Undefined]
  <2>1. emptied \in Transactions /\ AllWithin(emptied.inputs)
    <3>1. <<>> \in Seq(Outputs)
      OBVIOUS
    <3> QED BY <1>0, <3>1 DEF Transactions
  <2> HIDE DEF emptied
  <2>2. cleared \in Transactions /\ AllWithin(cleared.inputs)
    BY <2>1, ClearSignaturesType, ClearedWithin
  <2> HIDE DEF cleared
  <2>3. reset \in Transactions /\ reset.inputs = cleared.inputs
    BY <2>2 DEF Transactions
  <2> HIDE DEF reset
  <2>4. AllWithin(UpdateChangeOutput(reset).tx.inputs)
    BY <2>2, <2>3, UpdateWithin
  <2> QED BY <1>9, <1>000, <1>c, <2>2, <2>4 DEF ClearOutputs, emptied, cleared, reset
<1>10. ASSUME NEW i \in 1 .. MaxOutputs + 1, RemoveOutput(i) \/ RemoveLaterOutput(i)
       PROVE  Goal
  <2>1. RemoveOutputAt(tx, i) \in Transactions /\ RemoveOutputAt(tx, i).inputs = tx.inputs
    BY <1>0, RemoveOutputAtType, SameInputs
  <2> QED BY <1>10, <1>c, <1>u, <2>1 DEF RemoveOutput, RemoveLaterOutput
<1>12. ASSUME NEW p \in Orders(Len(tx.outputs)), SortOutputs(p) PROVE Goal
  BY <1>0, <1>000, <1>c, <1>12, SameInputs DEF SortOutputs
<1>13. ASSUME SortOutputsBadly PROVE Goal
  BY <1>000, <1>c, <1>13 DEF SortOutputsBadly
<1>15. ASSUME NEW p \in Orders(Len(tx.inputs)), SortInputs(p) PROVE Goal
  <2> DEFINE sorted == ClearSignatures([tx EXCEPT !.inputs = Reorder(tx.inputs, p)])
  <2>1. AllWithin(sorted.inputs)
    BY ReorderWithin
  <2> HIDE DEF sorted
  <2>2. tx' = sorted
    BY <1>000, <1>c, <1>15 DEF SortInputs, sorted
  <2> QED BY <2>1, <2>2
<1>16. ASSUME NEW p \in Orders(Len(tx.inputs)), NEW q \in Orders(Len(tx.outputs)), Sort(p, q)
       PROVE  Goal
  <2> DEFINE sorted == ClearSignatures([tx EXCEPT !.inputs = Reorder(tx.inputs, p)])
             outputs == Reorder(tx.outputs, q)
  <2>1. sorted \in Transactions /\ AllWithin(sorted.inputs)
    BY ReorderWithin
  <2> HIDE DEF sorted
  <2>2. NewOutputOrder(sorted, outputs).inputs = sorted.inputs
    BY <2>1, SameInputs
  <2>3. tx' \in {sorted, NewOutputOrder(sorted, outputs)}
    BY <1>000, <1>c, <1>16 DEF Sort, sorted
  <2> QED BY <2>1, <2>2, <2>3
<1>17. ASSUME NEW date \in BOOLEAN, NEW time \in LockTimes, LockUntil(date, time)
       PROVE  Goal
  <2> DEFINE inputs == [i \in DOMAIN tx.inputs |->
                IF tx.inputs[i].sequenceNumber = DEFAULT_SEQNUMBER
                THEN [tx.inputs[i] EXCEPT !.sequenceNumber = DEFAULT_LOCKTIME_SEQNUMBER]
                ELSE tx.inputs[i]]
  <2>1. ASSUME NEW i \in DOMAIN inputs PROVE Within(inputs[i])
    <3>1. tx.inputs[i] \in Inputs /\ Within(tx.inputs[i])
      BY <1>00, <2>1 DEF AllWithin
    <3>2. /\ inputs[i].class = tx.inputs[i].class
          /\ inputs[i].sigs = tx.inputs[i].sigs
          /\ inputs[i].threshold = tx.inputs[i].threshold
      BY <3>1 DEF Inputs
    <3> HIDE DEF inputs
    <3> QED BY <3>1, <3>2, KeptWithin
  <2> HIDE DEF inputs
  <2>2. AllWithin(inputs)
    BY <2>1 DEF AllWithin
  <2>3. tx' = tx \/ tx' = [tx EXCEPT !.nLockTime = time, !.inputs = inputs]
    BY <1>000, <1>c, <1>17 DEF LockUntil, inputs
  <2>4. [tx EXCEPT !.nLockTime = time, !.inputs = inputs].inputs = inputs
    BY <1>0 DEF Transactions
  <2> QED BY <2>2, <2>3, <2>4
<1>18. ASSUME NEW key \in PrivateKeys, NEW sigtype \in SigTypes, Sign(key, sigtype)
       PROVE  Goal
  <2> DEFINE Stuck(i) == /\ key \in tx.inputs[i].keys
                         /\ IsMultiSig(tx.inputs[i])
                         /\ InputFullySigned(tx.inputs[i])
             Signed(i) == /\ key \in tx.inputs[i].keys
                          /\ \A j \in 1 .. i : ~Stuck(j)
             sig(i) == Signature(tx, sigtype, i)
             inputs == [i \in DOMAIN tx.inputs |->
                          IF Signed(i) THEN [tx.inputs[i] EXCEPT !.sigs[key] = sig(i)]
                          ELSE tx.inputs[i]]
  <2>1. ASSUME NEW i \in DOMAIN tx.inputs, Signed(i)
        PROVE  Within([tx.inputs[i] EXCEPT !.sigs[key] = sig(i)])
    <3>1. tx.inputs[i] \in Inputs /\ Within(tx.inputs[i]) /\ i \in 1 .. i
      BY <1>0, <1>00 DEF AllWithin
    <3>2. key \in PublicKeys
      BY <2>1, <3>1 DEF Inputs, KeySets, PublicKeys
    <3>3. ~Stuck(i)
      BY <2>1, <3>1
    <3>4. IsMultiSig(tx.inputs[i]) => ~InputFullySigned(tx.inputs[i])
      BY <2>1, <3>3
    <3> HIDE DEF sig
    <3> QED BY <3>1, <3>2, <3>4, SignedWithin
  <2>2. AllWithin(inputs)
    BY <2>1 DEF AllWithin
  <2>3. tx' = tx \/ tx' = [tx EXCEPT !.inputs = inputs]
    BY <1>000, <1>c, <1>18 DEF Sign
  <2> HIDE DEF inputs
  <2>4. [tx EXCEPT !.inputs = inputs].inputs = inputs
    BY <1>0 DEF Transactions
  <2> QED BY <2>2, <2>3, <2>4
<1>19. ASSUME NEW key \in PrivateKeys, NEW sigtype \in SigTypes, GetSignatures(key, sigtype)
       PROVE  Goal
  BY <1>19 DEF GetSignatures
<1>20. ASSUME ApplySignature PROVE Goal
  <2> DEFINE i == detached.inputIndex
             key == detached.publicKey
             signed == [tx.inputs[i] EXCEPT !.sigs[key] = detached.signature]
             applied == [tx EXCEPT !.inputs[i].sigs[key] = detached.signature]
  <2>1. tx' = tx \/ (/\ tx' = applied /\ i \in DOMAIN tx.inputs
                     /\ (IsMultiSig(tx.inputs[i]) => ~InputFullySigned(tx.inputs[i])))
    BY <1>000, <1>c, <1>20 DEF ApplySignature
  <2>2. key \in PublicKeys
    BY <1>20 DEF ApplySignature, TypeOK, Detached
  <2>3. ASSUME i \in DOMAIN tx.inputs,
               IsMultiSig(tx.inputs[i]) => ~InputFullySigned(tx.inputs[i])
        PROVE  AllWithin(applied.inputs)
    <3>1. Within(signed)
      <4>1. tx.inputs[i] \in Inputs /\ Within(tx.inputs[i])
        BY <1>00, <2>3 DEF AllWithin
      <4> HIDE DEF i, key
      <4> QED BY <2>2, <2>3, <4>1, SignedWithin
    <3>2. applied.inputs = [tx.inputs EXCEPT ![i] = signed]
      BY <1>0 DEF Transactions
    <3> HIDE DEF signed, applied
    <3> QED BY <2>3, <3>1, <3>2 DEF AllWithin
  <2> HIDE DEF applied
  <2> QED BY <2>1, <2>3
<1>21. ASSUME ReadInputAmount PROVE Goal
  BY <1>0, <1>000, <1>c, <1>21, SameInputs DEF ReadInputAmount
<1>22. ASSUME ReadFee PROVE Goal
  BY <1>0, <1>000, <1>c, <1>22, SameInputs DEF ReadFee
<1>23. ASSUME NEW opts \in SerializeOpts, Serialize(opts) PROVE Goal
  BY <1>0, <1>000, <1>c, <1>23, SameInputs DEF Serialize
<1>24. ASSUME Reload PROVE Goal
  <2> DEFINE inputs == [i \in DOMAIN tx.inputs |->
                          IF HasOutput(tx.inputs[i]) THEN tx.inputs[i]
                          ELSE [tx.inputs[i] EXCEPT !.class = "Input"]]
  <2>1. ASSUME NEW i \in DOMAIN inputs PROVE Within(inputs[i])
    <3>1. tx.inputs[i] \in Inputs /\ Within(tx.inputs[i])
      BY <1>00, <2>1 DEF AllWithin
    <3>2. /\ inputs[i].class \in {tx.inputs[i].class, "Input"}
          /\ inputs[i].sigs = tx.inputs[i].sigs
          /\ inputs[i].threshold = tx.inputs[i].threshold
      BY <3>1 DEF Inputs
    <3> HIDE DEF inputs
    <3> QED BY <3>1, <3>2, KeptWithin
  <2> HIDE DEF inputs
  <2>2. AllWithin(inputs)
    BY <2>1 DEF AllWithin
  <2>3. tx'.inputs \in {tx.inputs, inputs}
    <3> DEFINE copy == [tx EXCEPT
                          !.changeIndex = IF @ = 1 THEN Undefined ELSE @,
                          !.fee = IF @ = 0 THEN Undefined ELSE @,
                          !.feePerKb = Undefined,
                          !.inputAmount = Undefined, !.outputAmount = Undefined]
    <3>1. copy \in Transactions /\ copy.inputs = tx.inputs
      BY <1>0 DEF Transactions
    <3> HIDE DEF copy
    <3>2. [copy EXCEPT !.inputs = inputs].inputs = inputs
      BY <3>1 DEF Transactions
    <3>3. tx' = tx \/ tx' = [copy EXCEPT !.inputs = inputs]
      BY <1>000, <1>c, <1>24, <3>1 DEF Reload, copy, inputs
    <3> QED BY <3>2, <3>3
  <2> QED BY <2>2, <2>3
<1>25. ASSUME Reparse PROVE Goal
  <2>1. ASSUME NEW i \in DOMAIN tx'.inputs PROVE tx'.inputs[i].class = "Input"
    <3> DEFINE inputs == [j \in DOMAIN tx.inputs |->
                 [tx.inputs[j] EXCEPT !.class = "Input", !.satoshis = Undefined]]
    <3>1. tx'.inputs = inputs
      BY <1>25 DEF Reparse, Call, Return, EmptyTransaction
    <3>2. tx'.inputs[i] = [tx.inputs[i] EXCEPT !.class = "Input", !.satoshis = Undefined]
          /\ tx.inputs[i] \in Inputs
      BY <1>00, <2>1, <3>1
    <3> QED BY <3>2 DEF Inputs
  <2> QED BY <2>1 DEF AllWithin, Within, IsMultiSig
<1>26. ASSUME UNCHANGED vars PROVE Goal
  BY <1>26 DEF vars
<1> HIDE DEF Goal
<1>27. Goal
  BY <1>1, <1>2, <1>3, <1>4, <1>5, <1>6, <1>7, <1>8, <1>9, <1>10, <1>12, <1>13,
     <1>15, <1>16, <1>17, <1>18, <1>19, <1>20, <1>21, <1>22, <1>23, <1>24, <1>25, <1>26
  DEF Next, PaymentCall, OtherCall
<1> QED BY <1>27 DEF Goal

(* No order of signing, detached signatures, sorting and reloading puts more
   signatures into a multisig input than its threshold, whatever the coins and
   keys: sign() and applySignature() both stop at an input that is full. *)
THEOREM MultiSigNeverOverfull == Spec => []MultiSigNotOverfull
<1>1. Init => TypeOK /\ AllWithin(tx.inputs)
  BY InitType DEF Init, EmptyTransaction, AllWithin
<1>2. TypeOK /\ AllWithin(tx.inputs) /\ [Next]_vars => TypeOK' /\ AllWithin(tx.inputs)'
  BY NextType, WithinStep
<1>3. AllWithin(tx.inputs) => MultiSigNotOverfull
  BY DEF AllWithin, Within, MultiSigNotOverfull
<1> QED BY <1>1, <1>2, <1>3, PTL DEF Spec

-----------------------------------------------------------------------------
(* What a signature covers *)

LEMMA SameSighash ==
  ASSUME TypeOK, TypeOK', NEW sigtype \in SigTypes,
         NEW i \in DOMAIN tx.inputs \cap DOMAIN tx'.inputs,
         CoveredPartUnchanged(sigtype, i)
  PROVE  Sighash(tx, sigtype, i) = Sighash(tx', sigtype, i)
<1> DEFINE Blank(t) == [j \in DOMAIN t.inputs |->
                          [outPoint |-> t.inputs[j].outPoint,
                           subscript |-> j = i,
                           sequenceNumber |->
                             IF j # i /\ sigtype.base \in {"NONE", "SINGLE"}
                             THEN "0" ELSE t.inputs[j].sequenceNumber]]
           Ins(t) == IF sigtype.anyoneCanPay THEN <<Blank(t)[i]>> ELSE Blank(t)
           Single(t) == [j \in 1 .. i |-> IF j = i THEN t.outputs[j] ELSE Undefined]
           Outs(t) == CASE sigtype.base = "ALL"    -> t.outputs
                        [] sigtype.base = "NONE"   -> <<>>
                        [] sigtype.base = "SINGLE" -> Single(t)
           Bug(t) == sigtype.base = "SINGLE" /\ i > Len(t.outputs)
<1>1. sigtype.base \in {"ALL", "NONE", "SINGLE"}
  BY ArgumentsAssumption
<1>2. /\ tx.inputs \in Seq(Inputs) /\ tx'.inputs \in Seq(Inputs)
      /\ tx.outputs \in Seq(Outputs) /\ tx'.outputs \in Seq(Outputs)
  BY DEF TypeOK, Transactions
<1>3. tx.nLockTime = tx'.nLockTime
  BY DEF CoveredPartUnchanged
<1>4. Ins(tx) = Ins(tx')
  <2> DEFINE Same(j) == /\ tx.inputs[j].outPoint = tx'.inputs[j].outPoint
                        /\ (j = i \/ sigtype.base = "ALL")
                             => tx.inputs[j].sequenceNumber = tx'.inputs[j].sequenceNumber
  <2>1. CASE sigtype.anyoneCanPay
    <3>1. Same(i)
      BY <2>1 DEF CoveredPartUnchanged
    <3>2. Blank(tx)[i] = Blank(tx')[i]
      BY <3>1
    <3> QED BY <2>1, <3>2
  <2>2. CASE ~sigtype.anyoneCanPay
    <3>1. Len(tx.inputs) = Len(tx'.inputs) /\ \A j \in DOMAIN tx.inputs : Same(j)
      BY <2>2 DEF CoveredPartUnchanged
    <3>2. DOMAIN tx.inputs = DOMAIN tx'.inputs
      BY <1>2, <3>1
    <3>3. Blank(tx) = Blank(tx')
      BY <1>1, <3>1, <3>2
    <3> QED BY <2>2, <3>3
  <2> QED BY <2>1, <2>2
<1>5. Bug(tx) <=> Bug(tx')
  <2>1. CASE sigtype.base = "SINGLE"
    <3>1. \/ i > Len(tx.outputs) /\ i > Len(tx'.outputs)
          \/ i \in DOMAIN tx.outputs \cap DOMAIN tx'.outputs
      BY <2>1 DEF CoveredPartUnchanged
    <3> QED BY <1>2, <3>1
  <2> QED BY <2>1
<1>6. ~Bug(tx) => Outs(tx) = Outs(tx')
  <2>1. CASE sigtype.base = "ALL"
    BY <2>1 DEF CoveredPartUnchanged
  <2>2. CASE sigtype.base = "NONE"
    BY <2>2
  <2>3. CASE sigtype.base = "SINGLE"
    <3>1. ~Bug(tx) => tx.outputs[i] = tx'.outputs[i]
      BY <1>2, <2>3 DEF CoveredPartUnchanged
    <3> QED BY <2>3, <3>1
  <2> QED BY <1>1, <2>1, <2>2, <2>3
<1>7. \A t : Sighash(t, sigtype, i)
              = IF Bug(t) THEN Undefined
                ELSE [inputs |-> Ins(t), outputs |-> Outs(t), nLockTime |-> t.nLockTime]
  BY DEF Sighash
<1> HIDE DEF Ins, Outs, Bug
<1> QED BY <1>3, <1>4, <1>5, <1>6, <1>7

(* A valid signature stays valid through every call that leaves alone what its
   type covers, whatever else the call changes: other outputs, other inputs or
   their sequence numbers, fees and the signatures themselves. *)
THEOREM SignaturesKeepTheirScope == Spec => SignatureScope
<1>1. TypeOK /\ TypeOK' =>
        \A i \in DOMAIN tx.inputs \cap DOMAIN tx'.inputs :
          \A k \in Signers(tx.inputs[i]) :
            LET sig == tx.inputs[i].sigs[k] IN
            (/\ tx'.inputs[i].sigs[k] = sig
             /\ IsValidSignature(tx, i, sig)
             /\ CoveredPartUnchanged(sig.sigtype, i)) => IsValidSignature(tx', i, sig)
  <2> SUFFICES ASSUME TypeOK, TypeOK',
                      NEW i \in DOMAIN tx.inputs \cap DOMAIN tx'.inputs,
                      NEW k \in Signers(tx.inputs[i]),
                      IsValidSignature(tx, i, tx.inputs[i].sigs[k]),
                      CoveredPartUnchanged(tx.inputs[i].sigs[k].sigtype, i)
               PROVE  IsValidSignature(tx', i, tx.inputs[i].sigs[k])
    OBVIOUS
  <2> DEFINE sig == tx.inputs[i].sigs[k]
  <2>1. sig \in Signatures
    <3>1. tx.inputs \in Seq(Inputs)
      BY DEF TypeOK, Transactions
    <3>2. tx.inputs[i] \in Inputs /\ k \in PublicKeys /\ sig # Undefined
      BY <3>1 DEF Signers
    <3>3. tx.inputs[i].sigs \in [PublicKeys -> Signatures \cup {Undefined}]
      BY <3>2 DEF Inputs
    <3> QED BY <3>2, <3>3
  <2>2. sig.sigtype \in SigTypes
    BY <2>1 DEF Signatures
  <2> HIDE DEF sig
  <2>3. Sighash(tx, sig.sigtype, i) = Sighash(tx', sig.sigtype, i)
    BY <2>2, SameSighash DEF sig
  <2> QED BY <2>3 DEF IsValidSignature, sig
<1> QED BY <1>1, TypeCorrect, PTL DEF SignatureScope

-----------------------------------------------------------------------------
(* Lock times *)

\* The lock time and, position by position, what it depends on
SameLock(t, u) ==
  /\ u.nLockTime = t.nLockTime
  /\ Len(u.inputs) = Len(t.inputs)
  /\ \A i \in DOMAIN t.inputs : u.inputs[i].sequenceNumber = t.inputs[i].sequenceNumber

LEMMA SameLockEffective ==
  ASSUME NEW t \in Transactions, NEW u \in Transactions, SameLock(t, u), LockEffective(t)
  PROVE  LockEffective(u)
<1>1. t.inputs \in Seq(Inputs) /\ u.inputs \in Seq(Inputs)
  BY DEF Transactions
<1>2. DOMAIN u.inputs = DOMAIN t.inputs
  BY <1>1 DEF SameLock
<1>3. t.inputs = <<>> => u.inputs = <<>>
  BY <1>1 DEF SameLock
<1> QED BY <1>2, <1>3 DEF SameLock, LockEffective

LEMMA ClearedLock ==
  ASSUME NEW t \in Transactions
  PROVE  SameLock(t, ClearSignatures(t))
<1> DEFINE cleared == [i \in DOMAIN t.inputs |->
                         IF \A j \in 1 .. i : Subclassed(t.inputs[j])
                         THEN Unsign(t.inputs[i]) ELSE t.inputs[i]]
<1>1. t.inputs \in Seq(Inputs) /\ \A i \in DOMAIN t.inputs : t.inputs[i] \in Inputs
  <2>1. t.inputs \in Seq(Inputs)
    BY DEF Transactions
  <2> QED BY <2>1
<1>2. \A input \in Inputs : Unsign(input).sequenceNumber = input.sequenceNumber
  BY DEF Unsign, Inputs
<1>3. \A i \in DOMAIN t.inputs : cleared[i].sequenceNumber = t.inputs[i].sequenceNumber
  BY <1>1, <1>2
<1> HIDE DEF cleared
<1>4. ClearSignatures(t) = [t EXCEPT !.inputs = cleared]
  BY DEF ClearSignatures, cleared
<1>5. ClearSignatures(t).inputs = cleared /\ ClearSignatures(t).nLockTime = t.nLockTime
  BY <1>4 DEF Transactions
<1>6. Len(ClearSignatures(t).inputs) = Len(t.inputs)
  BY ClearSignaturesType
<1> QED BY <1>3, <1>5, <1>6 DEF SameLock

\* What never touches the lock time
LEMMA SameLockTime ==
  ASSUME NEW t \in Transactions
  PROVE  /\ LoadInputAmount(t).nLockTime = t.nLockTime
         /\ LoadAmounts(t).nLockTime = t.nLockTime
         /\ \A i : RemoveOutputAt(t, i).nLockTime = t.nLockTime
         /\ PlaceChange(t).nLockTime = t.nLockTime
         /\ \A outputs : NewOutputOrder(t, outputs).nLockTime = t.nLockTime
<1>1. \A u \in Transactions : LoadInputAmount(u).nLockTime = u.nLockTime
  BY DEF LoadInputAmount, Transactions
<1>2. \A u \in Transactions : LoadOutputAmount(u).nLockTime = u.nLockTime
  BY DEF LoadOutputAmount, Transactions
<1>3. LoadInputAmount(t) \in Transactions
  BY LoadInputAmountType
<1>4. LoadAmounts(t).nLockTime = t.nLockTime
  BY <1>1, <1>2, <1>3 DEF LoadAmounts
<1>5. \A i : RemoveOutputAt(t, i).nLockTime = t.nLockTime
  BY DEF RemoveOutputAt, Transactions
<1>6. PlaceChange(t).nLockTime = t.nLockTime
  BY DEF PlaceChange, Transactions
<1>7. \A outputs : NewOutputOrder(t, outputs).nLockTime = t.nLockTime
  BY DEF NewOutputOrder, Transactions
<1> QED BY <1>1, <1>4, <1>5, <1>6, <1>7

LEMMA UpdateLock ==
  ASSUME NEW t \in Transactions
  PROVE  SameLock(t, UpdateChangeOutput(t).tx)
<1> DEFINE cleared == ClearSignatures(t)
           removed == IF t.changeIndex = Undefined THEN cleared
                      ELSE RemoveOutputAt(cleared, t.changeIndex)
<1>1. cleared \in Transactions /\ SameLock(t, cleared)
  BY ClearSignaturesType, ClearedLock
<1> HIDE DEF cleared
<1>2. /\ removed \in Transactions /\ removed.inputs = cleared.inputs
      /\ removed.nLockTime = cleared.nLockTime
  <2>1. RemoveOutputAt(cleared, t.changeIndex) \in Transactions
    BY <1>1, RemoveOutputAtType
  <2> QED BY <1>1, <2>1, SameInputs, SameLockTime
<1> HIDE DEF removed
<1>3. \A u \in {cleared, LoadInputAmount(removed), PlaceChange(LoadAmounts(removed))} :
        u.inputs = cleared.inputs /\ u.nLockTime = cleared.nLockTime
  BY <1>2, SameInputs, SameLockTime, LoadAmountsType
<1>4. UpdateChangeOutput(t).tx \in
        {t, cleared, LoadInputAmount(removed), PlaceChange(LoadAmounts(removed))}
  BY DEF UpdateChangeOutput, Return, Throw, cleared, removed
<1> QED BY <1>1, <1>3, <1>4 DEF SameLock

\* Sorting moves the inputs around; some input is final before and after.
LEMMA ReorderedLock ==
  ASSUME NEW t \in Transactions, NEW p \in Orders(Len(t.inputs)), LockEffective(t)
  PROVE  LET u == [t EXCEPT !.inputs = Reorder(@, p)]
         IN  u \in Transactions /\ LockEffective(u)
<1> DEFINE new == Reorder(t.inputs, p)
           u == [t EXCEPT !.inputs = new]
           n == Len(t.inputs)
<1>1. t.inputs \in Seq(Inputs) /\ n \in Nat
  BY DEF Transactions
<1>2. /\ new \in Seq(Inputs) /\ Len(new) = n
      /\ \A i \in 1 .. n : p[i] \in 1 .. n /\ new[i] = t.inputs[p[i]]
  BY <1>1, ReorderElements
<1>3. \A j \in 1 .. n : \E i \in 1 .. n : p[i] = j
  BY DEF Orders, Bijection, Surjection
<1>d. DOMAIN new = 1 .. n /\ DOMAIN t.inputs = 1 .. n
  BY <1>1, <1>2
<1> HIDE DEF new
<1>4. u \in Transactions /\ u.inputs = new /\ u.nLockTime = t.nLockTime
  BY <1>1, <1>2 DEF Transactions
<1> HIDE DEF u
<1>5. t.inputs = <<>> => new = <<>>
  BY <1>1, <1>2
<1>6. \A j \in DOMAIN t.inputs : \E i \in DOMAIN new : new[i] = t.inputs[j]
  <2> SUFFICES ASSUME NEW j \in 1 .. n PROVE \E i \in 1 .. n : new[i] = t.inputs[j]
    BY <1>d
  <2>1. PICK i \in 1 .. n : p[i] = j
    BY <1>3
  <2> QED BY <1>2, <2>1
<1>7. LockEffective(u)
  BY <1>4, <1>5, <1>6 DEF LockEffective
<1> QED BY <1>4, <1>7 DEF u, new

LEMMA LockStep ==
  TypeOK /\ [Next]_vars
    => (LockEffective(tx) /\ Len(tx.inputs) = Len(tx'.inputs) => LockEffective(tx'))
<1> SUFFICES ASSUME TypeOK, [Next]_vars, LockEffective(tx), Len(tx.inputs) = Len(tx'.inputs)
             PROVE  LockEffective(tx')
  OBVIOUS
<1> DEFINE Goal == LockEffective(tx')
<1>0. tx \in Transactions /\ tx.inputs \in Seq(Inputs) /\ tx.outputs \in Seq(Outputs)
  BY DEF TypeOK, Transactions
<1>00. \A i \in DOMAIN tx.inputs : tx.inputs[i] \in Inputs
  BY <1>0
<1>000. /\ Return(tx).tx = tx
        /\ \A t, error : Return(t).tx = t /\ Throw(t, error).tx = t
  BY DEF Return, Throw
<1>c. \A method, result : Call(method, result) => tx' = result.tx
  BY DEF Call
<1>s. ASSUME tx' = tx PROVE Goal
  BY <1>s
<1>e. ASSUME NEW t \in Transactions, LockEffective(t), tx' = UpdateChangeOutput(t).tx
      PROVE  Goal
  BY <1>e, UpdateLock, SameLockEffective, UpdateChangeOutputType
<1>u. ASSUME NEW t \in Transactions, t.inputs = tx.inputs, t.nLockTime = tx.nLockTime,
             tx' = UpdateChangeOutput(t).tx
      PROVE  Goal
  <2>1. LockEffective(t)
    BY <1>u DEF LockEffective
  <2> QED BY <1>e, <1>u, <2>1
<1>p. ASSUME NEW u \in Utxos, tx' = PushInput(tx, NewInput(u)).tx PROVE FALSE
  <2> DEFINE input == NewInput(u)
             t == [tx EXCEPT !.inputs = Append(@, input), !.inputAmount = Undefined]
  <2>1. input \in Inputs
    BY NewInputType
  <2> HIDE DEF input
  <2>2. Append(tx.inputs, input) \in Seq(Inputs)
        /\ Len(Append(tx.inputs, input)) = Len(tx.inputs) + 1
    BY <1>0, <2>1
  <2>3. t \in Transactions /\ Len(t.inputs) = Len(tx.inputs) + 1
    BY <1>0, <2>2 DEF Transactions
  <2> HIDE DEF t
  <2>4. tx' = UpdateChangeOutput(t).tx
    BY <1>p DEF PushInput, t, input
  <2>5. Len(tx'.inputs) = Len(tx.inputs) + 1
    BY <2>3, <2>4, UpdateLock DEF SameLock
  <2> QED BY <1>0, <2>5
<1>1. ASSUME NEW u \in Utxos, From(u) PROVE Goal
  BY <1>000, <1>c, <1>p, <1>s, <1>1 DEF From
<1>2. ASSUME NEW u \in Utxos, AddInput(u) PROVE Goal
  BY <1>000, <1>c, <1>p, <1>s, <1>2 DEF AddInput
<1>3. ASSUME NEW u \in Utxos, UncheckedAddInput(u) PROVE Goal
  BY <1>c, <1>p, <1>3 DEF UncheckedAddInput
<1>4. ASSUME NEW i \in 1 .. MaxInputs + 1, RemoveInput(i) PROVE Goal
  <2> DEFINE t == [tx EXCEPT !.inputs = RemoveAt(@, i), !.inputAmount = Undefined]
  <2>1. ASSUME i \in DOMAIN tx.inputs, tx' = UpdateChangeOutput(t).tx PROVE FALSE
    <3> DEFINE new == RemoveAt(tx.inputs, i)
    <3>0. i \in 1 .. Len(tx.inputs)
      BY <1>0, <2>1
    <3>1. new \in Seq(Inputs) /\ Len(new) = Len(tx.inputs) - 1
      BY <1>0, <3>0, RemoveAtElements
    <3> HIDE DEF new
    <3>2. t \in Transactions /\ t.inputs = new
      BY <1>0, <3>1 DEF Transactions, new
    <3> HIDE DEF t
    <3>3. Len(tx'.inputs) = Len(tx.inputs) - 1
      BY <2>1, <3>1, <3>2, UpdateLock DEF SameLock
    <3> QED BY <1>0, <3>3
  <2> HIDE DEF t
  <2> QED BY <1>000, <1>c, <1>s, <1>4, <2>1 DEF RemoveInput, t
<1>5. ASSUME NEW f \in Fees, Fee(f) PROVE Goal
  <2> DEFINE t == [tx EXCEPT !.fee = f]
  <2>1. t \in Transactions /\ t.inputs = tx.inputs /\ t.nLockTime = tx.nLockTime
    BY <1>0, ArgumentsAssumption DEF Transactions
  <2> HIDE DEF t
  <2> QED BY <1>5, <1>c, <1>u, <2>1 DEF Fee, t
<1>6. ASSUME NEW r \in FeeRates, FeePerKb(r) PROVE Goal
  <2> DEFINE t == [tx EXCEPT !.feePerKb = r]
  <2>1. t \in Transactions /\ t.inputs = tx.inputs /\ t.nLockTime = tx.nLockTime
    BY <1>0, ArgumentsAssumption DEF Transactions
  <2> HIDE DEF t
  <2> QED BY <1>6, <1>c, <1>u, <2>1 DEF FeePerKb, t
<1>7. ASSUME NEW s \in ChangeScripts, Change(s) PROVE Goal
  <2> DEFINE t == [tx EXCEPT !.changeScript = s]
  <2>1. t \in Transactions /\ t.inputs = tx.inputs /\ t.nLockTime = tx.nLockTime
    BY <1>0 DEF Transactions
  <2> HIDE DEF t
  <2> QED BY <1>7, <1>c, <1>u, <2>1 DEF Change, t
<1>8. ASSUME NEW o \in Payments, AddOutput(o) PROVE Goal
  <2> DEFINE t == [tx EXCEPT !.outputs = Append(@, o), !.outputAmount = Undefined]
  <2>1. Append(tx.outputs, o) \in Seq(Outputs)
    BY <1>0, ArgumentsAssumption
  <2>2. t \in Transactions /\ t.inputs = tx.inputs /\ t.nLockTime = tx.nLockTime
    BY <1>0, <2>1 DEF Transactions
  <2> HIDE DEF t
  <2> QED BY <1>8, <1>c, <1>u, <2>2 DEF AddOutput, t
<1>9. ASSUME ClearOutputs PROVE Goal
  <2> DEFINE emptied == [tx EXCEPT !.outputs = <<>>]
             cleared == ClearSignatures(emptied)
             reset == [cleared EXCEPT !.outputAmount = Undefined, !.changeIndex = Undefined]
  <2>1. emptied \in Transactions /\ LockEffective(emptied)
    <3>1. <<>> \in Seq(Outputs)
      OBVIOUS
    <3>2. emptied \in Transactions /\ emptied.inputs = tx.inputs
          /\ emptied.nLockTime = tx.nLockTime
      BY <1>0, <3>1 DEF Transactions
    <3> HIDE DEF emptied
    <3> QED BY <3>2 DEF LockEffective
  <2> HIDE DEF emptied
  <2>2. cleared \in Transactions /\ LockEffective(cleared)
    BY <2>1, ClearSignaturesType, ClearedLock, SameLockEffective
  <2> HIDE DEF cleared
  <2>3. reset \in Transactions /\ LockEffective(reset)
    <3>1. reset \in Transactions /\ reset.inputs = cleared.inputs
          /\ reset.nLockTime = cleared.nLockTime
      BY <2>2 DEF Transactions
    <3> HIDE DEF reset
    <3> QED BY <2>2, <3>1 DEF LockEffective
  <2> HIDE DEF reset
  <2>4. tx' = cleared \/ tx' = UpdateChangeOutput(reset).tx
    BY <1>9, <1>000, <1>c DEF ClearOutputs, emptied, cleared, reset
  <2> QED BY <1>e, <2>2, <2>3, <2>4
<1>10. ASSUME NEW i \in 1 .. MaxOutputs + 1, RemoveOutput(i) \/ RemoveLaterOutput(i)
       PROVE  Goal
  <2>1. /\ RemoveOutputAt(tx, i) \in Transactions /\ RemoveOutputAt(tx, i).inputs = tx.inputs
        /\ RemoveOutputAt(tx, i).nLockTime = tx.nLockTime
    BY <1>0, RemoveOutputAtType, SameInputs, SameLockTime
  <2> QED BY <1>10, <1>c, <1>u, <2>1 DEF RemoveOutput, RemoveLaterOutput
<1>12. ASSUME NEW p \in Orders(Len(tx.outputs)), SortOutputs(p) PROVE Goal
  <2>1. tx'.inputs = tx.inputs /\ tx'.nLockTime = tx.nLockTime
    BY <1>0, <1>000, <1>c, <1>12, SameInputs, SameLockTime DEF SortOutputs
  <2> QED BY <2>1 DEF LockEffective
<1>13. ASSUME SortOutputsBadly PROVE Goal
  BY <1>000, <1>c, <1>s, <1>13 DEF SortOutputsBadly
<1>14. ASSUME NEW p \in Orders(Len(tx.inputs))
       PROVE  LET sorted == ClearSignatures([tx EXCEPT !.inputs = Reorder(tx.inputs, p)])
              IN  sorted \in Transactions /\ LockEffective(sorted)
  <2> DEFINE u == [tx EXCEPT !.inputs = Reorder(tx.inputs, p)]
  <2>1. u \in Transactions /\ LockEffective(u)
    BY <1>0, ReorderedLock
  <2> HIDE DEF u
  <2>2. ClearSignatures(u) \in Transactions /\ LockEffective(ClearSignatures(u))
    BY <2>1, ClearSignaturesType, ClearedLock, SameLockEffective
  <2> QED BY <2>2 DEF u
<1>15. ASSUME NEW p \in Orders(Len(tx.inputs)), SortInputs(p) PROVE Goal
  BY <1>000, <1>c, <1>14, <1>15 DEF SortInputs
<1>16. ASSUME NEW p \in Orders(Len(tx.inputs)), NEW q \in Orders(Len(tx.outputs)), Sort(p, q)
       PROVE  Goal
  <2> DEFINE sorted == ClearSignatures([tx EXCEPT !.inputs = Reorder(tx.inputs, p)])
             outputs == Reorder(tx.outputs, q)
  <2>1. sorted \in Transactions /\ LockEffective(sorted)
    BY <1>14
  <2> HIDE DEF sorted
  <2>2. /\ NewOutputOrder(sorted, outputs).inputs = sorted.inputs
        /\ NewOutputOrder(sorted, outputs).nLockTime = sorted.nLockTime
    BY <2>1, SameInputs, SameLockTime
  <2>3. tx' = sorted \/ tx' = NewOutputOrder(sorted, outputs)
    BY <1>000, <1>c, <1>16 DEF Sort, sorted
  <2> QED BY <2>1, <2>2, <2>3 DEF LockEffective
<1>17. ASSUME NEW date \in BOOLEAN, NEW time \in LockTimes, LockUntil(date, time)
       PROVE  Goal
  <2> DEFINE inputs == [i \in DOMAIN tx.inputs |->
                IF tx.inputs[i].sequenceNumber = DEFAULT_SEQNUMBER
                THEN [tx.inputs[i] EXCEPT !.sequenceNumber = DEFAULT_LOCKTIME_SEQNUMBER]
                ELSE tx.inputs[i]]
             u == [tx EXCEPT !.nLockTime = time, !.inputs = inputs]
  <2>1. \A i \in DOMAIN tx.inputs : inputs[i].sequenceNumber # DEFAULT_SEQNUMBER
    BY <1>00 DEF Inputs, DEFAULT_SEQNUMBER, DEFAULT_LOCKTIME_SEQNUMBER
  <2>2. inputs \in [DOMAIN tx.inputs -> Inputs]
    <3>1. DEFAULT_LOCKTIME_SEQNUMBER \in SequenceNumbers
      BY DEF SequenceNumbers
    <3>2. \A input \in Inputs :
            [input EXCEPT !.sequenceNumber = DEFAULT_LOCKTIME_SEQNUMBER] \in Inputs
      BY <3>1 DEF Inputs
    <3> QED BY <1>00, <3>2
  <2> HIDE DEF inputs
  <2>3. inputs \in Seq(Inputs)
    BY <1>0, <2>2, MapType
  <2>4. u.inputs = inputs
    BY <1>0 DEF Transactions
  <2>5. LockEffective(u)
    <3>1. inputs = <<>> \/ 1 \in DOMAIN inputs
      BY <2>3
    <3> HIDE DEF u
    <3> QED BY <2>1, <2>2, <2>4, <3>1 DEF LockEffective
  <2> HIDE DEF u
  <2>6. tx' = tx \/ tx' = u
    BY <1>000, <1>c, <1>17 DEF LockUntil, u, inputs
  <2> QED BY <1>s, <2>5, <2>6
<1>18. ASSUME NEW key \in PrivateKeys, NEW sigtype \in SigTypes, Sign(key, sigtype)
       PROVE  Goal
  <2> DEFINE Signed(i) == /\ key \in tx.inputs[i].keys
                          /\ \A j \in 1 .. i : ~(/\ key \in tx.inputs[j].keys
                                                 /\ IsMultiSig(tx.inputs[j])
                                                 /\ InputFullySigned(tx.inputs[j]))
             inputs == [i \in DOMAIN tx.inputs |->
                          IF Signed(i)
                          THEN [tx.inputs[i] EXCEPT !.sigs[key] = Signature(tx, sigtype, i)]
                          ELSE tx.inputs[i]]
             u == [tx EXCEPT !.inputs = inputs]
  <2>1. \A i \in DOMAIN tx.inputs :
          inputs[i].sequenceNumber = tx.inputs[i].sequenceNumber
    BY <1>00 DEF Inputs
  <2>2. DOMAIN inputs = DOMAIN tx.inputs
    OBVIOUS
  <2>3. tx.inputs = <<>> => inputs = <<>>
    <3> SUFFICES ASSUME tx.inputs = <<>> PROVE inputs = <<>>
      OBVIOUS
    <3>1. DOMAIN tx.inputs = {}
      OBVIOUS
    <3> QED BY <3>1
  <2> HIDE DEF inputs
  <2>4. u.inputs = inputs /\ u.nLockTime = tx.nLockTime
    BY <1>0 DEF Transactions
  <2> HIDE DEF u
  <2>5. LockEffective(u)
    BY <2>1, <2>2, <2>3, <2>4 DEF LockEffective
  <2>6. tx' = tx \/ tx' = u
    BY <1>000, <1>c, <1>18 DEF Sign, u, inputs
  <2> QED BY <1>s, <2>5, <2>6
<1>19. ASSUME NEW key, NEW sigtype, GetSignatures(key, sigtype) PROVE Goal
  BY <1>s, <1>19 DEF GetSignatures
<1>20. ASSUME ApplySignature PROVE Goal
  <2> DEFINE i == detached.inputIndex
             u == [tx EXCEPT !.inputs[i].sigs[detached.publicKey] = detached.signature]
  <2>1. /\ u.nLockTime = tx.nLockTime /\ DOMAIN u.inputs = DOMAIN tx.inputs
        /\ \A j \in DOMAIN tx.inputs :
             u.inputs[j].sequenceNumber = tx.inputs[j].sequenceNumber
    BY <1>0, <1>00 DEF Transactions, Inputs
  <2>2. tx.inputs = <<>> => u.inputs = <<>>
    BY <1>0 DEF Transactions
  <2> HIDE DEF u
  <2>3. LockEffective(u)
    BY <2>1, <2>2 DEF LockEffective
  <2>4. tx' = tx \/ tx' = u
    BY <1>000, <1>c, <1>20 DEF ApplySignature, u
  <2> QED BY <1>s, <2>3, <2>4
<1>21. ASSUME ReadInputAmount \/ ReadFee \/ \E opts \in SerializeOpts : Serialize(opts)
       PROVE  Goal
  <2>1. tx' = tx \/ tx' = LoadInputAmount(tx) \/ tx' = LoadAmounts(tx)
    BY <1>000, <1>c, <1>21 DEF ReadInputAmount, ReadFee, Serialize
  <2>2. tx'.inputs = tx.inputs /\ tx'.nLockTime = tx.nLockTime
    BY <1>0, <2>1, SameInputs, SameLockTime
  <2> QED BY <2>2 DEF LockEffective
<1>24. ASSUME Reload PROVE Goal
  <2> DEFINE inputs == [i \in DOMAIN tx.inputs |->
                          IF HasOutput(tx.inputs[i]) THEN tx.inputs[i]
                          ELSE [tx.inputs[i] EXCEPT !.class = "Input"]]
             copy == [tx EXCEPT
                        !.changeIndex = IF @ = 1 THEN Undefined ELSE @,
                        !.fee = IF @ = 0 THEN Undefined ELSE @,
                        !.feePerKb = Undefined,
                        !.inputAmount = Undefined, !.outputAmount = Undefined]
             u == [copy EXCEPT !.inputs = inputs]
  <2>1. \A i \in DOMAIN tx.inputs :
          inputs[i].sequenceNumber = tx.inputs[i].sequenceNumber
    BY <1>00 DEF Inputs
  <2>2. DOMAIN inputs = DOMAIN tx.inputs
    OBVIOUS
  <2>3. tx.inputs = <<>> => inputs = <<>>
    <3> SUFFICES ASSUME tx.inputs = <<>> PROVE inputs = <<>>
      OBVIOUS
    <3>1. DOMAIN tx.inputs = {}
      OBVIOUS
    <3> QED BY <3>1
  <2> HIDE DEF inputs
  <2>4. copy \in Transactions /\ copy.inputs = tx.inputs /\ copy.nLockTime = tx.nLockTime
    BY <1>0 DEF Transactions
  <2> HIDE DEF copy
  <2>5. u.inputs = inputs /\ u.nLockTime = tx.nLockTime
    BY <2>4 DEF Transactions
  <2> HIDE DEF u
  <2>6. LockEffective(u)
    BY <2>1, <2>2, <2>3, <2>5 DEF LockEffective
  <2>7. tx' = tx \/ tx' = u
    BY <1>000, <1>c, <1>24, <2>4 DEF Reload, u, copy, inputs
  <2> QED BY <1>s, <2>6, <2>7
<1>25. ASSUME Reparse PROVE Goal
  <2> DEFINE inputs == [i \in DOMAIN tx.inputs |->
                         [tx.inputs[i] EXCEPT !.class = "Input", !.satoshis = Undefined]]
             u == [EmptyTransaction EXCEPT !.inputs = inputs, !.outputs = tx.outputs,
                                           !.nLockTime = tx.nLockTime]
  <2>1. \A i \in DOMAIN tx.inputs :
          inputs[i].sequenceNumber = tx.inputs[i].sequenceNumber
    BY <1>00 DEF Inputs
  <2>2. DOMAIN inputs = DOMAIN tx.inputs
    OBVIOUS
  <2>3. tx.inputs = <<>> => inputs = <<>>
    <3> SUFFICES ASSUME tx.inputs = <<>> PROVE inputs = <<>>
      OBVIOUS
    <3>1. DOMAIN tx.inputs = {}
      OBVIOUS
    <3> QED BY <3>1
  <2> HIDE DEF inputs
  <2>4. u.inputs = inputs /\ u.nLockTime = tx.nLockTime
    BY DEF EmptyTransaction
  <2> HIDE DEF u
  <2>5. LockEffective(u)
    BY <2>1, <2>2, <2>3, <2>4 DEF LockEffective
  <2>6. tx' = u
    BY <1>c, <1>25 DEF Reparse, Return, u, inputs
  <2> QED BY <2>5, <2>6
<1>26. ASSUME UNCHANGED vars PROVE Goal
  BY <1>s, <1>26 DEF vars
<1> HIDE DEF Goal
<1>27. Goal
  BY <1>1, <1>2, <1>3, <1>4, <1>5, <1>6, <1>7, <1>8, <1>9, <1>10, <1>12, <1>13,
     <1>15, <1>16, <1>17, <1>18, <1>19, <1>20, <1>21, <1>24, <1>25, <1>26
  DEF Next, PaymentCall, OtherCall
<1> QED BY <1>27 DEF Goal

(* While the inputs stay, no call makes the network ignore a lock time that it
   would have respected: sorting moves sequence numbers with their inputs, and
   JSON and bytes bring them back. *)
THEOREM LocksAreKept == Spec => LockKept
<1>1. TypeOK /\ [Next]_vars
        => (LockEffective(tx) /\ Len(tx.inputs) = Len(tx'.inputs) => LockEffective(tx'))
  BY LockStep
<1> QED BY <1>1, TypeCorrect, PTL DEF LockKept, Spec

-----------------------------------------------------------------------------
(* Stale signatures.  With a change address, whatever changes the transaction *)
(* clears its signatures: all methods do but sortOutputs() and lockUntil.     *)

\* A client that relies on it: its inputs can be cleared, and it does without
\* the methods that clear nothing and without a transaction read from bytes.
SignsSafely(c) ==
  LET used == Clients[c].calls IN
  "change" \in used =>
    /\ used \cap {"sortOutputs", "lockUntil", "reparse"} = {}
    /\ \A u \in Utxos \cap Clients[c].coins : Subclassed(u) /\ HasOutput(u)

Fresh(t) ==
  t.changeScript # Undefined =>
    \A i \in DOMAIN t.inputs : \A k \in Signers(t.inputs[i]) :
      IsValidSignature(t, i, t.inputs[i].sigs[k])

\* Without change() there is no change script, and with it every input is complete.
FreshFor(c, t) ==
  IF "change" \in Clients[c].calls THEN Complete(t) /\ Fresh(t)
                                   ELSE t.changeScript = Undefined

\* What never touches the change script
LEMMA SameScript ==
  ASSUME NEW t \in Transactions
  PROVE  /\ LoadInputAmount(t).changeScript = t.changeScript
         /\ LoadAmounts(t).changeScript = t.changeScript
         /\ \A i : RemoveOutputAt(t, i).changeScript = t.changeScript
         /\ PlaceChange(t).changeScript = t.changeScript
         /\ \A outputs : NewOutputOrder(t, outputs).changeScript = t.changeScript
         /\ ClearSignatures(t).changeScript = t.changeScript
<1>1. \A u \in Transactions : LoadInputAmount(u).changeScript = u.changeScript
  BY DEF LoadInputAmount, Transactions
<1>2. \A u \in Transactions : LoadOutputAmount(u).changeScript = u.changeScript
  BY DEF LoadOutputAmount, Transactions
<1>3. LoadInputAmount(t) \in Transactions
  BY LoadInputAmountType
<1>4. LoadAmounts(t).changeScript = t.changeScript
  BY <1>1, <1>2, <1>3 DEF LoadAmounts
<1>5. \A i : RemoveOutputAt(t, i).changeScript = t.changeScript
  BY DEF RemoveOutputAt, Transactions
<1>6. PlaceChange(t).changeScript = t.changeScript
  BY DEF PlaceChange, Transactions
<1>7. \A outputs : NewOutputOrder(t, outputs).changeScript = t.changeScript
  BY DEF NewOutputOrder, Transactions
<1>8. ClearSignatures(t).changeScript = t.changeScript
  BY DEF ClearSignatures, Transactions
<1> QED BY <1>1, <1>4, <1>5, <1>6, <1>7, <1>8

\* The signatures of a complete transaction can all be cleared.
LEMMA ClearedUnsigned ==
  ASSUME NEW t \in Transactions, Complete(t)
  PROVE  LET u == ClearSignatures(t)
         IN  /\ u \in Transactions /\ Complete(u)
             /\ \A i \in DOMAIN u.inputs : u.inputs[i].sigs = NoSignatures
<1> DEFINE cleared == [i \in DOMAIN t.inputs |->
                         IF \A j \in 1 .. i : Subclassed(t.inputs[j])
                         THEN Unsign(t.inputs[i]) ELSE t.inputs[i]]
<1>1. t.inputs \in Seq(Inputs) /\ \A i \in DOMAIN t.inputs : t.inputs[i] \in Inputs
  <2>1. t.inputs \in Seq(Inputs)
    BY DEF Transactions
  <2> QED BY <2>1
<1>2. ASSUME NEW i \in DOMAIN t.inputs PROVE cleared[i].sigs = NoSignatures
  <2>1. \A j \in 1 .. i : Subclassed(t.inputs[j])
    BY <1>1 DEF Complete
  <2>2. Unsign(t.inputs[i]).sigs = NoSignatures
    BY <1>1 DEF Unsign, Inputs
  <2> QED BY <2>1, <2>2
<1>3. DOMAIN cleared = DOMAIN t.inputs
  OBVIOUS
<1> HIDE DEF cleared
<1>4. ClearSignatures(t) = [t EXCEPT !.inputs = cleared]
  BY DEF ClearSignatures, cleared
<1>5. ClearSignatures(t).inputs = cleared
  BY <1>4 DEF Transactions
<1> QED BY <1>2, <1>3, <1>5, ClearSignaturesType, ClearedSame

LEMMA UnsignedFresh ==
  ASSUME NEW t, \A i \in DOMAIN t.inputs : t.inputs[i].sigs = NoSignatures
  PROVE  Fresh(t)
<1>1. \A i \in DOMAIN t.inputs : Signers(t.inputs[i]) = {}
  BY DEF Signers, NoSignatures
<1> QED BY <1>1 DEF Fresh

LEMMA UpdateFresh ==
  ASSUME NEW t \in Transactions, Complete(t)
  PROVE  /\ Complete(UpdateChangeOutput(t).tx)
         /\ Fresh(UpdateChangeOutput(t).tx)
<1> DEFINE cleared == ClearSignatures(t)
           removed == IF t.changeIndex = Undefined THEN cleared
                      ELSE RemoveOutputAt(cleared, t.changeIndex)
<1>1. CASE t.changeScript = Undefined
  BY <1>1, UpdateKeepsComplete DEF UpdateChangeOutput, Return, Fresh
<1>2. CASE t.changeScript # Undefined
  <2>1. /\ cleared \in Transactions /\ Complete(cleared)
        /\ \A i \in DOMAIN cleared.inputs : cleared.inputs[i].sigs = NoSignatures
    BY ClearedUnsigned
  <2> HIDE DEF cleared
  <2>2. removed \in Transactions /\ removed.inputs = cleared.inputs
    <3>1. RemoveOutputAt(cleared, t.changeIndex) \in Transactions
      BY <2>1, RemoveOutputAtType
    <3> QED BY <2>1, <3>1, SameInputs
  <2> HIDE DEF removed
  <2>3. \A u \in {cleared, LoadInputAmount(removed), PlaceChange(LoadAmounts(removed))} :
          u.inputs = cleared.inputs
    BY <2>2, SameInputs, LoadAmountsType
  <2>4. UpdateChangeOutput(t).tx \in
          {cleared, LoadInputAmount(removed), PlaceChange(LoadAmounts(removed))}
    BY <1>2 DEF UpdateChangeOutput, Return, Throw, cleared, removed
  <2>5. Fresh(UpdateChangeOutput(t).tx)
    BY <2>1, <2>3, <2>4, UnsignedFresh
  <2> QED BY <2>5, UpdateKeepsComplete
<1> QED BY <1>1, <1>2

LEMMA UpdateScript ==
  ASSUME NEW t \in Transactions
  PROVE  UpdateChangeOutput(t).tx.changeScript = t.changeScript
<1> DEFINE cleared == ClearSignatures(t)
           removed == IF t.changeIndex = Undefined THEN cleared
                      ELSE RemoveOutputAt(cleared, t.changeIndex)
<1>1. cleared \in Transactions /\ cleared.changeScript = t.changeScript
  BY ClearSignaturesType, SameScript
<1> HIDE DEF cleared
<1>2. removed \in Transactions /\ removed.changeScript = t.changeScript
  <2>1. RemoveOutputAt(cleared, t.changeIndex) \in Transactions
    BY <1>1, RemoveOutputAtType
  <2> QED BY <1>1, <2>1, SameScript
<1> HIDE DEF removed
<1>3. \A u \in {t, cleared, LoadInputAmount(removed), PlaceChange(LoadAmounts(removed))} :
        u.changeScript = t.changeScript
  BY <1>1, <1>2, SameScript, LoadAmountsType
<1>4. UpdateChangeOutput(t).tx \in
        {t, cleared, LoadInputAmount(removed), PlaceChange(LoadAmounts(removed))}
  BY DEF UpdateChangeOutput, Return, Throw, cleared, removed
<1> QED BY <1>3, <1>4

LEMMA UpdateFreshFor ==
  ASSUME NEW c, NEW t \in Transactions,
         IF "change" \in Clients[c].calls THEN Complete(t) ELSE t.changeScript = Undefined
  PROVE  FreshFor(c, UpdateChangeOutput(t).tx)
BY UpdateFresh, UpdateScript DEF FreshFor

\* A step that leaves alone what is signed, and adds valid signatures only
LEMMA SameFresh ==
  ASSUME NEW t \in Transactions, NEW u \in Transactions, NEW c, FreshFor(c, t),
         u.changeScript = t.changeScript, u.outputs = t.outputs, u.nLockTime = t.nLockTime,
         DOMAIN u.inputs = DOMAIN t.inputs,
         \A i \in DOMAIN t.inputs :
           /\ u.inputs[i].outPoint = t.inputs[i].outPoint
           /\ u.inputs[i].sequenceNumber = t.inputs[i].sequenceNumber
           /\ u.inputs[i].satoshis = t.inputs[i].satoshis
           /\ HasOutput(t.inputs[i]) => u.inputs[i].class = t.inputs[i].class
           /\ \A k \in PublicKeys :
                \/ u.inputs[i].sigs[k] = t.inputs[i].sigs[k]
                \/ IsValidSignature(t, i, u.inputs[i].sigs[k])
  PROVE  FreshFor(c, u)
<1>1. \A sigtype, i : Sighash(u, sigtype, i) = Sighash(t, sigtype, i)
  <2> SUFFICES ASSUME NEW sigtype, NEW i PROVE Sighash(u, sigtype, i) = Sighash(t, sigtype, i)
    OBVIOUS
  <2> DEFINE Blank(v) == [j \in DOMAIN v.inputs |->
                            [outPoint |-> v.inputs[j].outPoint,
                             subscript |-> j = i,
                             sequenceNumber |->
                               IF j # i /\ sigtype.base \in {"NONE", "SINGLE"}
                               THEN "0" ELSE v.inputs[j].sequenceNumber]]
             Outs(v) == CASE sigtype.base = "ALL"    -> v.outputs
                          [] sigtype.base = "NONE"   -> <<>>
                          [] sigtype.base = "SINGLE" ->
                               [j \in 1 .. i |-> IF j = i THEN v.outputs[j] ELSE Undefined]
  <2>1. Blank(u) = Blank(t)
    OBVIOUS
  <2>2. Outs(u) = Outs(t)
    OBVIOUS
  <2>3. \A v : Sighash(v, sigtype, i)
                = IF sigtype.base = "SINGLE" /\ i > Len(v.outputs) THEN Undefined
                  ELSE [inputs |-> IF sigtype.anyoneCanPay THEN <<Blank(v)[i]>> ELSE Blank(v),
                        outputs |-> Outs(v), nLockTime |-> v.nLockTime]
    BY DEF Sighash
  <2> HIDE DEF Blank, Outs
  <2> QED BY <2>1, <2>2, <2>3
<1>2. \A i, sig : IsValidSignature(u, i, sig) <=> IsValidSignature(t, i, sig)
  BY <1>1 DEF IsValidSignature
<1>3. Complete(t) => Complete(u)
  BY DEF Complete, Subclassed, HasOutput
<1>4. ASSUME Fresh(t) PROVE Fresh(u)
  <2> SUFFICES ASSUME u.changeScript # Undefined,
                      NEW i \in DOMAIN u.inputs, NEW k \in Signers(u.inputs[i])
               PROVE  IsValidSignature(u, i, u.inputs[i].sigs[k])
    BY DEF Fresh
  <2>1. k \in PublicKeys /\ u.inputs[i].sigs[k] # Undefined
    BY DEF Signers
  <2>2. u.inputs[i].sigs[k] = t.inputs[i].sigs[k] => k \in Signers(t.inputs[i])
    BY <2>1 DEF Signers
  <2>3. IsValidSignature(t, i, u.inputs[i].sigs[k])
    BY <1>4, <2>1, <2>2 DEF Fresh
  <2> QED BY <1>2, <2>3
<1> QED BY <1>3, <1>4 DEF FreshFor

\* Fewer, more or moved inputs of a client with complete coins
LEMMA PushFreshFor ==
  ASSUME TypeOK, NEW c, FreshFor(c, tx), NEW u \in Utxos,
         "change" \in Clients[c].calls => Subclassed(u) /\ HasOutput(u)
  PROVE  FreshFor(c, PushInput(tx, NewInput(u)).tx)
<1> DEFINE input == NewInput(u)
           t == [tx EXCEPT !.inputs = Append(@, input), !.inputAmount = Undefined]
<1>1. tx \in Transactions /\ tx.inputs \in Seq(Inputs) /\ input \in Inputs
  BY NewInputType DEF TypeOK, Transactions
<1>2. "change" \in Clients[c].calls => Subclassed(input) /\ HasOutput(input)
  BY DEF NewInput, Subclassed, HasOutput
<1> HIDE DEF input
<1>3. Append(tx.inputs, input) \in Seq(Inputs)
  BY <1>1
<1>4. /\ t \in Transactions /\ t.inputs = Append(tx.inputs, input)
      /\ t.changeScript = tx.changeScript
  BY <1>1, <1>3 DEF Transactions
<1> HIDE DEF t
<1>5. "change" \in Clients[c].calls => Complete(t)
  BY <1>1, <1>2, <1>4 DEF FreshFor, Complete
<1>6. FreshFor(c, UpdateChangeOutput(t).tx)
  BY <1>4, <1>5, UpdateFreshFor DEF FreshFor
<1> QED BY <1>6 DEF PushInput, t, input

LEMMA ReorderFreshFor ==
  ASSUME TypeOK, NEW c, FreshFor(c, tx), NEW p \in Orders(Len(tx.inputs))
  PROVE  LET sorted == ClearSignatures([tx EXCEPT !.inputs = Reorder(tx.inputs, p)])
         IN  /\ sorted \in Transactions
             /\ sorted.changeScript = tx.changeScript
             /\ "change" \in Clients[c].calls =>
                  /\ Complete(sorted)
                  /\ \A i \in DOMAIN sorted.inputs : sorted.inputs[i].sigs = NoSignatures
<1> DEFINE new == Reorder(tx.inputs, p)
           u == [tx EXCEPT !.inputs = new]
<1>1. tx \in Transactions /\ tx.inputs \in Seq(Inputs)
  BY DEF TypeOK, Transactions
<1>2. /\ new \in Seq(Inputs) /\ Len(new) = Len(tx.inputs)
      /\ \A i \in 1 .. Len(tx.inputs) : /\ p[i] \in 1 .. Len(tx.inputs)
                                        /\ new[i] = tx.inputs[p[i]]
  BY <1>1, ReorderElements
<1> HIDE DEF new
<1>3. u \in Transactions /\ u.inputs = new /\ u.changeScript = tx.changeScript
  BY <1>1, <1>2 DEF Transactions
<1> HIDE DEF u
<1>4. Complete(tx) => Complete(u)
  BY <1>1, <1>2, <1>3 DEF Complete
<1>5. /\ ClearSignatures(u) \in Transactions
      /\ ClearSignatures(u).changeScript = tx.changeScript
  BY <1>3, ClearSignaturesType, SameScript
<1>6. Complete(tx) =>
        /\ Complete(ClearSignatures(u))
        /\ \A i \in DOMAIN ClearSignatures(u).inputs :
             ClearSignatures(u).inputs[i].sigs = NoSignatures
  BY <1>3, <1>4, ClearedUnsigned
<1>7. "change" \in Clients[c].calls => Complete(tx)
  BY DEF FreshFor
<1> QED BY <1>5, <1>6, <1>7 DEF u, new

LEMMA FreshStep ==
  ASSUME TypeOK, [Next]_vars, SignsSafely(client), FreshFor(client, tx)
  PROVE  FreshFor(client, tx')
<1> DEFINE Goal == FreshFor(client, tx')
           Changes == "change" \in Clients[client].calls
<1>0. tx \in Transactions /\ tx.inputs \in Seq(Inputs) /\ tx.outputs \in Seq(Outputs)
  BY DEF TypeOK, Transactions
<1>00. \A i \in DOMAIN tx.inputs : tx.inputs[i] \in Inputs
  BY <1>0
<1>000. /\ Return(tx).tx = tx
        /\ \A t, error : Return(t).tx = t /\ Throw(t, error).tx = t
  BY DEF Return, Throw
<1>c. \A method, result : Call(method, result) =>
         tx' = result.tx /\ method \in Clients[client].calls
  BY DEF Call
<1>n. TypeOK'
  BY NextType
<1>n1. tx' \in Transactions
  BY <1>n DEF TypeOK
<1>a. \A method \in {"sortOutputs", "lockUntil", "reparse"} :
        method \in Clients[client].calls => ~Changes
  BY DEF SignsSafely
<1>s. ASSUME tx' = tx PROVE Goal
  BY <1>s
<1>n2. ASSUME ~Changes, tx'.changeScript = tx.changeScript PROVE Goal
  BY <1>n2 DEF FreshFor
<1>u. ASSUME NEW t \in Transactions, t.inputs = tx.inputs, t.changeScript = tx.changeScript,
             tx' = UpdateChangeOutput(t).tx
      PROVE  Goal
  <2>1. Complete(tx) => Complete(t)
    BY <1>u DEF Complete
  <2> QED BY <1>u, <2>1, UpdateFreshFor DEF FreshFor
<1>p. ASSUME NEW u \in Utxos \cap Clients[client].coins, tx' = PushInput(tx, NewInput(u)).tx
      PROVE  Goal
  BY <1>p, PushFreshFor DEF SignsSafely
<1>1. ASSUME NEW u \in Utxos, From(u) PROVE Goal
  BY <1>000, <1>c, <1>p, <1>s, <1>1 DEF From
<1>2. ASSUME NEW u \in Utxos, AddInput(u) PROVE Goal
  BY <1>000, <1>c, <1>p, <1>s, <1>2 DEF AddInput
<1>3. ASSUME NEW u \in Utxos, UncheckedAddInput(u) PROVE Goal
  BY <1>c, <1>p, <1>3 DEF UncheckedAddInput
<1>4. ASSUME NEW i \in 1 .. MaxInputs + 1, RemoveInput(i) PROVE Goal
  <2> DEFINE t == [tx EXCEPT !.inputs = RemoveAt(@, i), !.inputAmount = Undefined]
  <2>1. ASSUME i \in DOMAIN tx.inputs, tx' = UpdateChangeOutput(t).tx PROVE Goal
    <3> DEFINE new == RemoveAt(tx.inputs, i)
    <3>0. i \in 1 .. Len(tx.inputs)
      BY <1>0, <2>1
    <3>1. /\ new \in Seq(Inputs) /\ Len(new) = Len(tx.inputs) - 1
          /\ \A j \in 1 .. Len(tx.inputs) - 1 :
               new[j] = IF j < i THEN tx.inputs[j] ELSE tx.inputs[j + 1]
      BY <1>0, <3>0, RemoveAtElements
    <3> HIDE DEF new
    <3>2. t \in Transactions /\ t.inputs = new /\ t.changeScript = tx.changeScript
      BY <1>0, <3>1 DEF Transactions, new
    <3> HIDE DEF t
    <3>3. Complete(tx) => Complete(t)
      BY <1>0, <3>1, <3>2 DEF Complete
    <3> QED BY <2>1, <3>2, <3>3, UpdateFreshFor DEF FreshFor
  <2> HIDE DEF t
  <2> QED BY <1>000, <1>c, <1>s, <1>4, <2>1 DEF RemoveInput, t
<1>5. ASSUME NEW f \in Fees, Fee(f) PROVE Goal
  <2> DEFINE t == [tx EXCEPT !.fee = f]
  <2>1. t \in Transactions /\ t.inputs = tx.inputs /\ t.changeScript = tx.changeScript
    BY <1>0, ArgumentsAssumption DEF Transactions
  <2> HIDE DEF t
  <2> QED BY <1>5, <1>c, <1>u, <2>1 DEF Fee, t
<1>6. ASSUME NEW r \in FeeRates, FeePerKb(r) PROVE Goal
  <2> DEFINE t == [tx EXCEPT !.feePerKb = r]
  <2>1. t \in Transactions /\ t.inputs = tx.inputs /\ t.changeScript = tx.changeScript
    BY <1>0, ArgumentsAssumption DEF Transactions
  <2> HIDE DEF t
  <2> QED BY <1>6, <1>c, <1>u, <2>1 DEF FeePerKb, t
<1>7. ASSUME NEW s \in ChangeScripts, Change(s) PROVE Goal
  <2> DEFINE t == [tx EXCEPT !.changeScript = s]
  <2>1. t \in Transactions /\ t.inputs = tx.inputs
    BY <1>0 DEF Transactions
  <2> HIDE DEF t
  <2>2. tx' = UpdateChangeOutput(t).tx /\ Changes
    BY <1>7, <1>c DEF Change, t
  <2>3. Complete(t)
    BY <2>1, <2>2 DEF FreshFor, Complete
  <2> QED BY <2>1, <2>2, <2>3, UpdateFreshFor
<1>8. ASSUME NEW o \in Payments, AddOutput(o) PROVE Goal
  <2> DEFINE t == [tx EXCEPT !.outputs = Append(@, o), !.outputAmount = Undefined]
  <2>1. Append(tx.outputs, o) \in Seq(Outputs)
    BY <1>0, ArgumentsAssumption
  <2>2. t \in Transactions /\ t.inputs = tx.inputs /\ t.changeScript = tx.changeScript
    BY <1>0, <2>1 DEF Transactions
  <2> HIDE DEF t
  <2> QED BY <1>8, <1>c, <1>u, <2>2 DEF AddOutput, t
<1>9. ASSUME ClearOutputs PROVE Goal
  <2> DEFINE emptied == [tx EXCEPT !.outputs = <<>>]
             cleared == ClearSignatures(emptied)
             reset == [cleared EXCEPT !.outputAmount = Undefined, !.changeIndex = Undefined]
  <2>1. /\ emptied \in Transactions /\ emptied.inputs = tx.inputs
        /\ emptied.changeScript = tx.changeScript
    <3>1. <<>> \in Seq(Outputs)
      OBVIOUS
    <3> QED BY <1>0, <3>1 DEF Transactions
  <2>e. Complete(tx) => Complete(emptied)
    BY <2>1 DEF Complete
  <2> HIDE DEF emptied
  <2>2. /\ cleared \in Transactions /\ cleared.changeScript = tx.changeScript
        /\ Complete(tx) => Complete(cleared) /\ Fresh(cleared)
    BY <2>1, <2>e, ClearSignaturesType, SameScript, ClearedUnsigned, UnsignedFresh
  <2> HIDE DEF cleared
  <2>3. /\ reset \in Transactions /\ reset.inputs = cleared.inputs
        /\ reset.changeScript = tx.changeScript
    BY <2>2 DEF Transactions
  <2> HIDE DEF reset
  <2>4. Complete(tx) => Complete(reset)
    BY <2>2, <2>3 DEF Complete
  <2>5. tx' = cleared \/ tx' = UpdateChangeOutput(reset).tx
    BY <1>9, <1>000, <1>c DEF ClearOutputs, emptied, cleared, reset
  <2>6. FreshFor(client, cleared)
    BY <2>2 DEF FreshFor
  <2>7. FreshFor(client, UpdateChangeOutput(reset).tx)
    BY <2>3, <2>4, UpdateFreshFor DEF FreshFor
  <2> QED BY <2>5, <2>6, <2>7
<1>10. ASSUME NEW i \in 1 .. MaxOutputs + 1, RemoveOutput(i) \/ RemoveLaterOutput(i)
       PROVE  Goal
  <2>1. /\ RemoveOutputAt(tx, i) \in Transactions /\ RemoveOutputAt(tx, i).inputs = tx.inputs
        /\ RemoveOutputAt(tx, i).changeScript = tx.changeScript
    BY <1>0, RemoveOutputAtType, SameInputs, SameScript
  <2> QED BY <1>10, <1>c, <1>u, <2>1 DEF RemoveOutput, RemoveLaterOutput
<1>12. ASSUME NEW p \in Orders(Len(tx.outputs)), SortOutputs(p) PROVE Goal
  <2>1. ~Changes /\ tx'.changeScript = tx.changeScript
    BY <1>0, <1>000, <1>a, <1>c, <1>12, SameScript DEF SortOutputs
  <2> QED BY <1>n2, <2>1
<1>13. ASSUME SortOutputsBadly PROVE Goal
  BY <1>000, <1>c, <1>s, <1>13 DEF SortOutputsBadly
<1>15. ASSUME NEW p \in Orders(Len(tx.inputs)), SortInputs(p) PROVE Goal
  <2> DEFINE sorted == ClearSignatures([tx EXCEPT !.inputs = Reorder(tx.inputs, p)])
  <2>1. /\ sorted \in Transactions /\ sorted.changeScript = tx.changeScript
        /\ Changes => /\ Complete(sorted)
                      /\ \A i \in DOMAIN sorted.inputs : sorted.inputs[i].sigs = NoSignatures
    BY ReorderFreshFor
  <2> HIDE DEF sorted
  <2>2. tx' = sorted
    BY <1>000, <1>c, <1>15 DEF SortInputs, sorted
  <2> QED BY <2>1, <2>2, UnsignedFresh DEF FreshFor
<1>16. ASSUME NEW p \in Orders(Len(tx.inputs)), NEW q \in Orders(Len(tx.outputs)), Sort(p, q)
       PROVE  Goal
  <2> DEFINE sorted == ClearSignatures([tx EXCEPT !.inputs = Reorder(tx.inputs, p)])
             outputs == Reorder(tx.outputs, q)
  <2>1. /\ sorted \in Transactions /\ sorted.changeScript = tx.changeScript
        /\ Changes => /\ Complete(sorted)
                      /\ \A i \in DOMAIN sorted.inputs : sorted.inputs[i].sigs = NoSignatures
    BY ReorderFreshFor
  <2> HIDE DEF sorted
  <2>2. /\ NewOutputOrder(sorted, outputs).inputs = sorted.inputs
        /\ NewOutputOrder(sorted, outputs).changeScript = tx.changeScript
    BY <2>1, SameInputs, SameScript
  <2>3. tx' = sorted \/ tx' = NewOutputOrder(sorted, outputs)
    BY <1>000, <1>c, <1>16 DEF Sort, sorted
  <2>4. tx'.inputs = sorted.inputs /\ tx'.changeScript = tx.changeScript
    BY <2>1, <2>2, <2>3
  <2>5. Changes => Complete(tx') /\ Fresh(tx')
    BY <2>1, <2>4, UnsignedFresh DEF Complete
  <2> QED BY <2>4, <2>5 DEF FreshFor
<1>17. ASSUME NEW date \in BOOLEAN, NEW time \in LockTimes, LockUntil(date, time)
       PROVE  Goal
  <2>1. ~Changes
    BY <1>a, <1>c, <1>17 DEF LockUntil
  <2>2. tx'.changeScript = tx.changeScript
    <3> DEFINE inputs == [i \in DOMAIN tx.inputs |->
                  IF tx.inputs[i].sequenceNumber = DEFAULT_SEQNUMBER
                  THEN [tx.inputs[i] EXCEPT !.sequenceNumber = DEFAULT_LOCKTIME_SEQNUMBER]
                  ELSE tx.inputs[i]]
               u == [tx EXCEPT !.nLockTime = time, !.inputs = inputs]
    <3> HIDE DEF inputs
    <3>1. u.changeScript = tx.changeScript
      BY <1>0 DEF Transactions
    <3> HIDE DEF u
    <3>2. tx' = tx \/ tx' = u
      BY <1>000, <1>c, <1>17 DEF LockUntil, u, inputs
    <3> QED BY <3>1, <3>2
  <2> QED BY <1>n2, <2>1, <2>2
<1>18. ASSUME NEW key \in PrivateKeys, NEW sigtype \in SigTypes, Sign(key, sigtype)
       PROVE  Goal
  <2> DEFINE Signed(i) == /\ key \in tx.inputs[i].keys
                          /\ \A j \in 1 .. i : ~(/\ key \in tx.inputs[j].keys
                                                 /\ IsMultiSig(tx.inputs[j])
                                                 /\ InputFullySigned(tx.inputs[j]))
             inputs == [i \in DOMAIN tx.inputs |->
                          IF Signed(i)
                          THEN [tx.inputs[i] EXCEPT !.sigs[key] = Signature(tx, sigtype, i)]
                          ELSE tx.inputs[i]]
             u == [tx EXCEPT !.inputs = inputs]
  <2>1. ASSUME NEW i \in DOMAIN tx.inputs
        PROVE  /\ inputs[i].outPoint = tx.inputs[i].outPoint
               /\ inputs[i].sequenceNumber = tx.inputs[i].sequenceNumber
               /\ inputs[i].satoshis = tx.inputs[i].satoshis
               /\ inputs[i].class = tx.inputs[i].class
               /\ \A k \in PublicKeys :
                    \/ inputs[i].sigs[k] = tx.inputs[i].sigs[k]
                    \/ inputs[i].sigs[k] = Signature(tx, sigtype, i)
    BY <1>00 DEF Inputs
  <2>2. DOMAIN inputs = DOMAIN tx.inputs
    OBVIOUS
  <2> HIDE DEF inputs
  <2>3. /\ u.inputs = inputs /\ u.nLockTime = tx.nLockTime /\ u.outputs = tx.outputs
        /\ u.changeScript = tx.changeScript
    BY <1>0 DEF Transactions
  <2> HIDE DEF u
  <2>4. \A i : IsValidSignature(tx, i, Signature(tx, sigtype, i))
    BY DEF IsValidSignature, Signature
  <2>5. tx' = tx \/ tx' = u
    BY <1>000, <1>c, <1>18 DEF Sign, u, inputs
  <2>6. ASSUME tx' = u PROVE Goal
    BY <1>0, <1>n1, <2>1, <2>2, <2>3, <2>4, <2>6, SameFresh
  <2> QED BY <1>s, <2>5, <2>6
<1>19. ASSUME NEW key, NEW sigtype, GetSignatures(key, sigtype) PROVE Goal
  BY <1>s, <1>19 DEF GetSignatures
<1>20. ASSUME ApplySignature PROVE Goal
  <2> DEFINE i == detached.inputIndex
             u == [tx EXCEPT !.inputs[i].sigs[detached.publicKey] = detached.signature]
  <2>1. /\ u.nLockTime = tx.nLockTime /\ u.outputs = tx.outputs
        /\ u.changeScript = tx.changeScript /\ DOMAIN u.inputs = DOMAIN tx.inputs
    BY <1>0 DEF Transactions
  <2>2. ASSUME NEW j \in DOMAIN tx.inputs
        PROVE  /\ u.inputs[j].outPoint = tx.inputs[j].outPoint
               /\ u.inputs[j].sequenceNumber = tx.inputs[j].sequenceNumber
               /\ u.inputs[j].satoshis = tx.inputs[j].satoshis
               /\ u.inputs[j].class = tx.inputs[j].class
               /\ \A k \in PublicKeys :
                    \/ u.inputs[j].sigs[k] = tx.inputs[j].sigs[k]
                    \/ j = i /\ u.inputs[j].sigs[k] = detached.signature
    <3>1. u.inputs[j] = IF j = i
                        THEN [tx.inputs[j] EXCEPT !.sigs[detached.publicKey] = detached.signature]
                        ELSE tx.inputs[j]
      BY <1>0 DEF Transactions
    <3> HIDE DEF u
    <3> QED BY <1>00, <3>1 DEF Inputs
  <2> HIDE DEF u
  <2>3. tx' = tx \/ (tx' = u /\ IsValidSignature(tx, i, detached.signature))
    BY <1>000, <1>c, <1>20 DEF ApplySignature, u
  <2>4. ASSUME tx' = u, IsValidSignature(tx, i, detached.signature) PROVE Goal
    BY <1>0, <1>n1, <2>1, <2>2, <2>4, SameFresh
  <2> QED BY <1>s, <2>3, <2>4
<1>21. ASSUME ReadInputAmount \/ ReadFee \/ \E opts \in SerializeOpts : Serialize(opts)
       PROVE  Goal
  <2>1. tx' = tx \/ tx' = LoadInputAmount(tx) \/ tx' = LoadAmounts(tx)
    BY <1>000, <1>c, <1>21 DEF ReadInputAmount, ReadFee, Serialize
  <2>2. /\ tx'.inputs = tx.inputs /\ tx'.nLockTime = tx.nLockTime
        /\ tx'.changeScript = tx.changeScript
    BY <1>0, <2>1, SameInputs, SameLockTime, SameScript
  <2>3. tx'.outputs = tx.outputs
    BY <1>0, <2>1, LoadInputAmountType
    DEF LoadInputAmount, LoadOutputAmount, LoadAmounts, Transactions
  <2> QED BY <1>0, <1>n1, <2>2, <2>3, SameFresh
<1>24. ASSUME Reload PROVE Goal
  <2> DEFINE inputs == [i \in DOMAIN tx.inputs |->
                          IF HasOutput(tx.inputs[i]) THEN tx.inputs[i]
                          ELSE [tx.inputs[i] EXCEPT !.class = "Input"]]
             copy == [tx EXCEPT
                        !.changeIndex = IF @ = 1 THEN Undefined ELSE @,
                        !.fee = IF @ = 0 THEN Undefined ELSE @,
                        !.feePerKb = Undefined,
                        !.inputAmount = Undefined, !.outputAmount = Undefined]
             u == [copy EXCEPT !.inputs = inputs]
  <2>1. ASSUME NEW i \in DOMAIN tx.inputs
        PROVE  /\ inputs[i].outPoint = tx.inputs[i].outPoint
               /\ inputs[i].sequenceNumber = tx.inputs[i].sequenceNumber
               /\ inputs[i].satoshis = tx.inputs[i].satoshis
               /\ HasOutput(tx.inputs[i]) => inputs[i].class = tx.inputs[i].class
               /\ inputs[i].sigs = tx.inputs[i].sigs
    BY <1>00 DEF Inputs
  <2>2. DOMAIN inputs = DOMAIN tx.inputs
    OBVIOUS
  <2> HIDE DEF inputs
  <2>4. /\ copy \in Transactions /\ copy.inputs = tx.inputs /\ copy.nLockTime = tx.nLockTime
        /\ copy.outputs = tx.outputs /\ copy.changeScript = tx.changeScript
    BY <1>0 DEF Transactions
  <2> HIDE DEF copy
  <2>5. /\ u.inputs = inputs /\ u.nLockTime = tx.nLockTime
        /\ u.outputs = tx.outputs /\ u.changeScript = tx.changeScript
    BY <2>4 DEF Transactions
  <2> HIDE DEF u
  <2>6. ASSUME tx' = u PROVE Goal
    BY <1>0, <1>n1, <2>1, <2>2, <2>5, <2>6, SameFresh
  <2>7. tx' = tx \/ tx' = u
    BY <1>000, <1>c, <1>24, <2>4 DEF Reload, u, copy, inputs
  <2> QED BY <1>s, <2>6, <2>7
<1>25. ASSUME Reparse PROVE Goal
  <2>1. ~Changes
    BY <1>a, <1>c, <1>25 DEF Reparse
  <2>2. tx'.changeScript = Undefined
    <3> DEFINE inputs == [i \in DOMAIN tx.inputs |->
                           [tx.inputs[i] EXCEPT !.class = "Input", !.satoshis = Undefined]]
               u == [EmptyTransaction EXCEPT !.inputs = inputs, !.outputs = tx.outputs,
                                             !.nLockTime = tx.nLockTime]
    <3> HIDE DEF inputs
    <3>1. u.changeScript = Undefined
      BY DEF EmptyTransaction
    <3> HIDE DEF u
    <3>2. tx' = u
      BY <1>c, <1>25 DEF Reparse, Return, u, inputs
    <3> QED BY <3>1, <3>2
  <2> QED BY <2>1, <2>2 DEF FreshFor
<1>26. ASSUME UNCHANGED vars PROVE Goal
  BY <1>s, <1>26 DEF vars
<1> HIDE DEF Goal
<1>27. Goal
  BY <1>1, <1>2, <1>3, <1>4, <1>5, <1>6, <1>7, <1>8, <1>9, <1>10, <1>12, <1>13,
     <1>15, <1>16, <1>17, <1>18, <1>19, <1>20, <1>21, <1>24, <1>25, <1>26
  DEF Next, PaymentCall, OtherCall
<1> QED BY <1>27 DEF Goal

(* For a client that sets a change address and does without sortOutputs, lock
   times and transactions read from bytes, every signature in the transaction
   is valid for it as it stands: each method that changes what is signed clears
   the signatures, and a late signature that no longer fits is refused. *)
THEOREM SignaturesStayFresh == Spec => [](SignsSafely(client) => SignaturesFresh)
<1> DEFINE FreshInv == SignsSafely(client) => FreshFor(client, tx)
<1>1. Init => FreshInv
  <2> SUFFICES ASSUME Init PROVE FreshFor(client, tx)
    OBVIOUS
  <2>1. tx.inputs = <<>> /\ tx.changeScript = Undefined
    BY DEF Init, EmptyTransaction
  <2> QED BY <2>1 DEF FreshFor, Fresh, Complete
<1>2. TypeOK /\ FreshInv /\ [Next]_vars => FreshInv'
  <2> SUFFICES ASSUME TypeOK, FreshInv, [Next]_vars, SignsSafely(client')
               PROVE  FreshFor(client', tx')
    OBVIOUS
  <2>1. client' = client
    BY Zenon DEF Next, PaymentCall, OtherCall, vars, Call, From, AddInput, UncheckedAddInput, RemoveInput, Fee, FeePerKb,
           Change, AddOutput, ClearOutputs, RemoveOutput, RemoveLaterOutput, SortOutputs,
           SortOutputsBadly, SortInputs, Sort, LockUntil, Sign, GetSignatures,
           ApplySignature, ReadInputAmount, ReadFee, Serialize, Reload, Reparse
  <2> QED BY <2>1, FreshStep
<1>3. FreshInv => (SignsSafely(client) => SignaturesFresh)
  BY DEF FreshFor, Fresh, SignaturesFresh
<1> HIDE DEF FreshInv
<1> QED BY <1>1, <1>2, <1>3, TypeCorrect, PTL DEF Spec
=============================================================================

-------------------------- MODULE TransactionProofs --------------------------
(***************************************************************************)
(* The types and the money of the transaction builder, for every choice of *)
(* coins, payments and scripts.  A method that throws half way leaves the  *)
(* object unsettled, but only while it holds an input that cannot be used  *)
(* (of the base class, or without its output): the invariant Settled says  *)
(* what holds at all times, and what holds again as soon as the inputs are *)
(* complete.  Types come first: one lemma for each helper that changes the *)
(* record, then one step for each method.                                  *)
(***************************************************************************)
EXTENDS Transaction, SumsProofs

-----------------------------------------------------------------------------
(* Inputs and sums *)

LEMMA NewInputType ==
  ASSUME NEW u \in Utxos
  PROVE  NewInput(u) \in Inputs
<1>1. NoSignatures \in [PublicKeys -> Signatures \cup {Undefined}]
  BY DEF NoSignatures
<1>2. u.outPoint \in OutPoints /\ u.keys \in KeySets
  BY DEF OutPoints, KeySets
<1>3. DEFAULT_SEQNUMBER \in SequenceNumbers
  BY DEF SequenceNumbers
<1> QED BY <1>1, <1>2, <1>3, UtxosAssumption DEF NewInput, Inputs

LEMMA MapType ==
  ASSUME NEW S, NEW T, NEW s \in Seq(S), NEW F \in [DOMAIN s -> T]
  PROVE  F \in Seq(T) /\ Len(F) = Len(s)
<1>1. DOMAIN s = 1 .. Len(s) /\ Len(s) \in Nat
  OBVIOUS
<1> QED BY <1>1, IsASeq

LEMMA OutputTotalType ==
  ASSUME NEW outputs \in Seq(Outputs)
  PROVE  /\ [i \in DOMAIN outputs |-> outputs[i].satoshis] \in Seq(Nat)
         /\ OutputTotal(outputs) \in Nat
<1> DEFINE s == [i \in DOMAIN outputs |-> outputs[i].satoshis]
<1>0. \A i \in DOMAIN outputs : outputs[i] \in Outputs
  OBVIOUS
<1>1. \A i \in DOMAIN outputs : outputs[i].satoshis \in Nat
  BY <1>0 DEF Outputs
<1>2. s \in [DOMAIN outputs -> Nat]
  BY <1>1
<1>3. s \in Seq(Nat)
  BY <1>2, MapType
<1> QED BY <1>3, SumSeqNat DEF OutputTotal

LEMMA LoadInputAmountType ==
  ASSUME NEW t \in Transactions
  PROVE  LoadInputAmount(t) \in Transactions /\ LoadInputAmount(t).inputAmount \in Nat
<1> DEFINE s == [i \in DOMAIN t.inputs |->
                   IF \A j \in 1 .. i : HasOutput(t.inputs[j])
                   THEN t.inputs[i].satoshis ELSE 0]
<1>1. t.inputs \in Seq(Inputs)
  BY DEF Transactions
<1>2. ASSUME NEW i \in DOMAIN t.inputs
      PROVE  (IF \A j \in 1 .. i : HasOutput(t.inputs[j])
              THEN t.inputs[i].satoshis ELSE 0) \in Nat
  <2>1. t.inputs[i] \in Inputs /\ i \in 1 .. i
    BY <1>1
  <2>2. t.inputs[i].satoshis \in Nat \cup {Undefined}
    BY <2>1 DEF Inputs
  <2> QED BY <2>1, <2>2 DEF HasOutput
<1>3. s \in [DOMAIN t.inputs -> Nat]
  BY <1>2
<1>4. s \in Seq(Nat)
  BY <1>1, <1>3, MapType
<1>5. SumSeq(s) \in Nat
  BY <1>4, SumSeqNat
<1> HIDE DEF s
<1>6. LoadInputAmount(t) = IF t.inputAmount # Undefined THEN t
                           ELSE [t EXCEPT !.inputAmount = SumSeq(s)]
  BY DEF LoadInputAmount, s
<1> QED BY <1>5, <1>6 DEF Transactions

LEMMA LoadOutputAmountType ==
  ASSUME NEW t \in Transactions
  PROVE  /\ LoadOutputAmount(t) \in Transactions
         /\ LoadOutputAmount(t).outputAmount \in Nat
         /\ LoadOutputAmount(t).inputAmount = t.inputAmount
<1>1. OutputTotal(t.outputs) \in Nat
  BY OutputTotalType DEF Transactions
<1> QED BY <1>1 DEF LoadOutputAmount, Transactions

LEMMA LoadAmountsType ==
  ASSUME NEW t \in Transactions
  PROVE  LoadAmounts(t) \in Transactions /\ UnspentValue(t) \in Int
<1>1. /\ LoadInputAmount(t) \in Transactions
      /\ LoadInputAmount(t).inputAmount \in Nat
  BY LoadInputAmountType
<1>2. /\ LoadAmounts(t) \in Transactions
      /\ LoadAmounts(t).outputAmount \in Nat
      /\ LoadAmounts(t).inputAmount \in Nat
  BY <1>1, LoadOutputAmountType DEF LoadAmounts
<1> QED BY <1>2 DEF UnspentValue

LEMMA EstimatedSizeType ==
  ASSUME NEW t \in Transactions
  PROVE  EstimatedSize(t) \in Nat
<1>1. t.inputs \in Seq(Inputs) /\ t.outputs \in Seq(Outputs)
  BY DEF Transactions
<1>6. /\ \A i \in DOMAIN t.inputs : t.inputs[i] \in Inputs
      /\ \A i \in DOMAIN t.outputs : t.outputs[i] \in Outputs
  BY <1>1
<1>2. [i \in DOMAIN t.inputs |-> t.inputs[i].size] \in [DOMAIN t.inputs -> Nat]
  <2>1. \A i \in DOMAIN t.inputs : t.inputs[i].size \in Nat
    BY <1>6 DEF Inputs
  <2> QED BY <2>1
<1>3. [i \in DOMAIN t.outputs |-> OutputSize[t.outputs[i].script]]
        \in [DOMAIN t.outputs -> Nat]
  <2>1. \A i \in DOMAIN t.outputs : OutputSize[t.outputs[i].script] \in Nat
    BY <1>6, SizesAssumption DEF Outputs
  <2> QED BY <2>1
<1>4. SumSeq([i \in DOMAIN t.inputs |-> t.inputs[i].size]) \in Nat
  BY <1>1, <1>2, MapType, SumSeqNat
<1>5. SumSeq([i \in DOMAIN t.outputs |-> OutputSize[t.outputs[i].script]]) \in Nat
  BY <1>1, <1>3, MapType, SumSeqNat
<1> QED BY <1>4, <1>5, SizesAssumption DEF EstimatedSize

LEMMA FeeForSizeType ==
  ASSUME NEW size \in Nat, NEW rate \in Nat \cup {Undefined}
  PROVE  FeeForSize(size, rate) \in Nat
<1>1. (size + BYTES_PER_KB - 1) \div BYTES_PER_KB \in Nat
  BY SizesAssumption
<1>2. (IF rate \in {Undefined, 0} THEN FEE_PER_KB ELSE rate) \in Nat
  BY SizesAssumption
<1> HIDE DEF FeeForSize
<1> QED BY <1>1, <1>2 DEF FeeForSize

LEMMA GetFeeType ==
  ASSUME NEW t \in Transactions
  PROVE  EstimateFee(t) \in Nat /\ GetFee(t) \in Int
<1>1. EstimatedSize(t) \in Nat /\ CHANGE_OUTPUT_MAX_SIZE \in Nat
  BY EstimatedSizeType, SizesAssumption
<1>2. t.feePerKb \in Nat \cup {Undefined} /\ t.fee \in Nat \cup {Undefined}
  BY DEF Transactions
<1>3. EstimateFee(t) \in Nat
  <2> DEFINE size == IF UnspentValue(t) > FeeForSize(EstimatedSize(t), t.feePerKb)
                     THEN EstimatedSize(t) + CHANGE_OUTPUT_MAX_SIZE ELSE EstimatedSize(t)
  <2>1. size \in Nat
    BY <1>1
  <2>2. EstimateFee(t) = FeeForSize(size, t.feePerKb)
    BY DEF EstimateFee
  <2> HIDE DEF size
  <2> QED BY <2>1, <2>2, <1>2, FeeForSizeType
<1> QED BY <1>2, <1>3, LoadAmountsType DEF GetFee

-----------------------------------------------------------------------------
(* The helpers *)

LEMMA ClearSignaturesType ==
  ASSUME NEW t \in Transactions
  PROVE  /\ ClearSignatures(t) \in Transactions
         /\ Len(ClearSignatures(t).inputs) = Len(t.inputs)
<1> DEFINE cleared == [i \in DOMAIN t.inputs |->
                         IF \A j \in 1 .. i : Subclassed(t.inputs[j])
                         THEN Unsign(t.inputs[i]) ELSE t.inputs[i]]
<1>1. t.inputs \in Seq(Inputs)
  BY DEF Transactions
<1>2. ASSUME NEW input \in Inputs PROVE Unsign(input) \in Inputs
  <2>1. NoSignatures \in [PublicKeys -> Signatures \cup {Undefined}]
    BY DEF NoSignatures
  <2> QED BY <2>1 DEF Unsign, Inputs
<1>3. cleared \in [DOMAIN t.inputs -> Inputs]
  BY <1>1, <1>2
<1>4. cleared \in Seq(Inputs) /\ Len(cleared) = Len(t.inputs)
  BY <1>1, <1>3, MapType
<1> HIDE DEF cleared
<1>5. ClearSignatures(t) = [t EXCEPT !.inputs = cleared]
  BY DEF ClearSignatures, cleared
<1> QED BY <1>4, <1>5 DEF Transactions

LEMMA RemoveOutputAtType ==
  ASSUME NEW t \in Transactions, NEW index
  PROVE  RemoveOutputAt(t, index) \in Transactions
<1>1. t.outputs \in Seq(Outputs)
  BY DEF Transactions
<1>2. index \in DOMAIN t.outputs => RemoveAt(t.outputs, index) \in Seq(Outputs)
  BY <1>1, RemoveAtElements
<1> QED BY Zenon, <1>1, <1>2 DEF RemoveOutputAt, Transactions

LEMMA PlaceChangeType ==
  ASSUME NEW t \in Transactions, t.changeScript # Undefined
  PROVE  PlaceChange(t) \in Transactions
<1> DEFINE change == UnspentValue(t) - GetFee(t)
           output == [script |-> t.changeScript, satoshis |-> change]
<1>1. change \in Int
  BY LoadAmountsType, GetFeeType
<1>2. t.changeScript \in Scripts
  BY ArgumentsAssumption DEF Transactions
<1>3. t.outputs \in Seq(Outputs)
  BY DEF Transactions
<1>4. change > 0 => output \in Outputs
  BY <1>1, <1>2 DEF Outputs
<1>5. change > 0 => Append(t.outputs, output) \in Seq(Outputs)
  BY <1>3, <1>4
<1>6. Len(t.outputs) + 1 \in Nat
  BY <1>3
<1>7. PlaceChange(t) = IF change > 0
                       THEN [t EXCEPT !.changeIndex = Len(t.outputs) + 1,
                                      !.outputs = Append(@, output),
                                      !.outputAmount = Undefined]
                       ELSE [t EXCEPT !.changeIndex = Undefined]
  BY DEF PlaceChange
<1> HIDE DEF change, output
<1> QED BY <1>5, <1>6, <1>7 DEF Transactions

LEMMA UpdateChangeOutputType ==
  ASSUME NEW t \in Transactions
  PROVE  UpdateChangeOutput(t).tx \in Transactions
<1> DEFINE cleared == ClearSignatures(t)
           removed == IF t.changeIndex = Undefined THEN cleared
                      ELSE RemoveOutputAt(cleared, t.changeIndex)
<1>1. cleared \in Transactions /\ cleared.changeScript = t.changeScript
  BY ClearSignaturesType DEF ClearSignatures, Transactions
<1>2. removed \in Transactions /\ removed.changeScript = t.changeScript
  BY <1>1, RemoveOutputAtType DEF RemoveOutputAt, Transactions
<1> HIDE DEF cleared, removed
<1>3. LoadInputAmount(removed) \in Transactions
  BY <1>2, LoadInputAmountType
<1>4. LoadAmounts(removed) \in Transactions
  BY <1>2, LoadAmountsType
<1>5. LoadAmounts(removed).changeScript = t.changeScript
  BY <1>2 DEF LoadAmounts, LoadOutputAmount, LoadInputAmount, Transactions
<1>6. t.changeScript # Undefined => PlaceChange(LoadAmounts(removed)) \in Transactions
  BY <1>4, <1>5, PlaceChangeType
<1> QED BY <1>1, <1>3, <1>6 DEF UpdateChangeOutput, Return, Throw, cleared, removed

LEMMA NewOutputOrderType ==
  ASSUME NEW t \in Transactions, NEW outputs \in Seq(Outputs)
  PROVE  NewOutputOrder(t, outputs) \in Transactions
<1> DEFINE found == IF t.changeIndex \in DOMAIN t.outputs
                    THEN {i \in DOMAIN outputs : outputs[i] = t.outputs[t.changeIndex]}
                    ELSE DOMAIN outputs
           least == CHOOSE i \in found : \A j \in found : i <= j
<1>1. found \subseteq Nat
  OBVIOUS
<1> HIDE DEF found
<1>2. found # {} => least \in Nat
  <2> SUFFICES ASSUME found # {} PROVE least \in Nat
    OBVIOUS
  <2>1. \E i \in found : \A j \in found : i <= j
    BY <1>1, LeastNat
  <2>2. least \in found
    BY <2>1
  <2> QED BY <1>1, <2>2
<1> HIDE DEF least
<1>3. NewOutputOrder(t, outputs) =
        [t EXCEPT !.outputs = outputs,
                  !.changeIndex = IF @ = Undefined THEN Undefined
                                  ELSE IF found = {} THEN 0 ELSE least]
  BY DEF NewOutputOrder, found, least
<1>4. (IF t.changeIndex = Undefined THEN Undefined
       ELSE IF found = {} THEN 0 ELSE least) \in Nat \cup {Undefined}
  BY <1>2
<1> QED BY <1>3, <1>4 DEF Transactions

LEMMA PushInputType ==
  ASSUME NEW t \in Transactions, NEW input \in Inputs
  PROVE  PushInput(t, input).tx \in Transactions
<1>1. Append(t.inputs, input) \in Seq(Inputs)
  BY DEF Transactions
<1>2. [t EXCEPT !.inputs = Append(@, input), !.inputAmount = Undefined] \in Transactions
  BY <1>1 DEF Transactions
<1> QED BY <1>2, UpdateChangeOutputType DEF PushInput

LEMMA SighashType ==
  ASSUME NEW t \in Transactions, NEW sigtype \in SigTypes, NEW i \in DOMAIN t.inputs
  PROVE  Signature(t, sigtype, i) \in Signatures
<1> DEFINE blank == [j \in DOMAIN t.inputs |->
                       [outPoint |-> t.inputs[j].outPoint,
                        subscript |-> j = i,
                        sequenceNumber |->
                          IF j # i /\ sigtype.base \in {"NONE", "SINGLE"}
                          THEN "0" ELSE t.inputs[j].sequenceNumber]]
           single == [j \in 1 .. i |-> IF j = i THEN t.outputs[j] ELSE Undefined]
           covered == CASE sigtype.base = "ALL"    -> t.outputs
                        [] sigtype.base = "NONE"   -> <<>>
                        [] sigtype.base = "SINGLE" -> single
           B == [outPoint : OutPoints, subscript : BOOLEAN,
                 sequenceNumber : SequenceNumbers \cup {"0"}]
           hash == [inputs |-> IF sigtype.anyoneCanPay THEN <<blank[i]>> ELSE blank,
                    outputs |-> covered, nLockTime |-> t.nLockTime]
<1>1. /\ t.inputs \in Seq(Inputs) /\ t.outputs \in Seq(Outputs) /\ t.nLockTime \in Nat
      /\ i \in 1 .. Len(t.inputs) /\ Len(t.inputs) \in Nat
  BY DEF Transactions
<1>2. \A j \in DOMAIN t.inputs : t.inputs[j] \in Inputs
  BY <1>1
<1>3. \A j \in DOMAIN t.inputs : blank[j] \in B
  BY <1>2 DEF Inputs
<1> HIDE DEF B
<1>4. blank \in [DOMAIN t.inputs -> B]
  BY <1>3
<1> HIDE DEF blank
<1>5. blank \in Seq(B) /\ <<blank[i]>> \in Seq(B)
  BY <1>1, <1>3, <1>4, MapType
<1>6. sigtype.base \in {"ALL", "NONE", "SINGLE"}
  BY ArgumentsAssumption
<1>7. ~(sigtype.base = "SINGLE" /\ i > Len(t.outputs))
        => covered \in Seq(Outputs \cup {Undefined})
  <2>1. t.outputs \in Seq(Outputs \cup {Undefined}) /\ <<>> \in Seq(Outputs \cup {Undefined})
    BY <1>1
  <2>2. i <= Len(t.outputs) => single \in Seq(Outputs \cup {Undefined})
    <3>1. ASSUME i <= Len(t.outputs) PROVE single \in [1 .. i -> Outputs \cup {Undefined}]
      <4>1. \A j \in 1 .. i : t.outputs[j] \in Outputs
        BY <1>1, <3>1
      <4> QED BY <4>1
    <3> HIDE DEF single
    <3> QED BY <1>1, <3>1, IsASeq
  <2> HIDE DEF single
  <2> QED BY <1>1, <1>6, <2>1, <2>2
<1> HIDE DEF covered
<1>8. ~(sigtype.base = "SINGLE" /\ i > Len(t.outputs)) => hash \in Hashes
  BY <1>1, <1>5, <1>7 DEF Hashes, B
<1> HIDE DEF hash
<1>9. Sighash(t, sigtype, i) = IF sigtype.base = "SINGLE" /\ i > Len(t.outputs)
                               THEN Undefined ELSE hash
  BY DEF Sighash, hash, blank, covered
<1>10. Sighash(t, sigtype, i) \in Hashes \cup {Undefined}
  BY <1>8, <1>9
<1> HIDE DEF Hashes
<1> QED BY <1>10 DEF Signature, Signatures

\* Replacing the inputs one by one keeps the type.
LEMMA InputsType ==
  ASSUME NEW t \in Transactions, NEW inputs \in [DOMAIN t.inputs -> Inputs]
  PROVE  [t EXCEPT !.inputs = inputs] \in Transactions
<1>1. t.inputs \in Seq(Inputs)
  BY DEF Transactions
<1>2. inputs \in Seq(Inputs)
  BY <1>1, MapType
<1> QED BY <1>2 DEF Transactions

LEMMA SetSignatureType ==
  ASSUME NEW input \in Inputs, NEW key \in PublicKeys, NEW sig \in Signatures
  PROVE  [input EXCEPT !.sigs[key] = sig] \in Inputs
BY DEF Inputs

-----------------------------------------------------------------------------
(* The specification *)

LEMMA InitType == Init => TypeOK
<1>1. <<>> \in Seq(Inputs) /\ <<>> \in Seq(Outputs)
  OBVIOUS
<1> QED BY <1>1 DEF Init, TypeOK, EmptyTransaction, Transactions

\* A call whose result has the type keeps the type.
LEMMA CallType ==
  ASSUME TypeOK, NEW method, NEW result, result.tx \in Transactions, Call(method, result)
  PROVE  TypeOK'
BY DEF TypeOK, Call

LEMMA NextType == TypeOK /\ [Next]_vars => TypeOK'
<1> SUFFICES ASSUME TypeOK, [Next]_vars PROVE TypeOK'
  OBVIOUS
<1>0. tx \in Transactions /\ tx.inputs \in Seq(Inputs) /\ tx.outputs \in Seq(Outputs)
  BY DEF TypeOK, Transactions
<1>00. \A i \in DOMAIN tx.inputs : tx.inputs[i] \in Inputs
  BY <1>0
<1>000. /\ Return(tx).tx = tx
        /\ \A t, error : Return(t).tx = t /\ Throw(t, error).tx = t
  BY DEF Return, Throw
<1>1. ASSUME NEW u \in Utxos, From(u) PROVE TypeOK'
  BY <1>0, <1>000, <1>1, NewInputType, PushInputType, CallType DEF From
<1>2. ASSUME NEW u \in Utxos, AddInput(u) PROVE TypeOK'
  BY <1>0, <1>000, <1>2, NewInputType, PushInputType, CallType DEF AddInput
<1>3. ASSUME NEW u \in Utxos, UncheckedAddInput(u) PROVE TypeOK'
  BY <1>0, <1>000, <1>3, NewInputType, PushInputType, CallType DEF UncheckedAddInput
<1>4. ASSUME NEW i \in 1 .. MaxInputs + 1, RemoveInput(i) PROVE TypeOK'
  <2>1. i \in DOMAIN tx.inputs =>
          [tx EXCEPT !.inputs = RemoveAt(@, i), !.inputAmount = Undefined] \in Transactions
    <3>1. i \in DOMAIN tx.inputs => RemoveAt(tx.inputs, i) \in Seq(Inputs)
      BY <1>0, RemoveAtElements
    <3> QED BY <1>0, <3>1 DEF Transactions
  <2> QED BY <1>0, <1>000, <1>4, <2>1, UpdateChangeOutputType, CallType DEF RemoveInput
<1>5. ASSUME NEW f \in Fees, Fee(f) PROVE TypeOK'
  <2>1. [tx EXCEPT !.fee = f] \in Transactions
    BY <1>0, ArgumentsAssumption DEF Transactions
  <2> QED BY <1>5, <2>1, UpdateChangeOutputType, CallType DEF Fee
<1>6. ASSUME NEW r \in FeeRates, FeePerKb(r) PROVE TypeOK'
  <2>1. [tx EXCEPT !.feePerKb = r] \in Transactions
    BY <1>0, ArgumentsAssumption DEF Transactions
  <2> QED BY <1>6, <2>1, UpdateChangeOutputType, CallType DEF FeePerKb
<1>7. ASSUME NEW s \in ChangeScripts, Change(s) PROVE TypeOK'
  <2>1. [tx EXCEPT !.changeScript = s] \in Transactions
    BY <1>0 DEF Transactions
  <2> QED BY <1>7, <2>1, UpdateChangeOutputType, CallType DEF Change
<1>8. ASSUME NEW o \in Payments, AddOutput(o) PROVE TypeOK'
  <2>1. Append(tx.outputs, o) \in Seq(Outputs)
    BY <1>0, ArgumentsAssumption
  <2>2. [tx EXCEPT !.outputs = Append(@, o), !.outputAmount = Undefined] \in Transactions
    BY <1>0, <2>1 DEF Transactions
  <2> QED BY <1>8, <2>2, UpdateChangeOutputType, CallType DEF AddOutput
<1>9. ASSUME ClearOutputs PROVE TypeOK'
  <2> DEFINE emptied == [tx EXCEPT !.outputs = <<>>]
             reset == [ClearSignatures(emptied) EXCEPT !.outputAmount = Undefined,
                                                       !.changeIndex = Undefined]
  <2>1. emptied \in Transactions
    <3>1. <<>> \in Seq(Outputs)
      OBVIOUS
    <3> QED BY <1>0, <3>1 DEF Transactions
  <2>2. ClearSignatures(emptied) \in Transactions
    BY <2>1, ClearSignaturesType
  <2>3. reset \in Transactions
    BY <2>2 DEF Transactions
  <2> QED BY <1>9, <1>000, <2>2, <2>3, UpdateChangeOutputType, CallType DEF ClearOutputs
<1>10. ASSUME NEW i \in 1 .. MaxOutputs + 1, RemoveOutput(i) PROVE TypeOK'
  BY <1>0, <1>10, RemoveOutputAtType, UpdateChangeOutputType, CallType DEF RemoveOutput
<1>11. ASSUME NEW i \in 1 .. MaxOutputs + 1, RemoveLaterOutput(i) PROVE TypeOK'
  BY <1>0, <1>11, RemoveOutputAtType, UpdateChangeOutputType, CallType DEF RemoveLaterOutput
<1>12. ASSUME NEW p \in Orders(Len(tx.outputs)), SortOutputs(p) PROVE TypeOK'
  <2>1. Reorder(tx.outputs, p) \in Seq(Outputs)
    BY <1>0, ReorderElements
  <2> QED BY <1>0, <1>000, <1>12, <2>1, NewOutputOrderType, CallType DEF SortOutputs
<1>13. ASSUME SortOutputsBadly PROVE TypeOK'
  BY <1>0, <1>000, <1>13, CallType DEF SortOutputsBadly
<1>14. ASSUME NEW p \in Orders(Len(tx.inputs))
       PROVE  ClearSignatures([tx EXCEPT !.inputs = Reorder(@, p)]) \in Transactions
  <2>1. Reorder(tx.inputs, p) \in Seq(Inputs)
    BY <1>0, ReorderElements
  <2>2. [tx EXCEPT !.inputs = Reorder(@, p)] \in Transactions
    BY <1>0, <2>1 DEF Transactions
  <2> QED BY <2>2, ClearSignaturesType
<1>15. ASSUME NEW p \in Orders(Len(tx.inputs)), SortInputs(p) PROVE TypeOK'
  BY <1>000, <1>14, <1>15, CallType DEF SortInputs
<1>16. ASSUME NEW p \in Orders(Len(tx.inputs)), NEW q \in Orders(Len(tx.outputs)), Sort(p, q)
       PROVE  TypeOK'
  <2>1. Reorder(tx.outputs, q) \in Seq(Outputs)
    BY <1>0, ReorderElements
  <2>2. ClearSignatures([tx EXCEPT !.inputs = Reorder(tx.inputs, p)]) \in Transactions
    BY <1>14
  <2> QED BY <1>000, <1>16, <2>1, <2>2, NewOutputOrderType, CallType DEF Sort
<1>17. ASSUME NEW date \in BOOLEAN, NEW time \in LockTimes, LockUntil(date, time)
       PROVE  TypeOK'
  <2> DEFINE inputs == [i \in DOMAIN tx.inputs |->
                IF tx.inputs[i].sequenceNumber = DEFAULT_SEQNUMBER
                THEN [tx.inputs[i] EXCEPT !.sequenceNumber = DEFAULT_LOCKTIME_SEQNUMBER]
                ELSE tx.inputs[i]]
  <2>1. DEFAULT_LOCKTIME_SEQNUMBER \in SequenceNumbers
    BY DEF SequenceNumbers
  <2>2. \A input \in Inputs :
          [input EXCEPT !.sequenceNumber = DEFAULT_LOCKTIME_SEQNUMBER] \in Inputs
    BY <2>1 DEF Inputs
  <2>3. inputs \in [DOMAIN tx.inputs -> Inputs]
    BY <1>00, <2>2
  <2> HIDE DEF inputs
  <2>4. [tx EXCEPT !.inputs = inputs] \in Transactions
    BY <1>0, <2>3, InputsType
  <2>5. [tx EXCEPT !.nLockTime = time, !.inputs = inputs] \in Transactions
    BY <1>0, <2>4, ArgumentsAssumption DEF Transactions
  <2> QED BY <1>0, <1>000, <1>17, <2>5, CallType DEF LockUntil, inputs
<1>18. ASSUME NEW key \in PrivateKeys, NEW sigtype \in SigTypes, Sign(key, sigtype)
       PROVE  TypeOK'
  <2> DEFINE Signed(i) == /\ key \in tx.inputs[i].keys
                          /\ \A j \in 1 .. i : ~(/\ key \in tx.inputs[j].keys
                                                 /\ IsMultiSig(tx.inputs[j])
                                                 /\ InputFullySigned(tx.inputs[j]))
             inputs == [i \in DOMAIN tx.inputs |->
                          IF Signed(i)
                          THEN [tx.inputs[i] EXCEPT !.sigs[key] = Signature(tx, sigtype, i)]
                          ELSE tx.inputs[i]]
  <2>1. ASSUME NEW i \in DOMAIN tx.inputs
        PROVE  (IF Signed(i)
                THEN [tx.inputs[i] EXCEPT !.sigs[key] = Signature(tx, sigtype, i)]
                ELSE tx.inputs[i]) \in Inputs
    <3>1. tx.inputs[i].keys \in KeySets
      BY <1>00 DEF Inputs
    <3>2. key \in tx.inputs[i].keys => key \in PublicKeys
      BY <3>1 DEF KeySets, PublicKeys
    <3>3. Signature(tx, sigtype, i) \in Signatures
      BY <1>0, SighashType
    <3> QED BY <1>00, <3>2, <3>3, SetSignatureType
  <2>2. inputs \in [DOMAIN tx.inputs -> Inputs]
    BY <2>1
  <2> HIDE DEF inputs
  <2>3. [tx EXCEPT !.inputs = inputs] \in Transactions
    BY <1>0, <2>2, InputsType
  <2> QED BY <1>0, <1>000, <1>18, <2>3, CallType DEF Sign, inputs
<1>19. ASSUME NEW key \in PrivateKeys, NEW sigtype \in SigTypes, GetSignatures(key, sigtype)
       PROVE  TypeOK'
  <2>1. PICK i \in DOMAIN tx.inputs :
          /\ key \in tx.inputs[i].keys
          /\ detached' = [inputIndex |-> i, publicKey |-> key,
                          signature |-> Signature(tx, sigtype, i)]
    BY <1>19 DEF GetSignatures
  <2>2. i \in Nat
    BY <1>0
  <2>3. tx.inputs[i].keys \in KeySets
    BY <1>00 DEF Inputs
  <2>4. key \in PublicKeys
    BY <2>1, <2>3 DEF KeySets, PublicKeys
  <2>5. detached' \in Detached
    BY <1>0, <2>1, <2>2, <2>4, SighashType DEF Detached
  <2> QED BY <1>0, <1>19, <2>5 DEF GetSignatures, TypeOK
<1>20. ASSUME ApplySignature PROVE TypeOK'
  <2> DEFINE i == detached.inputIndex
             key == detached.publicKey
             applied == [tx EXCEPT !.inputs[i].sigs[key] = detached.signature]
             inputs == [j \in DOMAIN tx.inputs |->
                          IF j = i THEN [tx.inputs[j] EXCEPT !.sigs[key] = detached.signature]
                          ELSE tx.inputs[j]]
  <2>1. key \in PublicKeys /\ detached.signature \in Signatures
    BY <1>20 DEF ApplySignature, TypeOK, Detached
  <2>2. ASSUME NEW j \in DOMAIN tx.inputs
        PROVE  [tx.inputs[j] EXCEPT !.sigs[key] = detached.signature] \in Inputs
    BY <1>00, <2>1, SetSignatureType
  <2>3. inputs \in [DOMAIN tx.inputs -> Inputs]
    BY <1>00, <2>2
  <2>4. [tx EXCEPT !.inputs = inputs] \in Transactions
    <3> HIDE DEF inputs
    <3> QED BY <1>0, <2>3, InputsType
  <2>5. applied = [tx EXCEPT !.inputs = inputs]
    <3>1. tx.inputs = [j \in DOMAIN tx.inputs |-> tx.inputs[j]]
      BY <1>0
    <3>2. [tx.inputs EXCEPT ![i].sigs[key] = detached.signature] = inputs
      BY <3>1
    <3> QED BY <3>2
  <2> HIDE DEF applied
  <2> QED BY <1>0, <1>000, <1>20, <2>4, <2>5, CallType DEF ApplySignature, applied
<1>21. ASSUME ReadInputAmount PROVE TypeOK'
  BY <1>0, <1>000, <1>21, LoadInputAmountType, CallType DEF ReadInputAmount
<1>22. ASSUME ReadFee PROVE TypeOK'
  BY <1>0, <1>000, <1>22, LoadInputAmountType, LoadAmountsType, CallType DEF ReadFee
<1>23. ASSUME NEW opts \in SerializeOpts, Serialize(opts) PROVE TypeOK'
  BY <1>0, <1>000, <1>23, LoadInputAmountType, LoadAmountsType, CallType DEF Serialize
<1>24. ASSUME Reload PROVE TypeOK'
  <2> DEFINE inputs == [i \in DOMAIN tx.inputs |->
                          IF HasOutput(tx.inputs[i]) THEN tx.inputs[i]
                          ELSE [tx.inputs[i] EXCEPT !.class = "Input"]]
             copy == [tx EXCEPT
                        !.changeIndex = IF @ = 1 THEN Undefined ELSE @,
                        !.fee = IF @ = 0 THEN Undefined ELSE @,
                        !.feePerKb = Undefined,
                        !.inputAmount = Undefined, !.outputAmount = Undefined]
  <2>1. inputs \in [DOMAIN tx.inputs -> Inputs]
    <3>1. \A input \in Inputs : [input EXCEPT !.class = "Input"] \in Inputs
      BY DEF Inputs, Classes
    <3> QED BY <1>00, <3>1
  <2> HIDE DEF inputs
  <2>2. copy \in Transactions /\ copy.inputs = tx.inputs
    BY Zenon, <1>0 DEF Transactions
  <2> HIDE DEF copy
  <2>3. [copy EXCEPT !.inputs = inputs] \in Transactions
    BY <2>1, <2>2, InputsType
  <2> QED BY <1>0, <1>000, <1>24, <2>2, <2>3, CallType DEF Reload, inputs, copy
<1>25. ASSUME Reparse PROVE TypeOK'
  <2> DEFINE inputs == [i \in DOMAIN tx.inputs |->
                          [tx.inputs[i] EXCEPT !.class = "Input", !.satoshis = Undefined]]
  <2>1. inputs \in [DOMAIN tx.inputs -> Inputs]
    <3>1. \A input \in Inputs :
            [input EXCEPT !.class = "Input", !.satoshis = Undefined] \in Inputs
      BY DEF Inputs, Classes
    <3> QED BY <1>00, <3>1
  <2>2. inputs \in Seq(Inputs)
    BY <1>0, <2>1, MapType
  <2> HIDE DEF inputs
  <2>3. [EmptyTransaction EXCEPT !.inputs = inputs, !.outputs = tx.outputs,
                                 !.nLockTime = tx.nLockTime] \in Transactions
    BY <1>0, <2>2 DEF EmptyTransaction, Transactions
  <2> QED BY <1>000, <1>25, <2>3, CallType DEF Reparse, inputs
<1>26. ASSUME UNCHANGED vars PROVE TypeOK'
  BY <1>26 DEF vars, TypeOK
<1> QED
  BY <1>1, <1>2, <1>3, <1>4, <1>5, <1>6, <1>7, <1>8, <1>9, <1>10, <1>11, <1>12, <1>13,
     <1>15, <1>16, <1>17, <1>18, <1>19, <1>20, <1>21, <1>22, <1>23, <1>24, <1>25, <1>26
  DEF Next, PaymentCall, OtherCall

(* The fields of the object always have the types the code gives them: amounts,
   fees and the change index are natural numbers or undefined, whatever the
   order of calls and wherever a call throws. *)
THEOREM TypeCorrect == Spec => []TypeOK
<1>1. Init => TypeOK
  BY InitType
<1>2. TypeOK /\ [Next]_vars => TypeOK'
  BY NextType
<1> QED BY <1>1, <1>2, PTL DEF Spec

-----------------------------------------------------------------------------
(* What holds of the sums, the change and the fee *)

Complete(t) ==
  \A i \in DOMAIN t.inputs : Subclassed(t.inputs[i]) /\ HasOutput(t.inputs[i])

Tracked(t) ==
  t.changeIndex # Undefined =>
    /\ t.changeIndex \in DOMAIN t.outputs
    /\ t.outputs[t.changeIndex].script = t.changeScript

PaysFee(t) ==
  t.changeScript # Undefined =>
    IF t.changeIndex # Undefined THEN Unspent(t) = GetFee(t)
                                 ELSE Unspent(t) <= GetFee(t)

InputFresh(t)  == t.inputAmount \in {Undefined, InputTotal(t.inputs)}
OutputFresh(t) == t.outputAmount \in {Undefined, OutputTotal(t.outputs)}

ChangeHasScript(t) == t.changeIndex # Undefined => t.changeScript # Undefined

\* What a method may rely on before it updates the change output
Consistent(t) ==
  ChangeHasScript(t) /\ OutputFresh(t) /\ (Complete(t) => InputFresh(t))

\* A fee set by the client is lost in a round trip through toObject().
Settled(t) ==
  /\ Consistent(t)
  /\ Complete(t) => Tracked(t) /\ ("reload" \notin Calls => PaysFee(t))

-----------------------------------------------------------------------------
(* Amounts of complete transactions *)

LEMMA CompleteInputs ==
  ASSUME NEW t \in Transactions, Complete(t)
  PROVE  /\ [i \in DOMAIN t.inputs |-> t.inputs[i].satoshis] \in Seq(Nat)
         /\ Len([i \in DOMAIN t.inputs |-> t.inputs[i].satoshis]) = Len(t.inputs)
         /\ InputTotal(t.inputs) \in Nat
<1> DEFINE s == [i \in DOMAIN t.inputs |-> t.inputs[i].satoshis]
<1>1. t.inputs \in Seq(Inputs)
  BY DEF Transactions
<1>2. \A i \in DOMAIN t.inputs : t.inputs[i] \in Inputs
  BY <1>1
<1>3. \A i \in DOMAIN t.inputs : t.inputs[i].satoshis \in Nat
  BY <1>2 DEF Complete, HasOutput, Inputs
<1>4. s \in [DOMAIN t.inputs -> Nat]
  BY <1>3
<1>5. s \in Seq(Nat) /\ Len(s) = Len(t.inputs)
  BY <1>1, <1>4, MapType
<1> QED BY <1>5, SumSeqNat DEF InputTotal

LEMMA LoadedInputAmount ==
  ASSUME NEW t \in Transactions, Complete(t), InputFresh(t)
  PROVE  LoadInputAmount(t) = [t EXCEPT !.inputAmount = InputTotal(t.inputs)]
<1>1. t.inputs \in Seq(Inputs)
  BY DEF Transactions
<1>2. ASSUME NEW i \in DOMAIN t.inputs
      PROVE  \A j \in 1 .. i : HasOutput(t.inputs[j])
  BY <1>1 DEF Complete
<1>3. [i \in DOMAIN t.inputs |-> IF \A j \in 1 .. i : HasOutput(t.inputs[j])
                                 THEN t.inputs[i].satoshis ELSE 0]
        = [i \in DOMAIN t.inputs |-> t.inputs[i].satoshis]
  BY <1>2
<1>4. t.inputAmount # Undefined => t = [t EXCEPT !.inputAmount = InputTotal(t.inputs)]
  BY DEF InputFresh, Transactions
<1> QED BY <1>3, <1>4 DEF LoadInputAmount, InputTotal

LEMMA LoadedOutputAmount ==
  ASSUME NEW t \in Transactions, OutputFresh(t)
  PROVE  LoadOutputAmount(t) = [t EXCEPT !.outputAmount = OutputTotal(t.outputs)]
BY DEF LoadOutputAmount, OutputFresh, Transactions

\* The cached sums of a complete transaction are its real ones.
LEMMA UnspentIsReal ==
  ASSUME NEW t \in Transactions, Complete(t), Consistent(t)
  PROVE  /\ UnspentValue(t) = Unspent(t)
         /\ Unspent(t) \in Int
<1> DEFINE u == LoadInputAmount(t)
<1>1. u = [t EXCEPT !.inputAmount = InputTotal(t.inputs)]
  BY LoadedInputAmount DEF Consistent
<1>2. u \in Transactions
  BY LoadInputAmountType
<1>3. OutputFresh(u) /\ u.outputs = t.outputs /\ u.inputAmount = InputTotal(t.inputs)
  BY <1>1 DEF Consistent, OutputFresh, Transactions
<1> HIDE DEF u
<1>4. LoadOutputAmount(u) = [u EXCEPT !.outputAmount = OutputTotal(t.outputs)]
  BY <1>2, <1>3, LoadedOutputAmount
<1>5. LoadAmounts(t) = LoadOutputAmount(u)
  BY DEF LoadAmounts, u
<1>6. LoadAmounts(t).inputAmount = InputTotal(t.inputs)
      /\ LoadAmounts(t).outputAmount = OutputTotal(t.outputs)
  BY <1>2, <1>3, <1>4, <1>5 DEF Transactions
<1>7. InputTotal(t.inputs) \in Nat /\ OutputTotal(t.outputs) \in Nat
  BY CompleteInputs, OutputTotalType DEF Transactions
<1> QED BY <1>6, <1>7 DEF UnspentValue, Unspent

\* The fee depends on what is unspent and on the size only.
LEMMA GetFeeSame ==
  ASSUME NEW t \in Transactions, NEW u \in Transactions,
         UnspentValue(u) = UnspentValue(t), EstimatedSize(u) = EstimatedSize(t),
         u.fee = t.fee, u.feePerKb = t.feePerKb, u.changeScript = t.changeScript
  PROVE  GetFee(u) = GetFee(t)
BY DEF GetFee, EstimateFee

\* A step that changes no amount, size or fee leaves a settled transaction settled.
LEMMA SettledSame ==
  ASSUME NEW t \in Transactions, NEW u \in Transactions, Settled(t),
         Complete(u) => /\ Complete(t)
                        /\ InputFresh(u)
                        /\ InputTotal(u.inputs) = InputTotal(t.inputs)
                        /\ EstimatedSize(u) = EstimatedSize(t)
                        /\ Tracked(t) => Tracked(u),
         OutputFresh(u), OutputTotal(u.outputs) = OutputTotal(t.outputs),
         u.fee = t.fee, u.feePerKb = t.feePerKb, u.changeScript = t.changeScript,
         u.changeIndex = Undefined <=> t.changeIndex = Undefined
  PROVE  Settled(u)
<1>1. Consistent(u)
  BY DEF Settled, Consistent, ChangeHasScript
<1>2. ASSUME Complete(u), "reload" \notin Calls PROVE PaysFee(u)
  <2>1. Consistent(t) /\ Complete(t) /\ PaysFee(t)
    BY <1>2 DEF Settled
  <2>2. Unspent(u) = Unspent(t)
    BY <1>2 DEF Unspent
  <2>3. UnspentValue(u) = UnspentValue(t)
    BY <1>1, <1>2, <2>1, <2>2, UnspentIsReal
  <2>4. GetFee(u) = GetFee(t)
    BY <1>2, <2>3, GetFeeSame
  <2> QED BY <2>1, <2>2, <2>4 DEF PaysFee
<1> QED BY <1>1, <1>2 DEF Settled

-----------------------------------------------------------------------------
(* Fees *)

LEMMA Kilobytes ==
  ASSUME NEW KB \in Nat \ {0}, NEW a \in Nat, NEW b \in Nat, NEW c \in Nat,
         b <= c, c <= KB
  PROVE  /\ (a + KB - 1) \div KB \in Nat
         /\ (a + KB - 1) \div KB <= (a + b + KB - 1) \div KB
         /\ (a + b + KB - 1) \div KB <= (a + c + KB - 1) \div KB
         /\ (a + c + KB - 1) \div KB <= (a + KB - 1) \div KB + 1
         /\ (a + c + KB - 1) \div KB <= (a + b + c + KB - 1) \div KB
         /\ (a + b + c + KB - 1) \div KB <= (a + b + KB - 1) \div KB + 1
OBVIOUS

LEMMA Price ==
  ASSUME NEW k \in Nat, NEW l \in Nat, NEW rate \in Nat
  PROVE  /\ k * rate \in Nat
         /\ k <= l => k * rate <= l * rate
         /\ k * rate < l * rate => k < l
<1>1. k <= l => k * rate <= l * rate
  <2> SUFFICES ASSUME k <= l PROVE k * rate <= l * rate
    OBVIOUS
  <2>1. PICK d \in Nat : l = k + d
    <3>1. l - k \in Nat /\ l = k + (l - k)
      OBVIOUS
    <3> QED BY <3>1
  <2>2. l * rate = k * rate + d * rate
    BY <2>1
  <2>3. d * rate \in Nat /\ k * rate \in Nat
    OBVIOUS
  <2> QED BY <2>2, <2>3
<1>2. k * rate < l * rate => k < l
  <2> SUFFICES ASSUME l <= k PROVE l * rate <= k * rate
    OBVIOUS
  <2>1. PICK d \in Nat : k = l + d
    <3>1. k - l \in Nat /\ k = l + (k - l)
      OBVIOUS
    <3> QED BY <3>1
  <2>2. k * rate = l * rate + d * rate
    BY <2>1
  <2>3. d * rate \in Nat /\ l * rate \in Nat
    OBVIOUS
  <2> QED BY <2>2, <2>3
<1> QED BY <1>1, <1>2

(* The estimate is a fixed point: with the change output of at most the size
   that was kept free for it, the fee of the larger transaction is the one that
   was subtracted for the smaller one. *)
LEMMA FeeIsStable ==
  ASSUME NEW size \in Nat, NEW rate \in Nat \cup {Undefined}, NEW output \in Nat,
         output <= CHANGE_OUTPUT_MAX_SIZE
  PROVE  LET fee == FeeForSize(size + CHANGE_OUTPUT_MAX_SIZE, rate)
         IN  FeeForSize(IF fee > FeeForSize(size + output, rate)
                        THEN size + output + CHANGE_OUTPUT_MAX_SIZE
                        ELSE size + output, rate) = fee
<1> DEFINE KB == BYTES_PER_KB
           max == CHANGE_OUTPUT_MAX_SIZE
           r == IF rate \in {Undefined, 0} THEN FEE_PER_KB ELSE rate
           k1 == (size + output + KB - 1) \div KB
           k2 == (size + max + KB - 1) \div KB
           k3 == (size + output + max + KB - 1) \div KB
<1>1. KB \in Nat \ {0} /\ max \in Nat /\ max <= KB /\ r \in Nat
  BY SizesAssumption
<1>2. FeeForSize(size + output, rate) = k1 * r
  BY DEF FeeForSize
<1>3. FeeForSize(size + max, rate) = k2 * r
  BY DEF FeeForSize
<1>4. FeeForSize(size + output + max, rate) = k3 * r
  BY DEF FeeForSize
<1> HIDE DEF KB, max, r
<1>5. k1 \in Nat /\ k2 \in Nat /\ k3 \in Nat
  BY <1>1
<1>6. k1 <= k2 /\ k2 <= k3 /\ k3 <= k1 + 1
  BY <1>1, Kilobytes DEF max
<1> HIDE DEF k1, k2, k3
<1>7. k1 * r \in Nat /\ k2 * r \in Nat /\ k1 * r <= k2 * r /\ (k1 * r < k2 * r => k1 < k2)
  BY <1>1, <1>5, <1>6, Price
<1>8. k2 * r > k1 * r => k3 = k2
  BY <1>5, <1>6, <1>7
<1>9. ~(k2 * r > k1 * r) => k1 * r = k2 * r
  BY <1>7
<1> QED BY <1>2, <1>3, <1>4, <1>8, <1>9 DEF max

\* The change output itself: what is left over beyond the fee.
LEMMA AppendedOutput ==
  ASSUME NEW outputs \in Seq(Outputs), NEW o \in Outputs
  PROVE  /\ OutputTotal(Append(outputs, o)) = OutputTotal(outputs) + o.satoshis
         /\ SumSeq([i \in DOMAIN Append(outputs, o) |->
                      OutputSize[Append(outputs, o)[i].script]])
              = SumSeq([i \in DOMAIN outputs |-> OutputSize[outputs[i].script]])
                  + OutputSize[o.script]
<1> DEFINE more == Append(outputs, o)
           n == Len(outputs)
<1>1. /\ n \in Nat /\ DOMAIN outputs = 1 .. n
      /\ DOMAIN more = 1 .. n + 1
      /\ \A i \in 1 .. n : more[i] = outputs[i] /\ outputs[i] \in Outputs
      /\ more[n + 1] = o
  OBVIOUS
<1>2. o.satoshis \in Nat /\ OutputSize[o.script] \in Nat
  BY SizesAssumption DEF Outputs
<1>3. \A p \in Outputs : p.satoshis \in Nat /\ OutputSize[p.script] \in Nat
  BY SizesAssumption DEF Outputs
<1> HIDE DEF more, n
<1> DEFINE amounts == [i \in 1 .. n |-> outputs[i].satoshis]
           sizes == [i \in 1 .. n |-> OutputSize[outputs[i].script]]
<1>4. amounts \in Seq(Int) /\ Len(amounts) = n /\ sizes \in Seq(Int) /\ Len(sizes) = n
  <2>1. amounts \in [1 .. n -> Int] /\ sizes \in [1 .. n -> Int]
    BY <1>1, <1>3
  <2> HIDE DEF amounts, sizes
  <2>2. amounts \in Seq(Int) /\ Len(amounts) = n
    BY <2>1, <1>1, IsASeq
  <2>3. sizes \in Seq(Int) /\ Len(sizes) = n
    BY <2>1, <1>1, IsASeq
  <2> QED BY <2>2, <2>3
<1>5. [i \in 1 .. n + 1 |-> more[i].satoshis] = Append(amounts, o.satoshis)
  <2>1. \A i \in 1 .. n + 1 :
          more[i].satoshis = IF i <= n THEN amounts[i] ELSE o.satoshis
    BY <1>1
  <2> HIDE DEF amounts
  <2>2. Append(amounts, o.satoshis)
          = [i \in 1 .. n + 1 |-> IF i <= n THEN amounts[i] ELSE o.satoshis]
    BY <1>1, <1>2, <1>4
  <2> QED BY <2>1, <2>2
<1>6. [i \in 1 .. n + 1 |-> OutputSize[more[i].script]] = Append(sizes, OutputSize[o.script])
  <2>1. \A i \in 1 .. n + 1 :
          OutputSize[more[i].script] = IF i <= n THEN sizes[i] ELSE OutputSize[o.script]
    BY <1>1
  <2> HIDE DEF sizes
  <2>2. Append(sizes, OutputSize[o.script])
          = [i \in 1 .. n + 1 |-> IF i <= n THEN sizes[i] ELSE OutputSize[o.script]]
    BY <1>1, <1>2, <1>4
  <2> QED BY <2>1, <2>2
<1> HIDE DEF amounts, sizes
<1>7. /\ SumSeq(Append(amounts, o.satoshis)) = SumSeq(amounts) + o.satoshis
      /\ SumSeq(Append(sizes, OutputSize[o.script])) = SumSeq(sizes) + OutputSize[o.script]
  BY <1>2, <1>4, SumSeqAppend
<1> QED BY <1>1, <1>5, <1>6, <1>7 DEF OutputTotal, amounts, sizes, more

-----------------------------------------------------------------------------
(* The change output *)

\* A change output is placed so that the fee of what results is what is left.
LEMMA PlacedChangePaysFee ==
  ASSUME NEW t \in Transactions, t.changeScript # Undefined,
         Consistent(t), Complete(t),
         NEW change, change = UnspentValue(t) - GetFee(t), change > 0,
         NEW u \in Transactions,
         u = [t EXCEPT !.changeIndex = Len(t.outputs) + 1,
                       !.outputs = Append(@, [script |-> t.changeScript,
                                              satoshis |-> change]),
                       !.outputAmount = Undefined]
  PROVE  Unspent(u) = GetFee(u)
<1> DEFINE o == [script |-> t.changeScript, satoshis |-> change]
           size == EstimatedSize(t)
           extra == OutputSize[t.changeScript]
<1>1. /\ t.changeScript \in ChangeScripts /\ t.outputs \in Seq(Outputs)
      /\ t.feePerKb \in Nat \cup {Undefined}
  BY DEF Transactions
<1>2. change \in Int /\ GetFee(t) \in Int /\ UnspentValue(t) \in Int
  BY LoadAmountsType, GetFeeType
<1>3. o \in Outputs
  BY <1>1, <1>2, ArgumentsAssumption DEF Outputs
<1>4. /\ u.outputs = Append(t.outputs, o) /\ u.inputs = t.inputs
      /\ u.outputAmount = Undefined /\ u.inputAmount = t.inputAmount
      /\ u.fee = t.fee /\ u.feePerKb = t.feePerKb /\ u.changeScript = t.changeScript
  BY DEF Transactions
<1>5. /\ OutputTotal(u.outputs) = OutputTotal(t.outputs) + change
      /\ EstimatedSize(u) = size + extra
  <2> HIDE DEF o
  <2>1. /\ OutputTotal(Append(t.outputs, o)) = OutputTotal(t.outputs) + o.satoshis
        /\ SumSeq([i \in DOMAIN Append(t.outputs, o) |->
                     OutputSize[Append(t.outputs, o)[i].script]])
             = SumSeq([i \in DOMAIN t.outputs |-> OutputSize[t.outputs[i].script]])
                 + OutputSize[o.script]
    BY <1>1, <1>3, AppendedOutput
  <2>2. o.satoshis = change /\ o.script = t.changeScript
    BY DEF o
  <2> DEFINE ins == SumSeq([i \in DOMAIN t.inputs |-> t.inputs[i].size])
             outs == SumSeq([i \in DOMAIN t.outputs |-> OutputSize[t.outputs[i].script]])
  <2>3. size = MAXIMUM_EXTRA_SIZE + ins + outs
    BY DEF EstimatedSize
  <2>4. EstimatedSize(u) = MAXIMUM_EXTRA_SIZE + ins
                             + SumSeq([i \in DOMAIN Append(t.outputs, o) |->
                                         OutputSize[Append(t.outputs, o)[i].script]])
    BY <1>4 DEF EstimatedSize
  <2>5. ins \in Int /\ outs \in Int
    <3>1. t.inputs \in Seq(Inputs)
      BY DEF Transactions
    <3>2. /\ \A i \in DOMAIN t.inputs : t.inputs[i] \in Inputs
          /\ \A i \in DOMAIN t.outputs : t.outputs[i] \in Outputs
      BY <1>1, <3>1
    <3>3. \A i \in DOMAIN t.inputs : t.inputs[i].size \in Int
      BY <3>2 DEF Inputs
    <3>4. \A i \in DOMAIN t.outputs : OutputSize[t.outputs[i].script] \in Int
      BY <3>2, SizesAssumption DEF Outputs
    <3>5. [i \in DOMAIN t.inputs |-> t.inputs[i].size] \in [DOMAIN t.inputs -> Int]
      BY <3>3
    <3>6. [i \in DOMAIN t.outputs |-> OutputSize[t.outputs[i].script]]
            \in [DOMAIN t.outputs -> Int]
      BY <3>4
    <3> QED BY <1>1, <3>1, <3>5, <3>6, MapType, SumSeqInt
  <2>6. extra \in Int /\ MAXIMUM_EXTRA_SIZE \in Int
    BY <1>1, SizesAssumption, ArgumentsAssumption
  <2> HIDE DEF ins
  <2>7. EstimatedSize(u) = MAXIMUM_EXTRA_SIZE + ins + (outs + extra)
    BY <2>1, <2>2, <2>4
  <2> HIDE DEF outs, size, extra
  <2>8. EstimatedSize(u) = size + extra
    BY <2>3, <2>5, <2>6, <2>7
  <2> QED BY <1>4, <2>1, <2>2, <2>8
<1>6. Complete(u) /\ Consistent(u)
  BY <1>1, <1>4 DEF Complete, Consistent, ChangeHasScript, OutputFresh, InputFresh
<1>7. /\ UnspentValue(t) = Unspent(t) /\ UnspentValue(u) = Unspent(u)
  BY <1>6, UnspentIsReal
<1>8. Unspent(u) = GetFee(t)
  <2>1. InputTotal(t.inputs) \in Nat /\ OutputTotal(t.outputs) \in Nat
    BY <1>1, CompleteInputs, OutputTotalType
  <2>2. Unspent(u) = InputTotal(t.inputs) - (OutputTotal(t.outputs) + change)
    BY <1>4, <1>5 DEF Unspent
  <2>3. UnspentValue(t) = InputTotal(t.inputs) - OutputTotal(t.outputs)
    BY <1>7 DEF Unspent
  <2> QED BY <1>2, <2>1, <2>2, <2>3
<1>9. CASE t.fee # Undefined
  BY <1>4, <1>8, <1>9 DEF GetFee
<1>10. CASE t.fee = Undefined
  <2>1. GetFee(t) = EstimateFee(t) /\ GetFee(u) = EstimateFee(u)
    BY <1>4, <1>10 DEF GetFee
  <2>2. size \in Nat /\ extra \in Nat /\ extra <= CHANGE_OUTPUT_MAX_SIZE
    BY <1>1, EstimatedSizeType, SizesAssumption, ArgumentsAssumption
  <2> HIDE DEF size, extra
  <2> DEFINE fee == FeeForSize(size + CHANGE_OUTPUT_MAX_SIZE, t.feePerKb)
  <2>3. EstimateFee(t) = IF UnspentValue(t) > FeeForSize(size, t.feePerKb)
                         THEN fee ELSE FeeForSize(size, t.feePerKb)
    BY DEF EstimateFee, size
  <2>4. EstimateFee(t) = fee
    <3>1. FeeForSize(size, t.feePerKb) \in Nat
      BY <1>1, <2>2, FeeForSizeType
    <3> HIDE DEF fee
    <3> QED BY <1>2, <2>1, <2>3, <3>1
  <2>5. EstimateFee(u) = FeeForSize(IF UnspentValue(u) > FeeForSize(size + extra, t.feePerKb)
                                    THEN size + extra + CHANGE_OUTPUT_MAX_SIZE
                                    ELSE size + extra, t.feePerKb)
    BY <1>4, <1>5 DEF EstimateFee
  <2>6. UnspentValue(u) = fee
    BY <1>7, <1>8, <2>1, <2>4
  <2>7. EstimateFee(u) = fee
    BY <1>1, <2>2, <2>5, <2>6, FeeIsStable
  <2> QED BY <1>8, <2>1, <2>4, <2>7
<1> QED BY <1>9, <1>10

LEMMA PlaceChangeSettles ==
  ASSUME NEW t \in Transactions, t.changeScript # Undefined,
         OutputFresh(t), Complete(t) => InputFresh(t)
  PROVE  Settled(PlaceChange(t))
<1> DEFINE change == UnspentValue(t) - GetFee(t)
           u == PlaceChange(t)
<1>1. Consistent(t)
  BY DEF Consistent, ChangeHasScript
<1>2. u \in Transactions
  BY PlaceChangeType
<1>3. t.outputs \in Seq(Outputs) /\ UnspentValue(t) \in Int /\ GetFee(t) \in Int
  BY LoadAmountsType, GetFeeType DEF Transactions
<1>4. CASE change > 0
  <2> DEFINE o == [script |-> t.changeScript, satoshis |-> change]
  <2>1. u = [t EXCEPT !.changeIndex = Len(t.outputs) + 1,
                      !.outputs = Append(@, o),
                      !.outputAmount = Undefined]
    BY <1>4 DEF PlaceChange
  <2> HIDE DEF u, change
  <2>2. /\ u.changeIndex = Len(t.outputs) + 1 /\ u.outputs = Append(t.outputs, o)
        /\ u.inputs = t.inputs /\ u.outputAmount = Undefined
        /\ u.inputAmount = t.inputAmount /\ u.changeScript = t.changeScript
    BY <2>1 DEF Transactions
  <2>3. Consistent(u) /\ (Complete(u) => Complete(t))
    BY <1>1, <2>2 DEF Consistent, ChangeHasScript, OutputFresh, InputFresh, Complete
  <2>4. Tracked(u)
    <3>1. Len(t.outputs) + 1 \in DOMAIN Append(t.outputs, o)
          /\ Append(t.outputs, o)[Len(t.outputs) + 1] = o
      BY <1>3
    <3> QED BY <2>2, <3>1 DEF Tracked
  <2>5. Complete(t) => PaysFee(u)
    <3>1. Len(t.outputs) + 1 # Undefined
      BY <1>3, UndefinedAssumption
    <3>2. Complete(t) => Unspent(u) = GetFee(u)
      BY <1>1, <1>2, <1>4, <2>1, PlacedChangePaysFee DEF change
    <3> QED BY <2>2, <3>1, <3>2 DEF PaysFee
  <2> QED BY <2>3, <2>4, <2>5 DEF Settled, u
<1>5. CASE ~(change > 0)
  <2>1. u = [t EXCEPT !.changeIndex = Undefined]
    BY <1>5 DEF PlaceChange
  <2> HIDE DEF u
  <2>2. /\ u.changeIndex = Undefined /\ u.outputs = t.outputs /\ u.inputs = t.inputs
        /\ u.outputAmount = t.outputAmount /\ u.inputAmount = t.inputAmount
        /\ u.changeScript = t.changeScript /\ u.fee = t.fee /\ u.feePerKb = t.feePerKb
    BY <2>1 DEF Transactions
  <2>3. Consistent(u) /\ (Complete(u) => Complete(t))
    BY <1>1, <2>2 DEF Consistent, ChangeHasScript, OutputFresh, InputFresh, Complete
  <2>4. Complete(u) => PaysFee(u)
    <3> SUFFICES ASSUME Complete(u) PROVE PaysFee(u)
      OBVIOUS
    <3>1. UnspentValue(t) = Unspent(t) /\ UnspentValue(u) = Unspent(u)
      BY <1>1, <1>2, <2>3, UnspentIsReal DEF u
    <3>2. Unspent(u) = Unspent(t) /\ EstimatedSize(u) = EstimatedSize(t)
      BY <2>2 DEF Unspent, EstimatedSize
    <3>3. GetFee(u) = GetFee(t)
      BY <1>2, <2>2, <3>1, <3>2, GetFeeSame DEF u
    <3> QED BY <1>3, <1>5, <2>2, <3>1, <3>2, <3>3 DEF PaysFee
  <2> QED BY <2>2, <2>3, <2>4 DEF Settled, Tracked, u
<1> QED BY <1>3, <1>4, <1>5

\* The first half of the update: signatures and the old change output go.
LEMMA ClearedSame ==
  ASSUME NEW t \in Transactions
  PROVE  LET u == ClearSignatures(t)
         IN  /\ u \in Transactions
             /\ u = [t EXCEPT !.inputs = u.inputs]
             /\ Complete(u) <=> Complete(t)
             /\ InputTotal(u.inputs) = InputTotal(t.inputs)
             /\ EstimatedSize(u) = EstimatedSize(t)
             /\ CannotClear(u) <=> CannotClear(t)
<1> DEFINE cleared == [i \in DOMAIN t.inputs |->
                         IF \A j \in 1 .. i : Subclassed(t.inputs[j])
                         THEN Unsign(t.inputs[i]) ELSE t.inputs[i]]
           u == ClearSignatures(t)
<1>1. u = [t EXCEPT !.inputs = cleared] /\ u \in Transactions
  BY ClearSignaturesType DEF ClearSignatures
<1>2. t.inputs \in Seq(Inputs) /\ \A i \in DOMAIN t.inputs : t.inputs[i] \in Inputs
  <2>1. t.inputs \in Seq(Inputs)
    BY DEF Transactions
  <2> QED BY <2>1
<1>3. \A input \in Inputs : /\ Unsign(input).class = input.class
                            /\ Unsign(input).satoshis = input.satoshis
                            /\ Unsign(input).size = input.size
  BY DEF Unsign, Inputs
<1>4. DOMAIN cleared = DOMAIN t.inputs
  OBVIOUS
<1>5. ASSUME NEW i \in DOMAIN t.inputs
      PROVE  /\ cleared[i].class = t.inputs[i].class
             /\ cleared[i].satoshis = t.inputs[i].satoshis
             /\ cleared[i].size = t.inputs[i].size
  BY <1>2, <1>3
<1> HIDE DEF cleared
<1>6. u.inputs = cleared /\ u.outputs = t.outputs
  BY <1>1 DEF Transactions
<1> HIDE DEF u
<1>7. /\ Complete(u) <=> Complete(t)
      /\ CannotClear(u) <=> CannotClear(t)
  BY <1>4, <1>5, <1>6 DEF Complete, CannotClear, Subclassed, HasOutput
<1>8. InputTotal(u.inputs) = InputTotal(t.inputs)
  <2>1. [i \in DOMAIN cleared |-> cleared[i].satoshis]
          = [i \in DOMAIN t.inputs |-> t.inputs[i].satoshis]
    BY <1>4, <1>5
  <2> QED BY <1>6, <2>1 DEF InputTotal
<1>9. EstimatedSize(u) = EstimatedSize(t)
  <2>1. [i \in DOMAIN cleared |-> cleared[i].size] = [i \in DOMAIN t.inputs |-> t.inputs[i].size]
    BY <1>4, <1>5
  <2> QED BY <1>6, <2>1 DEF EstimatedSize
<1> QED BY <1>1, <1>6, <1>7, <1>8, <1>9 DEF u

(* Whatever a method has changed, updating the change output settles the
   transaction, or fails and leaves it with an input that is not complete. *)
LEMMA UpdateSettles ==
  ASSUME NEW t \in Transactions, Consistent(t)
  PROVE  Settled(UpdateChangeOutput(t).tx)
<1> DEFINE cleared == ClearSignatures(t)
           removed == IF t.changeIndex = Undefined THEN cleared
                      ELSE RemoveOutputAt(cleared, t.changeIndex)
<1>1. CASE t.changeScript = Undefined
  <2>1. UpdateChangeOutput(t).tx = t
    BY <1>1 DEF UpdateChangeOutput, Return
  <2>2. Settled(t)
    BY <1>1 DEF Settled, Consistent, ChangeHasScript, Tracked, PaysFee
  <2> QED BY <2>1, <2>2
<1>2. CASE t.changeScript # Undefined
  <2>1. /\ cleared \in Transactions /\ cleared = [t EXCEPT !.inputs = cleared.inputs]
        /\ Complete(cleared) <=> Complete(t)
        /\ InputTotal(cleared.inputs) = InputTotal(t.inputs)
        /\ CannotClear(cleared) <=> CannotClear(t)
    BY ClearedSame
  <2> HIDE DEF cleared
  <2>2. /\ cleared.inputAmount = t.inputAmount /\ cleared.outputs = t.outputs
        /\ cleared.outputAmount = t.outputAmount /\ cleared.changeScript = t.changeScript
        /\ cleared.changeIndex = t.changeIndex
    BY <2>1 DEF Transactions
  <2>3. OutputFresh(cleared) /\ (Complete(cleared) => InputFresh(cleared))
    BY <2>1, <2>2 DEF Consistent, OutputFresh, InputFresh
  <2>4. /\ removed \in Transactions /\ removed.inputs = cleared.inputs
        /\ removed.inputAmount = t.inputAmount /\ removed.changeScript = t.changeScript
        /\ OutputFresh(removed)
    BY <2>1, <2>2, <2>3, RemoveOutputAtType DEF RemoveOutputAt, Transactions, OutputFresh
  <2> HIDE DEF removed
  <2>5. Complete(removed) => InputFresh(removed)
    BY <2>1, <2>2, <2>3, <2>4 DEF Complete, InputFresh
  <2>6. CASE CannotClear(t)
    <3>1. UpdateChangeOutput(t).tx = cleared
      BY <1>2, <2>6 DEF UpdateChangeOutput, Throw, cleared
    <3>2. ~Complete(cleared)
      BY <2>1, <2>6 DEF CannotClear, Complete
    <3> QED BY <1>2, <2>2, <2>3, <3>1, <3>2 DEF Settled, Consistent, ChangeHasScript
  <2>7. CASE ~CannotClear(t) /\ MissingPreviousOutput(removed)
    <3> DEFINE loaded == LoadInputAmount(removed)
    <3>1. UpdateChangeOutput(t).tx = loaded
      BY <1>2, <2>7 DEF UpdateChangeOutput, Throw, cleared, removed
    <3>2. /\ loaded.inputs = removed.inputs /\ loaded.outputs = removed.outputs
          /\ loaded.outputAmount = removed.outputAmount
          /\ loaded.changeScript = removed.changeScript
      BY <2>4 DEF LoadInputAmount, Transactions
    <3> HIDE DEF loaded
    <3>3. ~Complete(loaded)
      BY <2>7, <3>2 DEF Complete, MissingPreviousOutput
    <3> QED BY <1>2, <2>4, <3>1, <3>2, <3>3
            DEF Settled, Consistent, ChangeHasScript, OutputFresh
  <2>8. CASE ~CannotClear(t) /\ ~MissingPreviousOutput(removed)
    <3> DEFINE loaded == LoadAmounts(removed)
               loadedInputs == LoadInputAmount(removed)
    <3>1. UpdateChangeOutput(t).tx = PlaceChange(loaded)
      BY <1>2, <2>8 DEF UpdateChangeOutput, Return, cleared, removed
    <3>2. loaded \in Transactions /\ loadedInputs \in Transactions
      BY <2>4, LoadAmountsType, LoadInputAmountType
    <3>3. /\ loadedInputs.inputs = removed.inputs /\ loadedInputs.outputs = removed.outputs
          /\ loadedInputs.outputAmount = removed.outputAmount
          /\ loadedInputs.changeScript = removed.changeScript
      BY <2>4 DEF LoadInputAmount, Transactions
    <3>4. Complete(removed) => InputFresh(loadedInputs)
      <4> SUFFICES ASSUME Complete(removed) PROVE InputFresh(loadedInputs)
        OBVIOUS
      <4>1. loadedInputs = [removed EXCEPT !.inputAmount = InputTotal(removed.inputs)]
        BY <2>4, <2>5, LoadedInputAmount
      <4> QED BY <2>4, <4>1 DEF InputFresh, Transactions
    <3>5. loaded = LoadOutputAmount(loadedInputs)
      BY DEF LoadAmounts
    <3> HIDE DEF loaded, loadedInputs
    <3>6. OutputFresh(loadedInputs)
      BY <2>4, <3>3 DEF OutputFresh
    <3>7. loaded = [loadedInputs EXCEPT !.outputAmount = OutputTotal(loadedInputs.outputs)]
      BY <3>2, <3>5, <3>6, LoadedOutputAmount
    <3>8. OutputFresh(loaded) /\ loaded.changeScript = t.changeScript
          /\ (Complete(loaded) => InputFresh(loaded))
      BY <2>4, <3>2, <3>3, <3>4, <3>7 DEF OutputFresh, InputFresh, Complete, Transactions
    <3> QED BY <1>2, <3>1, <3>2, <3>8, PlaceChangeSettles
  <2> QED BY <2>6, <2>7, <2>8
<1> QED BY <1>1, <1>2

LEMMA UpdateKeepsComplete ==
  ASSUME NEW t \in Transactions, Complete(t)
  PROVE  Complete(UpdateChangeOutput(t).tx)
<1> DEFINE cleared == ClearSignatures(t)
           removed == IF t.changeIndex = Undefined THEN cleared
                      ELSE RemoveOutputAt(cleared, t.changeIndex)
           loaded == LoadAmounts(removed)
           result == UpdateChangeOutput(t).tx
<1>1. Complete(cleared) /\ cleared \in Transactions
  BY ClearedSame
<1> HIDE DEF cleared
<1>2. removed.inputs = cleared.inputs /\ removed \in Transactions
  BY <1>1, RemoveOutputAtType DEF RemoveOutputAt, Transactions
<1> HIDE DEF removed
<1>3. /\ LoadInputAmount(removed).inputs = cleared.inputs
      /\ loaded.inputs = cleared.inputs /\ loaded \in Transactions
  BY <1>2, LoadAmountsType DEF LoadAmounts, LoadOutputAmount, LoadInputAmount, Transactions
<1> HIDE DEF loaded
<1>4. PlaceChange(loaded).inputs = cleared.inputs
  BY <1>3 DEF PlaceChange, Transactions
<1>5. result \in {t, cleared, LoadInputAmount(removed), PlaceChange(loaded)}
  BY DEF UpdateChangeOutput, Return, Throw, cleared, removed, loaded
<1>6. result = t \/ result.inputs = cleared.inputs
  BY <1>3, <1>4, <1>5
<1> HIDE DEF result
<1> QED BY <1>1, <1>6 DEF Complete, result

LEMMA LoadSettles ==
  ASSUME NEW t \in Transactions, Settled(t)
  PROVE  /\ Settled(LoadInputAmount(t)) /\ Settled(LoadAmounts(t))
         /\ Complete(t) => Complete(LoadInputAmount(t)) /\ Complete(LoadAmounts(t))
<1> DEFINE u == LoadInputAmount(t)
           v == LoadAmounts(t)
<1>1. u \in Transactions /\ v \in Transactions
  BY LoadInputAmountType, LoadAmountsType
<1>2. u = [t EXCEPT !.inputAmount = u.inputAmount]
  BY DEF LoadInputAmount, Transactions
<1>3. Complete(t) => InputFresh(u)
  <2> SUFFICES ASSUME Complete(t) PROVE InputFresh(u)
    OBVIOUS
  <2>1. u = [t EXCEPT !.inputAmount = InputTotal(t.inputs)]
    BY LoadedInputAmount DEF Settled, Consistent
  <2> QED BY <2>1 DEF InputFresh, Transactions
<1> HIDE DEF u
<1>4. Settled(u) /\ (Complete(u) <=> Complete(t))
  <2>1. /\ u.inputs = t.inputs /\ u.outputs = t.outputs /\ u.outputAmount = t.outputAmount
        /\ u.fee = t.fee /\ u.feePerKb = t.feePerKb /\ u.changeScript = t.changeScript
        /\ u.changeIndex = t.changeIndex
    BY <1>2 DEF Transactions
  <2>2. /\ Complete(u) <=> Complete(t)
        /\ OutputFresh(u) /\ EstimatedSize(u) = EstimatedSize(t)
        /\ Tracked(t) => Tracked(u)
    BY <2>1 DEF Complete, Settled, Consistent, OutputFresh, EstimatedSize, Tracked
  <2> QED BY <1>1, <1>3, <2>1, <2>2, SettledSame
<1>5. v = [u EXCEPT !.outputAmount = OutputTotal(u.outputs)]
  BY <1>1, <1>4, LoadedOutputAmount DEF LoadAmounts, Settled, Consistent, u
<1> HIDE DEF v
<1>6. Settled(v) /\ (Complete(v) <=> Complete(u))
  <2>1. /\ v.inputs = u.inputs /\ v.outputs = u.outputs
        /\ v.outputAmount = OutputTotal(u.outputs) /\ v.inputAmount = u.inputAmount
        /\ v.fee = u.fee /\ v.feePerKb = u.feePerKb /\ v.changeScript = u.changeScript
        /\ v.changeIndex = u.changeIndex
    BY <1>1, <1>5 DEF Transactions
  <2>2. /\ Complete(v) <=> Complete(u)
        /\ OutputFresh(v) /\ EstimatedSize(v) = EstimatedSize(u)
        /\ Tracked(u) => Tracked(v)
        /\ Complete(u) => InputFresh(v)
    BY <1>4, <2>1 DEF Complete, Settled, Consistent, OutputFresh, InputFresh,
                     EstimatedSize, Tracked
  <2> QED BY <1>1, <1>4, <2>1, <2>2, SettledSame
<1> QED BY <1>4, <1>6 DEF u, v

-----------------------------------------------------------------------------
(* Rearrangements *)

LEMMA ReorderedInputs ==
  ASSUME NEW t \in Transactions, Settled(t), NEW p \in Orders(Len(t.inputs))
  PROVE  LET u == [t EXCEPT !.inputs = Reorder(@, p)]
         IN  u \in Transactions /\ Settled(u) /\ (Complete(t) => Complete(u))
<1> DEFINE ins == t.inputs
           new == Reorder(ins, p)
           u == [t EXCEPT !.inputs = new]
           n == Len(ins)
<1>1. ins \in Seq(Inputs) /\ n \in Nat /\ DOMAIN ins = 1 .. n
  BY DEF Transactions
<1>2. /\ new \in Seq(Inputs) /\ Len(new) = n
      /\ \A i \in 1 .. n : p[i] \in 1 .. n /\ new[i] = ins[p[i]]
      /\ \A j \in 1 .. n : \E i \in 1 .. n : new[i] = ins[j]
  BY <1>1, ReorderElements
<1> HIDE DEF new, n
<1>3. u \in Transactions /\ u.inputs = new /\ u.outputs = t.outputs
      /\ u.outputAmount = t.outputAmount /\ u.inputAmount = t.inputAmount
      /\ u.fee = t.fee /\ u.feePerKb = t.feePerKb /\ u.changeScript = t.changeScript
      /\ u.changeIndex = t.changeIndex
  BY <1>2 DEF Transactions
<1> HIDE DEF u
<1>4. DOMAIN new = 1 .. n
  BY <1>1, <1>2
<1>5. Complete(u) <=> Complete(t)
  <2> DEFINE Fine(input) == Subclassed(input) /\ HasOutput(input)
  <2>1. (\A i \in 1 .. n : Fine(new[i])) <=> (\A i \in 1 .. n : Fine(ins[i]))
    <3>1. ASSUME \A i \in 1 .. n : Fine(ins[i]), NEW i \in 1 .. n PROVE Fine(new[i])
      BY <1>2, <3>1
    <3>2. ASSUME \A i \in 1 .. n : Fine(new[i]), NEW j \in 1 .. n PROVE Fine(ins[j])
      <4>1. PICK i \in 1 .. n : new[i] = ins[j]
        BY <1>2
      <4> QED BY <3>2, <4>1
    <3> QED BY <3>1, <3>2
  <2> QED BY <1>1, <1>3, <1>4, <2>1 DEF Complete
<1>6. EstimatedSize(u) = EstimatedSize(t)
  <2> DEFINE sizes == [i \in 1 .. n |-> ins[i].size]
  <2>1. sizes \in [1 .. n -> Int]
    <3>1. \A i \in 1 .. n : ins[i] \in Inputs
      BY <1>1
    <3>2. \A i \in 1 .. n : ins[i].size \in Int
      BY <3>1 DEF Inputs
    <3> QED BY <3>2
  <2>2. [i \in 1 .. n |-> new[i].size] = [i \in 1 .. n |-> sizes[p[i]]]
    BY <1>2
  <2> HIDE DEF sizes
  <2>3. sizes \in Seq(Int) /\ Len(sizes) = n /\ DOMAIN sizes = 1 .. n
    BY <1>1, <2>1, IsASeq
  <2>4. Reorder(sizes, p) = [i \in 1 .. n |-> sizes[p[i]]]
    BY <2>3 DEF Reorder
  <2>5. SumSeq(Reorder(sizes, p)) = SumSeq(sizes)
    BY <2>3, SumSeqReorder DEF n
  <2>6. SumSeq([i \in 1 .. n |-> new[i].size]) = SumSeq(sizes)
    BY <2>2, <2>4, <2>5
  <2> QED BY <1>1, <1>3, <1>4, <2>6 DEF EstimatedSize, sizes
<1>7. Complete(t) => InputTotal(new) = InputTotal(ins)
  <2> SUFFICES ASSUME Complete(t) PROVE InputTotal(new) = InputTotal(ins)
    OBVIOUS
  <2> DEFINE amounts == [i \in 1 .. n |-> ins[i].satoshis]
  <2>1. amounts \in Seq(Nat) /\ Len(amounts) = n
    BY <1>1, CompleteInputs DEF n
  <2>2. [i \in 1 .. n |-> new[i].satoshis] = [i \in 1 .. n |-> amounts[p[i]]]
    BY <1>2
  <2> HIDE DEF amounts
  <2>3. amounts \in Seq(Int) /\ DOMAIN amounts = 1 .. n
    BY <1>1, <2>1
  <2>4. Reorder(amounts, p) = [i \in 1 .. n |-> amounts[p[i]]]
    BY <2>3 DEF Reorder
  <2>5. SumSeq(Reorder(amounts, p)) = SumSeq(amounts)
    BY <2>1, <2>3, SumSeqReorder DEF n
  <2>6. SumSeq([i \in 1 .. n |-> new[i].satoshis]) = SumSeq(amounts)
    BY <2>2, <2>4, <2>5
  <2> QED BY <1>1, <1>4, <2>6 DEF InputTotal, amounts
<1>8. OutputFresh(u) /\ (Complete(t) => InputFresh(u)) /\ (Tracked(t) => Tracked(u))
  BY <1>3, <1>7 DEF Settled, Consistent, OutputFresh, InputFresh, Tracked
<1>9. Settled(u)
  BY <1>3, <1>5, <1>6, <1>7, <1>8, SettledSame
<1> QED BY <1>3, <1>5, <1>9 DEF u, new

LEMMA ReorderedOutputs ==
  ASSUME NEW t \in Transactions, Settled(t), NEW p \in Orders(Len(t.outputs))
  PROVE  LET u == NewOutputOrder(t, Reorder(t.outputs, p))
         IN  Settled(u) /\ (Complete(t) => Complete(u))
<1> DEFINE outs == t.outputs
           new == Reorder(outs, p)
           n == Len(outs)
           u == NewOutputOrder(t, new)
           found == IF t.changeIndex \in DOMAIN outs
                    THEN {i \in DOMAIN new : new[i] = outs[t.changeIndex]}
                    ELSE DOMAIN new
           least == CHOOSE i \in found : \A j \in found : i <= j
<1>1. outs \in Seq(Outputs) /\ n \in Nat /\ DOMAIN outs = 1 .. n
  BY DEF Transactions
<1>2. /\ new \in Seq(Outputs) /\ Len(new) = n
      /\ \A i \in 1 .. n : p[i] \in 1 .. n /\ new[i] = outs[p[i]]
      /\ \A j \in 1 .. n : \E i \in 1 .. n : new[i] = outs[j]
  BY <1>1, ReorderElements
<1> HIDE DEF new, n
<1>3. u = [t EXCEPT !.outputs = new,
                    !.changeIndex = IF @ = Undefined THEN Undefined
                                    ELSE IF found = {} THEN 0 ELSE least]
  BY DEF NewOutputOrder
<1>4. DOMAIN new = 1 .. n /\ found \subseteq Nat
  BY <1>1, <1>2
<1>5. found # {} => least \in found
  <2> SUFFICES ASSUME found # {} PROVE least \in found
    OBVIOUS
  <2>1. \E i \in found : \A j \in found : i <= j
    BY <1>4, LeastNat
  <2> HIDE DEF found
  <2> QED BY <2>1
<1> HIDE DEF least
<1>6. u \in Transactions
  BY <1>2, NewOutputOrderType
<1> DEFINE index == IF t.changeIndex = Undefined THEN Undefined
                    ELSE IF found = {} THEN 0 ELSE least
<1>7. /\ u.outputs = new /\ u.changeIndex = index
      /\ u.inputs = t.inputs /\ u.outputAmount = t.outputAmount
      /\ u.inputAmount = t.inputAmount /\ u.fee = t.fee /\ u.feePerKb = t.feePerKb
      /\ u.changeScript = t.changeScript
  BY <1>3 DEF Transactions
<1> HIDE DEF u
<1>8. Tracked(t) => Tracked(u)
  <2> SUFFICES ASSUME Tracked(t), t.changeIndex # Undefined
               PROVE  index \in DOMAIN new /\ new[index].script = t.changeScript
    BY <1>7 DEF Tracked
  <2>1. t.changeIndex \in 1 .. n /\ outs[t.changeIndex].script = t.changeScript
    BY <1>1 DEF Tracked
  <2>2. found = {i \in 1 .. n : new[i] = outs[t.changeIndex]} /\ found # {}
    BY <1>1, <1>2, <1>4, <2>1
  <2> HIDE DEF found
  <2> QED BY <1>4, <1>5, <2>1, <2>2
<1>9. index = Undefined <=> t.changeIndex = Undefined
  BY <1>4, <1>5, UndefinedAssumption
<1> HIDE DEF found, index
<1>10. OutputTotal(new) = OutputTotal(outs)
  <2> DEFINE amounts == [i \in 1 .. n |-> outs[i].satoshis]
  <2>1. amounts \in Seq(Nat)
    BY <1>1, OutputTotalType
  <2>2. [i \in 1 .. n |-> new[i].satoshis] = [i \in 1 .. n |-> amounts[p[i]]]
    BY <1>2
  <2>3. Len(amounts) = n /\ DOMAIN amounts = 1 .. n
    <3>1. amounts \in [1 .. n -> Nat]
      <4>1. \A i \in 1 .. n : outs[i] \in Outputs
        BY <1>1
      <4>2. \A i \in 1 .. n : outs[i].satoshis \in Nat
        BY <4>1 DEF Outputs
      <4> QED BY <4>2
    <3> HIDE DEF amounts
    <3> QED BY <1>1, <2>1, <3>1, IsASeq
  <2> HIDE DEF amounts
  <2>4. Reorder(amounts, p) = [i \in 1 .. n |-> amounts[p[i]]] /\ amounts \in Seq(Int)
    BY <2>1, <2>3 DEF Reorder
  <2>5. SumSeq(Reorder(amounts, p)) = SumSeq(amounts)
    BY <2>3, <2>4, SumSeqReorder DEF n
  <2>6. SumSeq([i \in 1 .. n |-> new[i].satoshis]) = SumSeq(amounts)
    BY <2>2, <2>4, <2>5
  <2> QED BY <1>1, <1>4, <2>6 DEF OutputTotal, amounts
<1>11. EstimatedSize(u) = EstimatedSize(t)
  <2> DEFINE sizes == [i \in 1 .. n |-> OutputSize[outs[i].script]]
  <2>1. sizes \in [1 .. n -> Int]
    <3>1. \A i \in 1 .. n : outs[i] \in Outputs
      BY <1>1
    <3>2. \A i \in 1 .. n : OutputSize[outs[i].script] \in Int
      BY <3>1, SizesAssumption DEF Outputs
    <3> QED BY <3>2
  <2>2. [i \in 1 .. n |-> OutputSize[new[i].script]] = [i \in 1 .. n |-> sizes[p[i]]]
    BY <1>2
  <2> HIDE DEF sizes
  <2>3. sizes \in Seq(Int) /\ Len(sizes) = n /\ DOMAIN sizes = 1 .. n
    BY <1>1, <2>1, IsASeq
  <2>4. Reorder(sizes, p) = [i \in 1 .. n |-> sizes[p[i]]]
    BY <2>3 DEF Reorder
  <2>5. SumSeq(Reorder(sizes, p)) = SumSeq(sizes)
    BY <2>3, SumSeqReorder DEF n
  <2>6. SumSeq([i \in 1 .. n |-> OutputSize[new[i].script]]) = SumSeq(sizes)
    BY <2>2, <2>4, <2>5
  <2> QED BY <1>1, <1>4, <1>7, <2>6 DEF EstimatedSize, sizes
<1>12. OutputFresh(u) /\ (Complete(u) <=> Complete(t)) /\ (Complete(t) => InputFresh(u))
  BY <1>7, <1>10 DEF Settled, Consistent, OutputFresh, InputFresh, Complete
<1>13. Settled(u)
  BY <1>6, <1>7, <1>8, <1>9, <1>10, <1>11, <1>12, SettledSame
<1> QED BY <1>12, <1>13 DEF u, new

-----------------------------------------------------------------------------
(* The specification *)

\* Coins that a wallet knows completely, in a transaction that is not rebuilt
\* from its bytes: every input is complete.
CompleteCoins ==
  /\ \A u \in Utxos : Subclassed(u) /\ HasOutput(u)
  /\ "reparse" \notin Calls

\* clearOutputs() that throws leaves the cached sum of the outputs behind.
ClearsSafely == "clearOutputs" \in Calls => CompleteCoins

Balanced ==
  /\ TypeOK
  /\ Settled(tx)
  /\ CompleteCoins => Complete(tx)

LEMMA InitBalanced == Init => Balanced
<1> SUFFICES ASSUME Init PROVE Balanced
  OBVIOUS
<1>1. TypeOK
  BY InitType
<1>2. /\ tx.inputs = <<>> /\ tx.changeIndex = Undefined /\ tx.changeScript = Undefined
      /\ tx.inputAmount = Undefined /\ tx.outputAmount = Undefined
  BY DEF Init, EmptyTransaction
<1>3. Complete(tx)
  BY <1>2 DEF Complete
<1>4. Settled(tx)
  BY <1>2 DEF Settled, Consistent, ChangeHasScript, OutputFresh, InputFresh, Tracked, PaysFee
<1> QED BY <1>1, <1>3, <1>4 DEF Balanced

\* A method that prepares a consistent object and updates the change output
LEMMA UpdateStep ==
  ASSUME Balanced, NEW method, NEW t \in Transactions, Consistent(t),
         CompleteCoins => Complete(t), Call(method, UpdateChangeOutput(t))
  PROVE  Settled(tx)' /\ (CompleteCoins => Complete(tx)')
<1>1. tx' = UpdateChangeOutput(t).tx
  BY DEF Call
<1>2. Settled(UpdateChangeOutput(t).tx)
  BY UpdateSettles
<1>3. CompleteCoins => Complete(UpdateChangeOutput(t).tx)
  BY UpdateKeepsComplete
<1> QED BY <1>1, <1>2, <1>3 DEF CompleteCoins

\* A method that leaves an object that is settled already
LEMMA SettledStep ==
  ASSUME Balanced, NEW method, NEW result, Call(method, result),
         Settled(result.tx), CompleteCoins => Complete(result.tx)
  PROVE  Settled(tx)' /\ (CompleteCoins => Complete(tx)')
BY DEF Call, CompleteCoins

\* Inputs that differ in their signatures or sequence numbers only
LEMMA SameCoins ==
  ASSUME NEW t \in Transactions, Settled(t), NEW u \in Transactions,
         u = [t EXCEPT !.inputs = u.inputs, !.nLockTime = u.nLockTime],
         DOMAIN u.inputs = DOMAIN t.inputs,
         \A i \in DOMAIN t.inputs : /\ u.inputs[i].class = t.inputs[i].class
                                   /\ u.inputs[i].satoshis = t.inputs[i].satoshis
                                   /\ u.inputs[i].size = t.inputs[i].size
  PROVE  Settled(u) /\ (Complete(u) <=> Complete(t))
<1>1. /\ u.outputs = t.outputs /\ u.outputAmount = t.outputAmount
      /\ u.inputAmount = t.inputAmount /\ u.fee = t.fee /\ u.feePerKb = t.feePerKb
      /\ u.changeScript = t.changeScript /\ u.changeIndex = t.changeIndex
  BY DEF Transactions
<1>2. Complete(u) <=> Complete(t)
  BY DEF Complete, Subclassed, HasOutput
<1>3. InputTotal(u.inputs) = InputTotal(t.inputs)
  <2>1. [i \in DOMAIN u.inputs |-> u.inputs[i].satoshis]
          = [i \in DOMAIN t.inputs |-> t.inputs[i].satoshis]
    OBVIOUS
  <2> QED BY <2>1 DEF InputTotal
<1>4. EstimatedSize(u) = EstimatedSize(t)
  <2>1. [i \in DOMAIN u.inputs |-> u.inputs[i].size]
          = [i \in DOMAIN t.inputs |-> t.inputs[i].size]
    OBVIOUS
  <2> QED BY <1>1, <2>1 DEF EstimatedSize
<1>5. OutputFresh(u) /\ (Complete(t) => InputFresh(u)) /\ (Tracked(t) => Tracked(u))
  BY <1>1, <1>3 DEF Settled, Consistent, OutputFresh, InputFresh, Tracked
<1> QED BY <1>1, <1>2, <1>3, <1>4, <1>5, SettledSame

LEMMA SameCoinsStep ==
  ASSUME Balanced, tx' \in Transactions,
         tx' = [tx EXCEPT !.inputs = tx'.inputs, !.nLockTime = tx'.nLockTime],
         DOMAIN tx'.inputs = DOMAIN tx.inputs,
         \A i \in DOMAIN tx.inputs : /\ tx'.inputs[i].class = tx.inputs[i].class
                                    /\ tx'.inputs[i].satoshis = tx.inputs[i].satoshis
                                    /\ tx'.inputs[i].size = tx.inputs[i].size
  PROVE  Settled(tx)' /\ (CompleteCoins => Complete(tx)')
<1>1. tx \in Transactions /\ Settled(tx)
  BY DEF Balanced, TypeOK
<1>2. Settled(tx') /\ (Complete(tx') <=> Complete(tx))
  BY <1>1, SameCoins
<1> QED BY <1>2 DEF Balanced, CompleteCoins

LEMMA ClearedSettles ==
  ASSUME NEW t \in Transactions, Settled(t)
  PROVE  /\ ClearSignatures(t) \in Transactions /\ Settled(ClearSignatures(t))
         /\ Complete(t) => Complete(ClearSignatures(t))
         /\ ClearSignatures(t).outputs = t.outputs
<1> DEFINE u == ClearSignatures(t)
<1>1. /\ u \in Transactions /\ u = [t EXCEPT !.inputs = u.inputs]
      /\ Complete(u) <=> Complete(t)
      /\ InputTotal(u.inputs) = InputTotal(t.inputs)
      /\ EstimatedSize(u) = EstimatedSize(t)
  BY ClearedSame
<1> HIDE DEF u
<1>2. /\ u.outputs = t.outputs /\ u.outputAmount = t.outputAmount
      /\ u.inputAmount = t.inputAmount /\ u.fee = t.fee /\ u.feePerKb = t.feePerKb
      /\ u.changeScript = t.changeScript /\ u.changeIndex = t.changeIndex
  BY <1>1 DEF Transactions
<1>3. OutputFresh(u) /\ (Complete(t) => InputFresh(u)) /\ (Tracked(t) => Tracked(u))
  BY <1>1, <1>2 DEF Settled, Consistent, OutputFresh, InputFresh, Tracked
<1>4. Settled(u)
  BY <1>1, <1>2, <1>3, SettledSame
<1> QED BY <1>1, <1>2, <1>4 DEF u

LEMMA PushInputStep ==
  ASSUME Balanced, NEW u \in Utxos, NEW method, Call(method, PushInput(tx, NewInput(u)))
  PROVE  Settled(tx)' /\ (CompleteCoins => Complete(tx)')
<1> DEFINE input == NewInput(u)
           t == [tx EXCEPT !.inputs = Append(@, input), !.inputAmount = Undefined]
<1>1. tx \in Transactions /\ tx.inputs \in Seq(Inputs) /\ input \in Inputs
  BY NewInputType DEF Balanced, TypeOK, Transactions
<1>2. CompleteCoins => Subclassed(input) /\ HasOutput(input)
  BY DEF CompleteCoins, NewInput, Subclassed, HasOutput
<1> HIDE DEF input
<1>3. Append(tx.inputs, input) \in Seq(Inputs)
  BY <1>1
<1>4. t \in Transactions
  BY <1>1, <1>3 DEF Transactions
<1>5. /\ t.inputs = Append(tx.inputs, input) /\ t.inputAmount = Undefined
      /\ t.outputs = tx.outputs /\ t.outputAmount = tx.outputAmount
      /\ t.changeIndex = tx.changeIndex /\ t.changeScript = tx.changeScript
  BY <1>1 DEF Transactions
<1>6. PushInput(tx, input) = UpdateChangeOutput(t)
  BY DEF PushInput
<1> HIDE DEF t
<1>7. Consistent(t)
  BY <1>5 DEF Balanced, Settled, Consistent, ChangeHasScript, OutputFresh, InputFresh
<1>8. CompleteCoins => Complete(t)
  <2>1. DOMAIN t.inputs = 1 .. Len(tx.inputs) + 1
        /\ \A i \in 1 .. Len(tx.inputs) + 1 :
             (i \in DOMAIN tx.inputs /\ t.inputs[i] = tx.inputs[i]) \/ t.inputs[i] = input
    BY <1>1, <1>5
  <2> QED BY <1>2, <2>1 DEF Balanced, Complete
<1> QED BY <1>4, <1>6, <1>7, <1>8, UpdateStep DEF input

LEMMA RemoveOutputStep ==
  ASSUME Balanced, NEW i, NEW method, Call(method, UpdateChangeOutput(RemoveOutputAt(tx, i)))
  PROVE  Settled(tx)' /\ (CompleteCoins => Complete(tx)')
<1> DEFINE t == RemoveOutputAt(tx, i)
<1>1. tx \in Transactions
  BY DEF Balanced, TypeOK
<1>2. t \in Transactions
  BY <1>1, RemoveOutputAtType
<1>3. /\ t.inputs = tx.inputs /\ t.inputAmount = tx.inputAmount
      /\ t.outputAmount = Undefined
      /\ t.changeIndex = tx.changeIndex /\ t.changeScript = tx.changeScript
  BY <1>1 DEF RemoveOutputAt, Transactions
<1> HIDE DEF t
<1>4. Consistent(t) /\ (CompleteCoins => Complete(t))
  BY <1>3 DEF Balanced, Settled, Consistent, ChangeHasScript, OutputFresh, InputFresh, Complete
<1> QED BY <1>2, <1>4, UpdateStep DEF t

LEMMA BalancedStep ==
  ASSUME ClearsSafely, Balanced, [Next]_vars
  PROVE  Balanced'
<1> USE DEF Balanced
<1> SUFFICES Settled(tx)' /\ (CompleteCoins => Complete(tx)')
  <2>1. TypeOK'
    BY NextType
  <2> QED BY <2>1 DEF CompleteCoins
<1> DEFINE Goal == Settled(tx)' /\ (CompleteCoins => Complete(tx)')
<1>0. /\ tx \in Transactions /\ tx.inputs \in Seq(Inputs) /\ tx.outputs \in Seq(Outputs)
      /\ Settled(tx) /\ Consistent(tx)
  BY DEF TypeOK, Transactions, Settled
<1>00. \A i \in DOMAIN tx.inputs : tx.inputs[i] \in Inputs
  BY <1>0
<1>000. /\ Return(tx).tx = tx
        /\ \A t, error : Return(t).tx = t /\ Throw(t, error).tx = t
  BY DEF Return, Throw
<1>1. ASSUME NEW u \in Utxos, From(u) PROVE Goal
  <2>1. \/ Call("from", PushInput(tx, NewInput(u)))
        \/ Call("from", Return(tx))
    BY <1>1 DEF From
  <2> QED BY <1>0, <1>000, <2>1, PushInputStep, SettledStep
<1>2. ASSUME NEW u \in Utxos, AddInput(u) PROVE Goal
  <2>1. \/ Call("addInput", PushInput(tx, NewInput(u)))
        \/ Call("addInput", Throw(tx, "NeedMoreInfo"))
    BY <1>2 DEF AddInput
  <2> QED BY <1>0, <1>000, <2>1, PushInputStep, SettledStep
<1>3. ASSUME NEW u \in Utxos, UncheckedAddInput(u) PROVE Goal
  BY <1>3, PushInputStep DEF UncheckedAddInput
<1>4. ASSUME NEW i \in 1 .. MaxInputs + 1, RemoveInput(i) PROVE Goal
  <2>1. CASE i \in DOMAIN tx.inputs
    <3> DEFINE t == [tx EXCEPT !.inputs = RemoveAt(@, i), !.inputAmount = Undefined]
               rest == RemoveAt(tx.inputs, i)
    <3>0. i \in 1 .. Len(tx.inputs)
      BY <1>0, <2>1
    <3> HIDE DEF t
    <3>1. /\ rest \in Seq(Inputs) /\ Len(rest) = Len(tx.inputs) - 1
          /\ \A j \in 1 .. Len(tx.inputs) - 1 :
               rest[j] = IF j < i THEN tx.inputs[j] ELSE tx.inputs[j + 1]
      BY <1>0, <3>0, RemoveAtElements
    <3> USE DEF t
    <3> HIDE DEF rest
    <3>2. t \in Transactions
      BY <1>0, <3>1 DEF Transactions, rest
    <3>3. /\ t.inputs = rest /\ t.inputAmount = Undefined
          /\ t.outputs = tx.outputs /\ t.outputAmount = tx.outputAmount
          /\ t.changeIndex = tx.changeIndex /\ t.changeScript = tx.changeScript
      BY <1>0 DEF Transactions, rest
    <3>4. Call("removeInput", UpdateChangeOutput(t))
      BY <1>4, <2>1 DEF RemoveInput
    <3> HIDE DEF t
    <3>5. Consistent(t)
      BY <1>0, <3>3 DEF Consistent, ChangeHasScript, OutputFresh, InputFresh
    <3>6. CompleteCoins => Complete(t)
      <4>1. \A j \in DOMAIN rest : rest[j] \in {tx.inputs[k] : k \in DOMAIN tx.inputs}
        BY <1>0, <2>1, <3>1
      <4> QED BY <3>3, <4>1 DEF Complete
    <3> QED BY <3>2, <3>4, <3>5, <3>6, UpdateStep
  <2>2. CASE i \notin DOMAIN tx.inputs
    <3>1. Call("removeInput", Throw(tx, "InvalidIndex"))
      BY <1>4, <2>2 DEF RemoveInput
    <3> QED BY <1>0, <1>000, <3>1, SettledStep
  <2> QED BY <2>1, <2>2
<1>5. ASSUME NEW f \in Fees, Fee(f) PROVE Goal
  <2> DEFINE t == [tx EXCEPT !.fee = f]
  <2>1. t \in Transactions /\ Call("fee", UpdateChangeOutput(t))
    BY <1>0, <1>5, ArgumentsAssumption DEF Transactions, Fee
  <2>2. Consistent(t) /\ (CompleteCoins => Complete(t))
    BY <1>0 DEF Consistent, ChangeHasScript, OutputFresh, InputFresh, Complete, Transactions
  <2> QED BY <2>1, <2>2, UpdateStep
<1>6. ASSUME NEW r \in FeeRates, FeePerKb(r) PROVE Goal
  <2> DEFINE t == [tx EXCEPT !.feePerKb = r]
  <2>1. t \in Transactions /\ Call("feePerKb", UpdateChangeOutput(t))
    BY <1>0, <1>6, ArgumentsAssumption DEF Transactions, FeePerKb
  <2>2. Consistent(t) /\ (CompleteCoins => Complete(t))
    BY <1>0 DEF Consistent, ChangeHasScript, OutputFresh, InputFresh, Complete, Transactions
  <2> QED BY <2>1, <2>2, UpdateStep
<1>7. ASSUME NEW s \in ChangeScripts, Change(s) PROVE Goal
  <2> DEFINE t == [tx EXCEPT !.changeScript = s]
  <2>1. t \in Transactions /\ Call("change", UpdateChangeOutput(t))
    BY <1>0, <1>7 DEF Transactions, Change
  <2>2. s # Undefined
    BY ArgumentsAssumption, UndefinedAssumption
  <2>3. Consistent(t) /\ (CompleteCoins => Complete(t))
    BY <1>0, <2>2
    DEF Consistent, ChangeHasScript, OutputFresh, InputFresh, Complete, Transactions
  <2> QED BY <2>1, <2>3, UpdateStep
<1>8. ASSUME NEW o \in Payments, AddOutput(o) PROVE Goal
  <2> DEFINE t == [tx EXCEPT !.outputs = Append(@, o), !.outputAmount = Undefined]
  <2>1. Append(tx.outputs, o) \in Seq(Outputs)
    BY <1>0, ArgumentsAssumption
  <2>2. t \in Transactions
    BY <1>0, <2>1 DEF Transactions
  <2>3. Call("addOutput", UpdateChangeOutput(t))
    BY <1>8 DEF AddOutput
  <2>4. Consistent(t) /\ (CompleteCoins => Complete(t))
    BY <1>0 DEF Consistent, ChangeHasScript, OutputFresh, InputFresh, Complete, Transactions
  <2> QED BY <2>2, <2>3, <2>4, UpdateStep
<1>9. ASSUME ClearOutputs PROVE Goal
  <2> DEFINE emptied == [tx EXCEPT !.outputs = <<>>]
             t == [ClearSignatures(emptied) EXCEPT !.outputAmount = Undefined,
                                                   !.changeIndex = Undefined]
  <2>1. CompleteCoins /\ Complete(tx) /\ ~CannotClear(tx)
    BY <1>9 DEF ClearOutputs, Call, ClearsSafely, Complete, CannotClear
  <2>2. Call("clearOutputs", UpdateChangeOutput(t))
    BY <1>9, <2>1 DEF ClearOutputs
  <2>3. emptied \in Transactions
    <3>1. <<>> \in Seq(Outputs)
      OBVIOUS
    <3> QED BY <1>0, <3>1 DEF Transactions
  <2>4. Complete(emptied) /\ emptied.inputAmount = tx.inputAmount /\ emptied.inputs = tx.inputs
    BY <1>0, <2>1 DEF Complete, Transactions
  <2> HIDE DEF emptied
  <2> DEFINE u == ClearSignatures(emptied)
  <2>5. /\ u \in Transactions /\ u = [emptied EXCEPT !.inputs = u.inputs]
        /\ Complete(u) /\ InputTotal(u.inputs) = InputTotal(tx.inputs)
    BY <2>3, <2>4, ClearedSame
  <2> HIDE DEF u
  <2>6. u.inputAmount = tx.inputAmount
    BY <2>3, <2>4, <2>5 DEF Transactions
  <2>7. /\ t \in Transactions /\ t.inputs = u.inputs /\ t.inputAmount = tx.inputAmount
        /\ t.outputAmount = Undefined /\ t.changeIndex = Undefined
    BY <2>5, <2>6 DEF Transactions, u
  <2> HIDE DEF t
  <2>8. Consistent(t) /\ Complete(t)
    BY <1>0, <2>1, <2>5, <2>7
    DEF Consistent, ChangeHasScript, OutputFresh, InputFresh, Complete
  <2> QED BY <2>2, <2>7, <2>8, UpdateStep
<1>10. ASSUME NEW i \in 1 .. MaxOutputs + 1, RemoveOutput(i) PROVE Goal
  BY <1>10, RemoveOutputStep DEF RemoveOutput
<1>11. ASSUME NEW i \in 1 .. MaxOutputs + 1, RemoveLaterOutput(i) PROVE Goal
  BY <1>11, RemoveOutputStep DEF RemoveLaterOutput
<1>12. ASSUME NEW p \in Orders(Len(tx.outputs)), SortOutputs(p) PROVE Goal
  BY <1>0, <1>000, <1>12, ReorderedOutputs, SettledStep DEF SortOutputs
<1>13. ASSUME SortOutputsBadly PROVE Goal
  BY <1>0, <1>000, <1>13, SettledStep DEF SortOutputsBadly
<1>14. ASSUME NEW p \in Orders(Len(tx.inputs))
       PROVE  LET sorted == ClearSignatures([tx EXCEPT !.inputs = Reorder(tx.inputs, p)])
              IN  /\ sorted \in Transactions /\ Settled(sorted)
                  /\ CompleteCoins => Complete(sorted)
                  /\ sorted.outputs = tx.outputs
  <2> DEFINE t == [tx EXCEPT !.inputs = Reorder(tx.inputs, p)]
  <2>1. t \in Transactions /\ Settled(t) /\ (Complete(tx) => Complete(t))
    BY <1>0, ReorderedInputs
  <2>2. t.outputs = tx.outputs
    BY <1>0 DEF Transactions
  <2> HIDE DEF t
  <2>3. /\ ClearSignatures(t) \in Transactions /\ Settled(ClearSignatures(t))
        /\ Complete(t) => Complete(ClearSignatures(t))
        /\ ClearSignatures(t).outputs = t.outputs
    BY <2>1, ClearedSettles
  <2> QED BY <2>1, <2>2, <2>3 DEF t
<1>15. ASSUME NEW p \in Orders(Len(tx.inputs)), SortInputs(p) PROVE Goal
  BY <1>000, <1>14, <1>15, SettledStep DEF SortInputs
<1>16. ASSUME NEW p \in Orders(Len(tx.inputs)), NEW q \in Orders(Len(tx.outputs)), Sort(p, q)
       PROVE  Goal
  <2> DEFINE sorted == ClearSignatures([tx EXCEPT !.inputs = Reorder(tx.inputs, p)])
             t == NewOutputOrder(sorted, Reorder(tx.outputs, q))
  <2>1. /\ sorted \in Transactions /\ Settled(sorted)
        /\ CompleteCoins => Complete(sorted)
        /\ sorted.outputs = tx.outputs
    BY <1>14
  <2>2. Call("sort", Throw(sorted, "AbstractMethodInvoked")) \/ Call("sort", Return(t))
    BY <1>16 DEF Sort
  <2> HIDE DEF sorted
  <2>3. Settled(t) /\ (Complete(sorted) => Complete(t))
    BY <2>1, ReorderedOutputs
  <2> HIDE DEF t
  <2> QED BY <1>000, <2>1, <2>2, <2>3, SettledStep
<1>17. ASSUME NEW date \in BOOLEAN, NEW time \in LockTimes, LockUntil(date, time) PROVE Goal
  <2> DEFINE inputs == [i \in DOMAIN tx.inputs |->
                IF tx.inputs[i].sequenceNumber = DEFAULT_SEQNUMBER
                THEN [tx.inputs[i] EXCEPT !.sequenceNumber = DEFAULT_LOCKTIME_SEQNUMBER]
                ELSE tx.inputs[i]]
             t == [tx EXCEPT !.nLockTime = time, !.inputs = inputs]
  <2>1. \/ tx' = tx
        \/ tx' = t
    BY <1>17, <1>000 DEF LockUntil, Call
  <2>2. ASSUME tx' = t PROVE Goal
    <3>1. tx' \in Transactions
      BY NextType DEF TypeOK
    <3>2. /\ tx' = [tx EXCEPT !.inputs = tx'.inputs, !.nLockTime = tx'.nLockTime]
          /\ tx'.inputs = inputs
      BY <1>0, <2>2 DEF Transactions
    <3>3. \A i \in DOMAIN tx.inputs : /\ inputs[i].class = tx.inputs[i].class
                                     /\ inputs[i].satoshis = tx.inputs[i].satoshis
                                     /\ inputs[i].size = tx.inputs[i].size
      BY <1>00 DEF Inputs
    <3>4. DOMAIN inputs = DOMAIN tx.inputs
      OBVIOUS
    <3> HIDE DEF inputs, t
    <3> QED BY <3>1, <3>2, <3>3, <3>4, SameCoinsStep
  <2>3. tx' = tx => Goal
    BY <1>0
  <2> QED BY <2>1, <2>2, <2>3
<1>18. ASSUME NEW key \in PrivateKeys, NEW sigtype \in SigTypes, Sign(key, sigtype)
       PROVE  Goal
  <2> DEFINE Signed(i) == /\ key \in tx.inputs[i].keys
                          /\ \A j \in 1 .. i : ~(/\ key \in tx.inputs[j].keys
                                                 /\ IsMultiSig(tx.inputs[j])
                                                 /\ InputFullySigned(tx.inputs[j]))
             inputs == [i \in DOMAIN tx.inputs |->
                          IF Signed(i)
                          THEN [tx.inputs[i] EXCEPT !.sigs[key] = Signature(tx, sigtype, i)]
                          ELSE tx.inputs[i]]
             t == [tx EXCEPT !.inputs = inputs]
  <2>1. tx' = tx \/ tx' = t
    BY <1>18, <1>000 DEF Sign, Call
  <2>2. ASSUME tx' = t PROVE Goal
    <3>1. tx' \in Transactions
      BY NextType DEF TypeOK
    <3>2. /\ tx' = [tx EXCEPT !.inputs = tx'.inputs, !.nLockTime = tx'.nLockTime]
          /\ tx'.inputs = inputs
      BY <1>0, <2>2 DEF Transactions
    <3>3. \A i \in DOMAIN tx.inputs : /\ inputs[i].class = tx.inputs[i].class
                                     /\ inputs[i].satoshis = tx.inputs[i].satoshis
                                     /\ inputs[i].size = tx.inputs[i].size
      BY <1>00 DEF Inputs
    <3>4. DOMAIN inputs = DOMAIN tx.inputs
      OBVIOUS
    <3> HIDE DEF inputs, t
    <3> QED BY <3>1, <3>2, <3>3, <3>4, SameCoinsStep
  <2>3. tx' = tx => Goal
    BY <1>0
  <2> QED BY <2>1, <2>2, <2>3
<1>19. ASSUME NEW key \in PrivateKeys, NEW sigtype \in SigTypes, GetSignatures(key, sigtype)
       PROVE  Goal
  BY <1>0, <1>19 DEF GetSignatures
<1>20. ASSUME ApplySignature PROVE Goal
  <2> DEFINE i == detached.inputIndex
             key == detached.publicKey
             t == [tx EXCEPT !.inputs[i].sigs[key] = detached.signature]
             inputs == [j \in DOMAIN tx.inputs |->
                          IF j = i THEN [tx.inputs[j] EXCEPT !.sigs[key] = detached.signature]
                          ELSE tx.inputs[j]]
  <2>1. tx' = tx \/ tx' = t
    BY <1>20, <1>000 DEF ApplySignature, Call
  <2>2. ASSUME tx' = t PROVE Goal
    <3>1. tx' \in Transactions
      BY NextType DEF TypeOK
    <3>5. t = [tx EXCEPT !.inputs = inputs]
      <4>1. tx.inputs = [j \in DOMAIN tx.inputs |-> tx.inputs[j]]
        BY <1>0
      <4>2. [tx.inputs EXCEPT ![i].sigs[key] = detached.signature] = inputs
        BY <4>1
      <4> QED BY <4>2
    <3>2. /\ tx' = [tx EXCEPT !.inputs = tx'.inputs, !.nLockTime = tx'.nLockTime]
          /\ tx'.inputs = inputs
      <4> HIDE DEF t, inputs
      <4> QED BY <1>0, <2>2, <3>5 DEF Transactions
    <3>3. \A j \in DOMAIN tx.inputs : /\ inputs[j].class = tx.inputs[j].class
                                     /\ inputs[j].satoshis = tx.inputs[j].satoshis
                                     /\ inputs[j].size = tx.inputs[j].size
      BY <1>00 DEF Inputs
    <3>4. DOMAIN inputs = DOMAIN tx.inputs
      OBVIOUS
    <3> HIDE DEF inputs, t
    <3> QED BY <3>1, <3>2, <3>3, <3>4, SameCoinsStep
  <2>3. tx' = tx => Goal
    BY <1>0
  <2> QED BY <2>1, <2>2, <2>3
<1>21. ASSUME ReadInputAmount PROVE Goal
  BY <1>0, <1>000, <1>21, LoadSettles, SettledStep DEF ReadInputAmount
<1>22. ASSUME ReadFee PROVE Goal
  BY <1>0, <1>000, <1>22, LoadSettles, SettledStep DEF ReadFee
<1>23. ASSUME NEW opts \in SerializeOpts, Serialize(opts) PROVE Goal
  BY <1>0, <1>000, <1>23, LoadSettles, SettledStep DEF Serialize
<1>24. ASSUME Reload PROVE Goal
  <2> DEFINE inputs == [i \in DOMAIN tx.inputs |->
                          IF HasOutput(tx.inputs[i]) THEN tx.inputs[i]
                          ELSE [tx.inputs[i] EXCEPT !.class = "Input"]]
             copy == [tx EXCEPT
                        !.changeIndex = IF @ = 1 THEN Undefined ELSE @,
                        !.fee = IF @ = 0 THEN Undefined ELSE @,
                        !.feePerKb = Undefined,
                        !.inputAmount = Undefined, !.outputAmount = Undefined]
             t == [copy EXCEPT !.inputs = inputs]
  <2>1. copy.inputs = tx.inputs /\ copy \in Transactions
    BY Zenon, <1>0 DEF Transactions
  <2>2. tx' = tx \/ tx' = t
    BY <1>24, <1>000, <2>1 DEF Reload, Call
  <2>3. ASSUME tx' = t PROVE Goal
    <3>1. /\ t.inputs = inputs /\ t.outputs = tx.outputs
          /\ t.changeScript = tx.changeScript
          /\ t.changeIndex = IF tx.changeIndex = 1 THEN Undefined ELSE tx.changeIndex
          /\ t.inputAmount = Undefined /\ t.outputAmount = Undefined
      <4> HIDE DEF inputs
      <4> QED BY <1>0 DEF Transactions
    <3>2. "reload" \in Calls
      BY <1>24 DEF Reload, Call
    <3>3. Complete(t) => Complete(tx)
      <4>1. \A i \in DOMAIN tx.inputs :
              HasOutput(inputs[i]) => HasOutput(tx.inputs[i]) /\ inputs[i] = tx.inputs[i]
        BY <1>00 DEF HasOutput, Inputs
      <4> HIDE DEF t
      <4> QED BY <3>1, <4>1 DEF Complete
    <3>4. CompleteCoins => Complete(t)
      <4> HIDE DEF t
      <4> QED BY <3>1 DEF Complete
    <3> HIDE DEF t, inputs, copy
    <3>5. Settled(t)
      BY <1>0, <3>1, <3>2, <3>3
      DEF Settled, Consistent, ChangeHasScript, OutputFresh, InputFresh, Tracked
    <3>6. Settled(tx')
      BY <2>3, <3>5
    <3>7. CompleteCoins => Complete(tx')
      BY <2>3, <3>4
    <3> QED BY <3>6, <3>7
  <2>4. tx' = tx => Goal
    BY <1>0
  <2> QED BY <2>2, <2>3, <2>4
<1>25. ASSUME Reparse PROVE Goal
  <2>1. /\ "reparse" \in Calls
        /\ tx'.changeIndex = Undefined /\ tx'.changeScript = Undefined
        /\ tx'.inputAmount = Undefined /\ tx'.outputAmount = Undefined
    <3> DEFINE inputs == [i \in DOMAIN tx.inputs |->
                           [tx.inputs[i] EXCEPT !.class = "Input", !.satoshis = Undefined]]
               t == [EmptyTransaction EXCEPT !.inputs = inputs, !.outputs = tx.outputs,
                                             !.nLockTime = tx.nLockTime]
    <3>1. "reparse" \in Calls /\ tx' = t
      BY <1>25 DEF Reparse, Call, Return
    <3> HIDE DEF inputs
    <3>2. /\ t.changeIndex = Undefined /\ t.changeScript = Undefined
          /\ t.inputAmount = Undefined /\ t.outputAmount = Undefined
      BY DEF EmptyTransaction
    <3> HIDE DEF t
    <3> QED BY <3>1, <3>2
  <2>2. ~CompleteCoins
    BY <2>1 DEF CompleteCoins
  <2>3. Settled(tx')
    BY <2>1
    DEF Settled, Consistent, ChangeHasScript, OutputFresh, InputFresh, Tracked, PaysFee
  <2> QED BY <2>2, <2>3
<1>26. ASSUME UNCHANGED vars PROVE Goal
  BY <1>0, <1>26 DEF vars
<1> HIDE DEF Goal
<1>27. Goal
  BY <1>1, <1>2, <1>3, <1>4, <1>5, <1>6, <1>7, <1>8, <1>9, <1>10, <1>11, <1>12, <1>13,
     <1>15, <1>16, <1>17, <1>18, <1>19, <1>20, <1>21, <1>22, <1>23, <1>24, <1>25, <1>26
  DEF Next, PaymentCall, OtherCall
<1> QED BY <1>27 DEF Goal

-----------------------------------------------------------------------------
(* Theorems *)

\* What the object looks like after any calls, those that threw half way among
\* them.
THEOREM AlwaysBalanced == ASSUME ClearsSafely PROVE Spec => []Balanced
<1>1. Init => Balanced
  BY InitBalanced
<1>2. Balanced /\ [Next]_vars => Balanced'
  BY BalancedStep
<1> QED BY <1>1, <1>2, PTL DEF Spec

(* When every input is of a class of its own and has its output, the change
   index names an output that pays the change script and the cached sums are
   the real ones, also when earlier calls threw and left the object half
   changed: whatever unsettles it is made good before the inputs are complete. *)
THEOREM CompleteIsConsistent ==
  ASSUME ClearsSafely
  PROVE  Spec => [](Complete(tx) => ChangeOutputTracked /\ AmountsFresh)
<1>1. Balanced => (Complete(tx) => ChangeOutputTracked /\ AmountsFresh)
  BY DEF Balanced, Settled, Consistent, Tracked, InputFresh, OutputFresh,
         ChangeOutputTracked, AmountsFresh
<1> QED BY <1>1, AlwaysBalanced, PTL

(* The assertion of _checkConsistency (lines 518-526) for coins that from() knows
   completely: no order of adding, removing, sorting, paying, signing and
   reloading makes the change index name another output than the change. *)
THEOREM ChangeIsTracked ==
  ASSUME CompleteCoins
  PROVE  Spec => []ChangeOutputTracked
<1>1. ClearsSafely
  BY DEF ClearsSafely
<1>2. Balanced => ChangeOutputTracked
  BY DEF Balanced, Settled, Tracked, ChangeOutputTracked
<1> QED BY <1>1, <1>2, AlwaysBalanced, PTL

(* The caches behind inputAmount and outputAmount are reset by every method that
   changes the inputs or outputs they are the sums of. *)
THEOREM AmountsAreFresh ==
  ASSUME CompleteCoins
  PROVE  Spec => []AmountsFresh
<1>1. ClearsSafely
  BY DEF ClearsSafely
<1>2. Balanced => AmountsFresh
  BY DEF Balanced, Settled, Consistent, InputFresh, OutputFresh, AmountsFresh
<1> QED BY <1>1, <1>2, AlwaysBalanced, PTL

(* With a change address set, the change output leaves exactly getFee() unspent,
   for all coins, payments, fee rates and script sizes: adding the change
   output itself never moves the estimate it was computed from.  A round trip
   through toObject() is left out because it loses the fee rate. *)
THEOREM ChangePaysTheFee ==
  ASSUME CompleteCoins, "reload" \notin Calls
  PROVE  Spec => []ChangePaysFee
<1>1. ClearsSafely
  BY DEF ClearsSafely
<1>2. Balanced => ChangePaysFee
  BY DEF Balanced, Settled, PaysFee, ChangePaysFee
<1> QED BY <1>1, <1>2, AlwaysBalanced, PTL

-----------------------------------------------------------------------------
(* What serialize() lets through *)

\* Options that leave the balance unchecked
Unchecked == {"disableAll", "disableMoreOutputThanInput"}

\* The checks pass a balanced transaction only.
LEMMA ChecksBalance ==
  ASSUME NEW t \in Transactions, NEW opts, opts \cap Unchecked = {},
         SerializationError(t, opts) = "hex"
  PROVE  UnspentValue(t) >= 0 /\ t.fee \in {Undefined, UnspentValue(t)}
<1>1. UnspentValue(t) \in Int
  BY LoadAmountsType
<1>2. UnspentValue(t) >= 0
  BY <1>1 DEF SerializationError, Unchecked
<1>3. FeeError(t, opts) = "none"
  <2>1. FeeError(t, opts) # "none" =>
          SerializationError(t, opts) \in {"UnableToVerifySignature", FeeError(t, opts)}
    BY <1>2 DEF SerializationError
  <2>2. FeeError(t, opts) # "hex"
    BY DEF FeeError
  <2> QED BY <2>1, <2>2
<1>4. t.fee \notin {Undefined, UnspentValue(t)} => FeeError(t, opts) = "FeeErrorDifferent"
  BY DEF FeeError
<1> QED BY <1>2, <1>3, <1>4

\* No other call returns a serialized transaction.
LEMMA OthersReturnThis ==
  ASSUME NEW t
  PROVE  /\ UpdateChangeOutput(t).outcome # "hex"
         /\ \A input : PushInput(t, input).outcome # "hex"
         /\ Return(t).outcome # "hex"
         /\ \A error : Throw(t, error).outcome = error
BY DEF UpdateChangeOutput, PushInput, Return, Throw

LEMMA OnlySerialize ==
  ASSUME Next, outcome' = "hex"
  PROVE  \E opts \in SerializeOpts : Serialize(opts)
<1>0. /\ \A t : UpdateChangeOutput(t).outcome # "hex" /\ Return(t).outcome # "hex"
      /\ \A t, input : PushInput(t, input).outcome # "hex"
      /\ \A t, error : Throw(t, error).outcome = error
  BY OthersReturnThis
<1>1. \A u \in Utxos : ~(From(u) \/ AddInput(u) \/ UncheckedAddInput(u))
  BY <1>0 DEF From, AddInput, UncheckedAddInput, Call
<1>2. \A i : ~RemoveInput(i) /\ ~RemoveOutput(i) /\ ~RemoveLaterOutput(i)
  BY <1>0 DEF RemoveInput, RemoveOutput, RemoveLaterOutput, Call
<1>3. \A x : ~Fee(x) /\ ~FeePerKb(x) /\ ~Change(x) /\ ~AddOutput(x)
  BY <1>0 DEF Fee, FeePerKb, Change, AddOutput, Call
<1>4. ~ClearOutputs /\ ~SortOutputsBadly
  BY <1>0 DEF ClearOutputs, SortOutputsBadly, Call
<1>5. \A p, q : ~SortOutputs(p) /\ ~SortInputs(p) /\ ~Sort(p, q)
  BY <1>0 DEF SortOutputs, SortInputs, Sort, Call
<1>6. \A date, time : ~LockUntil(date, time)
  BY <1>0 DEF LockUntil, Call
<1>7. \A k, type : ~Sign(k, type) /\ ~GetSignatures(k, type)
  BY <1>0 DEF Sign, GetSignatures, Call
<1>8. ~ApplySignature
  BY <1>0 DEF ApplySignature, Call
<1>9. ~ReadInputAmount /\ ~ReadFee /\ ~Reload /\ ~Reparse
  BY <1>0 DEF ReadInputAmount, ReadFee, Reload, Reparse, Call
<1> QED
  BY <1>1, <1>2, <1>3, <1>4, <1>5, <1>6, <1>7, <1>8, <1>9 DEF Next, PaymentCall, OtherCall

LEMMA SerializedStep ==
  ASSUME Balanced, Complete(tx) => SerializedBalances, [Next]_vars,
         \A opts \in SerializeOpts : opts \cap Unchecked = {}
  PROVE  Complete(tx)' => SerializedBalances'
<1>1. CASE UNCHANGED vars
  BY <1>1 DEF vars, SerializedBalances
<1>2. CASE Next
  <2> SUFFICES ASSUME outcome' = "hex", Complete(tx')
               PROVE  Unspent(tx') >= 0 /\ tx'.fee \in {Undefined, Unspent(tx')}
    BY DEF SerializedBalances
  <2>1. PICK opts \in SerializeOpts : Serialize(opts)
    BY <1>2, OnlySerialize
  <2>2. tx \in Transactions /\ Settled(tx)
    BY DEF Balanced, TypeOK
  <2>3. "disableAll" \notin opts
    BY DEF Unchecked
  <2>4. tx' = LoadAmounts(tx) /\ SerializationError(LoadAmounts(tx), opts) = "hex"
    BY <2>1, <2>3 DEF Serialize, Call, Throw
  <2>5. tx' \in Transactions /\ Settled(tx')
    BY <2>2, <2>4, LoadSettles, LoadAmountsType
  <2>6. UnspentValue(tx') >= 0 /\ tx'.fee \in {Undefined, UnspentValue(tx')}
    BY <2>4, <2>5, ChecksBalance
  <2>7. UnspentValue(tx') = Unspent(tx')
    BY <2>5, UnspentIsReal DEF Settled
  <2> QED BY <2>6, <2>7
<1> QED BY <1>1, <1>2

(* A transaction that passed the checks of serialize() creates no money, and
   pays exactly the fee that was asked for, whatever calls came before and
   wherever they threw, once its inputs are complete: the checks read cached
   sums, and those are the real ones. *)
THEOREM SerializedIsBalanced ==
  ASSUME ClearsSafely, \A opts \in SerializeOpts : opts \cap Unchecked = {}
  PROVE  Spec => [](Complete(tx) => SerializedBalances)
<1>1. Init => (Complete(tx) => SerializedBalances)
  BY DEF Init, SerializedBalances
<1>2. Balanced /\ (Complete(tx) => SerializedBalances) /\ [Next]_vars
        => (Complete(tx) => SerializedBalances)'
  BY SerializedStep
<1> QED BY <1>1, <1>2, AlwaysBalanced, PTL DEF Spec
=============================================================================

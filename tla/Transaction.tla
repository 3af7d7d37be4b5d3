---------------------------- MODULE Transaction ----------------------------
(***************************************************************************)
(* The transaction builder of lib/transaction/transaction.js, one object   *)
(* driven by a client that may call its methods in any order.  A method    *)
(* may throw half way: everything it had changed until then stays changed, *)
(* so every helper returns the record it leaves behind together with the   *)
(* outcome of the call.  An operator marked (fault) is the one after it    *)
(* with a mistake in it, for seeing that a property notices the mistake.   *)
(*                                                                         *)
(* JavaScript's index i is i + 1 here, so a change output at index 0 of    *)
(* the code has changeIndex = 1 and the index -1 of _.findIndex is 0.      *)
(***************************************************************************)
EXTENDS Integers, Sequences, FiniteSets, Sums

CONSTANTS
  Utxos,           \* what from(), addInput() and uncheckedAddInput() are given
  Payments,        \* the outputs a client adds
  ChangeScripts,   \* the scripts change() may be given
  Fees,            \* arguments of fee()
  FeeRates,        \* arguments of feePerKb()
  LockTimes,       \* arguments of the two lockUntil methods
  SigTypes,        \* [base : {"ALL", "NONE", "SINGLE"}, anyoneCanPay : BOOLEAN]
  SerializeOpts,   \* option objects of serialize(), as sets of flag names
  PrivateKeys,     \* keys that sign() may be given
  OutputSize,      \* serialized size of an output, by its script
  DataScripts,     \* the scripts that isDataOut() accepts
  Calls,           \* the methods that are called at all
  Clients,         \* by name, what each uses: [calls : SUBSET Calls, coins :
                   \* SUBSET Utxos, payments : SUBSET Payments, keys : SUBSET
                   \* PrivateKeys, sigTypes : SUBSET SigTypes, maxOutputs : Nat]
  MaxInputs, MaxOutputs,       \* bounds on what the client adds
  Undefined,                   \* JavaScript's undefined
  FEE_PER_KB, BYTES_PER_KB, CHANGE_OUTPUT_MAX_SIZE, MAXIMUM_EXTRA_SIZE,
  FEE_SECURITY_MARGIN, DUST_AMOUNT, INSTANTSEND_FEE_PER_INPUT,
  NLOCKTIME_BLOCKHEIGHT_LIMIT

VARIABLES
  tx,        \* the fields of the Transaction object
  outcome,   \* how the last call ended: "this", a returned value or an error
  detached,  \* a TransactionSignature held by the client, or Undefined
  client     \* the name of who is at work

vars == <<tx, outcome, detached, client>>

-----------------------------------------------------------------------------
(* Data *)

Classes == {"PublicKeyHash", "PublicKey", "MultiSig", "MultiSigScriptHash", "Input"}

Scripts == DOMAIN OutputSize
Outputs == [script : Scripts, satoshis : Nat]

DEFAULT_SEQNUMBER == "max"
DEFAULT_LOCKTIME_SEQNUMBER == "max - 1"

ASSUME UndefinedAssumption == Undefined \notin Nat \cup Scripts

ASSUME UtxosAssumption ==
  /\ IsFiniteSet(Utxos)
  /\ \A u \in Utxos : /\ u.class \in Classes
                      /\ u.satoshis \in Nat \cup {Undefined}
                      /\ u.threshold \in Nat
                      /\ u.size \in Nat
                      /\ IsFiniteSet(u.keys)

ASSUME ArgumentsAssumption ==
  /\ Payments \subseteq Outputs
  /\ ChangeScripts \subseteq Scripts
  /\ Fees \subseteq Nat /\ FeeRates \subseteq Nat /\ LockTimes \subseteq Nat
  /\ SigTypes \subseteq [base : {"ALL", "NONE", "SINGLE"}, anyoneCanPay : BOOLEAN]

\* The room kept for a change output suffices, and is less than a kilobyte.
ASSUME SizesAssumption ==
  /\ \A s \in Scripts : OutputSize[s] \in Nat
  /\ \A s \in ChangeScripts : OutputSize[s] <= CHANGE_OUTPUT_MAX_SIZE
  /\ CHANGE_OUTPUT_MAX_SIZE \in Nat /\ BYTES_PER_KB \in Nat \ {0}
  /\ CHANGE_OUTPUT_MAX_SIZE <= BYTES_PER_KB
  /\ FEE_PER_KB \in Nat /\ MAXIMUM_EXTRA_SIZE \in Nat

\* The base class Input has no subclass methods: clearSignatures,
\* getSignatures, addSignature and isFullySigned of it throw.
Subclassed(input) == input.class # "Input"
IsMultiSig(input) == input.class \in {"MultiSig", "MultiSigScriptHash"}
HasOutput(input) == input.satoshis # Undefined

PublicKeys == UNION {u.keys : u \in Utxos}
NoSignatures == [k \in PublicKeys |-> Undefined]

\* new Input(...) of the class that from() picks for the script of the utxo
NewInput(u) ==
  [outPoint |-> u.outPoint, class |-> u.class, satoshis |-> u.satoshis,
   keys |-> u.keys, threshold |-> u.threshold, size |-> u.size,
   sequenceNumber |-> DEFAULT_SEQNUMBER, sigs |-> NoSignatures]

EmptyTransaction ==
  [inputs |-> <<>>, outputs |-> <<>>, nLockTime |-> 0,
   changeScript |-> Undefined, changeIndex |-> Undefined,
   fee |-> Undefined, feePerKb |-> Undefined,
   inputAmount |-> Undefined, outputAmount |-> Undefined]

\* The results of a call: the object it leaves and how it ended.
Return(t) == [tx |-> t, outcome |-> "this"]
Throw(t, error) == [tx |-> t, outcome |-> error]

-----------------------------------------------------------------------------
(* Signature hashes *)

\* (fault) the other sequence numbers are always covered
SighashKeepingSequence(t, sigtype, i) ==
  LET blank == [j \in DOMAIN t.inputs |->
                  [outPoint |-> t.inputs[j].outPoint, subscript |-> j = i,
                   sequenceNumber |-> t.inputs[j].sequenceNumber]]
  IN  [inputs |-> IF sigtype.anyoneCanPay THEN <<blank[i]>> ELSE blank,
       outputs |-> IF sigtype.base = "ALL" THEN t.outputs ELSE <<>>,
       nLockTime |-> t.nLockTime]

\* What a signature of input i with this sigtype commits to.
Sighash(t, sigtype, i) ==
  LET blank == [j \in DOMAIN t.inputs |->
                  [outPoint |-> t.inputs[j].outPoint,
                   subscript |-> j = i,
                   sequenceNumber |->
                     IF j # i /\ sigtype.base \in {"NONE", "SINGLE"}
                     THEN "0" ELSE t.inputs[j].sequenceNumber]]
      covered ==
        CASE sigtype.base = "ALL"    -> t.outputs
          [] sigtype.base = "NONE"   -> <<>>
          [] sigtype.base = "SINGLE" ->
               [j \in 1 .. i |-> IF j = i THEN t.outputs[j] ELSE Undefined]
  IN  IF sigtype.base = "SINGLE" /\ i > Len(t.outputs)
      THEN Undefined                       \* SIGHASH_SINGLE_BUG
      ELSE [inputs |-> IF sigtype.anyoneCanPay THEN <<blank[i]>> ELSE blank,
            outputs |-> covered, nLockTime |-> t.nLockTime]

Signature(t, sigtype, i) ==
  [sigtype |-> sigtype, hash |-> Sighash(t, sigtype, i)]

\* Input.isValidSignature for a signature made for input i
IsValidSignature(t, i, sig) == sig.hash = Sighash(t, sig.sigtype, i)

Signers(input) == {k \in PublicKeys : input.sigs[k] # Undefined}

\* isFullySigned of the input classes
InputFullySigned(input) ==
  IF IsMultiSig(input) THEN Cardinality(Signers(input)) = input.threshold
                       ELSE Signers(input) # {}

Unsign(input) == [input EXCEPT !.sigs = NoSignatures]

\* The loop over the inputs stops at the first one of the base class.
ClearSignatures(t) ==
  [t EXCEPT !.inputs =
     [i \in DOMAIN @ |-> IF \A j \in 1 .. i : Subclassed(@[j]) THEN Unsign(@[i])
                                                             ELSE @[i]]]

CannotClear(t) == \E i \in DOMAIN t.inputs : ~Subclassed(t.inputs[i])

-----------------------------------------------------------------------------
(* Amounts and fees *)

\* inputAmount as the loop leaves it: the cache is set to 0 first and added
\* to, so an input without output leaves the sum of the inputs before it.
LoadInputAmount(t) ==
  IF t.inputAmount # Undefined THEN t
  ELSE [t EXCEPT !.inputAmount =
          SumSeq([i \in DOMAIN t.inputs |->
                    IF \A j \in 1 .. i : HasOutput(t.inputs[j])
                    THEN t.inputs[i].satoshis ELSE 0])]

\* _getInputAmount throws MissingPreviousOutput
MissingPreviousOutput(t) ==
  t.inputAmount = Undefined /\ \E i \in DOMAIN t.inputs : ~HasOutput(t.inputs[i])

OutputTotal(outputs) == SumSeq([i \in DOMAIN outputs |-> outputs[i].satoshis])

LoadOutputAmount(t) ==
  IF t.outputAmount # Undefined THEN t
  ELSE [t EXCEPT !.outputAmount = OutputTotal(t.outputs)]

LoadAmounts(t) == LoadOutputAmount(LoadInputAmount(t))

\* _getUnspentValue, when it does not throw
UnspentValue(t) == LoadAmounts(t).inputAmount - LoadAmounts(t).outputAmount

EstimatedSize(t) ==
  MAXIMUM_EXTRA_SIZE
    + SumSeq([i \in DOMAIN t.inputs |-> t.inputs[i].size])
    + SumSeq([i \in DOMAIN t.outputs |-> OutputSize[t.outputs[i].script]])

\* The price of size bytes: every started kilobyte counts, and a rate of 0
\* falls back on the default.
FeeForSize(size, feePerKb) ==
  ((size + BYTES_PER_KB - 1) \div BYTES_PER_KB)
    * (IF feePerKb \in {Undefined, 0} THEN FEE_PER_KB ELSE feePerKb)

\* (fault) no room for the change output
EstimateFeeWithoutChange(t) == FeeForSize(EstimatedSize(t), t.feePerKb)

EstimateFee(t) ==
  LET size == EstimatedSize(t)
  IN  FeeForSize(IF UnspentValue(t) > FeeForSize(size, t.feePerKb)
                 THEN size + CHANGE_OUTPUT_MAX_SIZE ELSE size, t.feePerKb)

GetFee(t) ==
  IF t.fee # Undefined THEN t.fee
  ELSE IF t.changeScript = Undefined THEN UnspentValue(t)
  ELSE EstimateFee(t)

\* (fault) the cached sum survives
RemoveOutputKeepingSum(t, index) ==
  [t EXCEPT !.outputs = IF index \in DOMAIN @ THEN RemoveAt(@, index) ELSE @]

\* _.without of outputs[index]; of undefined when there is no such output
RemoveOutputAt(t, index) ==
  [t EXCEPT !.outputs = IF index \in DOMAIN @ THEN RemoveAt(@, index) ELSE @,
            !.outputAmount = Undefined]

\* (fault) a deficit is taken for change
PlaceChangeOfAnySign(t) ==
  LET change == UnspentValue(t) - GetFee(t)
  IN  IF change # 0
      THEN [t EXCEPT !.changeIndex = Len(t.outputs) + 1,
                     !.outputs = Append(@, [script |-> t.changeScript,
                                            satoshis |-> change]),
                     !.outputAmount = Undefined]
      ELSE [t EXCEPT !.changeIndex = Undefined]

\* The last lines of _updateChangeOutput, once the amounts are known.
PlaceChange(t) ==
  LET change == UnspentValue(t) - GetFee(t)
  IN  IF change > 0
      THEN [t EXCEPT !.changeIndex = Len(t.outputs) + 1,
                     !.outputs = Append(@, [script |-> t.changeScript,
                                            satoshis |-> change]),
                     !.outputAmount = Undefined]
      ELSE [t EXCEPT !.changeIndex = Undefined]

\* (fault) the old change output goes before the signatures can fail to clear
UpdateRemovingFirst(t) ==
  LET removed == IF t.changeIndex = Undefined THEN t
                 ELSE RemoveOutputAt(t, t.changeIndex)
  IN  IF t.changeScript = Undefined THEN Return(t)
      ELSE IF CannotClear(t) THEN Throw(ClearSignatures(removed), "AbstractMethodInvoked")
      ELSE Return(PlaceChange(LoadAmounts(ClearSignatures(removed))))

\* (fault) signatures are not cleared
UpdateKeepingSignatures(t) ==
  IF t.changeScript = Undefined THEN Return(t)
  ELSE Return(PlaceChange(LoadAmounts(
         IF t.changeIndex = Undefined THEN t ELSE RemoveOutputAt(t, t.changeIndex))))

UpdateChangeOutput(t) ==
  LET cleared == ClearSignatures(t)
      removed == IF t.changeIndex = Undefined THEN cleared
                 ELSE RemoveOutputAt(cleared, t.changeIndex)
  IN  IF t.changeScript = Undefined THEN Return(t)
      ELSE IF CannotClear(t) THEN Throw(cleared, "AbstractMethodInvoked")
      ELSE IF MissingPreviousOutput(removed)
      THEN Throw(LoadInputAmount(removed), "MissingPreviousOutput")
      ELSE Return(PlaceChange(LoadAmounts(removed)))

-----------------------------------------------------------------------------
(* The methods *)

Init == /\ tx = EmptyTransaction
        /\ outcome = "this"
        /\ detached = Undefined
        /\ client \in DOMAIN Clients

Call(method, result) ==
  /\ method \in Calls /\ method \in Clients[client].calls
  /\ tx' = result.tx
  /\ outcome' = result.outcome
  /\ UNCHANGED <<detached, client>>

PushInput(t, input) ==
  UpdateChangeOutput([t EXCEPT !.inputs = Append(@, input),
                               !.inputAmount = Undefined])

\* The duplicate check of from() compares txId and outputIndex, which a utxo
\* in the listunspent format (txid, vout) does not have.
From(u) ==
  /\ u \in Clients[client].coins
  /\ HasOutput(u)
  /\ Len(tx.inputs) < MaxInputs
  /\ LET exists == /\ u.format = "bitcore"
                   /\ \E i \in DOMAIN tx.inputs : tx.inputs[i].outPoint = u.outPoint
     IN  Call("from", IF exists THEN Return(tx) ELSE PushInput(tx, NewInput(u)))

AddInput(u) ==
  /\ u \in Clients[client].coins
  /\ Len(tx.inputs) < MaxInputs
  /\ Call("addInput", IF HasOutput(u) THEN PushInput(tx, NewInput(u))
                                      ELSE Throw(tx, "NeedMoreInfo"))

UncheckedAddInput(u) ==
  /\ u \in Clients[client].coins
  /\ Len(tx.inputs) < MaxInputs
  /\ Call("uncheckedAddInput", PushInput(tx, NewInput(u)))

\* (fault) the cached sum survives
RemoveInputKeepingSum(index) ==
  Call("removeInput",
       IF index \in DOMAIN tx.inputs
       THEN UpdateChangeOutput([tx EXCEPT !.inputs = RemoveAt(@, index)])
       ELSE Throw(tx, "InvalidIndex"))

RemoveInput(index) ==
  Call("removeInput",
       IF index \in DOMAIN tx.inputs
       THEN UpdateChangeOutput([tx EXCEPT !.inputs = RemoveAt(@, index),
                                          !.inputAmount = Undefined])
       ELSE Throw(tx, "InvalidIndex"))

Fee(amount) == Call("fee", UpdateChangeOutput([tx EXCEPT !.fee = amount]))

FeePerKb(amount) ==
  Call("feePerKb", UpdateChangeOutput([tx EXCEPT !.feePerKb = amount]))

Change(script) ==
  Call("change", UpdateChangeOutput([tx EXCEPT !.changeScript = script]))

\* to(), addData(), addFundingOutput() and addBurnOutput() all end here.
AddOutput(output) ==
  /\ output \in Clients[client].payments
  /\ Len(tx.outputs) < Clients[client].maxOutputs
  /\ Call("addOutput", UpdateChangeOutput([tx EXCEPT !.outputs = Append(@, output),
                                                     !.outputAmount = Undefined]))

ClearOutputs ==
  LET emptied == [tx EXCEPT !.outputs = <<>>]
  IN  Call("clearOutputs",
           IF CannotClear(tx)
           THEN Throw(ClearSignatures(emptied), "AbstractMethodInvoked")
           ELSE UpdateChangeOutput([ClearSignatures(emptied) EXCEPT
                                      !.outputAmount = Undefined,
                                      !.changeIndex = Undefined]))

RemoveOutput(index) ==
  Call("removeOutput", UpdateChangeOutput(RemoveOutputAt(tx, index)))

\* removeOutput by a client that only removes its own payments and knows that
\* an output in front of the change output is not safe to remove.
RemoveLaterOutput(index) ==
  /\ index \in DOMAIN tx.outputs
  /\ tx.changeIndex # Undefined => index > tx.changeIndex
  /\ Call("removeLaterOutput", UpdateChangeOutput(RemoveOutputAt(tx, index)))

\* (fault) the change index is not looked up again
NewOutputOrderKeepingIndex(t, newOutputs) == [t EXCEPT !.outputs = newOutputs]

\* _newOutputOrder: _.findIndex matches the change output by its contents;
\* given undefined it finds the first output, or nothing.
NewOutputOrder(t, newOutputs) ==
  LET found == IF t.changeIndex \in DOMAIN t.outputs
               THEN {i \in DOMAIN newOutputs : newOutputs[i] = t.outputs[t.changeIndex]}
               ELSE DOMAIN newOutputs
  IN  [t EXCEPT !.outputs = newOutputs,
                !.changeIndex =
                  IF @ = Undefined THEN Undefined
                  ELSE IF found = {} THEN 0
                  ELSE CHOOSE i \in found : \A j \in found : i <= j]

\* sortOutputs with any sorting function, shuffleOutputs among them
SortOutputs(order) ==
  Call("sortOutputs", Return(NewOutputOrder(tx, Reorder(tx.outputs, order))))

\* a sorting function that drops an output
SortOutputsBadly ==
  /\ tx.outputs # <<>>
  /\ Call("sortOutputs", Throw(tx, "InvalidSorting"))

SortInputs(order) ==
  LET sorted == ClearSignatures([tx EXCEPT !.inputs = Reorder(@, order)])
  IN  Call("sortInputs", IF CannotClear(tx) THEN Throw(sorted, "AbstractMethodInvoked")
                                            ELSE Return(sorted))

\* BIP69: inputs by outpoint, outputs by amount and then by script (the order
\* of the scripts of equal amounts is left open).
Sort(inputOrder, outputOrder) ==
  LET inputs  == Reorder(tx.inputs, inputOrder)
      outputs == Reorder(tx.outputs, outputOrder)
      sorted  == ClearSignatures([tx EXCEPT !.inputs = inputs])
  IN  /\ \A i \in 1 .. Len(inputs) - 1 : inputs[i].outPoint <= inputs[i + 1].outPoint
      /\ \A i \in 1 .. Len(outputs) - 1 : outputs[i].satoshis <= outputs[i + 1].satoshis
      /\ Call("sort", IF CannotClear(tx) THEN Throw(sorted, "AbstractMethodInvoked")
                      ELSE Return(NewOutputOrder(sorted, outputs)))

\* lockUntilDate and lockUntilBlockHeight
LockUntil(date, time) ==
  Call("lockUntil",
       IF date /\ time < NLOCKTIME_BLOCKHEIGHT_LIMIT THEN Throw(tx, "LockTimeTooEarly")
       ELSE IF ~date /\ time >= NLOCKTIME_BLOCKHEIGHT_LIMIT
       THEN Throw(tx, "BlockHeightTooHigh")
       ELSE Return([tx EXCEPT
              !.nLockTime = time,
              !.inputs = [i \in DOMAIN @ |->
                IF @[i].sequenceNumber = DEFAULT_SEQNUMBER
                THEN [@[i] EXCEPT !.sequenceNumber = DEFAULT_LOCKTIME_SEQNUMBER]
                ELSE @[i]]]))

-----------------------------------------------------------------------------
(* Signing *)

HasAllUtxoInfo(t) == \E i \in DOMAIN t.inputs : HasOutput(t.inputs[i])

\* sign() computes the signatures of all inputs before it adds the first one,
\* and adding stops at a multisig input that needs no more of them.
Sign(key, sigtype) ==
  LET Ready(i) == Subclassed(tx.inputs[i]) /\ HasOutput(tx.inputs[i])
      obstacles == {i \in DOMAIN tx.inputs : ~Ready(i)}
      Mine(i)   == key \in tx.inputs[i].keys
      Stuck(i)  == Mine(i) /\ IsMultiSig(tx.inputs[i]) /\ InputFullySigned(tx.inputs[i])
      Signed(i) == Mine(i) /\ \A j \in 1 .. i : ~Stuck(j)
      signed == [tx EXCEPT !.inputs = [i \in DOMAIN @ |->
                   IF Signed(i)
                   THEN [@[i] EXCEPT !.sigs[key] = Signature(tx, sigtype, i)]
                   ELSE @[i]]]
  IN  /\ key \in Clients[client].keys /\ sigtype \in Clients[client].sigTypes
      /\ Call("sign",
           IF ~HasAllUtxoInfo(tx)
           THEN Throw(tx, "InvalidState")
           ELSE IF obstacles # {}
           THEN LET first == CHOOSE i \in obstacles : \A j \in obstacles : i <= j
                IN  Throw(tx, IF Subclassed(tx.inputs[first])
                              THEN "InvalidState" ELSE "AbstractMethodInvoked")
           ELSE IF \E i \in DOMAIN tx.inputs : Stuck(i)
           THEN Throw(signed, "InvalidState")
           ELSE Return(signed))

\* getSignatures() of a signer that then sends one signature to the others
GetSignatures(key, sigtype) ==
  /\ "getSignatures" \in Calls /\ "getSignatures" \in Clients[client].calls
  /\ key \in Clients[client].keys /\ sigtype.base = "ALL"
  /\ \A i \in DOMAIN tx.inputs : Subclassed(tx.inputs[i]) /\ HasOutput(tx.inputs[i])
  /\ \E i \in DOMAIN tx.inputs :
       /\ key \in tx.inputs[i].keys
       /\ detached' = [inputIndex |-> i, publicKey |-> key,
                       signature |-> Signature(tx, sigtype, i)]
  /\ outcome' = "this"
  /\ UNCHANGED <<tx, client>>

\* (fault) a multisig input takes any number of signatures
ApplySignatureUncounted ==
  LET i == detached.inputIndex
  IN  /\ detached # Undefined
      /\ Call("applySignature",
           IF i \notin DOMAIN tx.inputs THEN Throw(tx, "TypeError")
           ELSE IF ~IsValidSignature(tx, i, detached.signature)
           THEN Throw(tx, "InvalidState")
           ELSE Return([tx EXCEPT !.inputs[i].sigs[detached.publicKey] =
                          detached.signature]))

\* applySignature() of the signature the client holds, whatever has happened
\* to the transaction since it was made
ApplySignature ==
  LET i == detached.inputIndex
      input == tx.inputs[i]
  IN  /\ detached # Undefined
      /\ Call("applySignature",
           IF i \notin DOMAIN tx.inputs THEN Throw(tx, "TypeError")
           ELSE IF ~Subclassed(input) THEN Throw(tx, "AbstractMethodInvoked")
           ELSE IF IsMultiSig(input) /\ InputFullySigned(input)
           THEN Throw(tx, "InvalidState")
           ELSE IF IsMultiSig(input) /\ detached.publicKey \notin input.keys
           THEN Throw(tx, "InvalidArgument")
           ELSE IF ~HasOutput(input) THEN Throw(tx, "TypeError")
           ELSE IF ~IsValidSignature(tx, i, detached.signature)
           THEN Throw(tx, "InvalidState")
           ELSE Return([tx EXCEPT !.inputs[i].sigs[detached.publicKey] =
                          detached.signature]))

-----------------------------------------------------------------------------
(* Reading and serializing *)

ReadInputAmount ==
  Call("inputAmount", IF MissingPreviousOutput(tx)
                      THEN Throw(LoadInputAmount(tx), "MissingPreviousOutput")
                      ELSE Return(LoadInputAmount(tx)))

ReadFee ==
  Call("getFee", IF tx.fee # Undefined THEN Return(tx)
                 ELSE IF MissingPreviousOutput(tx)
                 THEN Throw(LoadInputAmount(tx), "MissingPreviousOutput")
                 ELSE Return(LoadAmounts(tx)))

\* isFullySigned, when no input makes it throw
IsFullySigned(t) == \E i \in DOMAIN t.inputs : InputFullySigned(t.inputs[i])

FeeError(t, opts) ==
  LET unspent  == UnspentValue(t)
      estimate == EstimateFee(t)
      instant  == Len(t.inputs) * INSTANTSEND_FEE_PER_INPUT
      maximum  == IF FEE_SECURITY_MARGIN * estimate > instant
                  THEN FEE_SECURITY_MARGIN * estimate ELSE instant
      minimum  == (estimate + FEE_SECURITY_MARGIN - 1) \div FEE_SECURITY_MARGIN
  IN  CASE t.fee \notin {Undefined, unspent} -> "FeeErrorDifferent"
        [] t.fee \in {Undefined, unspent} /\ unspent > maximum
           /\ "disableLargeFees" \notin opts ->
             IF t.changeScript = Undefined THEN "ChangeAddressMissing"
                                           ELSE "FeeErrorTooLarge"
        [] t.fee \in {Undefined, unspent} /\ unspent < minimum
           /\ "disableSmallFees" \notin opts -> "FeeErrorTooSmall"
        [] OTHER -> "none"

\* getSerializationError of a transaction whose amounts are known
SerializationError(t, opts) ==
  LET amounts == IF UnspentValue(t) >= 0 THEN FeeError(t, opts)
                 ELSE IF "disableMoreOutputThanInput" \in opts THEN "none"
                 ELSE "InvalidOutputAmountSum"
      dust == \E i \in DOMAIN t.outputs :
                /\ t.outputs[i].satoshis < DUST_AMOUNT
                /\ t.outputs[i].script \notin DataScripts
      checkSigned == "disableIsFullySigned" \notin opts
  IN  IF checkSigned /\ CannotClear(t) THEN "UnableToVerifySignature"
      ELSE IF amounts # "none" THEN amounts
      ELSE IF dust /\ "disableDustOutputs" \notin opts THEN "DustOutputs"
      ELSE IF checkSigned /\ ~IsFullySigned(t) THEN "MissingSignatures"
      ELSE "hex"

Serialize(opts) ==
  Call("serialize",
       IF "disableAll" \in opts THEN Throw(tx, "hex")
       ELSE IF MissingPreviousOutput(tx)
       THEN Throw(LoadInputAmount(tx), "MissingPreviousOutput")
       ELSE Throw(LoadAmounts(tx), SerializationError(LoadAmounts(tx), opts)))

\* new Transaction(tx.toObject()): index 0 and fee 0 are falsy, the rate is not
\* part of the object, and inputs of other classes cannot be rebuilt.
Reload ==
  LET copy == [tx EXCEPT
                 !.changeIndex = IF @ = 1 THEN Undefined ELSE @,
                 !.fee = IF @ = 0 THEN Undefined ELSE @,
                 !.feePerKb = Undefined,
                 !.inputAmount = Undefined, !.outputAmount = Undefined]
      unsupported == \E i \in DOMAIN tx.inputs :
                       /\ HasOutput(tx.inputs[i])
                       /\ tx.inputs[i].class \in {"Input", "MultiSig"}
      consistent == \/ copy.changeIndex = Undefined
                    \/ /\ copy.changeIndex \in DOMAIN copy.outputs
                       /\ copy.outputs[copy.changeIndex].script = copy.changeScript
      rebuilt == [copy EXCEPT !.inputs = [i \in DOMAIN @ |->
                    IF HasOutput(@[i]) THEN @[i] ELSE [@[i] EXCEPT !.class = "Input"]]]
  IN  Call("reload", IF unsupported THEN Throw(tx, "UnsupportedScript")
                     ELSE IF ~consistent THEN Throw(tx, "InvalidState")
                     ELSE Return(rebuilt))

\* (fault) the sequence numbers are not read back
ReparseDefaultSequence ==
  Call("reparse",
       Return([EmptyTransaction EXCEPT
                 !.inputs = [i \in DOMAIN tx.inputs |->
                   [tx.inputs[i] EXCEPT !.class = "Input", !.satoshis = Undefined,
                                        !.sequenceNumber = DEFAULT_SEQNUMBER]],
                 !.outputs = tx.outputs,
                 !.nLockTime = tx.nLockTime]))

\* new Transaction(tx.toBuffer()): the inputs come back as plain Inputs.
Reparse ==
  Call("reparse",
       Return([EmptyTransaction EXCEPT
                 !.inputs = [i \in DOMAIN tx.inputs |->
                   [tx.inputs[i] EXCEPT !.class = "Input", !.satoshis = Undefined]],
                 !.outputs = tx.outputs,
                 !.nLockTime = tx.nLockTime]))

-----------------------------------------------------------------------------

\* The methods a client calls to change its payments
PaymentCall ==
  \/ \E o \in Payments : AddOutput(o)
  \/ ClearOutputs
  \/ \E i \in 1 .. MaxOutputs + 1 : RemoveOutput(i) \/ RemoveLaterOutput(i)

OtherCall ==
  \/ \E u \in Utxos : From(u) \/ AddInput(u) \/ UncheckedAddInput(u)
  \/ \E i \in 1 .. MaxInputs + 1 : RemoveInput(i)
  \/ \E f \in Fees : Fee(f)
  \/ \E r \in FeeRates : FeePerKb(r)
  \/ \E s \in ChangeScripts : Change(s)
  \/ \E p \in Orders(Len(tx.outputs)) : SortOutputs(p)
  \/ SortOutputsBadly
  \/ \E p \in Orders(Len(tx.inputs)) : SortInputs(p)
  \/ \E p \in Orders(Len(tx.inputs)), q \in Orders(Len(tx.outputs)) : Sort(p, q)
  \/ \E date \in BOOLEAN, time \in LockTimes : LockUntil(date, time)
  \/ \E k \in PrivateKeys, type \in SigTypes : Sign(k, type) \/ GetSignatures(k, type)
  \/ ApplySignature
  \/ ReadInputAmount
  \/ ReadFee
  \/ \E opts \in SerializeOpts : Serialize(opts)
  \/ Reload
  \/ Reparse

Next == PaymentCall \/ OtherCall

Spec == Init /\ [][Next]_vars

-----------------------------------------------------------------------------
(* Properties *)

\* Sums of what the object really holds, without its caches
InputTotal(inputs) == SumSeq([i \in DOMAIN inputs |-> inputs[i].satoshis])
Unspent(t) == InputTotal(t.inputs) - OutputTotal(t.outputs)

\* The outputs that are not the change output
PaymentOutputs(t) ==
  IF t.changeIndex \in DOMAIN t.outputs THEN RemoveAt(t.outputs, t.changeIndex)
                                        ELSE t.outputs

BagOf(s) == [o \in ToSet(s) |-> Cardinality({i \in DOMAIN s : s[i] = o})]

OutPoints == {u.outPoint : u \in Utxos}
KeySets == {u.keys : u \in Utxos}
SequenceNumbers == {DEFAULT_SEQNUMBER, DEFAULT_LOCKTIME_SEQNUMBER}

Hashes ==
  [inputs : Seq([outPoint : OutPoints, subscript : BOOLEAN,
                 sequenceNumber : SequenceNumbers \cup {"0"}]),
   outputs : Seq(Outputs \cup {Undefined}), nLockTime : Nat]
Signatures == [sigtype : SigTypes, hash : Hashes \cup {Undefined}]

Inputs ==
  [outPoint : OutPoints, class : Classes, satoshis : Nat \cup {Undefined},
   keys : KeySets, threshold : Nat, size : Nat, sequenceNumber : SequenceNumbers,
   sigs : [PublicKeys -> Signatures \cup {Undefined}]]

Transactions ==
  [inputs : Seq(Inputs), outputs : Seq(Outputs), nLockTime : Nat,
   changeScript : ChangeScripts \cup {Undefined}, changeIndex : Nat \cup {Undefined},
   fee : Nat \cup {Undefined}, feePerKb : Nat \cup {Undefined},
   inputAmount : Nat \cup {Undefined}, outputAmount : Nat \cup {Undefined}]

Detached == [inputIndex : Nat, publicKey : PublicKeys, signature : Signatures]

\* The fields of the object, and of a signature taken from it, have the values
\* the code gives them.
TypeOK ==
  /\ tx \in Transactions
  /\ detached \in Detached \cup {Undefined}
  /\ client \in DOMAIN Clients

(* The assertion of _checkConsistency (lines 518-526): a change index names an
   output, and that output pays the change script. *)
ChangeOutputTracked ==
  tx.changeIndex # Undefined =>
    /\ tx.changeIndex \in DOMAIN tx.outputs
    /\ tx.outputs[tx.changeIndex].script = tx.changeScript

(* Nothing is left to the miner by accident: once a change address is set, a
   change output leaves exactly the fee that getFee() reports unspent, however
   the estimate moves with the size of the transaction, and without one there
   is no more than that fee left over. *)
ChangePaysFee ==
  tx.changeScript # Undefined =>
    IF tx.changeIndex # Undefined THEN Unspent(tx) = GetFee(tx)
                                  ELSE Unspent(tx) <= GetFee(tx)

(* The cached sums behind inputAmount, outputAmount, getFee and serialize are
   either absent or the sums of the current inputs and outputs. *)
AmountsFresh ==
  /\ tx.inputAmount \in {Undefined, InputTotal(tx.inputs)}
  /\ tx.outputAmount \in {Undefined, OutputTotal(tx.outputs)}

(* A transaction that passed the checks of serialize() does not create money
   and pays exactly the fee that was asked for, whatever calls came before. *)
SerializedBalances ==
  outcome = "hex" => /\ Unspent(tx) >= 0
                     /\ tx.fee \in {Undefined, Unspent(tx)}

(* With a change address set, every signature in the transaction is valid for
   it as it stands: whatever changes what is signed has cleared them (except
   sortOutputs, whose clients sign afterwards). *)
SignaturesFresh ==
  tx.changeScript # Undefined =>
    \A i \in DOMAIN tx.inputs : \A k \in Signers(tx.inputs[i]) :
      IsValidSignature(tx, i, tx.inputs[i].sigs[k])

(* isFullySigned of a multisig input tests for equality with the threshold, so
   no order of signing, detached signatures and reloads may pass it. *)
MultiSigNotOverfull ==
  \A i \in DOMAIN tx.inputs :
    IsMultiSig(tx.inputs[i]) =>
      Cardinality(Signers(tx.inputs[i])) <= tx.inputs[i].threshold

\* What a signature of type sigtype for input i promises not to depend on is
\* left out; everything else it covers is the same before and after the step.
CoveredPartUnchanged(sigtype, i) ==
  LET Coin(input) == <<input.outPoint, input.sequenceNumber>>
      Same(j) == IF j = i \/ sigtype.base = "ALL"
                 THEN Coin(tx.inputs[j]) = Coin(tx'.inputs[j])
                 ELSE tx.inputs[j].outPoint = tx'.inputs[j].outPoint
  IN  /\ tx.nLockTime = tx'.nLockTime
      /\ IF sigtype.anyoneCanPay THEN Same(i)
         ELSE /\ Len(tx.inputs) = Len(tx'.inputs)
              /\ \A j \in DOMAIN tx.inputs : Same(j)
      /\ CASE sigtype.base = "ALL" -> tx.outputs = tx'.outputs
           [] sigtype.base = "NONE" -> TRUE
           [] sigtype.base = "SINGLE" ->
                \/ i > Len(tx.outputs) /\ i > Len(tx'.outputs)
                \/ /\ i \in DOMAIN tx.outputs \cap DOMAIN tx'.outputs
                   /\ tx.outputs[i] = tx'.outputs[i]

(* A signature survives every call that leaves alone what its type covers:
   with SIGHASH_NONE the outputs and the other sequence numbers may change,
   with SIGHASH_SINGLE all outputs but its own, with ANYONECANPAY the other
   inputs (sighash.js, and the promise of from() and to() for later versions). *)
SignatureScope ==
  [][\A i \in DOMAIN tx.inputs \cap DOMAIN tx'.inputs :
       \A k \in Signers(tx.inputs[i]) :
         LET sig == tx.inputs[i].sigs[k] IN
         (/\ tx'.inputs[i].sigs[k] = sig
          /\ IsValidSignature(tx, i, sig)
          /\ CoveredPartUnchanged(sig.sigtype, i)) => IsValidSignature(tx', i, sig)]_vars

\* A lock time counts only if some input is not final.
LockEffective(t) ==
  \/ t.nLockTime = 0 \/ t.inputs = <<>>
  \/ \E i \in DOMAIN t.inputs : t.inputs[i].sequenceNumber # DEFAULT_SEQNUMBER

(* As long as the inputs stay the same, no call, in particular neither sorting
   nor a round trip through JSON or bytes, turns an effective lock time into
   one that the network ignores. *)
LockKept ==
  [][/\ LockEffective(tx)
     /\ Len(tx.inputs) = Len(tx'.inputs)
     => LockEffective(tx')]_vars

-----------------------------------------------------------------------------
(* What the comments and tests of the code say and the code does not do *)

(* "Check whether the transaction is fully signed" (line 1258): what serialize()
   lets through has every input signed. *)
SerializedIsFullySigned ==
  outcome = "hex" => \A i \in DOMAIN tx.inputs : InputFullySigned(tx.inputs[i])

(* 'an output can be removed by index' (test/transaction/transaction.js:990):
   removing a payment leaves every other payment among the outputs. *)
RemovesOneOutput ==
  [][\A i, j \in DOMAIN tx.outputs \ {tx.changeIndex} :
       RemoveOutput(i) /\ i # j => tx.outputs[j] \in ToSet(tx'.outputs)]_vars
=============================================================================

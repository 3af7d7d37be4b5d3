-------------------------- MODULE TransactionBytes --------------------------
(***************************************************************************)
(* Transactions as bytes and as objects: lib/transaction/transaction.js,   *)
(* input.js and output.js, the payloads that hold outputs or nothing but   *)
(* numbers (asset locks and unlocks, hard fork signals), and the table of  *)
(* payload classes.  A transaction is the record of its fields; a special  *)
(* one has extraPayload, the fields of its payload.                        *)
(***************************************************************************)
EXTENDS Commitments

CONSTANTS MAX_MONEY, MAX_BLOCK_SIZE, COINBASE_SCRIPT_SIZES, OP_RETURN

-----------------------------------------------------------------------------
(* Outputs and inputs *)

OutputBytes(out) == Put(out, << <<"satoshis", UInt(8)>>, <<"script", Sized>> >>)

\* A value above the greatest safe integer throws in toNumber.
OutputRead(r) ==
  Accepted(Take(r, << <<"satoshis", UInt(8)>>, <<"script", Sized>> >>),
           LAMBDA out : out.satoshis <= MAX_SAFE_INTEGER)

NullHash == [i \in 1 .. SHA256_HASH_SIZE |-> 0]
IsNull(input) == input.prevTxId = NullHash /\ input.outputIndex = BYTE^4 - 1
InputFields == << <<"prevTxId", Reversed(SHA256_HASH_SIZE)>>, <<"outputIndex", UInt(4)>>,
                  <<"script", VarBytes>>, <<"sequenceNumber", UInt(4)>> >>
InputBytes(input) == Put(input, InputFields)
InputRead(r) == Take(r, InputFields)

-----------------------------------------------------------------------------
(* AssetLockPayload, AssetUnlockPayload and MnHfSignalPayload *)

CURRENT_PAYLOAD_VERSION == 1
ValidVersion(o) == o.version \in 1 .. CURRENT_PAYLOAD_VERSION

AssetLockValid(o) ==
  /\ ValidVersion(o)
  /\ o.creditOutputs # <<>>
  /\ \A i \in DOMAIN o.creditOutputs : IsP2PKH(o.creditOutputs[i].script)
AssetLockBytes(o) ==
  IF AssetLockValid(o)
    THEN Put(o, << <<"version", UInt(1)>> >>) \o PutAll(o.creditOutputs, OutputBytes)
    ELSE <<Thrown>>
AssetLockRead(r) ==
  Accepted(Whole(TakeItems(Take(r, << <<"version", UInt(1)>> >>), "creditOutputs", OutputRead)), AssetLockValid)
AssetLockToJSON(o) == Checked(o, AssetLockValid(o))
AssetLockFromJSON(json) == Checked(json, AssetLockValid(json))

AssetUnlockFields ==
  << <<"version", UInt(1)>>, <<"index", UInt(8)>>, <<"fee", UInt(4)>>, <<"requestHeight", UInt(4)>>,
     <<"quorumHash", Raw(SHA256_HASH_SIZE)>>, <<"quorumSig", Raw(BLS_SIGNATURE_SIZE)>> >>
AssetUnlockValid(o) ==
  /\ ValidVersion(o)
  /\ \A name \in {"index", "fee", "requestHeight"} : IsUnsigned(o, name)
  /\ IsHexa(o, "quorumHash") /\ IsHexa(o, "quorumSig")
AssetUnlockBytes(o) == IF AssetUnlockValid(o) THEN Put(o, AssetUnlockFields) ELSE <<Thrown>>
AssetUnlockRead(r) ==
  Accepted(Whole(Take(r, AssetUnlockFields)), LAMBDA o : o.index <= MAX_SAFE_INTEGER /\ AssetUnlockValid(o))
AssetUnlockToJSON(o) == Checked(o, AssetUnlockValid(o))
AssetUnlockFromJSON(json) == Checked(json, AssetUnlockValid(json))

\* The fields of the signal are those of the payload here.
MnHfSignalFields ==
  << <<"version", UInt(1)>>, <<"versionBit", UInt(1)>>, <<"quorumHash", Raw(SHA256_HASH_SIZE)>>,
     <<"sig", Raw(BLS_SIGNATURE_SIZE)>> >>
MnHfSignalValid(o) ==
  /\ ValidVersion(o)
  /\ o.versionBit \in 0 .. BYTE - 1
  /\ OfSize(o, "quorumHash", SHA256_HASH_SIZE) /\ OfSize(o, "sig", BLS_SIGNATURE_SIZE)
MnHfSignalBytes(o) == IF MnHfSignalValid(o) THEN Put(o, MnHfSignalFields) ELSE <<Thrown>>
MnHfSignalRead(r) == Accepted(Whole(Take(r, MnHfSignalFields)), MnHfSignalValid)
MnHfSignalToJSON(o) == Checked(o, MnHfSignalValid(o))
MnHfSignalFromJSON(json) ==
  LET Of(o) == Checked(o, MnHfSignalValid(o))
  IN  Of(IF json.version = 0 THEN [json EXCEPT !.version = CURRENT_PAYLOAD_VERSION] ELSE json)

-----------------------------------------------------------------------------
(* The payload classes, by the type of the transaction *)

TransactionTypes ==
  1 :> "ProReg" @@ 2 :> "ProUpServ" @@ 3 :> "ProUpReg" @@ 4 :> "ProUpRev" @@ 5 :> "Coinbase"
  @@ 6 :> "Commitment" @@ 7 :> "MnHfSignal" @@ 8 :> "AssetLock" @@ 9 :> "AssetUnlock"

PayloadBytes(class, o) ==
  CASE class = "ProReg" -> IF ProRegValid(o) THEN ProRegBytes(o) ELSE <<Thrown>>
    [] class = "ProUpServ" -> IF ProUpServValid(o) THEN ProUpServBytes(o) ELSE <<Thrown>>
    [] class = "ProUpReg" -> IF ProUpRegValid(o) THEN ProUpRegBytes(o) ELSE <<Thrown>>
    [] class = "ProUpRev" -> IF ProUpRevValid(o) THEN ProUpRevBytes(o) ELSE <<Thrown>>
    [] class = "Coinbase" -> IF CoinbaseValid(o) THEN CoinbaseBytes(o) ELSE <<Thrown>>
    [] class = "Commitment" -> CommitmentBytes(o)
    [] class = "MnHfSignal" -> MnHfSignalBytes(o)
    [] class = "AssetLock" -> AssetLockBytes(o)
    [] class = "AssetUnlock" -> AssetUnlockBytes(o)

\* parseBuffer: what is left over is refused by the class.
PayloadRead(class, buf) ==
  CASE class = "ProReg" -> ProRegRead(Open(buf))
    [] class = "ProUpServ" -> ProUpServRead(Open(buf))
    [] class = "ProUpReg" -> ProUpRegRead(Open(buf))
    [] class = "ProUpRev" -> ProUpRevRead(Open(buf))
    [] class = "Coinbase" -> CoinbaseRead(Open(buf))
    [] class = "Commitment" -> CommitmentRead(Open(buf))
    [] class = "MnHfSignal" -> MnHfSignalRead(Open(buf))
    [] class = "AssetLock" -> AssetLockRead(Open(buf))
    [] class = "AssetUnlock" -> AssetUnlockRead(Open(buf))

\* parseJSON of what toJSON returns, which throws where either of them does
Through(json, FromJSON(_)) == IF json = ThrownObject THEN ThrownObject ELSE FromJSON(json)
PayloadThroughJSON(class, o) ==
  CASE class = "ProReg" -> Through(ProRegToJSON(o), ProRegFromJSON)
    [] class = "ProUpServ" -> Through(ProUpServToJSON(o), ProUpServFromJSON)
    [] class = "ProUpReg" -> Through(ProUpRegToJSON(o), ProUpRegFromJSON)
    [] class = "ProUpRev" -> Through(ProUpRevToJSON(o), ProUpRevFromJSON)
    [] class = "Coinbase" -> Through(CoinbaseToJSON(o), CoinbaseFromJSON)
    [] class = "Commitment" -> Through(CommitmentToJSON(o), CommitmentFromJSON)
    [] class = "MnHfSignal" -> Through(MnHfSignalToJSON(o), MnHfSignalFromJSON)
    [] class = "AssetLock" -> Through(AssetLockToJSON(o), AssetLockFromJSON)
    [] class = "AssetUnlock" -> Through(AssetUnlockToJSON(o), AssetUnlockFromJSON)

-----------------------------------------------------------------------------
(* Transactions *)

SPECIAL_TRANSACTION_ACTIVATION_VERSION == 3
IsSpecial(tx) == tx.version >= SPECIAL_TRANSACTION_ACTIVATION_VERSION /\ tx.type # 0
IsCoinbase(tx) == Len(tx.inputs) = 1 /\ IsNull(tx.inputs[1])
HasExtraPayload(tx) == "extraPayload" \in DOMAIN tx

\* toBufferWriter
TxBytes(tx) ==
  Put(tx, << <<"version", UInt(2)>>, <<"type", UInt(2)>> >>)
  \o PutAll(tx.inputs, InputBytes) \o PutAll(tx.outputs, OutputBytes)
  \o Put(tx, << <<"nLockTime", UInt(4)>> >>)
  \o (IF IsSpecial(tx) /\ HasExtraPayload(tx)
        THEN Encode(Sized, PayloadBytes(TransactionTypes[tx.type], tx.extraPayload)) ELSE <<>>)

\* fromBufferReader: version and type are the halves of one number of four bytes.
ParsePayload(r, bytes) ==
  LET With(payload) ==
        IF payload.at = 0 THEN Stop(r)
        ELSE [r EXCEPT !.at = bytes.at, !.o = [extraPayload |-> payload.o] @@ @]
  IN  IF bytes = Failed THEN Stop(r)
      ELSE IF bytes.value = <<>> THEN [r EXCEPT !.at = bytes.at]
      ELSE IF r.o.type \notin DOMAIN TransactionTypes THEN Stop(r)
      ELSE With(PayloadRead(TransactionTypes[r.o.type], bytes.value))
TakePayload(r) ==
  IF r.at = 0 \/ Finished(r) THEN r
  ELSE IF IsSpecial(r.o) THEN ParsePayload(r, ReadVarBytes(r.buf, r.at, FALSE)) ELSE r
TxRead(r) ==
  TakePayload(Take(
    TakeItems(TakeItems(Take(r, << <<"version", UInt(2)>>, <<"type", UInt(2)>> >>), "inputs", InputRead),
              "outputs", OutputRead),
    << <<"nLockTime", UInt(4)>> >>))

\* toObject and fromObject.  The hash an object carries stands for its bytes; the
\* type is only written for a special transaction.
TxToObject(tx) ==
  [hash |-> TxBytes(tx)]
  @@ Pick(tx, {"version", "inputs", "outputs", "nLockTime"}
              \cup (IF IsSpecial(tx) THEN {"type", "extraPayload"} ELSE {}))
Consistent(tx, hash) == Checked(tx, tx # ThrownObject /\ TxBytes(tx) = hash)
Reread(class, payload) == PayloadRead(class, PayloadBytes(class, payload))
TxFromObject(obj) ==
  LET base == [type |-> 0] @@ Pick(obj, {"version", "inputs", "outputs", "nLockTime"})
      With(payload) ==
        IF payload.at = 0 THEN ThrownObject ELSE [type |-> obj.type, extraPayload |-> payload.o] @@ base
  IN  Consistent(IF HasExtraPayload(obj) THEN With(Reread(TransactionTypes[obj.type], obj.extraPayload))
                 ELSE Pick(obj, {"type"}) @@ base, obj.hash)

\* verify
SatoshisOf(outputs) == FoldLeft(LAMBDA acc, out : acc + out.satoshis, 0, outputs)
Verifies(tx) ==
  /\ tx.inputs # <<>> /\ tx.outputs # <<>>
  /\ \A i \in DOMAIN tx.outputs : tx.outputs[i].satoshis \in 0 .. MAX_SAFE_INTEGER
  /\ SatoshisOf(tx.outputs) <= MAX_MONEY
  /\ Len(TxBytes(tx)) <= MAX_BLOCK_SIZE
  /\ \A i, j \in DOMAIN tx.inputs :
       tx.inputs[i].prevTxId = tx.inputs[j].prevTxId /\ tx.inputs[i].outputIndex = tx.inputs[j].outputIndex
       => i = j
  /\ IF IsCoinbase(tx) THEN Len(tx.inputs[1].script) \in COINBASE_SCRIPT_SIZES
     ELSE \A i \in DOMAIN tx.inputs : ~IsNull(tx.inputs[i])

\* addFundingOutput and addBurnOutput
AddFundingOutput(tx, satoshis) ==
  [tx EXCEPT !.outputs = Append(@, [satoshis |-> satoshis, script |-> <<OP_RETURN>>])]
AddBurnOutput(tx, satoshis, publicKeyHash) ==
  IF Len(publicKeyHash) # PUBKEY_ID_SIZE THEN ThrownObject
  ELSE [tx EXCEPT !.outputs = Append(@, [satoshis |-> satoshis,
          script |-> <<OP_RETURN, PUBKEY_ID_SIZE>> \o publicKeyHash])]

\* getOutPointBuffer and parseOutPointBuffer, of the hash as it is computed
OutPointBuffer(hash, outputIndex, tx) ==
  IF outputIndex \in 0 .. Len(tx.outputs) - 1 THEN hash \o LittleEndian(outputIndex, 4) ELSE <<Thrown>>
ParseOutPointBuffer(buf) ==
  IF Len(buf) # SHA256_HASH_SIZE + 4 THEN ThrownObject
  ELSE Take(Open(buf), << <<"transactionHash", Raw(SHA256_HASH_SIZE)>>, <<"outputIndex", UInt(4)>> >>).o
=============================================================================

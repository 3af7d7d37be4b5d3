------------------------------ MODULE Payloads ------------------------------
(***************************************************************************)
(* lib/transaction/payload: the payloads of special transactions.  Each    *)
(* class has what toBuffer writes, what fromBuffer reads, validate, and    *)
(* the way through toJSON and fromJSON.  A payload is the record of its    *)
(* fields; payloadSigSize, which the length of payloadSig gives, is left   *)
(* out.  The script of a payout is its kind, 1 for P2PKH and 2 for P2SH,   *)
(* and its hash; the address in JSON names the same two things.            *)
(***************************************************************************)
EXTENDS Encoding

CONSTANT MAX_SAFE_INTEGER

CURRENT_PROREG_VERSION == 2
MASTERNODE_TYPE_HP == 1
IsPayout(script) == script # <<>> /\ Head(script) \in {1, 2}
IsP2PKH(script) == script # <<>> /\ Head(script) = 1

\* What a call that throws returns
ThrownObject == [thrown |-> TRUE]
Checked(o, valid) == IF valid THEN o ELSE ThrownObject

\* Fields with a value other than undefined and the empty string
Truthy(o, name) == name \in DOMAIN o /\ o[name] # <<>>
OfSize(o, name, n) == name \in DOMAIN o /\ Len(o[name]) = n
IsHexa(o, name) == Truthy(o, name)
IsUnsigned(o, name) == name \in DOMAIN o /\ o[name] >= 0
HasPayout(o, name) == Truthy(o, name) => IsPayout(o[name])
\* Two characters a byte, doubled where they should be halved: of a signature of the
\* right size, and of nearly every other, this is true.
OddSignature(o) == Truthy(o, "payloadSig") => 4 * Len(o.payloadSig) # BLS_SIGNATURE_SIZE
IsHP(o) == o.version >= 2 /\ "type" \in DOMAIN o /\ o.type = MASTERNODE_TYPE_HP
Platform == {"platformNodeID", "platformP2PPort", "platformHTTPPort"}
PlatformFields == << <<"platformNodeID", Reversed(PLATFORM_NODE_ID_SIZE)>>,
                     <<"platformP2PPort", UInt(2)>>, <<"platformHTTPPort", UInt(2)>> >>
\* A signature behind its size, or a size of 0
SignatureField == << <<"payloadSig", Sized>> >>
SizedSignature(o) == IF Truthy(o, "payloadSig") THEN Put(o, SignatureField) ELSE VarintBytes(0)
WithoutEmptySignature(o) == IF Truthy(o, "payloadSig") THEN o ELSE Without(o, {"payloadSig"})
ValidPlatform(o) ==
  /\ IsHexa(o, "platformNodeID")
  /\ IsUnsigned(o, "platformP2PPort") /\ IsUnsigned(o, "platformHTTPPort")

\* An address and its script: toAddress throws for a script of neither kind.
AddressOf(script) == IF IsPayout(script) THEN [kind |-> Head(script), hash |-> Tail(script)] ELSE ThrownObject
ScriptOf(address) == <<address.kind>> \o address.hash

-----------------------------------------------------------------------------
(* ProRegTxPayload *)

ProRegValid(o) ==
  /\ "collateralIndex" \in DOMAIN o
  /\ OfSize(o, "collateralHash", SHA256_HASH_SIZE)
  /\ OfSize(o, "keyIDOwner", PUBKEY_ID_SIZE) /\ OfSize(o, "keyIDVoting", PUBKEY_ID_SIZE)
  /\ OfSize(o, "pubKeyOperator", BLS_PUBLIC_KEY_SIZE)
  /\ o.operatorReward <= 10000
  /\ IsHexa(o, "inputsHash")
  /\ IsHP(o) => ValidPlatform(o)
  /\ HasPayout(o, "scriptPayout")

\* The index of the collateral is written signed, so the upper half throws, and read
\* unsigned.
ProRegFields(index) ==
  << <<"version", UInt(2)>>, <<"type", UInt(2)>>, <<"mode", UInt(2)>>,
     <<"collateralHash", Reversed(SHA256_HASH_SIZE)>>, <<"collateralIndex", index>>,
     <<"service", Service>>, <<"keyIDOwner", Reversed(PUBKEY_ID_SIZE)>>,
     <<"pubKeyOperator", Raw(BLS_PUBLIC_KEY_SIZE)>>, <<"keyIDVoting", Reversed(PUBKEY_ID_SIZE)>>,
     <<"operatorReward", UInt(2)>>, <<"scriptPayout", Sized>>,
     <<"inputsHash", Reversed(SHA256_HASH_SIZE)>> >>

\* (fault) the platform's node ID is not reversed
ProRegBytesForwards(o) ==
  Put(o, ProRegFields(SInt(4)))
  \o (IF IsHP(o) THEN Put(o, [PlatformFields EXCEPT ![1][2] = Raw(PLATFORM_NODE_ID_SIZE)]) ELSE <<>>)
  \o SizedSignature(o)
ProRegBytes(o) ==
  Put(o, ProRegFields(SInt(4))) \o (IF IsHP(o) THEN Put(o, PlatformFields) ELSE <<>>) \o SizedSignature(o)
ProRegRead(r) ==
  Edited(Whole(Take(TakeWhen(IsHP, Take(r, ProRegFields(UInt(4))), PlatformFields), SignatureField)),
         WithoutEmptySignature)

\* type and mode are left out of JSON, and with the type the platform's fields
\* are not looked at any more.
ProRegToJSON(o) ==
  IF ~ProRegValid(o) \/ AddressOf(o.scriptPayout) = ThrownObject THEN ThrownObject
  ELSE [payoutAddress |-> AddressOf(o.scriptPayout)]
       @@ Pick(o, {"version", "collateralHash", "collateralIndex", "service", "keyIDOwner",
                   "pubKeyOperator", "keyIDVoting", "operatorReward", "inputsHash", "payloadSig"}
                  \cup (IF IsHP(o) THEN Platform ELSE {}))
ProRegFromJSON(json) ==
  LET o == [version |-> CURRENT_PROREG_VERSION, scriptPayout |-> ScriptOf(json.payoutAddress)]
           @@ Without(json, {"version", "payoutAddress"})
  IN  Checked(o, ProRegValid(o))

-----------------------------------------------------------------------------
(* ProUpServTxPayload *)

ProUpServValid(o) ==
  /\ o.version >= 2 => IsUnsigned(o, "type")
  /\ OfSize(o, "proTxHash", SHA256_HASH_SIZE) /\ OfSize(o, "inputsHash", SHA256_HASH_SIZE)
  /\ IsHP(o) => ValidPlatform(o)
  /\ HasPayout(o, "scriptOperatorPayout")
  /\ OddSignature(o)

\* Without a signature one byte 0 is written.
ProUpServBytes(o) ==
  Put(o, << <<"version", UInt(2)>> >>)
  \o (IF o.version >= 2 THEN Put(o, << <<"type", UInt(2)>> >>) ELSE <<>>)
  \o Put(o, << <<"proTxHash", Reversed(SHA256_HASH_SIZE)>>, <<"service", Service>>,
               <<"scriptOperatorPayout", Sized>>, <<"inputsHash", Reversed(SHA256_HASH_SIZE)>> >>)
  \o (IF IsHP(o) THEN Put(o, PlatformFields) ELSE <<>>)
  \o (IF Truthy(o, "payloadSig") THEN o.payloadSig ELSE VarintBytes(0))

\* As many bytes as a signature has, or the fewer that are left, the byte 0 too.
ProUpServRead(r) ==
  Accepted(Whole(Take(TakeWhen(IsHP,
    Take(TakeWhen(LAMBDA o : o.version >= 2, Take(r, << <<"version", UInt(2)>> >>), << <<"type", UInt(2)>> >>),
         << <<"proTxHash", Reversed(SHA256_HASH_SIZE)>>, <<"service", Service>>,
            <<"scriptOperatorPayout", Sized>>, <<"inputsHash", Reversed(SHA256_HASH_SIZE)>> >>),
    PlatformFields), << <<"payloadSig", Raw(BLS_SIGNATURE_SIZE)>> >>)), ProUpServValid)

ProUpServToJSON(o) ==
  IF ~ProUpServValid(o) \/ AddressOf(o.scriptOperatorPayout) = ThrownObject THEN ThrownObject
  ELSE [operatorPayoutAddress |-> AddressOf(o.scriptOperatorPayout)]
       @@ Pick(o, {"version", "proTxHash", "service", "inputsHash", "payloadSig"}
                  \cup (IF o.version >= 2 THEN {"type"} ELSE {})
                  \cup (IF IsHP(o) THEN Platform ELSE {}))

\* (fault) the platform's fields are read by the version alone
ProUpServFromJSONAnyType(json) ==
  LET o == [scriptOperatorPayout |-> ScriptOf(json.operatorPayoutAddress)]
           @@ Pick(json, {"version", "type", "proTxHash", "service", "inputsHash", "payloadSig"})
  IN  Checked(o, ProUpServValid(o))

ProUpServFromJSON(json) ==
  LET o == [scriptOperatorPayout |-> ScriptOf(json.operatorPayoutAddress)]
           @@ Pick(json, {"version", "proTxHash", "service", "inputsHash", "payloadSig"}
                         \cup (IF json.version >= 2 THEN {"type"} ELSE {})
                         \cup (IF IsHP(json) THEN Platform ELSE {}))
  IN  Checked(o, ProUpServValid(o))

-----------------------------------------------------------------------------
(* ProUpRegTxPayload *)

ProUpRegValid(o) ==
  /\ IsHexa(o, "pubKeyOperator") /\ IsHexa(o, "keyIDVoting")
  /\ OfSize(o, "proTxHash", SHA256_HASH_SIZE) /\ OfSize(o, "inputsHash", SHA256_HASH_SIZE)
  /\ HasPayout(o, "scriptPayout")
  /\ OddSignature(o)
ProUpRegBytes(o) ==
  Put(o, << <<"version", UInt(2)>>, <<"proTxHash", Reversed(SHA256_HASH_SIZE)>>,
            <<"mode", UInt(2)>>, <<"pubKeyOperator", Raw(BLS_PUBLIC_KEY_SIZE)>>,
            <<"keyIDVoting", Reversed(PUBKEY_ID_SIZE)>> >>)
  \o (IF Truthy(o, "scriptPayout") THEN Put(o, << <<"scriptPayout", Sized>> >>) ELSE VarintBytes(0))
  \o Put(o, << <<"inputsHash", Reversed(SHA256_HASH_SIZE)>> >>)
  \o SizedSignature(o)
ProUpRegRead(r) ==
  Accepted(Edited(Whole(TakeMore(
    Take(r, << <<"version", UInt(2)>>, <<"proTxHash", Reversed(SHA256_HASH_SIZE)>>,
               <<"mode", UInt(2)>>, <<"pubKeyOperator", Raw(BLS_PUBLIC_KEY_SIZE)>>,
               <<"keyIDVoting", Reversed(PUBKEY_ID_SIZE)>>, <<"scriptPayout", Sized>>,
               <<"inputsHash", Reversed(SHA256_HASH_SIZE)>> >>),
    SignatureField)), WithoutEmptySignature), ProUpRegValid)

\* The version becomes the current one and the mode is lost.
ProUpRegToJSON(o) ==
  IF AddressOf(o.scriptPayout) = ThrownObject THEN ThrownObject
  ELSE [payoutAddress |-> AddressOf(o.scriptPayout)]
       @@ Pick(o, {"version", "proTxHash", "pubKeyOperator", "keyIDVoting", "inputsHash", "payloadSig"})
ProUpRegFromJSON(json) ==
  LET o == [version |-> 1, scriptPayout |-> ScriptOf(json.payoutAddress)]
           @@ Without(json, {"version", "payoutAddress"})
  IN  Checked(o, ProUpRegValid(o))

-----------------------------------------------------------------------------
(* ProUpRevTxPayload *)

ProUpRevValid(o) ==
  /\ IsUnsigned(o, "reason")
  /\ OfSize(o, "proTxHash", SHA256_HASH_SIZE) /\ OfSize(o, "inputsHash", SHA256_HASH_SIZE)
  /\ Truthy(o, "payloadSig") => OfSize(o, "payloadSig", BLS_SIGNATURE_SIZE)
ProUpRevBytes(o) ==
  Put(o, << <<"version", UInt(2)>>, <<"proTxHash", Reversed(SHA256_HASH_SIZE)>>,
            <<"reason", UInt(2)>>, <<"inputsHash", Reversed(SHA256_HASH_SIZE)>> >>)
  \o (IF Truthy(o, "payloadSig") THEN o.payloadSig ELSE VarintBytes(0))
ProUpRevRead(r) ==
  Accepted(Whole(Take(r, << <<"version", UInt(2)>>, <<"proTxHash", Reversed(SHA256_HASH_SIZE)>>,
                            <<"reason", UInt(2)>>, <<"inputsHash", Reversed(SHA256_HASH_SIZE)>>,
                            <<"payloadSig", Raw(BLS_SIGNATURE_SIZE)>> >>)), ProUpRevValid)
ProUpRevToJSON(o) == Pick(o, {"version", "proTxHash", "reason", "inputsHash", "payloadSig"})
ProUpRevFromJSON(json) ==
  LET o == [version |-> 1] @@ json IN Checked(o, ProUpRevValid(o))

-----------------------------------------------------------------------------
(* CoinbasePayload *)

CoinbaseFields(version) ==
  {"version", "height", "merkleRootMNList"}
  \cup (IF version >= 2 THEN {"merkleRootQuorums"} ELSE {})
  \cup (IF version >= 3 THEN {"bestCLHeight", "bestCLSignature", "assetLockedAmount"} ELSE {})
\* toNumber throws for an amount above the greatest safe integer.
CoinbaseValid(o) ==
  /\ IsUnsigned(o, "height") /\ OfSize(o, "merkleRootMNList", SHA256_HASH_SIZE)
  /\ o.version >= 2 => OfSize(o, "merkleRootQuorums", SHA256_HASH_SIZE)
  /\ o.version >= 3 => /\ IsUnsigned(o, "bestCLHeight") /\ IsUnsigned(o, "assetLockedAmount")
                       /\ o.assetLockedAmount <= MAX_SAFE_INTEGER
                       /\ OfSize(o, "bestCLSignature", BLS_SIGNATURE_SIZE)
CoinbaseBytes(o) ==
  Put(o, << <<"version", UInt(2)>>, <<"height", UInt(4)>>,
            <<"merkleRootMNList", Reversed(SHA256_HASH_SIZE)>> >>)
  \o (IF o.version >= 2 THEN Put(o, << <<"merkleRootQuorums", Reversed(SHA256_HASH_SIZE)>> >>) ELSE <<>>)
  \o (IF o.version >= 3
        THEN Put(o, << <<"bestCLHeight", Varint>>, <<"bestCLSignature", Raw(BLS_SIGNATURE_SIZE)>>,
                       <<"assetLockedAmount", UInt(8)>> >>)
        ELSE <<>>)
CoinbaseRead(r) ==
  Accepted(Whole(TakeWhen(LAMBDA o : o.version >= 3,
    TakeWhen(LAMBDA o : o.version >= 2,
      Take(r, << <<"version", UInt(2)>>, <<"height", UInt(4)>>,
                 <<"merkleRootMNList", Reversed(SHA256_HASH_SIZE)>> >>),
      << <<"merkleRootQuorums", Reversed(SHA256_HASH_SIZE)>> >>),
    << <<"bestCLHeight", Varint>>, <<"bestCLSignature", Raw(BLS_SIGNATURE_SIZE)>>,
       <<"assetLockedAmount", UInt(8)>> >>)), CoinbaseValid)
CoinbaseToJSON(o) == Checked(Pick(o, CoinbaseFields(o.version)), CoinbaseValid(o))
CoinbaseFromJSON(json) ==
  LET o == Pick(json, CoinbaseFields(json.version)) IN Checked(o, CoinbaseValid(o))
=============================================================================

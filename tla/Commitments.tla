----------------------------- MODULE Commitments -----------------------------
(***************************************************************************)
(* The commitments of quorums and the masternode list on the wire:         *)
(* lib/deterministicmnlist/QuorumEntry.js, SimplifiedMNListEntry.js and    *)
(* SimplifiedMNListDiff.js, transaction/payload/commitmenttxpayload.js,    *)
(* and util/bitarray.js.  A byte has BITS bits.  Of a diff this module has *)
(* the parts, entries and quorums; Blocks puts them together.              *)
(***************************************************************************)
EXTENDS Payloads

CONSTANT BITS

ASSUME BitsAssumption == BYTE = 2^BITS

-----------------------------------------------------------------------------
(* Bit arrays.  A number's bits, the least significant one first *)

BitsOf(number, n) == [i \in 1..n |-> (number \div 2^(i - 1)) % 2]

\* The bits up to the highest one that is set, 0 for 0: a byte is not padded.
NumberToBitArray(number) ==
  BitsOf(number, CHOOSE n \in 1..BITS : number < 2^n /\ (n = 1 \/ number >= 2^(n - 1)))
Uint8ArrayToBitArray(bytes) == FlattenSeq([i \in DOMAIN bytes |-> NumberToBitArray(bytes[i])])

\* The other way there is padding, and the order of the bits in a byte is an argument.
BitsToNumber(bits) == FoldLeft(LAMBDA acc, b : 2 * acc + b, 0, bits)
ConvertBitArrayToUint8Array(bits, reverseBits) ==
  [i \in 1 .. (Len(bits) + BITS - 1) \div BITS |->
    LET byte == SubSeq(bits, (i - 1) * BITS + 1, IF i * BITS < Len(bits) THEN i * BITS ELSE Len(bits))
    IN  BitsToNumber(IF reverseBits THEN Reverse(byte) ELSE byte)]

\* isValidMemberSig: the members who are taken to have signed
SignersOf(members, signers) ==
  LET bits == Uint8ArrayToBitArray(signers)
  IN  {i \in DOMAIN members : i \in DOMAIN bits /\ bits[i] = 1}

-----------------------------------------------------------------------------
(* QuorumEntry *)

IsHashQuorumIndexRequired(version) == version \in {2, 4}

\* getParams: the size of the quorums, their threshold and how many are active
LLMQParams ==
  1 :> <<50, 30, 24>> @@ 5 :> <<60, 45, 32>> @@ 2 :> <<400, 240, 4>> @@ 3 :> <<400, 340, 4>>
  @@ 4 :> <<100, 67, 24>> @@ 6 :> <<25, 67, 24>>
  @@ 100 :> <<3, 2, 2>> @@ 101 :> <<12, 6, 4>> @@ 102 :> <<3, 2, 2>> @@ 103 :> <<4, 2, 2>>
  @@ 104 :> <<3, 2, 2>> @@ 105 :> <<8, 4, 2>> @@ 106 :> <<3, 2, 2>> @@ 107 :> <<12, 8, 4>>
QuorumSize(llmqType) == IF llmqType \in DOMAIN LLMQParams THEN LLMQParams[llmqType][1] ELSE Thrown
SignersBytes(size) == IF (size + BITS - 1) \div BITS = 0 THEN 1 ELSE (size + BITS - 1) \div BITS

IsOutdatedRPC(o) == "signers" \notin DOMAIN o
QuorumEntryValid(o) ==
  /\ IsUnsigned(o, "version") /\ IsUnsigned(o, "llmqType")
  /\ OfSize(o, "quorumHash", SHA256_HASH_SIZE)
  /\ IsHashQuorumIndexRequired(o.version) => "quorumIndex" \in DOMAIN o
  /\ IsUnsigned(o, "signersCount") /\ IsUnsigned(o, "validMembersCount")
  /\ OfSize(o, "quorumPublicKey", BLS_PUBLIC_KEY_SIZE)
  /\ ~IsOutdatedRPC(o) =>
       /\ IsHexa(o, "signers") /\ IsHexa(o, "validMembers")
       /\ OfSize(o, "quorumVvecHash", SHA256_HASH_SIZE)
       /\ OfSize(o, "quorumSig", BLS_SIGNATURE_SIZE) /\ OfSize(o, "membersSig", BLS_SIGNATURE_SIZE)

QuorumEntryHead(o) ==
  Put(o, << <<"version", UInt(2)>>, <<"llmqType", UInt(1)>>,
            <<"quorumHash", Reversed(SHA256_HASH_SIZE)>> >>)
  \o (IF IsHashQuorumIndexRequired(o.version) THEN Put(o, << <<"quorumIndex", SInt(2)>> >>) ELSE <<>>)
QuorumEntryTail(o) ==
  Put(o, << <<"quorumPublicKey", Raw(BLS_PUBLIC_KEY_SIZE)>>,
            <<"quorumVvecHash", Reversed(SHA256_HASH_SIZE)>>,
            <<"quorumSig", Raw(BLS_SIGNATURE_SIZE)>>, <<"membersSig", Raw(BLS_SIGNATURE_SIZE)>> >>)
QuorumEntryBytes(o) ==
  IF ~QuorumEntryValid(o) THEN <<Thrown>>
  ELSE QuorumEntryHead(o) \o Put(o, << <<"signersCount", Varint>> >>)
       \o (IF IsOutdatedRPC(o)
             THEN Put(o, << <<"validMembersCount", Varint>>,
                            <<"quorumPublicKey", Raw(BLS_PUBLIC_KEY_SIZE)>> >>)
             ELSE o.signers \o Put(o, << <<"validMembersCount", Varint>> >>) \o o.validMembers
                  \o QuorumEntryTail(o))

\* What the merkle root of the quorums is computed from: the sizes are the
\* quorum's, the counts are not in it.
QuorumEntryHashed(o) ==
  LET size == VarintBytes(QuorumSize(o.llmqType))
  IN  QuorumEntryHead(o) \o size \o o.signers \o size \o o.validMembers \o QuorumEntryTail(o)
\* getCommitmentHash, which the members sign
CommitmentHashed(o) ==
  Put(o, << <<"llmqType", UInt(1)>>, <<"quorumHash", Reversed(SHA256_HASH_SIZE)>> >>)
  \o VarintBytes(QuorumSize(o.llmqType)) \o o.validMembers
  \o Put(o, << <<"quorumPublicKey", Raw(BLS_PUBLIC_KEY_SIZE)>>,
               <<"quorumVvecHash", Reversed(SHA256_HASH_SIZE)>> >>)

\* 100 in the code, which the short form is below and the full one above.
OUTDATED_BELOW == SHA256_HASH_SIZE + BLS_PUBLIC_KEY_SIZE + 8

\* A short form has no index and no bits, and the index of a full one is 0 where the
\* version has none.
QuorumEntryRead(buf) ==
  LET short == Len(buf) < OUTDATED_BELOW
      HasIndex(o) == ~short /\ IsHashQuorumIndexRequired(o.version)
      Known(o) == short \/ QuorumSize(o.llmqType) # Thrown
      Rest(o) ==
        IF short THEN << <<"signersCount", Varint>>, <<"validMembersCount", Varint>>,
                         <<"quorumPublicKey", Raw(BLS_PUBLIC_KEY_SIZE)>> >>
        ELSE << <<"signersCount", Varint>>, <<"signers", Raw(SignersBytes(QuorumSize(o.llmqType)))>>,
                <<"validMembersCount", Varint>>, <<"validMembers", Raw(SignersBytes(QuorumSize(o.llmqType)))>>,
                <<"quorumPublicKey", Raw(BLS_PUBLIC_KEY_SIZE)>>,
                <<"quorumVvecHash", Reversed(SHA256_HASH_SIZE)>>,
                <<"quorumSig", Raw(BLS_SIGNATURE_SIZE)>>, <<"membersSig", Raw(BLS_SIGNATURE_SIZE)>> >>
  IN  Edited(TakeThose(Accepted(TakeWhen(HasIndex,
        Take(Open(buf), << <<"version", UInt(2)>>, <<"llmqType", UInt(1)>>,
                           <<"quorumHash", Reversed(SHA256_HASH_SIZE)>> >>),
        << <<"quorumIndex", SInt(2)>> >>), Known), Rest),
        LAMBDA o : o @@ [quorumIndex |-> 0])

QuorumEntryFields ==
  {"version", "llmqType", "quorumHash", "quorumIndex", "signersCount", "signers",
   "validMembersCount", "validMembers", "quorumPublicKey", "quorumVvecHash", "quorumSig",
   "membersSig"}
QuorumEntryToObject(o) == Pick(o, QuorumEntryFields)
QuorumEntryFromObject(obj) ==
  LET o == Pick(obj, QuorumEntryFields) IN Checked(o, QuorumEntryValid(o))

-----------------------------------------------------------------------------
(* CommitmentTxPayload: hashes are not reversed *)

CommitmentValid(o) ==
  /\ IsUnsigned(o, "version") /\ IsUnsigned(o, "height")
  /\ IsUnsigned(o, "qfcVersion") /\ IsUnsigned(o, "llmqtype")
  /\ IsHexa(o, "quorumHash")
  /\ IsHashQuorumIndexRequired(o.qfcVersion) => "quorumIndex" \in DOMAIN o
  /\ \A name \in {"signers", "validMembers", "quorumPublicKey", "quorumVvecHash", "quorumSig", "sig"} :
       IsHexa(o, name)
CommitmentBytes(o) ==
  IF ~CommitmentValid(o) \/ QuorumSize(o.llmqtype) = Thrown THEN <<Thrown>>
  ELSE Put(o, << <<"version", UInt(2)>>, <<"height", UInt(4)>>, <<"qfcVersion", UInt(2)>>,
                 <<"llmqtype", UInt(1)>>, <<"quorumHash", Raw(SHA256_HASH_SIZE)>> >>)
       \o (IF IsHashQuorumIndexRequired(o.qfcVersion)
             THEN Put(o, << <<"quorumIndex", SInt(2)>> >>) ELSE <<>>)
       \o Put(o, << <<"signersSize", Varint>> >>) \o o.signers
       \o Put(o, << <<"validMembersSize", Varint>> >>) \o o.validMembers
       \o Put(o, << <<"quorumPublicKey", Raw(BLS_PUBLIC_KEY_SIZE)>>,
                    <<"quorumVvecHash", Raw(SHA256_HASH_SIZE)>>,
                    <<"quorumSig", Raw(BLS_SIGNATURE_SIZE)>>, <<"sig", Raw(BLS_SIGNATURE_SIZE)>> >>)

\* The height is read signed, although it is written unsigned.
CommitmentRead(r) ==
  LET Rest(o) ==
        << <<"signersSize", Varint>>, <<"signers", Raw(SignersBytes(QuorumSize(o.llmqtype)))>>,
           <<"validMembersSize", Varint>>, <<"validMembers", Raw(SignersBytes(QuorumSize(o.llmqtype)))>>,
           <<"quorumPublicKey", Raw(BLS_PUBLIC_KEY_SIZE)>>, <<"quorumVvecHash", Raw(SHA256_HASH_SIZE)>>,
           <<"quorumSig", Raw(BLS_SIGNATURE_SIZE)>>, <<"sig", Raw(BLS_SIGNATURE_SIZE)>> >>
  IN  Whole(TakeThose(Accepted(TakeWhen(LAMBDA o : IsHashQuorumIndexRequired(o.qfcVersion),
        Take(r, << <<"version", UInt(2)>>, <<"height", SInt(4)>>, <<"qfcVersion", UInt(2)>>,
                   <<"llmqtype", UInt(1)>>, <<"quorumHash", Raw(SHA256_HASH_SIZE)>> >>),
        << <<"quorumIndex", SInt(2)>> >>),
        LAMBDA o : QuorumSize(o.llmqtype) # Thrown), Rest))

\* The constructor drops the two sizes that toJSON writes.
CommitmentToJSON(o) == Checked(o, CommitmentValid(o))
CommitmentFromJSON(json) ==
  LET o == [version |-> 1] @@ Without(json, {"version", "signersSize", "validMembersSize"})
  IN  Checked(o, CommitmentValid(o))

-----------------------------------------------------------------------------
(* SimplifiedMNListEntry.  The voting address is its hash: the network is the *)
(* one it is read for.                                                        *)

SMLEntryValid(o) ==
  /\ OfSize(o, "proRegTxHash", SHA256_HASH_SIZE) /\ OfSize(o, "confirmedHash", SHA256_HASH_SIZE)
  /\ OfSize(o, "pubKeyOperator", BLS_PUBLIC_KEY_SIZE) /\ OfSize(o, "votingAddress", PUBKEY_ID_SIZE)
  /\ "nType" \in DOMAIN o
  /\ o.nType = MASTERNODE_TYPE_HP => {"platformHTTPPort", "platformNodeID"} \subseteq DOMAIN o

HPFields == << <<"platformHTTPPort", UInt(2)>>, <<"platformNodeID", Reversed(PLATFORM_NODE_ID_SIZE)>> >>
SMLEntryBase ==
  << <<"proRegTxHash", Reversed(SHA256_HASH_SIZE)>>, <<"confirmedHash", Reversed(SHA256_HASH_SIZE)>>,
     <<"service", Service>>, <<"pubKeyOperator", Raw(BLS_PUBLIC_KEY_SIZE)>>,
     <<"votingAddress", Raw(PUBKEY_ID_SIZE)>>, <<"isValid", UInt(1)>> >>

\* Only an entry of version 2 writes its type.
SMLEntryBytes(o) ==
  IF ~SMLEntryValid(o) THEN <<Thrown>>
  ELSE Put(o, SMLEntryBase)
       \o (IF "nVersion" \in DOMAIN o /\ o.nVersion = 2 THEN Put(o, << <<"nType", UInt(2)>> >>) ELSE <<>>)
       \o (IF "nVersion" \in DOMAIN o /\ o.nVersion = 2 /\ o.nType = MASTERNODE_TYPE_HP
             THEN Put(o, HPFields) ELSE <<>>)
SMLEntryRead(r) ==
  LET Truth(o) == [o EXCEPT !.isValid = IF @ = 0 THEN 0 ELSE 1]
      Versioned(o) == (IF "nType" \in DOMAIN o THEN [nVersion |-> 2] ELSE Pick(o, {})) @@ o
      HasPlatform(o) == "nType" \in DOMAIN o /\ o.nType = MASTERNODE_TYPE_HP
  IN  Accepted(TakeWhen(HasPlatform,
        Edited(TakeMore(Edited(Take(r, SMLEntryBase), Truth), << <<"nType", UInt(2)>> >>), Versioned),
        HPFields), SMLEntryValid)

\* A port 0 is left out.
SMLEntryToObject(o) ==
  Without(o, {name \in {"platformHTTPPort"} : name \in DOMAIN o /\ o[name] = 0})
SMLEntryFromObject(obj) == Checked(obj, SMLEntryValid(obj))

-----------------------------------------------------------------------------
(* The parts of SimplifiedMNListDiff; Blocks has the whole *)

SML_ENTRY_VERSION_1_SIZE ==
  2 * SHA256_HASH_SIZE + IPV4_SIZE + 4 + BLS_PUBLIC_KEY_SIZE + PUBKEY_ID_SIZE + 1
SML_ENTRY_TYPE_2_ADDITION_SIZE == 2 + PLATFORM_NODE_ID_SIZE

QuorumId == << <<"llmqType", UInt(1)>>, <<"quorumHash", Reversed(SHA256_HASH_SIZE)>> >>
HashRead(r) == Edited(Take(r, << <<"hash", Reversed(SHA256_HASH_SIZE)>> >>), LAMBDA o : o.hash)

\* The entry is cut out by the version of the diff and then read by its length.
DiffEntry(r, type, nVersion) ==
  LET size == IF nVersion < 2 THEN SML_ENTRY_VERSION_1_SIZE
              ELSE SML_ENTRY_VERSION_1_SIZE + 2
                   + IF type.value = MASTERNODE_TYPE_HP THEN SML_ENTRY_TYPE_2_ADDITION_SIZE ELSE 0
      Cut(entry) == IF entry.at = 0 THEN Stop(r) ELSE [r EXCEPT !.at = r.at + size, !.o = entry.o]
  IN  IF nVersion >= 2 /\ type = Failed THEN Stop(r)
      ELSE Cut(SMLEntryRead(Open(ReadBytes(r.buf, r.at, size).value)))
DiffEntries(r) ==
  TakeItems(r, "mnList",
    LAMBDA s : DiffEntry(s, ReadNumber(s.buf, s.at + SML_ENTRY_VERSION_1_SIZE, 2), r.o.nVersion))
DiffQuorum(r, bytes) ==
  LET Cut(entry) ==
        IF entry.at = 0 THEN Stop(r) ELSE [r EXCEPT !.at = bytes.at, !.o = QuorumEntryFromObject(entry.o)]
  IN  IF bytes = Failed THEN Stop(r) ELSE Cut(QuorumEntryRead(bytes.value))
DiffQuorums(r) ==
  TakeItems(TakeItems(r, "deletedQuorums", LAMBDA s : Take(s, QuorumId)),
            "newQuorums", LAMBDA s : DiffQuorum(s, ReadVarBytes(s.buf, s.at, FALSE)))
=============================================================================

------------------------------- MODULE Library --------------------------------
(***************************************************************************)
(* The parts of the library that compute: what is written is read again,   *)
(* keys are derived, signatures and proofs are made and checked.  A client *)
(* takes up one subject, an object of one of the kinds below or the        *)
(* arguments of a call; the networks, which keys and addresses are read    *)
(* by, go on changing under its hands.                                     *)
(***************************************************************************)
EXTENDS LockBytes, Mnemonics, Signatures, Governance, PaymentRequests

CONSTANTS
  Wire,               \* by kind: the objects that are written and read
  Forms,              \* by kind: the objects that are only shown as objects
  MaxTransactions,    \* bound: the transactions of a block that is proved
  Numbers,            \* of private keys
  Seeds, Indexes,     \* of extended keys and their children
  Hashes, Ks,         \* what is signed, and the k that is used for it
  Counts,             \* of the words of a phrase
  Entropies

VARIABLE subject

libraryVars == <<networkVars, subject>>
Nothing == [family |-> "none"]

-----------------------------------------------------------------------------
(* The kinds on the wire *)

PayloadClasses == {TransactionTypes[type] : type \in DOMAIN TransactionTypes}

ToBytes(kind, o) ==
  CASE kind \in PayloadClasses -> PayloadBytes(kind, o)
    [] kind = "QuorumEntry" -> QuorumEntryBytes(o)
    [] kind = "SimplifiedMNListEntry" -> SMLEntryBytes(o)
    [] kind = "SimplifiedMNListDiff" -> DiffBytes(o)
    [] kind = "Transaction" -> TxBytes(o)
    [] kind = "InstantLock" -> InstantLockBytes(o)
    [] kind = "ChainLock" -> ChainLockBytes(o)
    [] kind = "ChainLockSigMessage" -> BlockBytes(o.block) \o ChainLockBytes(o.chainLock)
    [] kind = "BlockHeader" -> HeaderBytes(o)
    [] kind = "Block" -> BlockBytes(o)
    [] kind = "MerkleBlock" -> MerkleBlockBytes(o)
    [] kind = "PartialMerkleTree" -> TreeBytes(o)
    [] kind = "BloomFilter" -> BloomFilterBytes(o)

Result(r) == IF r.at = 0 THEN ThrownObject ELSE r.o
FromBytes(kind, bytes) ==
  CASE kind \in PayloadClasses -> Result(PayloadRead(kind, bytes))
    [] kind = "QuorumEntry" -> Result(QuorumEntryRead(bytes))
    [] kind = "SimplifiedMNListEntry" -> Result(SMLEntryRead(Open(bytes)))
    [] kind = "SimplifiedMNListDiff" -> Result(DiffRead(Open(bytes)))
    [] kind = "Transaction" -> Result(TxRead(Open(bytes)))
    [] kind = "InstantLock" -> InstantLockRead(bytes)
    [] kind = "ChainLock" -> ChainLockRead(bytes)
    [] kind = "ChainLockSigMessage" -> ChainLockSigMessage(bytes)
    [] kind = "BlockHeader" -> Result(HeaderRead(Open(bytes)))
    [] kind = "Block" -> Result(BlockRead(Open(bytes)))
    [] kind = "MerkleBlock" -> Result(MerkleBlockRead(Open(bytes)))
    [] kind = "PartialMerkleTree" -> Result(TreeRead(Open(bytes)))
    [] kind = "BloomFilter" -> Result(BloomFilterRead(Open(bytes)))

\* From an object or JSON and back, of the kinds that have one of the two
HasObject == PayloadClasses \cup
  {"QuorumEntry", "SimplifiedMNListEntry", "Transaction", "InstantLock", "ChainLock", "BlockHeader",
   "Block", "MerkleBlock"}
ThroughObject(kind, o) ==
  CASE kind \in PayloadClasses -> PayloadThroughJSON(kind, o)
    [] kind = "QuorumEntry" -> QuorumEntryFromObject(QuorumEntryToObject(o))
    [] kind = "SimplifiedMNListEntry" -> SMLEntryFromObject(SMLEntryToObject(o))
    [] kind = "Transaction" -> TxFromObject(TxToObject(o))
    [] kind = "InstantLock" -> Through(InstantLockToObject(o), InstantLockFromObject)
    [] kind = "ChainLock" -> ChainLockFromObject(ChainLockToObject(o))
    [] kind = "BlockHeader" -> HeaderFromObject(HeaderToJSON(o))
    [] kind = "Block" -> BlockFromObject(BlockToJSON(o))
    [] kind = "MerkleBlock" -> MerkleBlockFromObject(MerkleBlockToJSON(o))

\* What the objects of a kind do not say: the type and mode of a registration, and
\* of three classes the version, which becomes the one the class has now; the sizes
\* of a commitment.
Lost(kind) ==
  CASE kind = "ProReg" -> {"type", "mode", "version"}
    [] kind = "ProUpReg" -> {"mode", "version"}
    [] kind = "ProUpRev" -> {"version"}
    [] kind = "Commitment" -> {"version", "signersSize", "validMembersSize"}
    [] OTHER -> {}

-----------------------------------------------------------------------------
(* Valid objects that do not survive.  Each of these is a disagreement between two   *)
(* methods of one class; the properties below say that there are no others.          *)

UpperHalf(number, n) == number >= BYTE^n \div 2
IndexTooLarge(version, o) == IsHashQuorumIndexRequired(version) /\ UpperHalf(o.quorumIndex, 2)
PayloadUnwritable(class, o) ==
  CASE class = "ProReg" -> UpperHalf(o.collateralIndex, 4)
    [] class = "Commitment" -> QuorumSize(o.llmqtype) = Thrown \/ IndexTooLarge(o.qfcVersion, o)
    [] OTHER -> FALSE

\* toBuffer throws: for a number in the upper half of a width that is written signed,
\* and for a commitment of an unknown type.
Unwritable(kind, o) ==
  CASE kind \in PayloadClasses -> PayloadUnwritable(kind, o)
    [] kind = "QuorumEntry" -> IndexTooLarge(o.version, o)
    [] kind = "ChainLock" -> UpperHalf(o.height, 4)
    [] kind = "InstantLock" -> \E i \in DOMAIN o.inputs : UpperHalf(o.inputs[i].outpointIndex, 4)
    [] OTHER -> FALSE

\* An unsigned update or revocation is written with one byte 0 for its signature,
\* which is read as a signature, as is a part of one that is too long; the height of
\* a commitment is written unsigned and read signed; bits are read by the size of the
\* quorum.
BitsOfSize(size, o) ==
  size # Thrown /\ Len(o.signers) = SignersBytes(size) /\ Len(o.validMembers) = SignersBytes(size)
PayloadUnread(class, o) ==
  CASE class \in {"ProUpServ", "ProUpRev"} ->
         ~Truthy(o, "payloadSig") \/ Len(o.payloadSig) > BLS_SIGNATURE_SIZE
    [] class = "Commitment" -> UpperHalf(o.height, 4) \/ ~BitsOfSize(QuorumSize(o.llmqtype), o)
    [] OTHER -> FALSE
TxUnread(tx) == HasExtraPayload(tx) /\ PayloadUnread(TransactionTypes[tx.type], tx.extraPayload)
\* The short form of a quorum is read without its index; an entry is read as one of
\* version 2, and its bytes do not hold the payout addresses.
QuorumUnread(o) ==
  IF IsOutdatedRPC(o) THEN IsHashQuorumIndexRequired(o.version) ELSE ~BitsOfSize(QuorumSize(o.llmqType), o)
Payouts == {"payoutAddress", "operatorPayoutAddress"}
HasVersion2(o) == "nVersion" \in DOMAIN o /\ o.nVersion = 2
EntryUnread(o) == ~HasVersion2(o) \/ Payouts \cap DOMAIN o # {}
\* Without a version the number of inputs is taken for one, and the first byte of the
\* first hash, the last one of it in text, for their number; it only has to be less.
TakenForVersioned(lock) ==
  ~IsVersioned(lock) /\ Last(lock.inputs[1].outpointHash) \in 1 .. Len(lock.inputs) - 1

\* fromBuffer throws for what toBuffer has written, or reads another object.
Unread(kind, o) ==
  CASE kind \in PayloadClasses -> PayloadUnread(kind, o)
    [] kind = "Transaction" -> TxUnread(o)
    [] kind = "Block" -> \E i \in DOMAIN o.transactions : TxUnread(o.transactions[i])
    [] kind = "QuorumEntry" -> QuorumUnread(o)
    [] kind = "SimplifiedMNListEntry" -> EntryUnread(o)
    [] kind = "SimplifiedMNListDiff" ->
         \/ TxUnread(o.cbTx)
         \/ o.mnList # <<>> /\ o.nVersion < 2
         \/ \E i \in DOMAIN o.mnList : EntryUnread(o.mnList[i])
         \/ \E i \in DOMAIN o.newQuorums : QuorumUnread(o.newQuorums[i])
    [] kind = "InstantLock" -> TakenForVersioned(o)
    [] OTHER -> FALSE

\* toJSON throws for a payout that is not set, or toObject leaves out a port 0, which
\* fromObject wants; a transaction is shown with its payload's bytes.
Unshown(kind, o) ==
  CASE kind \in {"ProReg", "ProUpReg"} -> o.scriptPayout = <<>>
    [] kind = "ProUpServ" -> o.scriptOperatorPayout = <<>>
    [] kind = "SimplifiedMNListEntry" -> "platformHTTPPort" \in DOMAIN o /\ o.platformHTTPPort = 0
    [] kind \in {"Transaction", "Block"} -> Unread(kind, o)
    [] OTHER -> FALSE

-----------------------------------------------------------------------------
(* Steps *)

Init == InitNetworks /\ subject = Nothing

\* The module Networks changes while a client holds a key or an address.
ChangeNetworks == /\ subject.family \in {"none", "key"} /\ NetworkStep /\ UNCHANGED subject

TakeUp(new) ==
  /\ subject = Nothing
  /\ subject' = new
  /\ UNCHANGED networkVars

\* What does not depend on the networks is taken up before they change.
Fresh == created = <<LivenetData, TestnetData>> /\ networks = <<livenet, testnet>> /\ ~regtestEnabled

WriteObject == /\ Fresh
               /\ \E kind \in DOMAIN Wire : \E i \in DOMAIN Wire[kind] :
                    TakeUp([family |-> "wire", kind |-> kind, value |-> Wire[kind][i]])
ShowObject == /\ Fresh
              /\ \E kind \in DOMAIN Forms : \E i \in DOMAIN Forms[kind] :
                   TakeUp([family |-> "form", kind |-> kind, value |-> Forms[kind][i]])
ProveInclusion == /\ Fresh
                  /\ \E n \in 1 .. MaxTransactions : \E matches \in [1..n -> BOOLEAN] :
                       TakeUp([family |-> "proof", matches |-> matches])
HoldKey ==
  \E bn \in Numbers, compressed \in BOOLEAN : \E i \in DOMAIN networks :
    TakeUp([family |-> "key", key |-> NewPrivateKey(bn, compressed, networks[i])])
DeriveKey ==
  /\ Fresh
  /\ \E seed \in Seeds, index \in Indexes, network \in {livenet, testnet} :
       TakeUp([family |-> "hd", seed |-> seed, index |-> index, network |-> network])
SignSomething ==
  /\ Fresh
  /\ \E bn \in 1 .. ORDER - 1, hash \in Hashes, k \in Ks, compressed \in BOOLEAN :
       TakeUp([family |-> "signature", key |-> NewPrivateKey(bn, compressed, livenet), hash |-> hash, k |-> k])
EnterWords ==
  /\ Fresh
  /\ \E list \in DOMAIN Words, n \in Counts : \E picks \in [1..n -> DOMAIN Words[list]] :
       TakeUp([family |-> "phrase", list |-> list, words |-> [i \in 1..n |-> Words[list][picks[i]]]])

Next ==
  \/ ChangeNetworks \/ WriteObject \/ ShowObject \/ ProveInclusion \/ HoldKey \/ DeriveKey
  \/ SignSomething \/ EnterWords
Spec == Init /\ [][Next]_libraryVars

-----------------------------------------------------------------------------
(* Properties of what is written *)

Of(family) == subject.family = family

\* What is hashed to be signed or for a merkle root, of the kinds that have such a
\* form, and what of the object that determines
Hashed(kind, o) ==
  CASE kind = "QuorumEntry" /\ ~IsOutdatedRPC(o) -> QuorumEntryHashed(o)
    [] kind = "InstantLock" -> InstantLockRequest(o)
    [] kind = "ChainLock" -> SignedMessage(Wire["QuorumEntry"][1], ChainLockRequest(o), o.blockHash)
    [] kind = "SimplifiedMNListEntry" -> SMLEntryBytes(o)
    [] kind = "BlockHeader" -> HeaderBytes(o)
    [] kind = "Transaction" -> TxBytes(o)
    [] OTHER -> <<o>>
Determined(kind, o) ==
  CASE kind = "QuorumEntry" /\ ~IsOutdatedRPC(o) -> Without(o, {"signersCount", "validMembersCount"})
    [] kind = "InstantLock" -> o.inputs
    [] kind = "ChainLock" -> Without(o, {"signature"})
    [] kind = "SimplifiedMNListEntry" ->
         Without(o, Payouts \cup IF HasVersion2(o) THEN {} ELSE {"nVersion", "nType"} \cup Platform)
    [] OTHER -> o

\* What is written: an object, a transaction with the outputs that are added by value
\* alone, and any transaction that verifies
ToWrite(kind, o) ==
  CASE Of("form") -> {tx \in {o} : Verifies(tx)}
    [] kind = "Transaction" ->
         {o, AddFundingOutput(o, 5), AddBurnOutput(o, 5, [i \in 1 .. PUBKEY_ID_SIZE |-> i])}
    [] OTHER -> {o}
ReadAgain(kind, bytes, o) ==
  /\ \A more \in 0 .. (IF kind \in PayloadClasses THEN 1 ELSE 0) :
       FromBytes(kind, bytes \o [i \in 1..more |-> 0]) = IF more = 0 THEN o ELSE ThrownObject
  /\ kind = "ChainLock" => ChainLockValid(o) /\ ~ChainLockValid(ChainLockRead(Front(bytes)))
  /\ kind = "Block" => Result(BlockFromRaw([i \in 1 .. START_OF_BLOCK |-> 0] \o bytes)) = o
HashedApart(kind, hashed) ==
  \A i, j \in DOMAIN hashed :
    hashed[i] = hashed[j] => Determined(kind, Wire[kind][i]) = Determined(kind, Wire[kind][j])
\* What the members of a quorum sign says which members they are.
Committed(entries) ==
  \A x, y \in {e \in entries : ~IsOutdatedRPC(e)} :
    CommitmentHashed(x) = CommitmentHashed(y) => x.validMembers = y.validMembers /\ x.llmqType = y.llmqType

WrittenOrNot(kind, bytes, o) ==
  /\ Throws(bytes) <=> Unwritable(kind, o)
  /\ ~Throws(bytes) => (FromBytes(kind, bytes) = o <=> ~Unread(kind, o))
  /\ ~Unwritable(kind, o) /\ ~Unread(kind, o) => ReadAgain(kind, bytes, o)

\* What toBuffer writes of a valid object, fromBuffer reads as the same object, of
\* every kind on the wire: the fields in the same order and of the same widths, each
\* optional part by the same condition (bufferwriter.js and bufferreader.js, and the
\* pair of methods of each class).  It fails for exactly the objects that Unwritable
\* and Unread describe, whose bytes cannot be had or are not read as the object (the
\* first of them proupservtxpayload.js:301 against :127).  The parser of a payload
\* refuses one byte more, validate a chain lock with one byte less; a block is found
\* behind the head of a raw file; the outputs that are added by value alone do not
\* disturb a transaction; one that verifies can be read; and two objects that differ
\* are hashed from different bytes.
ReadsWhatItWrites ==
  /\ Of("wire") \/ (Of("form") /\ subject.kind = "Transaction") =>
       \A o \in ToWrite(subject.kind, subject.value) :
         WrittenOrNot(subject.kind, ToBytes(subject.kind, o), o)
  /\ Of("wire") =>
       HashedApart(subject.kind, [i \in DOMAIN Wire[subject.kind] |-> Hashed(subject.kind, Wire[subject.kind][i])])
  /\ Of("wire") /\ subject.kind = "QuorumEntry" => Committed(ToSet(Wire["QuorumEntry"]))
  /\ Of("wire") /\ subject.kind = "Transaction" =>
       \A i \in DOMAIN subject.value.outputs :
         ParseOutPointBuffer(OutPointBuffer(NullHash, i - 1, subject.value))
           = [transactionHash |-> NullHash, outputIndex |-> i - 1]

SignedBy(entry, members) ==
  {i \in DOMAIN members : FlattenSeq([j \in DOMAIN entry.signers |-> BitsOf(entry.signers[j], BITS)])[i] = 1}
RightSigners(entry, members) ==
  Cardinality(SignedBy(entry, members)) = entry.signersCount
  => SignersOf(members, entry.signers) = SignedBy(entry, members)

\* The members that isValidMemberSig takes to have signed are those whose bit is set
\* in `signers', as many as signersCount says (QuorumEntry.js:455, "Verifies the
\* quorum's aggregated operator key signature").
SignersAreThoseSet ==
  Of("wire") /\ subject.kind = "QuorumEntry" /\ ~IsOutdatedRPC(subject.value)
  /\ ~Unwritable("QuorumEntry", subject.value) /\ ~QuorumUnread(subject.value) =>
    \A entry \in {Result(QuorumEntryRead(QuorumEntryBytes(subject.value)))} :
      RightSigners(entry, [i \in 1 .. QuorumSize(entry.llmqType) |-> i])

SameText(gov, number, text) ==
  /\ GovFromText(GovText(number, gov)) = gov
  /\ text # ThrownGov => GovFromText(text) = gov /\ TypedFromText(number, text) = gov
SameURI(uri) ==
  /\ URIFromText(URIText(uri), {"req-known"})
       = [name \in {n \in DOMAIN uri : n = "amount" => uri[n] # 0} |-> uri[name]]
  /\ "message" \in DOMAIN uri => URIFromObject(URIToObject(uri), {"req-known"}) = uri
SameAmount(satoshis) ==
  /\ \A code \in DOMAIN UNITS : UnitFrom(UnitTo(satoshis, code), code) = satoshis
  /\ UnitFromObject(UnitToObject(satoshis)) = satoshis
  /\ \A rate \in {1, 25} : \A again \in {FromFiat(AtRate(satoshis, rate), rate)} :    \* to half a cent
       200 * rate * (IF again < satoshis THEN satoshis - again ELSE again - satoshis)
         <= 10^UNITS["BTC"] + 200 * rate

\* What toObject or toJSON shows, fromObject or fromJSON takes for the same object,
\* but for the fields that Lost names and for exactly the objects that Unshown
\* describes.  A proposal or a trigger is the one its text
\* says, an amount the one in any unit, a payment request the one in its text, an
\* output the one that is shown.
ThroughObjects ==
  /\ Of("wire") /\ subject.kind \in HasObject =>
       (Without(ThroughObject(subject.kind, subject.value), Lost(subject.kind))
          = Without(subject.value, Lost(subject.kind))
        <=> ~Unshown(subject.kind, subject.value))
  /\ Of("form") =>
       CASE subject.kind = "governance" ->
              \A gov \in {GovFromObject(subject.value)} \ {ThrownGov} :
                SameText(gov, gov["type"][2], CheckedSerialize(gov["type"][2], gov, NoNetwork, 0))
         [] subject.kind = "uri" ->
              \A uri \in {URIFromObject(subject.value, {"req-known"})} \ {ThrownURI} : SameURI(uri)
         [] subject.kind = "unit" -> SameAmount(subject.value.satoshis)
         [] subject.kind = "output" ->
              \A output \in {NewUnspentOutput(subject.value)} \ {ThrownURI} :
                NewUnspentOutput(UnspentOutputToObject(output)) = output
         [] OTHER -> TRUE

\* The proof PartialMerkleTree builds for the transactions that match is valid for
\* the merkle root of the block, and for no other; it gives exactly the matches, and
\* with a hash dropped, exchanged or added it is never valid (PartialMerkleTree.js,
\* util/merkletree.js and merkleblock.js:157, three programs that walk one tree).
MerkleProofs ==
  Of("proof") =>
    LET n == Len(subject.matches)
        txs == [i \in 1..n |-> TxHash(i)]
        root == Last(BlockMerkleTree(txs))
        built == BuildMerkleBlock(0, [i \in 1..n |-> ReverseHash(txs[i])], subject.matches)
        proof == [built EXCEPT !.hashes = [i \in DOMAIN @ |-> ReverseHash(@[i])]]
        With(hashes) == ValidMerkleTree([proof EXCEPT !.hashes = hashes], root)
    IN  /\ ValidMerkleRoot(txs, root) /\ MerkleRoot(MerkleTreeOf(txs)) = <<root>>
        /\ ValidMerkleTree(proof, root) = "valid"
        /\ ValidMerkleTree(proof, TxHash(n + 1)) = "invalid"
        /\ ToSet(MatchedTransactionHashes(proof)) \subseteq ToSet(txs)
        /\ \A i \in 1..n : HasTransaction(proof, txs[i]) <=> subject.matches[i]
        /\ \A i \in DOMAIN proof.hashes :
             /\ With(RemoveAt(proof.hashes, i)) # "valid"
             /\ With([proof.hashes EXCEPT ![i] = TxHash(n + 1)]) # "valid"
             /\ With(InsertAt(proof.hashes, i, TxHash(n + 1))) # "valid"
        /\ With(Append(proof.hashes, root)) # "valid"

-----------------------------------------------------------------------------
(* Properties of keys *)

Listed(network) == Contains(networks, network)
OnlyOne(network, field) ==
  \A i \in DOMAIN networks :
    field \in DOMAIN created[networks[i]] /\ created[networks[i]][field] = created[network][field]
    => networks[i] = network

\* Whatever has become of its network, a key's text is never read as another key,
\* nor on a network that was not asked for; on a network in the list that no other
\* shares a version with, a key, its public key and its address are read back as
\* they were (privatekey.js:145, publickey.js:163, address.js:195 and 221).
KeysReadBack ==
  Of("key") =>
    LET key == subject.key
        text == ToWIF(key)
        public == ToPublicKey(key)
        compressed == NewPublicKey(public.point, TRUE, key.network)
        address == AddressFromPublicKey(public, key.network)
        script == PayingTo(ToDER(public), key.network)
        Sure(field) == Listed(key.network) /\ OnlyOne(key.network, field)
    IN  /\ \A network \in DOMAIN created \cup {NoNetwork} :
             LET again == FromWIF(text, network)
             IN  \/ again = ThrownKey
                 \/ /\ again.bn = key.bn /\ again.compressed = key.compressed
                    /\ network = NoNetwork \/ again.network = network
        /\ Sure("privatekey") => \A network \in {NoNetwork, key.network} : FromWIF(text, network) = key
        /\ FromDER(ToDER(public), TRUE, key.network) = public
        /\ PublicKeyFromObject(PublicKeyToObject(public)) = [public EXCEPT !.network = livenet]
        /\ \A a \in {address, script} \ {ThrownKey} :
             Listed(a.network) /\ OnlyOne(a.network, "pubkeyhash") /\ OnlyOne(a.network, "scripthash") =>
               /\ \A network \in {NoNetwork, a.network}, type \in {"", a.type} :
                    AddressFromString(AddressToString(a), network, type) = a
               /\ \A type \in {"pubkeyhash", "scripthash"} \ {a.type} :
                    AddressFromString(AddressToString(a), NoNetwork, type) = ThrownKey
               /\ (\A other \in DOMAIN created :
                     created[other].name = created[a.network].name => other = a.network)
                  => /\ AddressFromObject(AddressToObject(a)) = a
                     /\ PrivateKeyFromObject(PrivateKeyToObject(key)) = key

Number1(n) == [kind |-> "number", value |-> n]
Path(indexes) ==
  [kind |-> "path", rooted |-> TRUE,
   steps |-> [i \in DOMAIN indexes |->
     [value |-> indexes[i], hex |-> indexes[i] >= MaxIndex, quoted |-> FALSE, malformed |-> FALSE]]]
Argument(n) == IF n < MaxIndex THEN Number1(n) ELSE [kind |-> "bn", value |-> n]

LongHardened == HARDENED .. MaxIndex - 1
\* The public key of a child, or of the one after it where that can be had
PublicOf(child) ==
  IF child = ThrownKey \/ (~IsLong(child.index) /\ FromBigEndian(child.index) \in LongHardened) THEN ThrownKey
  ELSE Neuter(child)
StoredAgain(xprv, xpub) ==
  /\ HDPrivateFromText(Serialized(xprv)) = xprv
  /\ HDPrivateFromObject(HDPrivateToObject(xprv)) = xprv
  /\ \A key \in {xprv, xpub} : HDPublicFromText(Serialized(key)) = xpub
  /\ ~IsLong(xpub.index) => HDPublicFromObject(HDPublicToObject(xpub)) = xpub
Follows(master, arg, child) ==
  /\ child # ThrownKey =>
       DeriveChild(master, Path(<<subject.index, 1>>), FALSE) = DeriveChild(child, Number1(1), FALSE)
  /\ arg.kind = "number" =>
       (Derive(master, arg, FALSE) = child
         <=> subject.index < HARDENED \/ FromBigEndian(master.key) >= BYTE^(KEY_SIZE - 1))
  /\ \A hardened \in BOOLEAN :
       PublicDeriveChild(Neuter(master), arg, hardened)
         = IF hardened \/ subject.index \in LongHardened THEN ThrownKey ELSE PublicOf(child)
  /\ \A x \in {master, child, DeriveChild(master, arg, TRUE)} \ {ThrownKey} : StoredAgain(x, Neuter(x))

\* Deriving and making public commute for every child that is not hardened: the
\* public key of the child of a private key is the child of its public key, also
\* where an index gives no key and both go on to the next.  Only where that next
\* index is hardened has the public key no child.  A path is its steps, one after
\* the other; the two ways of deriving differ for hardened children of a key with a
\* zero byte in front, and only there; and the text of any of these keys is read as
\* the same key (hdprivatekey.js:251, hdpublickey.js:175).
DerivationCommutes ==
  Of("hd") =>
    \A master \in {FromSeed(subject.seed, subject.network)} \ {ThrownKey} :
      Follows(master, Argument(subject.index), DeriveChild(master, Argument(subject.index), FALSE))

Kept(sig, tx, public) ==
  /\ HasLowS(sig)
  /\ ParseDER(SignatureToDER(sig), TRUE) = sig
  /\ FromTxFormat(tx) = [r |-> sig.r, s |-> sig.s, nhashtype |-> SIGHASH_ALL]
  /\ IsTxDER(tx) /\ HasDefinedHashtype(Last(tx))
  /\ \A txsig \in {[publicKey |-> public, signature |-> sig, sigtype |-> SIGHASH_ALL]} :
       TxSignatureFromObject(TxSignatureToObject(txsig)) = txsig
Recovers(hash, public, compact) ==
  /\ ~Throws(compact) /\ RecoveredKey(hash, FromCompact(compact)) = public
  /\ VerifyHashSignature(hash, compact, Hash160(ToDER(public))) = "valid"
  /\ VerifyDataSignature(hash, compact, public.point) = "valid"
OnlyValidFor(message, own, signed, addresses) ==
  \A address \in addresses : (VerifyMessage(message, address, signed) = "valid") <=> address = own

\* A signature verifies for its key and hash, in either order of the bytes, and has
\* the lower s; its DER form and that of a transaction are read back and pass
\* isTxDER.  A recovery number is always found, and the compact form gives exactly
\* the key and its compression, also where the x of the point is past the order of
\* the group.  A signed message is valid for the address of its key, and for no
\* other of the keys' (ecdsa.js:225, signature.js:195, message.js:109).
SignaturesRecover ==
  Of("signature") =>
    LET key == subject.key
        public(bn) == [point |-> TimesG(bn), compressed |-> key.compressed, network |-> livenet]
        address(bn) == AddressFromPublicKey(public(bn), livenet)
    IN  /\ ToPublicKey(key) = public(key.bn)
        /\ \A endian \in {"big", "little"} : \A sig \in {Sign(key.bn, subject.hash, endian, subject.k)} :
             /\ VerifySignature(subject.hash, sig, TimesG(key.bn), endian)
             /\ Kept(sig, ToTxFormat(sig, SIGHASH_ALL), public(key.bn))
        /\ Recovers(subject.hash, public(key.bn), SignHash(subject.hash, key, subject.k))
        /\ OnlyValidFor(subject.hash, address(key.bn), SignMessage(subject.hash, key, subject.k),
                        {address(bn) : bn \in 1 .. ORDER - 1})

PhrasesOf == [list \in DOMAIN Words |->
  {phrase.words : phrase \in {Entropy2Mnemonic(e, Words[list]) : e \in Entropies} \ {ThrownPhrase}}]

\* The words that isValid accepts are exactly those of some entropy; a number of
\* words that no entropy gives is never accepted.  A phrase gives the same seed and
\* key however its words were separated, and the list it is found in has all of its
\* words (mnemonic.js:114, 148 and 259).
PhrasesAreEntropy ==
  /\ subject = Nothing /\ Fresh =>
       \A entropy \in Entropies :
         Strength(Len(entropy) * BYTE_BITS) # -1 =>
           /\ Strength(Len(entropy) * BYTE_BITS) = Len(entropy)
           /\ MnemonicFromSeed(entropy, <<>>) # ThrownPhrase
  /\ Of("phrase") =>
    LET list == Words[subject.list]
        valid == IsValid(subject.words, list) = "valid"
        spaced == MnemonicOf(Phrase(subject.words, " "), list)
        ideographic == MnemonicOf(Phrase(subject.words, "ideographic space"), list)
    IN  /\ valid <=> subject.words \in PhrasesOf[subject.list]
        /\ valid => /\ ToSeed(spaced, <<1>>) = ToSeed(ideographic, <<1>>)
                    /\ ToHDPrivateKey(spaced, <<>>, livenet) = ToHDPrivateKey(ideographic, <<>>, livenet)
                    /\ ToSet(subject.words) \subseteq ToSet(GetDictionary(subject.words))
                    /\ \E entropy \in Entropies :
                         ToSeed(MnemonicFromSeed(entropy, list), <<1>>) = ToSeed(spaced, <<1>>)
=============================================================================

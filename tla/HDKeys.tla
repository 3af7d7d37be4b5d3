-------------------------------- MODULE HDKeys --------------------------------
(***************************************************************************)
(* lib/hdprivatekey.js and hdpublickey.js: extended keys, how children are *)
(* derived by a number, by a long ("256-bit") index or along a path, and   *)
(* the two forms a key is stored in.                                       *)
(*                                                                         *)
(* An extended key is its buffers, as in the code (_buffers); the hash and *)
(* the text in base 58 follow from them.  `hardened' is only written with  *)
(* a long index.  An index argument is a record of its kind: "number",     *)
(* "bn", "buffer", "hex" (0x...) or "path", whose steps are numbers or hex *)
(* numbers with or without a quote, or malformed.                          *)
(***************************************************************************)
EXTENDS Keys

CONSTANTS
  VERSION_SIZE, FINGERPRINT_SIZE, CHAIN_SIZE,     \* 4, 4, 32
  INDEX_SIZE, LONG_INDEX_SIZE,                    \* 4, 32
  MINIMUM_ENTROPY, MAXIMUM_ENTROPY,               \* 16 and 64 bytes
  BITCOIN_SEED

MaxIndex == BYTE^INDEX_SIZE
HARDENED == MaxIndex \div 2
MaxLongIndex == BYTE^LONG_INDEX_SIZE

\* Hash.sha512hmac, cut in two
Hmac(data, key) ==
  LET bytes == Digest(key \o data, KEY_SIZE + CHAIN_SIZE)
  IN  [left |-> FromBigEndian(SubSeq(bytes, 1, KEY_SIZE)),
       chain |-> SubSeq(bytes, KEY_SIZE + 1, KEY_SIZE + CHAIN_SIZE)]

IsLong(index) == Len(index) = LONG_INDEX_SIZE

-----------------------------------------------------------------------------
(* What is stored *)

Flag(hardened) == <<IF hardened THEN 1 ELSE 0>>
Written(xkey) ==
  BigEndian(xkey.version, VERSION_SIZE) \o <<xkey.depth>> \o xkey.parent
  \o (IF IsLong(xkey.index) THEN Flag(xkey.hardened) ELSE <<>>)
  \o xkey.index \o xkey.chain \o xkey.key
NetworkOf(xkey) == Find(Num(xkey.version))

\* HDPrivateKey._buildFromBuffers: `key' is written with a zero byte in front; one
\* that is no key of the curve throws.  _validateBufferArguments checks each size.
ExtendedPrivate(buffers) ==
  LET bn == FromBigEndian(buffers.key)
  IN  IF \/ Len(buffers.key) # KEY_SIZE \/ Len(buffers.chain) # CHAIN_SIZE
         \/ Len(buffers.parent) # FINGERPRINT_SIZE
         \/ ~IsLong(buffers.index) /\ Len(buffers.index) # INDEX_SIZE
         \/ NewPrivateKey(bn, TRUE, livenet) = ThrownKey
        THEN ThrownKey
      ELSE [buffers EXCEPT !.key = <<0>> \o @]
PrivateOf(xprv) == NewPrivateKey(FromBigEndian(xprv.key), TRUE, livenet)
PublicBytes(xprv) == ToDER(ToPublicKey(PrivateOf(xprv)))

\* HDPublicKey._buildFromBuffers
ExtendedPublic(buffers) ==
  IF \/ Len(buffers.key) # KEY_SIZE + 1 \/ Len(buffers.chain) # CHAIN_SIZE
     \/ Len(buffers.parent) # FINGERPRINT_SIZE
     \/ ~IsLong(buffers.index) /\ Len(buffers.index) # INDEX_SIZE
     \/ FromDER(buffers.key, TRUE, NoNetwork) = ThrownKey
    THEN ThrownKey
  ELSE buffers
PointOf(xpub) == FromDER(xpub.key, TRUE, NoNetwork).point

Fingerprint(publicBytes) == SubSeq(Hash160(publicBytes), 1, FINGERPRINT_SIZE)

\* hdPublicKey, _buildFromPrivate: the network is found by the version of the key.
Neuter(xprv) ==
  ExtendedPublic([xprv EXCEPT
    !.version = created[NetworkOf(xprv)][IF IsLong(xprv.index) THEN "xpubkey256bit" ELSE "xpubkey"],
    !.key = Compressed(TimesG(FromBigEndian(xprv.key)))])

\* _buildFromSerialized, of the text that xprivkey or xpubkey is: the two lengths
\* tell the two sizes of an index apart.  getSerializedError is what is refused
\* before.  Of a private key the byte in front is dropped, whatever it is.
ShortLength == VERSION_SIZE + 1 + FINGERPRINT_SIZE + INDEX_SIZE + CHAIN_SIZE + 1 + KEY_SIZE
LongLength == ShortLength + 1 + LONG_INDEX_SIZE - INDEX_SIZE
Serialized(xkey) == Base58Check(Written(xkey))
Buffers(data) ==
  LET long == Len(data) = LongLength
      r == Take(Open(data), <<
             <<"version", Raw(VERSION_SIZE)>>, <<"depth", UInt(1)>>, <<"parent", Raw(FINGERPRINT_SIZE)>>,
             <<"hardened", Raw(IF long THEN 1 ELSE 0)>>,
             <<"index", Raw(IF long THEN LONG_INDEX_SIZE ELSE INDEX_SIZE)>>,
             <<"chain", Raw(CHAIN_SIZE)>>, <<"key", Raw(KEY_SIZE + 1)>>>>).o
  IN  [r EXCEPT !.version = FromBigEndian(@), !.hardened = @ # <<>> /\ @ # <<0>>]

\* _validateNetwork
OfNetwork(data, network, short, long) ==
  FromBigEndian(SubSeq(data, 1, VERSION_SIZE))
    = created[network][IF Len(data) = LongLength THEN long ELSE short]

SerializedPrivate(text, network) ==
  LET data == Base58CheckDecode(text)
  IN  /\ ~Throws(data) /\ Len(data) \in {ShortLength, LongLength}
      /\ network # NoNetwork => OfNetwork(data, network, "xprivkey", "xprivkey256bit")
HDPrivateFromText(text) ==
  IF ~SerializedPrivate(text, NoNetwork) THEN ThrownKey
  ELSE ExtendedPrivate([Buffers(Base58CheckDecode(text)) EXCEPT !.key = Tail(@)])

PrivateVersions ==
  {created[n][field] : n \in {livenet, testnet}, field \in {"xprivkey", "xprivkey256bit"}}
SerializedPublic(text, network) ==
  LET data == Base58CheckDecode(text)
  IN  /\ ~Throws(data) /\ Len(data) \in {ShortLength, LongLength}
      /\ network # NoNetwork => OfNetwork(data, network, "xpubkey", "xpubkey256bit")
\* The constructor goes on to the public key of the text of a private one.
HDPublicFromText(text) ==
  LET OfPrivate(xprv) == IF xprv = ThrownKey THEN ThrownKey ELSE Neuter(xprv)
      Of(buffers) == IF buffers.version \in PrivateVersions THEN OfPrivate(HDPrivateFromText(text))
                     ELSE ExtendedPublic(buffers)
  IN  IF ~SerializedPublic(text, NoNetwork) THEN ThrownKey ELSE Of(Buffers(Base58CheckDecode(text)))

Checksum(xkey) == Digest(Written(xkey), CHECKSUM_SIZE)
\* Both are read back with the checksum in the object, which must fit what is built;
\* the version is that of the network's name.
FromFields(obj, built) ==
  IF built = ThrownKey \/ Checksum(built) # obj.checksum THEN ThrownKey ELSE built

HDPrivateToObject(xprv) ==
  [network |-> created[NetworkOf(xprv)].name, depth |-> xprv.depth, parent |-> xprv.parent,
   hardened |-> xprv.hardened, index |-> xprv.index, chain |-> xprv.chain,
   key |-> Tail(xprv.key), checksum |-> Checksum(xprv)]
HDPrivateFromObject(obj) ==
  LET version == created[Find(Text(obj.network))][IF IsLong(obj.index) THEN "xprivkey256bit" ELSE "xprivkey"]
  IN  FromFields(obj, ExtendedPrivate(
        [version |-> version, depth |-> obj.depth, parent |-> obj.parent, hardened |-> obj.hardened,
         index |-> obj.index, chain |-> obj.chain, key |-> obj.key]))

\* The test for a long index is on _buffers, which has no length: the index of the
\* object is always the number in its first bytes, and never hardened.
HDPublicToObject(xpub) ==
  [network |-> created[NetworkOf(xpub)].name, depth |-> xpub.depth, parent |-> xpub.parent,
   hardened |-> FALSE, index |-> SubSeq(xpub.index, 1, INDEX_SIZE), chain |-> xpub.chain,
   key |-> xpub.key, checksum |-> Checksum(xpub)]
HDPublicFromObject(obj) ==
  LET version == created[Find(Text(obj.network))][IF IsLong(obj.index) THEN "xpubkey256bit" ELSE "xpubkey"]
  IN  FromFields(obj, ExtendedPublic(
        [version |-> version, depth |-> obj.depth, parent |-> obj.parent, hardened |-> obj.hardened,
         index |-> obj.index, chain |-> obj.chain, key |-> obj.key]))

FromSeed(seed, network) ==
  LET hash == Hmac(seed, BITCOIN_SEED)
  IN  IF Len(seed) < MINIMUM_ENTROPY \/ Len(seed) > MAXIMUM_ENTROPY THEN ThrownKey
      ELSE ExtendedPrivate(
        [version |-> created[IF network = NoNetwork THEN livenet ELSE network].xprivkey, depth |-> 0,
         parent |-> BigEndian(0, FINGERPRINT_SIZE), hardened |-> FALSE, index |-> BigEndian(0, INDEX_SIZE),
         chain |-> hash.chain, key |-> BigEndian(hash.left, KEY_SIZE)])

-----------------------------------------------------------------------------
(* Indexes and paths *)

ValidLong(n) == n >= MaxIndex /\ n < MaxLongIndex
\* isValidPath of a number
ValidIndex(n, hardened) ==
  LET index == IF n < HARDENED /\ hardened THEN n + HARDENED ELSE n IN index >= 0 /\ index < MaxIndex

\* _getDerivationIndexes of a step: a long index keeps its quote, a short one is
\* hardened by adding.
StepIndex(step) ==
  IF step.hex /\ step.value >= MaxIndex
    THEN [long |-> TRUE, value |-> step.value, hardened |-> step.quoted]
  ELSE [long |-> FALSE, value |-> IF step.quoted THEN step.value + HARDENED ELSE step.value,
        hardened |-> FALSE]
DerivationIndexes(path) == [i \in DOMAIN path.steps |-> StepIndex(path.steps[i])]
IsPath(path) == path.rooted /\ \A i \in DOMAIN path.steps : ~path.steps[i].malformed
ValidPath(path, Limit) ==
  /\ IsPath(path)
  /\ \A i \in DOMAIN path.steps : LET index == DerivationIndexes(path)[i] IN
       IF index.long THEN ValidLong(index.value) ELSE index.value >= 0 /\ index.value < Limit

\* _isIndex256bit, where it does not throw
LongArgument(arg) ==
  \/ arg.kind = "buffer" /\ Len(arg.bytes) = LONG_INDEX_SIZE
  \/ arg.kind = "hex" /\ arg.value >= MaxIndex
  \/ arg.kind = "bn"
LongArgumentThrows(arg) ==
  \/ arg.kind = "hex" /\ arg.value >= MaxLongIndex
  \/ arg.kind = "bn" /\ ~ValidLong(arg.value)
\* _IndexArgToBN and _IndexArgToNumber
IndexValue(arg) == IF arg.kind = "buffer" THEN FromBigEndian(arg.bytes) ELSE arg.value

-----------------------------------------------------------------------------
(* Deriving *)

Child(xprv, data, version, hardened, index) ==
  LET hash == Hmac(data \o index, xprv.chain)
      sum == (hash.left + FromBigEndian(xprv.key)) % ORDER
  IN  ExtendedPrivate(
        [version |-> version, depth |-> (xprv.depth + 1) % BYTE, parent |-> Fingerprint(PublicBytes(xprv)),
         hardened |-> hardened, index |-> index, chain |-> hash.chain, key |-> BigEndian(sum, KEY_SIZE)])

\* (fault) the key that goes into the hash of a hardened child is never padded
RECURSIVE DeriveWithNumberUnpadded(_, _, _, _)
DeriveWithNumberUnpadded(xprv, n, hardened, nonCompliant) ==
  LET index == IF n < HARDENED /\ hardened THEN n + HARDENED ELSE n
      data == IF index >= HARDENED THEN <<0>> \o Unpadded(FromBigEndian(xprv.key)) ELSE PublicBytes(xprv)
      OrNext(derived) == IF derived # ThrownKey THEN derived
                         ELSE DeriveWithNumberUnpadded(xprv, index + 1, FALSE, nonCompliant)
  IN  IF ~ValidIndex(n, hardened) THEN ThrownKey
      ELSE OrNext(Child(xprv, data, created[NetworkOf(xprv)].xprivkey, FALSE, BigEndian(index, INDEX_SIZE)))

\* _deriveWithNumber: a sum that is no key goes on with the next index, hardened or
\* not by its value alone.
RECURSIVE DeriveWithNumber(_, _, _, _)
DeriveWithNumber(xprv, n, hardened, nonCompliant) ==
  LET index == IF n < HARDENED /\ hardened THEN n + HARDENED ELSE n
      data == IF index < HARDENED THEN PublicBytes(xprv)
              ELSE IF nonCompliant THEN <<0>> \o Unpadded(FromBigEndian(xprv.key))
              ELSE xprv.key
      OrNext(derived) == IF derived # ThrownKey THEN derived
                         ELSE DeriveWithNumber(xprv, index + 1, FALSE, nonCompliant)
  IN  IF ~ValidIndex(n, hardened) THEN ThrownKey
      ELSE OrNext(Child(xprv, data, created[NetworkOf(xprv)].xprivkey, FALSE, BigEndian(index, INDEX_SIZE)))

\* _deriveWithBigNumber
RECURSIVE DeriveWithBigNumber(_, _, _)
DeriveWithBigNumber(xprv, n, hardened) ==
  LET data == IF hardened THEN xprv.key ELSE PublicBytes(xprv)
      OrNext(derived) == IF derived # ThrownKey THEN derived ELSE DeriveWithBigNumber(xprv, n + 1, hardened)
  IN  IF ~ValidLong(n) THEN ThrownKey
      ELSE OrNext(Child(xprv, data, created[NetworkOf(xprv)].xprivkey256bit, hardened,
                        BigEndian(n, LONG_INDEX_SIZE)))

\* _deriveFromString
DeriveFromPath(xprv, path, nonCompliant) ==
  IF ~ValidPath(path, MaxIndex) THEN ThrownKey
  ELSE FoldLeft(LAMBDA x, index :
         IF x = ThrownKey THEN x
         ELSE IF index.long THEN DeriveWithBigNumber(x, index.value, index.hardened)
         ELSE DeriveWithNumber(x, index.value, FALSE, nonCompliant),
         xprv, DerivationIndexes(path))

DeriveChild(xprv, arg, hardened) ==
  IF LongArgumentThrows(arg) THEN ThrownKey
  ELSE IF arg.kind = "path" THEN DeriveFromPath(xprv, arg, FALSE)
  ELSE IF LongArgument(arg) THEN DeriveWithBigNumber(xprv, IndexValue(arg), hardened)
  ELSE DeriveWithNumber(xprv, IndexValue(arg), hardened, FALSE)

\* derive, which is deriveNonCompliantChild: numbers and paths only
Derive(xprv, arg, hardened) ==
  IF arg.kind = "number" THEN DeriveWithNumber(xprv, arg.value, hardened, TRUE)
  ELSE IF arg.kind = "path" THEN DeriveFromPath(xprv, arg, TRUE)
  ELSE ThrownKey

PublicChild(xpub, version, index) ==
  LET hash == Hmac(xpub.key \o index, xpub.chain)
      Of(point) ==
        IF point = Infinity THEN ThrownKey
        ELSE ExtendedPublic(
          [version |-> version, depth |-> (xpub.depth + 1) % BYTE, parent |-> Fingerprint(xpub.key),
           hardened |-> FALSE, index |-> index, chain |-> hash.chain, key |-> Compressed(point)])
  IN  Of(AddPoints(TimesG(hash.left), PointOf(xpub)))

RECURSIVE PublicWithNumber(_, _, _)
PublicWithNumber(xpub, n, hardened) ==
  LET OrNext(derived) == IF derived # ThrownKey THEN derived ELSE PublicWithNumber(xpub, n + 1, FALSE)
  IN  IF n >= HARDENED \/ hardened \/ n < 0 THEN ThrownKey
      ELSE OrNext(PublicChild(xpub, created[NetworkOf(xpub)].xpubkey, BigEndian(n, INDEX_SIZE)))
RECURSIVE PublicWithBigNumber(_, _, _)
PublicWithBigNumber(xpub, n, hardened) ==
  LET OrNext(derived) == IF derived # ThrownKey THEN derived ELSE PublicWithBigNumber(xpub, n + 1, FALSE)
  IN  IF hardened \/ ~ValidLong(n) THEN ThrownKey
      ELSE OrNext(PublicChild(xpub, created[NetworkOf(xpub)].xpubkey256bit, BigEndian(n, LONG_INDEX_SIZE)))

PublicFromPath(xpub, path) ==
  IF \E i \in DOMAIN path.steps : path.steps[i].quoted THEN ThrownKey
  ELSE IF ~ValidPath(path, HARDENED) THEN ThrownKey
  ELSE FoldLeft(LAMBDA x, index :
         IF x = ThrownKey THEN x
         ELSE IF index.long THEN PublicWithBigNumber(x, index.value, FALSE)
         ELSE PublicWithNumber(x, index.value, FALSE),
         xpub, DerivationIndexes(path))

PublicDeriveChild(xpub, arg, hardened) ==
  IF LongArgumentThrows(arg) THEN ThrownKey
  ELSE IF arg.kind = "path" THEN PublicFromPath(xpub, arg)
  ELSE IF LongArgument(arg) THEN PublicWithBigNumber(xpub, IndexValue(arg), hardened)
  ELSE PublicWithNumber(xpub, IndexValue(arg), hardened)
=============================================================================

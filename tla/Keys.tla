--------------------------------- MODULE Keys ---------------------------------
(***************************************************************************)
(* lib/crypto/point.js, privatekey.js, publickey.js, address.js and the    *)
(* checksums of encoding/base58check.js, over the networks there are.      *)
(*                                                                         *)
(* The curve is y^2 = x^3 + 7 as in the code, over a small field with a    *)
(* small prime order; the group operations are the elliptic package's.  A  *)
(* key, a coordinate and a hash have their sizes as CONSTANTS.  A string   *)
(* in base 58 is the bytes it encodes: the bs58 package is one to one.     *)
(***************************************************************************)
EXTENDS Encoding, Networks

CONSTANTS FIELD, ORDER, GENERATOR,
          KEY_SIZE,           \* 32: of a private key and of a coordinate
          CHECKSUM_SIZE,      \* 4
          Digest(_, _)        \* the bytes of a hash of bytes, of a size

-----------------------------------------------------------------------------
(* Points *)

Infinity == <<>>
Mod(n) == n % FIELD
InverseMod(n, modulus) == CHOOSE m \in 0 .. modulus - 1 : (n * m) % modulus = 1
OnCurve(x, y) == Mod(y * y) = Mod(x * x * x + 7)
AddPoints(p, q) ==
  IF p = Infinity THEN q ELSE IF q = Infinity THEN p
  ELSE IF p[1] = q[1] /\ Mod(p[2] + q[2]) = 0 THEN Infinity
  ELSE LET Third(slope, x) == <<x, Mod(slope * (p[1] - x) - p[2])>>
           Line(slope) == Third(slope, Mod(slope * slope - p[1] - q[1]))
       IN  Line(IF p = q THEN Mod(3 * p[1] * p[1] * InverseMod(Mod(2 * p[2]), FIELD))
                ELSE Mod((q[2] - p[2]) * InverseMod(Mod(q[1] - p[1]), FIELD)))
RECURSIVE Multiply(_, _)
Multiply(point, n) ==
  IF n = 0 THEN Infinity
  ELSE AddPoints(Multiply(AddPoints(point, point), n \div 2), IF n % 2 = 1 THEN point ELSE Infinity)
Multiples == [n \in 0 .. ORDER - 1 |-> Multiply(GENERATOR, n)]
TimesG(n) == Multiples[n % ORDER]

\* Point.fromX, Infinity where it throws: x is taken into the field first.
FromX(odd, x) ==
  LET ys == {y \in 0 .. FIELD - 1 : OnCurve(Mod(x), y) /\ (y % 2 = 1) = odd}
  IN  IF ys = {} THEN Infinity ELSE <<Mod(x), CHOOSE y \in ys : TRUE>>
\* Point.prototype.validate
ValidPoint(point) == /\ point # Infinity /\ point = FromX(point[2] % 2 = 1, point[1])
                     /\ Multiply(point, ORDER) = Infinity

BigEndian(n, size) == Reverse(LittleEndian(n, size))
FromBigEndian(bytes) == Number(Reverse(bytes))
\* BN.prototype.toBuffer without a size: no zero byte in front, but one byte for 0
Unpadded(n) == BigEndian(n, CHOOSE s \in 1 .. KEY_SIZE + 1 : n < BYTE^s /\ (s = 1 \/ n >= BYTE^(s - 1)))

-----------------------------------------------------------------------------
(* Base58Check *)

Base58Check(bytes) == bytes \o Digest(bytes, CHECKSUM_SIZE)
Base58CheckDecode(text) ==
  LET data == SubSeq(text, 1, Len(text) - CHECKSUM_SIZE)
  IN  IF Len(text) < CHECKSUM_SIZE \/ text # Base58Check(data) THEN <<Thrown>> ELSE data

-----------------------------------------------------------------------------
(* PrivateKey *)

ThrownKey == [thrown |-> TRUE]
NewPrivateKey(bn, compressed, network) ==
  IF bn = 0 \/ bn >= ORDER \/ network = NoNetwork THEN ThrownKey
  ELSE [bn |-> bn, compressed |-> compressed, network |-> network]

\* _transformBuffer: a buffer of the size of a key makes an uncompressed key, of the
\* network that is asked for; another buffer names its network.
PrivateKeyFromBuffer(buf, network) ==
  LET named == FindBy(buf[1], "privatekey")
      isCompressed == Len(buf) = KEY_SIZE + 2 /\ Last(buf) = 1
  IN  IF Len(buf) = KEY_SIZE
        THEN NewPrivateKey(FromBigEndian(buf), FALSE, IF network = NoNetwork THEN livenet ELSE network)
      ELSE IF \/ named = NoNetwork
              \/ network # NoNetwork /\ named # network
              \/ ~isCompressed /\ Len(buf) # KEY_SIZE + 1
        THEN ThrownKey
      ELSE NewPrivateKey(FromBigEndian(SubSeq(buf, 2, KEY_SIZE + 1)), isCompressed, named)

\* (fault) the byte that says compressed is left out
ToWIFUnmarked(key) ==
  Base58Check(<<created[key.network].privatekey>> \o BigEndian(key.bn, KEY_SIZE))
ToWIF(key) ==
  Base58Check(<<created[key.network].privatekey>> \o BigEndian(key.bn, KEY_SIZE)
              \o (IF key.compressed THEN <<1>> ELSE <<>>))
FromWIF(text, network) ==
  LET buf == Base58CheckDecode(text)
  IN  IF Throws(buf) \/ buf = <<>> THEN ThrownKey ELSE PrivateKeyFromBuffer(buf, network)

PrivateKeyToObject(key) == [key EXCEPT !.network = created[@].name]
PrivateKeyFromObject(obj) == NewPrivateKey(obj.bn, obj.compressed, Find(Text(obj.network)))

-----------------------------------------------------------------------------
(* PublicKey *)

NewPublicKey(point, compressed, network) ==
  IF ~ValidPoint(point) THEN ThrownKey
  ELSE [point |-> point, compressed |-> compressed,
        network |-> IF network = NoNetwork THEN livenet ELSE network]
ToPublicKey(key) == NewPublicKey(TimesG(key.bn), key.compressed, key.network)

Coordinate(n) == BigEndian(n, KEY_SIZE)
Compressed(point) == <<IF point[2] % 2 = 1 THEN 3 ELSE 2>> \o Coordinate(point[1])
ToDER(public) ==
  IF public.compressed THEN Compressed(public.point)
  ELSE <<4>> \o Coordinate(public.point[1]) \o Coordinate(public.point[2])

\* _transformDER: the two hybrid forms are only read when it is not strict.  A
\* compressed key may be shorter or longer than it is written.
FromDER(buf, strict, network) ==
  LET x == FromBigEndian(SubSeq(buf, 2, KEY_SIZE + 1))
      y == FromBigEndian(SubSeq(buf, KEY_SIZE + 2, Len(buf)))
  IN  IF buf[1] = 4 \/ (~strict /\ buf[1] \in {6, 7})
        THEN IF Len(buf) # 1 + 2 * KEY_SIZE \/ ~OnCurve(x, y) THEN ThrownKey
             ELSE NewPublicKey(<<x, y>>, FALSE, network)
      ELSE IF buf[1] \in {2, 3} THEN NewPublicKey(FromX(buf[1] = 3, FromBigEndian(Tail(buf))), TRUE, network)
      ELSE ThrownKey

\* _transformObject: the key of an object is livenet's, since a PublicKey is built
\* on the way.
PublicKeyToObject(public) ==
  [x |-> public.point[1], y |-> public.point[2], compressed |-> public.compressed]
PublicKeyFromObject(obj) == NewPublicKey(<<obj.x, obj.y>>, obj.compressed, livenet)

-----------------------------------------------------------------------------
(* Address *)

Hash160(bytes) == Digest(bytes, PUBKEY_ID_SIZE)
NewAddress(hash, network, type) ==
  IF network = NoNetwork THEN ThrownKey ELSE [hash |-> hash, network |-> network, type |-> type]
AddressFromPublicKey(public, network) ==
  NewAddress(Hash160(ToDER(public)), FindObject(network), "pubkeyhash")
PayingTo(script, network) == NewAddress(Hash160(script), FindObject(network), "scripthash")

\* (fault) the prefix of a script hash is looked for first, whatever the network
ClassifyFromVersionByHash(version) ==
  LET scripthash == FindBy(version, "scripthash")
  IN  IF scripthash # NoNetwork THEN [network |-> scripthash, type |-> "pubkeyhash"]
      ELSE [network |-> FindBy(version, "pubkeyhash"), type |-> "pubkeyhash"]

\* _classifyFromVersion
ClassifyFromVersion(version) ==
  LET pubkeyhash == FindBy(version, "pubkeyhash")
  IN  IF pubkeyhash # NoNetwork THEN [network |-> pubkeyhash, type |-> "pubkeyhash"]
      ELSE [network |-> FindBy(version, "scripthash"), type |-> "scripthash"]

\* _transformBuffer, for a network and a type, or for any
AddressFromBuffer(buf, network, type) ==
  LET version == ClassifyFromVersion(buf[1])
  IN  IF \/ Len(buf) # 1 + PUBKEY_ID_SIZE
         \/ version.network = NoNetwork
         \/ network # NoNetwork /\ network # version.network
         \/ type # "" /\ type # version.type
        THEN ThrownKey
      ELSE NewAddress(Tail(buf), version.network, version.type)
AddressToBuffer(address) == <<created[address.network][address.type]>> \o address.hash
AddressToString(address) == Base58Check(AddressToBuffer(address))
AddressFromString(text, network, type) ==
  LET buf == Base58CheckDecode(text)
  IN  IF Throws(buf) \/ buf = <<>> THEN ThrownKey ELSE AddressFromBuffer(buf, network, type)

AddressToObject(address) == [address EXCEPT !.network = created[@].name]
AddressFromObject(obj) ==
  IF Len(obj.hash) # PUBKEY_ID_SIZE THEN ThrownKey
  ELSE NewAddress(obj.hash, Find(Text(obj.network)), obj.type)
=============================================================================

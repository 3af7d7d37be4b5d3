------------------------------ MODULE Signatures ------------------------------
(***************************************************************************)
(* lib/crypto/ecdsa.js, signature.js and signer.js, lib/message.js and     *)
(* lib/transaction/signature.js.  A signature is a record of r, s and,     *)
(* when it was recovered or read, its recovery number i, and whether it    *)
(* stands for a compressed key.  A byte of a length, of a header or of a   *)
(* recovery number is that number.                                         *)
(***************************************************************************)
EXTENDS Keys

CONSTANTS MAGIC_BYTES,
          SIGHASH_ALL, SIGHASH_SINGLE, SIGHASH_ANYONECANPAY      \* 1, 3 and 128

ThrownSignature == [thrown |-> TRUE]
HalfOrder == ORDER \div 2
InverseN(n) == InverseMod(n % ORDER, ORDER)
HashNumber(hash, endian) == FromBigEndian(IF endian = "little" THEN Reverse(hash) ELSE hash)

-----------------------------------------------------------------------------
(* The forms of a signature *)

\* toCompact, fromCompact
Compact(sig) ==
  <<sig.i + 27 + (IF sig.compressed THEN 4 ELSE 0)>> \o BigEndian(sig.r, KEY_SIZE) \o BigEndian(sig.s, KEY_SIZE)
FromCompact(buf) ==
  LET compressed == buf[1] >= 27 + 4
      i == buf[1] - 27 - (IF compressed THEN 4 ELSE 0)
  IN  IF i \notin 0 .. 3 \/ Len(buf) < 1 + 2 * KEY_SIZE THEN ThrownSignature
      ELSE [i |-> i, compressed |-> compressed,
            r |-> FromBigEndian(SubSeq(buf, 2, KEY_SIZE + 1)),
            s |-> FromBigEndian(SubSeq(buf, KEY_SIZE + 2, 2 * KEY_SIZE + 1))]

\* A number of a signature, with a zero byte in front where the first would be a sign
SignedInteger(n) == (IF Unpadded(n)[1] >= BYTE \div 2 THEN <<0>> ELSE <<>>) \o Unpadded(n)
\* (fault) the sign of s is not looked at
SignatureToDERSigned(sig) ==
  LET r == SignedInteger(sig.r) s == Unpadded(sig.s)
  IN  <<48, 4 + Len(r) + Len(s), 2, Len(r)>> \o r \o <<2, Len(s)>> \o s
SignatureToDER(sig) ==
  LET r == SignedInteger(sig.r) s == SignedInteger(sig.s)
  IN  <<48, 4 + Len(r) + Len(s), 2, Len(r)>> \o r \o <<2, Len(s)>> \o s

ByteAt(buf, i) == IF i \in DOMAIN buf THEN buf[i] ELSE -1
\* parseDER: strict, the length is that of what follows; otherwise bytes may follow
ParseDER(buf, strict) ==
  LET length == IF buf[2] < Len(buf) - 2 THEN buf[2] ELSE Len(buf) - 2
      rlength == ByteAt(buf, 4)
      slength == ByteAt(buf, 6 + rlength)
  IN  IF \/ ByteAt(buf, 1) # 48 \/ (strict /\ ByteAt(buf, 2) # Len(buf) - 2)
         \/ ByteAt(buf, 3) # 2 \/ rlength < 0 \/ 4 + rlength > Len(buf)
         \/ ByteAt(buf, 5 + rlength) # 2 \/ slength < 0 \/ 6 + rlength + slength > Len(buf)
         \/ length # 4 + rlength + slength
        THEN ThrownSignature
      ELSE [r |-> FromBigEndian(SubSeq(buf, 5, 4 + rlength)),
            s |-> FromBigEndian(SubSeq(buf, 7 + rlength, 6 + rlength + slength))]

ToTxFormat(sig, nhashtype) == SignatureToDER(sig) \o <<nhashtype>>
FromTxFormat(buf) ==
  LET sig == ParseDER(Front(buf), FALSE)
  IN  IF buf = <<>> \/ sig = ThrownSignature THEN ThrownSignature
      ELSE [r |-> sig.r, s |-> sig.s, nhashtype |-> Last(buf)]

\* isTxDER: with a hash type at the end; positive numbers, and no zero byte in front
\* that the sign does not need.
PlainInteger(buf, at, length) ==
  /\ ByteAt(buf, at - 2) = 2 /\ length > 0 /\ ByteAt(buf, at) < BYTE \div 2
  /\ ~(length > 1 /\ buf[at] = 0 /\ ByteAt(buf, at + 1) < BYTE \div 2)
IsTxDER(buf) ==
  /\ Len(buf) >= 9 /\ Len(buf) <= 7 + 2 * (KEY_SIZE + 1)
  /\ buf[1] = 48 /\ buf[2] = Len(buf) - 3
  /\ LET rlength == buf[4] slength == buf[6 + rlength] IN
       /\ 5 + rlength < Len(buf)
       /\ rlength + slength + 7 = Len(buf)
       /\ PlainInteger(buf, 5, rlength) /\ PlainInteger(buf, 7 + rlength, slength)

HasLowS(sig) == sig.s >= 1 /\ sig.s <= HalfOrder
HasDefinedHashtype(nhashtype) ==
  LET type == IF nhashtype >= SIGHASH_ANYONECANPAY THEN nhashtype - SIGHASH_ANYONECANPAY ELSE nhashtype
  IN  nhashtype >= 0 /\ type >= SIGHASH_ALL /\ type <= SIGHASH_SINGLE

-----------------------------------------------------------------------------
(* ECDSA *)

HmacK(data, k) == Digest(k \o data, KEY_SIZE)
\* deterministicK: after `badrs' numbers that were no use, the next that is in range
RECURSIVE NextK(_, _, _)
NextK(k, v, badrs) ==
  LET n == FromBigEndian(v)
      k2 == HmacK(v \o <<0>>, k)
      v2 == HmacK(v, k2)
  IN  IF badrs <= 0 /\ n < ORDER /\ n > 0 THEN n ELSE NextK(k2, HmacK(v2, k2), badrs - 1)
DeterministicK(d, hash, endian, badrs) ==
  LET seed == BigEndian(d, KEY_SIZE) \o (IF endian = "little" THEN Reverse(hash) ELSE hash)
      v1 == [i \in 1 .. KEY_SIZE |-> 1]
      k1 == HmacK(v1 \o <<0>> \o seed, [i \in 1 .. KEY_SIZE |-> 0])
      v2 == HmacK(v1, k1)
      k2 == HmacK(v2 \o <<1>> \o seed, k1)
  IN  NextK(k2, HmacK(HmacK(v2, k2), k2), badrs)

\* (fault) the high s is kept
ToLowSKept(s) == s
ToLowS(s) == IF s > HalfOrder THEN ORDER - s ELSE s

\* _findSignature: with the k that is there, then with the ones that are computed
RECURSIVE FindSignature(_, _, _, _, _)
FindSignature(d, hash, endian, k, badrs) ==
  LET e == HashNumber(hash, endian)
      OrNext(r, s) ==
        IF r = 0 \/ s = 0
          THEN FindSignature(d, hash, endian, DeterministicK(d, hash, endian, badrs + 1), badrs + 1)
        ELSE [r |-> r, s |-> ToLowS(s)]
      WithR(r) == OrNext(r, InverseN(k) * ((e + d * r) % ORDER) % ORDER)
  IN  WithR(TimesG(k)[1] % ORDER)
\* sign and signRandomK: k is 0 where none was chosen
Sign(d, hash, endian, k) ==
  FindSignature(d, hash, endian, IF k = 0 THEN DeterministicK(d, hash, endian, 0) ELSE k, 0)

\* sigError
VerifySignature(hash, sig, point, endian) ==
  LET inverse == InverseN(sig.s)
      u1 == inverse * (HashNumber(hash, endian) % ORDER) % ORDER
      IsR(p) == p # Infinity /\ p[1] % ORDER = sig.r
  IN  /\ sig.r > 0 /\ sig.r < ORDER /\ sig.s > 0 /\ sig.s < ORDER
      /\ IsR(AddPoints(TimesG(u1), Multiply(point, inverse * sig.r % ORDER)))

\* toPublicKey: the point of the key, Infinity where it throws.  The hash is read as
\* it is, whatever its order of bytes was for signing.
RecoveredPoint(hash, sig, i) ==
  LET e == FromBigEndian(hash) % ORDER
      From(R) == IF R = Infinity \/ sig.r % ORDER = 0 THEN Infinity
                 ELSE Multiply(AddPoints(Multiply(R, sig.s % ORDER), TimesG(ORDER - e)), InverseN(sig.r))
  IN  From(FromX(i % 2 = 1, IF i >= 2 THEN sig.r + ORDER ELSE sig.r))

\* (fault) the second two keys are never tried
CalcIFirstTwo(hash, sig, point) ==
  LET First(found) == IF found = {} THEN -1 ELSE CHOOSE i \in found : \A j \in found : i <= j
  IN  First({i \in 0 .. 1 : RecoveredPoint(hash, sig, i) = point})
\* calci: the first that recovers the key, -1 where it throws
CalcI(hash, sig, point) ==
  LET First(found) == IF found = {} THEN -1 ELSE CHOOSE i \in found : \A j \in found : i <= j
  IN  First({i \in 0 .. 3 : RecoveredPoint(hash, sig, i) = point})

-----------------------------------------------------------------------------
(* Signer and Message *)

\* signHash: what a compact signature is made of; the key's k is random.
SignHash(hash, key, k) ==
  LET Recoverable(sig, i) ==
        IF i = -1 THEN <<Thrown>>
        ELSE Compact([r |-> sig.r, s |-> sig.s, i |-> i, compressed |-> key.compressed])
      Of(sig) == Recoverable(sig, CalcI(hash, sig, TimesG(key.bn)))
  IN  Of(Sign(key.bn, hash, "big", k))

\* The key that a compact signature gives
RecoveredKey(hash, sig) ==
  LET Of(point) == IF point = Infinity THEN ThrownKey ELSE NewPublicKey(point, sig.compressed, livenet)
  IN  Of(RecoveredPoint(hash, sig, sig.i))

\* verifyHashSignature and verifySignature: "throws" where one is no signature at all
VerifyHashSignature(hash, compact, publicKeyId) ==
  LET sig == FromCompact(compact)
      By(public) == IF public = ThrownKey THEN "throws"
                    ELSE IF Hash160(ToDER(public)) = publicKeyId THEN "valid" ELSE "invalid"
  IN  IF sig = ThrownSignature THEN "throws" ELSE By(RecoveredKey(hash, sig))
VerifyDataSignature(hash, compact, point) ==
  LET sig == FromCompact(compact)
  IN  IF sig = ThrownSignature THEN "throws"
      ELSE IF VerifySignature(hash, sig, point, "big") THEN "valid" ELSE "invalid"

MagicHash(message) ==
  Digest(VarintBytes(Len(MAGIC_BYTES)) \o MAGIC_BYTES \o VarintBytes(Len(message)) \o message, KEY_SIZE)
SignMessage(message, key, k) == SignHash(MagicHash(message), key, k)
VerifyMessage(message, address, compact) ==
  LET sig == FromCompact(compact)
      hash == MagicHash(message)
      By(public) ==
        IF public = ThrownKey THEN "throws"
        ELSE IF /\ AddressToString(AddressFromPublicKey(public, address.network)) = AddressToString(address)
                /\ VerifySignature(hash, sig, public.point, "big")
          THEN "valid"
        ELSE "invalid"
  IN  IF sig = ThrownSignature THEN "throws" ELSE By(RecoveredKey(hash, sig))

-----------------------------------------------------------------------------
(* TransactionSignature *)

\* toObject and _fromObject: of the signature itself, only r and s
TxSignatureToObject(txsig) ==
  [txsig EXCEPT !.publicKey = ToDER(@), !.signature = SignatureToDER(@)]
TxSignatureFromObject(obj) ==
  LET With(public, sig) ==
        IF public = ThrownKey \/ sig = ThrownSignature \/ obj.sigtype = 0 THEN ThrownSignature
        ELSE [obj EXCEPT !.publicKey = public, !.signature = sig]
  IN  With(FromDER(obj.publicKey, TRUE, NoNetwork), ParseDER(obj.signature, TRUE))
=============================================================================

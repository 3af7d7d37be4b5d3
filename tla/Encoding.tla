------------------------------ MODULE Encoding ------------------------------
(***************************************************************************)
(* lib/encoding/bufferwriter.js, bufferreader.js and varint.js, and the    *)
(* services of lib/util/ip.js.  A byte has BYTE values, 8 in the instances *)
(* instead of 256, so that every width of an integer fits TLC's, and       *)
(* hashes, keys and signatures are as much shorter.  A hexadecimal string  *)
(* is the sequence of its bytes.                                           *)
(*                                                                         *)
(* A writer is the sequence of bytes written, with the element Thrown in   *)
(* it when a call throws.  A reader is a record: buf, the position at, 0   *)
(* when a call has thrown, and the fields o read so far.                   *)
(***************************************************************************)
EXTENDS Integers, FiniteSets, TLC, SequencesExt

CONSTANTS BYTE, SHA256_HASH_SIZE, PUBKEY_ID_SIZE, BLS_PUBLIC_KEY_SIZE, BLS_SIGNATURE_SIZE,
          PLATFORM_NODE_ID_SIZE, IPV4_SIZE

Thrown == -1
Throws(bytes) == Contains(bytes, Thrown)

\* The types of fields: an integer of n bytes, n bytes as they are or reversed, a
\* compact size, bytes behind their compact size with and without a check that
\* they are all there, an address with a port
UInt(n) == <<"uint", n>>
SInt(n) == <<"int", n>>
Raw(n) == <<"raw", n>>
Reversed(n) == <<"reversed", n>>
Varint == <<"varint">>
VarBytes == <<"varbytes">>
Sized == <<"sized">>
Service == <<"service">>

-----------------------------------------------------------------------------
(* Writing *)

\* writeUInt8, writeUInt16LE, writeUInt32LE and writeUInt64LEBN
LittleEndian(number, n) ==
  IF number \in 0 .. BYTE^n - 1
    THEN [i \in 1..n |-> (number \div BYTE^(i - 1)) % BYTE]
    ELSE <<Thrown>>

\* writeInt16LE and writeInt32LE
Signed(number, n) ==
  LET half == BYTE^n \div 2
  IN  IF number \in - half .. half - 1
        THEN LittleEndian(IF number < 0 THEN number + BYTE^n ELSE number, n)
        ELSE <<Thrown>>

\* (fault) the first number that needs two bytes is written in one
VarintBytesOneTooMany(number) ==
  IF number <= BYTE - 3 THEN LittleEndian(number, 1)
  ELSE IF number < BYTE^2 THEN <<BYTE - 3>> \o LittleEndian(number, 2)
  ELSE IF number < BYTE^4 THEN <<BYTE - 2>> \o LittleEndian(number, 4)
  ELSE <<BYTE - 1>> \o LittleEndian(number, 8)

\* BufferWriter.varintBufNum and varintBufBN
VarintBytes(number) ==
  IF number < BYTE - 3 THEN LittleEndian(number, 1)
  ELSE IF number < BYTE^2 THEN <<BYTE - 3>> \o LittleEndian(number, 2)
  ELSE IF number < BYTE^4 THEN <<BYTE - 2>> \o LittleEndian(number, 4)
  ELSE <<BYTE - 1>> \o LittleEndian(number, 8)

\* ipAndPortToBuffer: the prefix of a mapped address is twelve bytes in the code.
\* Each of the ways to write no address is ZeroService.
ZeroService == [ip |-> [i \in 1 .. IPV4_SIZE |-> 0], port |-> 0]
Prefix == <<0, BYTE - 1>>
ServiceBytes(service) ==
  IF service = ZeroService THEN <<0, 0>> \o service.ip \o <<0, 0>>
  ELSE Prefix \o service.ip \o Reverse(LittleEndian(service.port, 2))

Encode(type, value) ==
  CASE type[1] = "uint" -> LittleEndian(value, type[2])
    [] type[1] = "int" -> Signed(value, type[2])
    [] type[1] = "raw" -> value
    [] type[1] = "reversed" -> Reverse(value)
    [] type[1] = "varint" -> VarintBytes(value)
    [] type[1] \in {"varbytes", "sized"} -> VarintBytes(Len(value)) \o value
    [] type[1] = "service" -> ServiceBytes(value)

\* The fields of an object, a sequence of <<name, type>>; an undefined field throws.
Put(o, fields) ==
  FlattenSeq([i \in DOMAIN fields |->
                IF fields[i][1] \in DOMAIN o THEN Encode(fields[i][2], o[fields[i][1]])
                ELSE <<Thrown>>])

\* The number of items, and the items
Counted(items) == VarintBytes(Len(items)) \o FlattenSeq(items)
PutAll(items, Write(_)) == Counted([i \in DOMAIN items |-> Write(items[i])])

-----------------------------------------------------------------------------
(* Reading *)

Reader(buf, at) == [buf |-> buf, at |-> at, o |-> [name \in {} |-> 0]]
Open(buf) == Reader(buf, 1)
Finished(r) == r.at > Len(r.buf)
Stop(r) == [r EXCEPT !.at = 0]
Read(value, at) == [value |-> value, at |-> at]
Failed == Read(0, 0)

Number(bytes) == FoldRight(LAMBDA b, acc : b + BYTE * acc, bytes, 0)

\* readUInt8 to readUInt64LEBN: a number must be there with all its bytes.
ReadNumber(buf, at, n) ==
  IF at + n - 1 > Len(buf) THEN Failed
  ELSE Read(Number(SubSeq(buf, at, at + n - 1)), at + n)

\* read: at the end of the buffer there may be fewer bytes.
ReadBytes(buf, at, n) ==
  Read(SubSeq(buf, at, IF at + n - 1 < Len(buf) THEN at + n - 1 ELSE Len(buf)), at + n)

\* readVarintNum
VarintAfter(buf, first) ==
  IF first = Failed \/ first.value < BYTE - 3 THEN first
  ELSE ReadNumber(buf, first.at, 2^(first.value - (BYTE - 4)))
ReadVarint(buf, at) == VarintAfter(buf, ReadNumber(buf, at, 1))

\* readVarLengthBuffer, or readVarintNum followed by read
BytesAfter(buf, length, checked) ==
  IF length = Failed \/ (checked /\ length.at + length.value - 1 > Len(buf)) THEN Failed
  ELSE ReadBytes(buf, length.at, length.value)
ReadVarBytes(buf, at, checked) == BytesAfter(buf, ReadVarint(buf, at), checked)

\* bufferToIPAndPort, of 18 bytes
ServiceAt(buf, ip, port) ==
  IF port + 1 > Len(buf) THEN Failed
  ELSE Read([ip |-> SubSeq(buf, ip, port - 1), port |-> Number(Reverse(SubSeq(buf, port, port + 1)))], port + 2)
ReadService(buf, at) == ServiceAt(buf, at + Len(Prefix), at + Len(Prefix) + IPV4_SIZE)

\* readInt16LE and readInt32LE
SignRead(read, n) ==
  IF read = Failed \/ read.value < BYTE^n \div 2 THEN read ELSE [read EXCEPT !.value = @ - BYTE^n]

Decode(type, buf, at) ==
  CASE type[1] = "uint" -> ReadNumber(buf, at, type[2])
    [] type[1] = "int" -> SignRead(ReadNumber(buf, at, type[2]), type[2])
    [] type[1] = "raw" -> ReadBytes(buf, at, type[2])
    [] type[1] = "reversed" -> [ReadBytes(buf, at, type[2]) EXCEPT !.value = Reverse(@)]
    [] type[1] = "varint" -> ReadVarint(buf, at)
    [] type[1] \in {"varbytes", "sized"} -> ReadVarBytes(buf, at, type = VarBytes)
    [] type[1] = "service" -> ReadService(buf, at)

\* Reading fields one after the other
AddField(r, name, read) ==
  IF read.at = 0 THEN Stop(r) ELSE [r EXCEPT !.at = read.at, !.o = (name :> read.value) @@ @]
TakeField(r, field) == IF r.at = 0 THEN r ELSE AddField(r, field[1], Decode(field[2], r.buf, r.at))
Take(r, fields) == FoldLeft(TakeField, r, fields)
\* ... where what was read so far asks for them, or says what they are, or where the
\* buffer goes on
TakeWhen(Asked(_), r, fields) == IF r.at = 0 THEN r ELSE IF Asked(r.o) THEN Take(r, fields) ELSE r
TakeThose(r, Fields(_)) == IF r.at = 0 THEN r ELSE Take(r, Fields(r.o))
TakeMore(r, fields) == IF r.at = 0 \/ Finished(r) THEN r ELSE Take(r, fields)
\* What was read is edited, or must satisfy a condition.
Edited(r, Edit(_)) == IF r.at = 0 THEN r ELSE [r EXCEPT !.o = Edit(@)]
Accepted(r, Valid(_)) == IF r.at = 0 THEN r ELSE IF Valid(r.o) THEN r ELSE Stop(r)

\* A part, or n items, each read by ReadItem from a new reader
JoinPart(r, name, part) == IF part.at = 0 THEN Stop(r) ELSE [r EXCEPT !.at = part.at, !.o = (name :> part.o) @@ @]
TakePart(r, name, ReadPart(_)) == IF r.at = 0 THEN r ELSE JoinPart(r, name, ReadPart(Reader(r.buf, r.at)))
TakeAll(r, name, n, ReadItem(_)) ==
  LET one(acc, item) ==
        IF item.at = 0 THEN Stop(acc) ELSE [acc EXCEPT !.at = item.at, !.o = Append(@, item.o)]
      step(acc, i) == IF acc.at = 0 THEN acc ELSE one(acc, ReadItem(Reader(acc.buf, acc.at)))
  IN  JoinPart(r, name, FoldLeft(step, [r EXCEPT !.o = <<>>], [i \in 1..n |-> i]))
\* A compact size, and as many items
TakeItems(r, name, ReadItem(_)) ==
  LET items(size) ==
        IF size = Failed THEN Stop(r)
        ELSE TakeAll([r EXCEPT !.at = size.at], name, size.value, ReadItem)
  IN  IF r.at = 0 THEN r ELSE items(ReadVarint(r.buf, r.at))

\* A parser that refuses what is left over
Whole(r) == IF Finished(r) THEN r ELSE Stop(r)

\* The fields of an object under a set of names, those that are there
Pick(o, names) == [name \in DOMAIN o \cap names |-> o[name]]
Without(o, names) == [name \in DOMAIN o \ names |-> o[name]]
=============================================================================

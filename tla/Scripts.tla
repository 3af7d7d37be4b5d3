------------------------------ MODULE Scripts ------------------------------
(***************************************************************************)
(* lib/script/script.js without the interpreter: a script is the sequence  *)
(* of its chunks.  A chunk is a record [op], or [op, buf, len] when it     *)
(* pushes data; len is what the script says and buf what was there.        *)
(* Buffers are sequences of bytes.  Digests, public keys and signatures    *)
(* are buffers too, shorter than the real ones.                            *)
(***************************************************************************)
EXTENDS Opcodes, Sequences, SequencesExt

CONSTANTS
  HASH160_SIZE,        \* 20 in the code
  COMPRESSED_SIZE,     \* 33: a public key whose first byte is 2 or 3
  UNCOMPRESSED_SIZE,   \* 65: one whose first byte is 4, 6 or 7
  OP_RETURN_STANDARD_SIZE,   \* 80
  Digest(_, _),        \* the digest of a buffer by a hash function's name
  IsTxDER(_),          \* Signature.isTxDER(buffer)
  IsPublicKey(_)       \* PublicKey.isValid(buffer)

Byte == 0 .. 255
Chunk == [op : Byte] \cup [op : Byte, buf : Seq(Byte), len : Nat]
HasBuf(chunk) == "buf" \in DOMAIN chunk
Op(num) == [op |-> num]
Pushes(num, buf) == [op |-> num, buf |-> buf, len |-> Len(buf)]
IsPushData(num) == num \in {Opcode.OP_PUSHDATA1, Opcode.OP_PUSHDATA2, Opcode.OP_PUSHDATA4}

-----------------------------------------------------------------------------
(* Bytes *)

\* How many bytes of a chunk hold the length of its data
LengthBytes(num) ==
  CASE num = Opcode.OP_PUSHDATA1 -> 1
    [] num = Opcode.OP_PUSHDATA2 -> 2
    [] num = Opcode.OP_PUSHDATA4 -> 4
    [] OTHER -> 0

\* A number in n bytes, least significant first
LittleEndian(number, n) == [i \in 1..n |-> (number \div 256^(i - 1)) % 256]

\* (fault) the length of the data is read most significant byte first
ReadLengthBackwards(buffer, p, n) ==
  LET byte(i) == IF i <= n THEN buffer[p + n + 1 - i] ELSE 0
  IN  byte(1) + 256 * (byte(2) + 256 * (byte(3) + 256 * byte(4)))

\* The number in the n bytes behind p: readUInt8, readUInt16LE or readUInt32LE
ReadLength(buffer, p, n) ==
  LET byte(i) == IF i <= n THEN buffer[p + i] ELSE 0
  IN  byte(1) + 256 * (byte(2) + 256 * (byte(3) + 256 * byte(4)))

\* The chunk that starts at place p of a buffer, and where the next one starts;
\* next = 0 when the buffer ends within a length.  Data cut off by the end of the
\* buffer is kept as it is.
ReadChunk(buffer, p) ==
  LET num == buffer[p]
      n == LengthBytes(num)
      len == IF n = 0 THEN num ELSE ReadLength(buffer, p, n)
      end == p + n + len
  IN  IF p + n > Len(buffer) THEN [chunk |-> Op(num), next |-> 0]
      ELSE IF num \notin 1 .. Opcode.OP_PUSHDATA4 THEN [chunk |-> Op(num), next |-> p + 1]
      ELSE [chunk |-> [op |-> num, len |-> len,
                       buf |-> SubSeq(buffer, p + n + 1,
                                      IF end < Len(buffer) THEN end ELSE Len(buffer))],
            next |-> end + 1]

\* Script.fromBuffer
FromBuffer(buffer) ==
  LET from[p \in Nat \ {0}] ==
        IF p > Len(buffer) THEN [ok |-> TRUE, chunks |-> <<>>]
        ELSE LET read == ReadChunk(buffer, p)
                 rest == from[read.next]
             IN  IF read.next = 0 THEN [ok |-> FALSE, chunks |-> <<>>]
                 ELSE [ok |-> rest.ok, chunks |-> Cons(read.chunk, rest.chunks)]
  IN  from[1]

ChunkToBuffer(chunk) ==
  <<chunk.op>> \o
  (IF HasBuf(chunk) /\ chunk.op <= Opcode.OP_PUSHDATA4
     THEN LittleEndian(chunk.len, LengthBytes(chunk.op)) \o chunk.buf
     ELSE <<>>)

\* Script.prototype.toBuffer
ToBuffer(chunks) == FlattenSeq([i \in DOMAIN chunks |-> ChunkToBuffer(chunks[i])])

-----------------------------------------------------------------------------
(* Words: the text of a script is the sequence of its words. A word is the *)
(* name of an opcode, a decimal number, or hexadecimal digits with or      *)
(* without the prefix 0x.                                                  *)

Name(num) == [is |-> "name", op |-> num]
Decimal(n) == [is |-> "decimal", n |-> n]
Hex(buf, prefix) == [is |-> IF prefix THEN "0x" ELSE "hex", buf |-> buf]

ChunkToWords(chunk, asm) ==
  IF ~HasBuf(chunk)
    THEN IF HasName(chunk.op) THEN <<Name(chunk.op)>> ELSE <<Hex(<<chunk.op>>, ~asm)>>
    ELSE (IF IsPushData(chunk.op) THEN <<Name(chunk.op)>> ELSE <<>>)
         \o (IF chunk.len = 0 THEN <<>>
             ELSE IF asm THEN <<Hex(chunk.buf, FALSE)>>
             ELSE <<Decimal(chunk.len), Hex(chunk.buf, TRUE)>>)

\* Script.prototype.toString and toASM
ToWords(chunks, asm) ==
  FlattenSeq([i \in DOMAIN chunks |-> ChunkToWords(chunks[i], asm)])

\* The chunk that starts at word i of a text, and where the next one starts;
\* next = 0 when the code
\* throws or makes a chunk of the wrong words.
WordsToChunk(words, i, asm) ==
  LET word == words[i]
      data(j) == j <= Len(words) /\ words[j].is \in {"0x", "hex"}
      invalid == [chunk |-> Op(0), next |-> 0]
  IN  CASE word.is = "name" /\ IsPushData(word.op) ->
             IF data(i + 2) /\ words[i + 1].is = "decimal" /\ (asm \/ words[i + 2].is = "0x")
               THEN [chunk |-> [op |-> word.op, len |-> words[i + 1].n, buf |-> words[i + 2].buf],
                     next |-> i + 3]
               ELSE invalid
        [] word.is = "name" /\ ~IsPushData(word.op) -> [chunk |-> Op(word.op), next |-> i + 1]
        [] word.is = "decimal" /\ ~asm ->
             IF word.n \in 1 .. Opcode.OP_PUSHDATA1 - 1 /\ data(i + 1)
               THEN [chunk |-> [op |-> word.n, len |-> word.n, buf |-> words[i + 1].buf],
                     next |-> i + 2]
               ELSE invalid
        [] word.is = "hex" /\ asm ->
             [chunk |-> Pushes(Len(word.buf), word.buf), next |-> i + 1]
        [] OTHER -> invalid

\* Script.fromString and fromASM
FromWords(words, asm) ==
  LET from[i \in Nat] ==
        IF i > Len(words) THEN [ok |-> TRUE, chunks |-> <<>>]
        ELSE LET read == WordsToChunk(words, i, asm)
             IN  IF read.next = 0 THEN [ok |-> FALSE, chunks |-> <<>>]
                 ELSE LET rest == from[read.next]
                      IN  [ok |-> rest.ok, chunks |-> Cons(read.chunk, rest.chunks)]
  IN  from[1]

-----------------------------------------------------------------------------
(* Building *)

\* Script.prototype._addBuffer
PushChunk(buf) ==
  Pushes(IF Len(buf) < Opcode.OP_PUSHDATA1 THEN Len(buf)
         ELSE IF Len(buf) < 256 THEN Opcode.OP_PUSHDATA1
         ELSE Opcode.OP_PUSHDATA2, buf)

PublicKeyHashOut(hash) ==
  <<Op(Opcode.OP_DUP), Op(Opcode.OP_HASH160), PushChunk(hash), Op(Opcode.OP_EQUALVERIFY),
    Op(Opcode.OP_CHECKSIG)>>
PublicKeyOut(key) == <<PushChunk(key), Op(Opcode.OP_CHECKSIG)>>
DataOut(data) == <<Op(Opcode.OP_RETURN), PushChunk(data)>>
ScriptHashOut(hash) == <<Op(Opcode.OP_HASH160), PushChunk(hash), Op(Opcode.OP_EQUAL)>>

\* The order of buildMultisigOut: that of the keys' digits
Before(a, b) ==
  \/ Len(a) < Len(b) /\ IsPrefix(a, b)
  \/ \E i \in DOMAIN a \cap DOMAIN b :
       a[i] < b[i] /\ \A j \in 1 .. i - 1 : a[j] = b[j]

\* Script.buildMultisigOut, for threshold <= Len(keys)
MultisigOut(keys, threshold, noSorting) ==
  LET order == IF noSorting THEN keys ELSE SortSeq(keys, Before)
  IN  <<Op(SmallInt(threshold))>> \o [i \in DOMAIN order |-> PushChunk(order[i])]
      \o <<Op(SmallInt(Len(keys))), Op(Opcode.OP_CHECKMULTISIG)>>

MultisigIn(signatures) == <<Op(Opcode.OP_0)>> \o [i \in DOMAIN signatures |-> PushChunk(signatures[i])]
P2SHMultisigIn(keys, threshold, signatures, noSorting) ==
  Append(MultisigIn(signatures), PushChunk(ToBuffer(MultisigOut(keys, threshold, noSorting))))
PublicKeyIn(signature) == <<PushChunk(signature)>>
PublicKeyHashIn(key, signature) == <<PushChunk(signature), PushChunk(key)>>

-----------------------------------------------------------------------------
(* Classification *)

IsKey(buf) ==
  /\ buf # <<>>
  /\ \/ buf[1] \in {4, 6, 7} /\ Len(buf) = UNCOMPRESSED_SIZE
     \/ buf[1] \in {2, 3} /\ Len(buf) = COMPRESSED_SIZE
StartsLikeSignature(chunk) == HasBuf(chunk) /\ chunk.buf # <<>> /\ chunk.buf[1] = 48

IsPublicKeyHashOut(s) ==
  /\ Len(s) = 5
  /\ s[1].op = Opcode.OP_DUP
  /\ s[2].op = Opcode.OP_HASH160
  /\ HasBuf(s[3]) /\ Len(s[3].buf) = HASH160_SIZE
  /\ s[4].op = Opcode.OP_EQUALVERIFY
  /\ s[5].op = Opcode.OP_CHECKSIG
IsPublicKeyHashIn(s) ==
  Len(s) = 2 /\ StartsLikeSignature(s[1]) /\ HasBuf(s[2]) /\ IsKey(s[2].buf)
IsPublicKeyOut(s) ==
  /\ Len(s) = 2
  /\ HasBuf(s[1]) /\ IsKey(s[1].buf) /\ IsPublicKey(s[1].buf)
  /\ s[2].op = Opcode.OP_CHECKSIG
IsPublicKeyIn(s) == Len(s) = 1 /\ StartsLikeSignature(s[1])

\* Judged by the bytes of the script
IsScriptHashOut(s) ==
  LET buf == ToBuffer(s)
  IN  /\ Len(buf) = HASH160_SIZE + 3
      /\ buf[1] = Opcode.OP_HASH160 /\ buf[2] = HASH160_SIZE
      /\ Last(buf) = Opcode.OP_EQUAL

IsMultisigOut(s) ==
  /\ Len(s) > 3
  /\ IsSmallIntOp(s[1].op)
  /\ \A i \in 2 .. Len(s) - 2 : HasBuf(s[i])
  /\ IsSmallIntOp(s[Len(s) - 1].op)
  /\ Last(s).op = Opcode.OP_CHECKMULTISIG
IsMultisigIn(s) ==
  /\ Len(s) >= 2
  /\ s[1].op = Opcode.OP_0
  /\ \A i \in 2 .. Len(s) : HasBuf(s[i]) /\ IsTxDER(s[i].buf)
IsDataOut(s) ==
  /\ Len(s) \in {1, 2}
  /\ s[1].op = Opcode.OP_RETURN
  /\ Len(s) = 2 => HasBuf(s[2]) /\ Len(s[2].buf) <= OP_RETURN_STANDARD_SIZE
IsPushOnly(s) == \A i \in DOMAIN s : s[i].op <= Opcode.OP_16

-----------------------------------------------------------------------------
(* Helpers of the interpreter *)

\* Script.prototype.findAndDelete.  The index moves on after a deletion, so
\* the chunk behind a deleted one is kept.
FindAndDelete(s, script) ==
  LET buf == ToBuffer(script)
      from[i \in Nat] ==
        IF i > Len(s) THEN <<>>
        ELSE IF ChunkToBuffer(s[i]) # buf THEN Cons(s[i], from[i + 1])
        ELSE (IF i < Len(s) THEN <<s[i + 1]>> ELSE <<>>) \o from[i + 2]
  IN  from[1]

\* (fault) the numbers 1 to 16 may be pushed as data
CheckMinimalPushAnyNumber(chunk) ==
  \/ ~HasBuf(chunk)
  \/ chunk.op = (IF Len(chunk.buf) < Opcode.OP_PUSHDATA1 THEN Len(chunk.buf)
                 ELSE Opcode.OP_PUSHDATA1)

\* Script.prototype.checkMinimalPush
CheckMinimalPush(chunk) ==
  HasBuf(chunk) /\ Len(chunk.buf) <= 65535 =>
    LET buf == chunk.buf
    IN  chunk.op = (IF buf = <<>> THEN Opcode.OP_0
                    ELSE IF Len(buf) = 1 /\ buf[1] \in 1..16 THEN Opcode.OP_1 + (buf[1] - 1)
                    ELSE IF buf = <<129>> THEN Opcode.OP_1NEGATE
                    ELSE IF Len(buf) <= 75 THEN Len(buf)
                    ELSE IF Len(buf) <= 255 THEN Opcode.OP_PUSHDATA1
                    ELSE Opcode.OP_PUSHDATA2)
=============================================================================

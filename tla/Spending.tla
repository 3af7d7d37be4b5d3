------------------------------ MODULE Spending ------------------------------
(***************************************************************************)
(* What is promised of an output that a call of verify() lets an input     *)
(* spend, said of heights, ages, addresses and scripts and not of the      *)
(* fields that the interpreter compares.                                   *)
(***************************************************************************)
EXTENDS Interpreter, ScriptClasses

\* Some choice of keys, in the order of the script, matches the signatures.
InOrder(sigs, keys, script) ==
  \E f \in [DOMAIN sigs -> DOMAIN keys] :
    /\ \A i, j \in DOMAIN sigs : i < j => f[i] < f[j]
    /\ \A i \in DOMAIN sigs : Signs(sigs[i], keys[f[i]], script)

-----------------------------------------------------------------------------
(* What a script leaves when it runs alone *)

\* The buffer that a chunk of a push only script pushes
Pushed(chunk) ==
  IF chunk.op > Opcode.OP_PUSHDATA4 THEN ToScriptNum(chunk.op - (Opcode.OP_1 - 1))
  ELSE IF HasBuf(chunk) THEN chunk.buf ELSE <<>>
StackOf(script) == [i \in DOMAIN script |-> Pushed(script[i])]
Truth(buf) == FromScriptNum(buf) # 0

\* The machine behind the last chunk, or as it failed
EvaluateOn(script, stack, args) ==
  LET begin == [Initialized EXCEPT !.script = script, !.stack = stack, !.tx = args.tx,
                                   !.flags = args.flags]
      run[k \in 0 .. Len(script)] ==
        IF k = 0 THEN begin
        ELSE LET m == run[k - 1] IN IF m.errstr = "" THEN Step(m) ELSE m
  IN  run[Len(script)]

\* A pay to script hash output, whose class only looks at three of its bytes, as it
\* is read from them
ThreeChunks(s) ==
  /\ Len(s) = 3 /\ s[1].op = Opcode.OP_HASH160 /\ s[3].op = Opcode.OP_EQUAL
  /\ HasBuf(s[2]) /\ s[2].op <= Opcode.OP_PUSHDATA4
ScriptHashesAreRead ==
  \A i \in DOMAIN Calls : \A args \in Calls[i] :
    IsScriptHashOut(args.scriptPubkey) => ThreeChunks(args.scriptPubkey)

\* A pay to script hash output is spent only with the script that its hash names,
\* and only if that script accepts what the input pushed before it (stackCopy).
RedeemScriptAccepts ==
  LET args == call.args
      redeem == Pushed(Last(args.scriptSig))
      end == EvaluateOn(FromBuffer(redeem).chunks, StackOf(Front(args.scriptSig)), args)
  IN  phase = "true" /\ calls = 1 /\ "P2SH" \in args.flags /\ IsScriptHashOut(args.scriptPubkey)
        => /\ IsPushOnly(args.scriptSig)
           /\ Digest("hash160", redeem) = args.scriptPubkey[2].buf
           /\ end.errstr = "" /\ end.vfExec = <<>> /\ end.stack # <<>> /\ Truth(Last(end.stack))

-----------------------------------------------------------------------------
(* Addresses *)

\* Only a chunk whose opcode pushes data has some, as it is read or added.
PushesAreRead ==
  \A i \in DOMAIN Calls : \A args \in Calls[i] : \A s \in {args.scriptSig, args.scriptPubkey} :
    \A j \in DOMAIN s : HasBuf(s[j]) => s[j].op <= Opcode.OP_PUSHDATA4

\* The address that an input's script gives is the one of the output it spends
\* (getAddressInfo of an input and of an output).
SpendsItsAddress ==
  phase = "true" /\ calls = 1 /\ "P2SH" \in call.args.flags =>
    \A from \in {AddressInfo(call.args.scriptSig, "input")} \ {NoAddress},
       to \in {AddressInfo(call.args.scriptPubkey, "output")} \ {NoAddress} :
      from.hash = to.hash

-----------------------------------------------------------------------------
(* Locks *)

\* A transaction may enter a block of a height at a time: IsFinalTx with one input
FinalAt(tx, height, time) ==
  \/ tx.nLockTime < (IF tx.nLockTime < LOCKTIME_THRESHOLD THEN height ELSE time)
  \/ tx.sequence = MAX_SEQUENCE

\* The age that a number of BIP 68 asks for is reached: blocks or, with the type
\* flag, units of 512 seconds
Reached(n, blocks, seconds) ==
  n % (SEQUENCE_LOCKTIME_MASK + 1)
    <= (IF HasFlag(n, SEQUENCE_LOCKTIME_TYPE_FLAG) THEN seconds ELSE blocks)

\* Its input may be spent when the output has an age: BIP 68
MatureAt(tx, blocks, seconds) ==
  \/ tx.version < 2
  \/ HasFlag(tx.sequence, SEQUENCE_LOCKTIME_DISABLE_FLAG)
  \/ Reached(tx.sequence, blocks, seconds)

\* An output's script of the form <n> <lock>, and the number it compares
LockedWith(args, num) ==
  /\ Len(args.scriptPubkey) = 2
  /\ args.scriptPubkey[1].op <= Opcode.OP_16 /\ args.scriptPubkey[2].op = num
LockNumber(args) == FromScriptNum(Pushed(args.scriptPubkey[1]))

\* No block below the height or before the time holds the transaction.
HeldUntil(args, height, time) ==
  LET n == LockNumber(args)
  IN  /\ LockedWith(args, Opcode.OP_CHECKLOCKTIMEVERIFY) /\ "CHECKLOCKTIMEVERIFY" \in args.flags
      /\ FinalAt(args.tx, height, time)
      => n < (IF n < LOCKTIME_THRESHOLD THEN height ELSE time)

\* No block holds it while the output is younger.
HeldForAge(args, blocks, seconds) ==
  LET n == LockNumber(args)
  IN  /\ LockedWith(args, Opcode.OP_CHECKSEQUENCEVERIFY)
      /\ "CHECKSEQUENCEVERIFY" \in args.flags
      /\ ~HasFlag(n, SEQUENCE_LOCKTIME_DISABLE_FLAG)
      /\ MatureAt(args.tx, blocks, seconds)
      => Reached(n, blocks, seconds)

LocksHoldAt(heights, times, ages) ==
  phase = "true" /\ calls = 1 =>
    /\ \A height \in heights, time \in times : HeldUntil(call.args, height, time)
    /\ \A blocks, seconds \in ages : HeldForAge(call.args, blocks, seconds)

Heights == 0 .. LOCKTIME_THRESHOLD
Times == LOCKTIME_THRESHOLD .. LOCKTIME_THRESHOLD + 4
Ages == 0 .. SEQUENCE_LOCKTIME_MASK

\* An output locked by OP_CHECKLOCKTIMEVERIFY is spent only by a transaction that
\* no block before that height or time can hold, and one locked by
\* OP_CHECKSEQUENCEVERIFY only by one that no block can hold before the output is
\* that old (checkLockTime, checkSequence).
LocksHold == LocksHoldAt(Heights, Times, Ages)

-----------------------------------------------------------------------------
(* Pushes *)

\* OP_0 and OP_1 to OP_16
SmallInts == {Opcode.OP_0} \cup Opcode.OP_1 .. Opcode.OP_16

\* The opcode, or the length behind it, says how long the data is.
Direct(num, buf) ==
  \/ num < Opcode.OP_PUSHDATA1 /\ num = Len(buf)
  \/ num = Opcode.OP_PUSHDATA1 /\ Len(buf) < 256
  \/ num = Opcode.OP_PUSHDATA2 /\ Len(buf) < 65536
  \/ num = Opcode.OP_PUSHDATA4

\* Every way to push a buffer
PushesOf(buf) ==
  LET named == {num \in SmallInts \cup {Opcode.OP_1NEGATE} : Pushed(Op(num)) = buf}
      direct == {num \in 1 .. Opcode.OP_PUSHDATA4 : Direct(num, buf)}
  IN  {Op(num) : num \in named} \cup {Pushes(num, buf) : num \in direct}

\* A push that is not cut off is minimal exactly when no other way to push its data
\* is shorter (checkMinimalPush).
MinimalIsShortest ==
  phase = "idle" \/ \A i \in DOMAIN call.args.scriptSig :
    LET chunk == call.args.scriptSig[i]
        size(c) == Len(ChunkToBuffer(c))
    IN  HasBuf(chunk) /\ chunk \in PushesOf(chunk.buf) =>
          (CheckMinimalPush(chunk) <=> \A c \in PushesOf(chunk.buf) : size(chunk) <= size(c))

-----------------------------------------------------------------------------
(* Encodings *)

Scripts2 == {call.args.scriptSig, call.args.scriptPubkey}

\* A chunk as it is read from a whole script: an opcode, or data of the length that
\* is said before it, which is below 2^32
Readable(chunk) ==
  IF HasBuf(chunk)
    THEN /\ chunk.op \in 1 .. Opcode.OP_PUSHDATA4 /\ Direct(chunk.op, chunk.buf)
         /\ chunk.len = Len(chunk.buf) /\ chunk.len \div 65536 < 65536
    ELSE chunk.op \notin 1 .. Opcode.OP_PUSHDATA4
\* It has a text: data that is there, or an opcode with a name
Nameable(chunk) == IF HasBuf(chunk) THEN chunk.buf # <<>> ELSE HasName(chunk.op)

\* A script survives its bytes, and its text unless it has an opcode without a
\* name: fromBuffer and toBuffer, fromString and toString undo each other.
ScriptRoundTrip ==
  phase = "idle" \/ \A s \in Scripts2 :
    (\A i \in DOMAIN s : Readable(s[i])) =>
      /\ FromBuffer(ToBuffer(s)) = [ok |-> TRUE, chunks |-> s]
      /\ (\A i \in DOMAIN s : Nameable(s[i])) =>
           FromWords(ToWords(s, FALSE), FALSE) = [ok |-> TRUE, chunks |-> s]

-----------------------------------------------------------------------------
(* Signatures *)

\* The keys and the signatures of a bare multisig output and of its input
MultisigKeys(s) == [i \in 1 .. Len(s) - 3 |-> s[i + 1].buf]
InputSignatures(s) == [i \in 1 .. Len(s) - 1 |-> s[i + 1].buf]

\* The number that the opcode of a chunk names
Named(chunk) == chunk.op - (Opcode.OP_1 - 1)

\* They are read from whole scripts, there are as many signatures as the output asks
\* for and as many keys as it says, and no key is one of the signatures.
SpendsMultisig(args) ==
  LET s == args.scriptSig
      o == args.scriptPubkey
  IN  /\ IsMultisigIn(s) /\ IsMultisigOut(o)
      /\ \A i \in DOMAIN s : Readable(s[i])
      /\ \A i \in DOMAIN o : Readable(o[i])
      /\ Len(s) - 1 = Named(o[1]) /\ Len(o) - 3 = Named(o[Len(o) - 1])
      /\ \A i \in DOMAIN InputSignatures(s), k \in DOMAIN MultisigKeys(o) :
           InputSignatures(s)[i] # MultisigKeys(o)[k]

\* What a script may be refused for, whatever it means: a limit, or the encoding of
\* a push, a signature or a key
Exceeded == {"SCRIPT_SIZE", "PUSH_SIZE", "OP_COUNT", "STACK_SIZE"}
Refusals ==
  Exceeded \cup {"PUBKEY_COUNT", "MINIMALDATA", "SIG_DER_INVALID_FORMAT", "SIG_DER_HIGH_S",
                 "SIG_HASHTYPE", "PUBKEYTYPE"}

\* A call that is not refused for a limit or an encoding accepts as many signatures
\* as the output asks for exactly when they are by different keys in the keys'
\* order (the loop over isig and ikey).
MultisigInOrder ==
  LET args == call.args
  IN  phase \in Ended /\ calls = 1 /\ SpendsMultisig(args) /\ interpreter.errstr \notin Refusals
        => (phase = "true" <=> InOrder(InputSignatures(args.scriptSig),
                                       MultisigKeys(args.scriptPubkey), args.scriptPubkey))
=============================================================================

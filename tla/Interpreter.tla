---------------------------- MODULE Interpreter ----------------------------
(***************************************************************************)
(* lib/script/interpreter.js: one Interpreter object and the calls of      *)
(* verify() made on it.  A call runs the script of an input, then the      *)
(* script of the output it spends on the stack that is left, and for P2SH  *)
(* the redeem script on the stack the input's script had left.             *)
(*                                                                         *)
(* The limits are constants, smaller in the instances than in the code.    *)
(* An operator marked (fault) is the one after it with a mistake in it.    *)
(***************************************************************************)
EXTENDS Scripts, ScriptNumbers

CONSTANTS
  Calls,        \* what verify may be called with: a sequence of sets of
                \* records [scriptSig, scriptPubkey, tx, flags]
  MaxCalls,     \* how often it is called on one object
  MAX_SCRIPT_ELEMENT_SIZE,    \* 520
  MAX_SCRIPT_SIZE,            \* 10000
  MAX_OPS,                    \* 201
  MAX_STACK,                  \* 1000
  MAX_KEYS,                   \* 20
  NUMBER_SIZE, LOCK_SIZE,     \* 4 and 5 bytes of a number
  LOCKTIME_THRESHOLD,         \* 500000000
  MAX_SEQUENCE,               \* 2^32 - 1: the input is final
  SEQUENCE_LOCKTIME_DISABLE_FLAG,   \* 2^31
  SEQUENCE_LOCKTIME_TYPE_FLAG,      \* 2^22
  SEQUENCE_LOCKTIME_MASK,           \* 2^16 - 1
  IsLowS(_), IsDefinedHashtype(_),  \* of a signature's buffer
  Signs(_, _, _)    \* tx.verifySignature of a signature, a key and the script
                    \* it covers; FALSE also where it throws

VARIABLES
  interpreter,   \* the fields of the Interpreter object
  phase,         \* "idle", the script that runs, or how verify() ended
  call,          \* the arguments of verify() and its local stackCopy
  calls          \* how often it has been called

vars == <<interpreter, phase, call, calls>>

TRUEBUF == <<1>>
FALSEBUF == <<>>
Flags == {"P2SH", "STRICTENC", "DERSIG", "LOW_S", "NULLDUMMY", "SIGPUSHONLY", "MINIMALDATA",
          "DISCOURAGE_UPGRADABLE_NOPS", "CHECKLOCKTIMEVERIFY", "CHECKSEQUENCEVERIFY"}

ASSUME LimitsAssumption ==
  {MaxCalls, MAX_OPS, MAX_KEYS, MAX_SCRIPT_ELEMENT_SIZE} \subseteq Nat /\ NUMBER_SIZE \in Nat \ {0}
ASSUME LocksAssumption ==
  /\ {LOCKTIME_THRESHOLD, SEQUENCE_LOCKTIME_TYPE_FLAG, SEQUENCE_LOCKTIME_MASK} \subseteq Nat
  /\ SEQUENCE_LOCKTIME_MASK < SEQUENCE_LOCKTIME_TYPE_FLAG
ASSUME CallsAssumption ==
  \A i \in DOMAIN Calls : \A args \in Calls[i] :
    /\ {args.scriptSig, args.scriptPubkey} \subseteq Seq(Chunk) /\ args.flags \subseteq Flags
    /\ {args.tx.nLockTime, args.tx.sequence} \subseteq Nat /\ args.tx.version \in Int

NoTx == [nLockTime |-> 0, version |-> 1, sequence |-> 0]

\* Interpreter.prototype.initialize
Initialized ==
  [script |-> <<>>, stack |-> <<>>, altstack |-> <<>>, pc |-> 0, pbegincodehash |-> 0,
   nOpCount |-> 0, vfExec |-> <<>>, errstr |-> "", flags |-> {},
   tx |-> NoTx]

\* (fault) negative zero is true
CastToBoolAnyByte(buf) == \E i \in DOMAIN buf : buf[i] # 0

\* Interpreter.castToBool
CastToBool(buf) ==
  \E i \in DOMAIN buf : buf[i] # 0 /\ ~(i = Len(buf) /\ buf[i] = 128)

ToBool(b) == IF b THEN TRUEBUF ELSE FALSEBUF

-----------------------------------------------------------------------------
(* The stack of a machine m: Top(m, i) is stack[stack.length - i]. *)

Fail(m, err) == [m EXCEPT !.errstr = err]
Throw(m) == Fail(m, "UNKNOWN_ERROR")
Has(m, n) == Len(m.stack) >= n
Top(m, i) == m.stack[Len(m.stack) + 1 - i]
Below(m, n) == SubSeq(m.stack, 1, Len(m.stack) - n)
Replace(m, n, bufs) == [m EXCEPT !.stack = Below(m, n) \o bufs]
Enabled(m, flag) == flag \in m.flags
Executing(m) == \A i \in DOMAIN m.vfExec : m.vfExec[i]

\* The buffers at the depths in depths are numbers the interpreter takes
Numbers(m, depths, size) ==
  \A i \in depths : /\ ~NumberOverflows(Top(m, i), size)
                    /\ Enabled(m, "MINIMALDATA") => IsMinimal(Top(m, i))
Number(m, i) == FromScriptNum(Top(m, i))

-----------------------------------------------------------------------------
(* Opcodes that only move the stack: how many elements one takes, and which *)
(* of them, counted from the deepest, it leaves.                            *)

MoveOps ==
  Opcode.OP_2DROP .. Opcode.OP_2SWAP \cup Opcode.OP_DROP .. Opcode.OP_OVER
  \cup Opcode.OP_ROT .. Opcode.OP_TUCK
Moves(num) ==
  CASE num = Opcode.OP_2DROP -> <<2, <<>>>>
    [] num = Opcode.OP_2DUP -> <<2, <<1, 2, 1, 2>>>>
    [] num = Opcode.OP_3DUP -> <<3, <<1, 2, 3, 1, 2, 3>>>>
    [] num = Opcode.OP_2OVER -> <<4, <<1, 2, 3, 4, 1, 2>>>>
    [] num = Opcode.OP_2ROT -> <<6, <<3, 4, 5, 6, 1, 2>>>>
    [] num = Opcode.OP_2SWAP -> <<4, <<3, 4, 1, 2>>>>
    [] num = Opcode.OP_DROP -> <<1, <<>>>>
    [] num = Opcode.OP_DUP -> <<1, <<1, 1>>>>
    [] num = Opcode.OP_NIP -> <<2, <<2>>>>
    [] num = Opcode.OP_OVER -> <<2, <<1, 2, 1>>>>
    [] num = Opcode.OP_ROT -> <<3, <<2, 3, 1>>>>
    [] num = Opcode.OP_SWAP -> <<2, <<2, 1>>>>
    [] num = Opcode.OP_TUCK -> <<2, <<2, 1, 2>>>>

Move(m, num) ==
  LET n == Moves(num)[1]
      to == Moves(num)[2]
      taken == SubSeq(m.stack, Len(m.stack) - n + 1, Len(m.stack))
  IN  IF ~Has(m, n) THEN Fail(m, "INVALID_STACK_OPERATION")
      ELSE Replace(m, n, [i \in DOMAIN to |-> taken[to[i]]])

ToAltStack(m) ==
  IF ~Has(m, 1) THEN Fail(m, "INVALID_STACK_OPERATION")
  ELSE [Replace(m, 1, <<>>) EXCEPT !.altstack = Append(@, Top(m, 1))]
FromAltStack(m) ==
  IF m.altstack = <<>> THEN Fail(m, "INVALID_ALTSTACK_OPERATION")
  ELSE [m EXCEPT !.stack = Append(@, Last(m.altstack)), !.altstack = Front(@)]
IfDup(m) ==
  IF ~Has(m, 1) THEN Fail(m, "INVALID_STACK_OPERATION")
  ELSE IF CastToBool(Top(m, 1)) THEN Replace(m, 0, <<Top(m, 1)>>) ELSE m
Depth(m) == Replace(m, 0, <<ToScriptNum(Len(m.stack))>>)
Size(m) ==
  IF ~Has(m, 1) THEN Fail(m, "INVALID_STACK_OPERATION")
  ELSE Replace(m, 0, <<ToScriptNum(Len(Top(m, 1)))>>)

\* (fault) OP_ROLL leaves the element where it was
PickOrRollKeeps(m, num) ==
  IF ~Has(m, 2) THEN Fail(m, "INVALID_STACK_OPERATION")
  ELSE IF ~Numbers(m, {1}, NUMBER_SIZE) THEN Throw(m)
  ELSE LET n == Number(m, 1)
           popped == Replace(m, 1, <<>>)
       IN  IF n < 0 \/ n >= Len(popped.stack) THEN Fail(popped, "INVALID_STACK_OPERATION")
           ELSE Replace(popped, 0, <<Top(popped, n + 1)>>)

\* OP_PICK and OP_ROLL: the number is off the stack also when it is refused
PickOrRoll(m, num) ==
  IF ~Has(m, 2) THEN Fail(m, "INVALID_STACK_OPERATION")
  ELSE IF ~Numbers(m, {1}, NUMBER_SIZE) THEN Throw(m)
  ELSE LET n == Number(m, 1)
           popped == Replace(m, 1, <<>>)
       IN  IF n < 0 \/ n >= Len(popped.stack) THEN Fail(popped, "INVALID_STACK_OPERATION")
           ELSE LET buf == Top(popped, n + 1)
                    rest == IF num = Opcode.OP_ROLL
                              THEN RemoveAt(popped.stack, Len(popped.stack) - n)
                              ELSE popped.stack
                IN  [popped EXCEPT !.stack = Append(rest, buf)]

Equal(m, num) ==
  IF ~Has(m, 2) THEN Fail(m, "INVALID_STACK_OPERATION")
  ELSE LET equal == Top(m, 1) = Top(m, 2)
       IN  IF num = Opcode.OP_EQUAL THEN Replace(m, 2, <<ToBool(equal)>>)
           ELSE IF equal THEN Replace(m, 2, <<>>)
           ELSE Fail(Replace(m, 2, <<FALSEBUF>>), "EQUALVERIFY")

-----------------------------------------------------------------------------
(* Numbers *)

Bit(b) == IF b THEN 1 ELSE 0

UnaryOps == {Opcode.OP_1ADD, Opcode.OP_1SUB, Opcode.OP_NEGATE, Opcode.OP_ABS, Opcode.OP_NOT,
             Opcode.OP_0NOTEQUAL}
Unary(num, x) ==
  CASE num = Opcode.OP_1ADD -> x + 1
    [] num = Opcode.OP_1SUB -> x - 1
    [] num = Opcode.OP_NEGATE -> - x
    [] num = Opcode.OP_ABS -> IF x < 0 THEN - x ELSE x
    [] num = Opcode.OP_NOT -> Bit(x = 0)
    [] num = Opcode.OP_0NOTEQUAL -> Bit(x # 0)

BinaryOps == {Opcode.OP_ADD, Opcode.OP_SUB} \cup Opcode.OP_BOOLAND .. Opcode.OP_MAX
Binary(num, x, y) ==
  CASE num = Opcode.OP_ADD -> x + y
    [] num = Opcode.OP_SUB -> x - y
    [] num = Opcode.OP_BOOLAND -> Bit(x # 0 /\ y # 0)
    [] num = Opcode.OP_BOOLOR -> Bit(x # 0 \/ y # 0)
    [] num \in {Opcode.OP_NUMEQUAL, Opcode.OP_NUMEQUALVERIFY} -> Bit(x = y)
    [] num = Opcode.OP_NUMNOTEQUAL -> Bit(x # y)
    [] num = Opcode.OP_LESSTHAN -> Bit(x < y)
    [] num = Opcode.OP_GREATERTHAN -> Bit(x > y)
    [] num = Opcode.OP_LESSTHANOREQUAL -> Bit(x <= y)
    [] num = Opcode.OP_GREATERTHANOREQUAL -> Bit(x >= y)
    [] num = Opcode.OP_MIN -> IF x < y THEN x ELSE y
    [] num = Opcode.OP_MAX -> IF x > y THEN x ELSE y

UnaryOp(m, num) ==
  IF ~Has(m, 1) THEN Fail(m, "INVALID_STACK_OPERATION")
  ELSE IF ~Numbers(m, {1}, NUMBER_SIZE) THEN Throw(m)
  ELSE Replace(m, 1, <<ToScriptNum(Unary(num, Number(m, 1)))>>)

BinaryOp(m, num) ==
  IF ~Has(m, 2) THEN Fail(m, "INVALID_STACK_OPERATION")
  ELSE IF ~Numbers(m, {1, 2}, NUMBER_SIZE) THEN Throw(m)
  ELSE LET result == ToScriptNum(Binary(num, Number(m, 2), Number(m, 1)))
           pushed == Replace(m, 2, <<result>>)
       IN  IF num # Opcode.OP_NUMEQUALVERIFY THEN pushed
           ELSE IF CastToBool(result) THEN Replace(m, 2, <<>>)
           ELSE Fail(pushed, "NUMEQUALVERIFY")

Within(m) ==
  IF ~Has(m, 3) THEN Fail(m, "INVALID_STACK_OPERATION")
  ELSE IF ~Numbers(m, 1..3, NUMBER_SIZE) THEN Throw(m)
  ELSE Replace(m, 3, <<ToBool(Number(m, 2) <= Number(m, 3) /\ Number(m, 3) < Number(m, 1))>>)

-----------------------------------------------------------------------------
(* Control *)

Nop(m) == IF Enabled(m, "DISCOURAGE_UPGRADABLE_NOPS")
            THEN Fail(m, "DISCOURAGE_UPGRADABLE_NOPS") ELSE m

If(m, num) ==
  IF ~Executing(m) THEN [m EXCEPT !.vfExec = Append(@, FALSE)]
  ELSE IF ~Has(m, 1) THEN Fail(m, "UNBALANCED_CONDITIONAL")
  ELSE LET value == CastToBool(Top(m, 1)) = (num = Opcode.OP_IF)
       IN  [Replace(m, 1, <<>>) EXCEPT !.vfExec = Append(@, value)]

\* (fault) OP_ELSE flips the outermost condition
ElseOutermost(m) ==
  IF m.vfExec = <<>> THEN Fail(m, "UNBALANCED_CONDITIONAL")
  ELSE [m EXCEPT !.vfExec[1] = ~@]

Else(m) ==
  IF m.vfExec = <<>> THEN Fail(m, "UNBALANCED_CONDITIONAL")
  ELSE [m EXCEPT !.vfExec[Len(m.vfExec)] = ~@]

EndIf(m) ==
  IF m.vfExec = <<>> THEN Fail(m, "UNBALANCED_CONDITIONAL")
  ELSE [m EXCEPT !.vfExec = Front(@)]

Verify(m) ==
  IF ~Has(m, 1) THEN Fail(m, "INVALID_STACK_OPERATION")
  ELSE IF CastToBool(Top(m, 1)) THEN Replace(m, 1, <<>>) ELSE Fail(m, "VERIFY")

\* (fault) a lock time is compared with one of the other kind
CheckLockTimeAnyKind(tx, n) == n <= tx.nLockTime /\ tx.sequence # MAX_SEQUENCE

\* Interpreter.prototype.checkLockTime; Input.isFinal is on the last line
CheckLockTime(tx, n) ==
  /\ tx.nLockTime < LOCKTIME_THRESHOLD <=> n < LOCKTIME_THRESHOLD
  /\ n <= tx.nLockTime
  /\ tx.sequence # MAX_SEQUENCE

\* n & flag, for a flag of one bit
HasFlag(n, flag) == (n \div flag) % 2 = 1

\* n & (SEQUENCE_LOCKTIME_TYPE_FLAG | SEQUENCE_LOCKTIME_MASK)
LockTimeMasked(n) ==
  (n % (SEQUENCE_LOCKTIME_MASK + 1))
  + (IF HasFlag(n, SEQUENCE_LOCKTIME_TYPE_FLAG) THEN SEQUENCE_LOCKTIME_TYPE_FLAG ELSE 0)

\* (fault) the version of the transaction is not looked at
CheckSequenceAnyVersion(tx, n) ==
  LET txMasked == LockTimeMasked(tx.sequence)
      masked == LockTimeMasked(n)
  IN  /\ ~HasFlag(tx.sequence, SEQUENCE_LOCKTIME_DISABLE_FLAG)
      /\ txMasked < SEQUENCE_LOCKTIME_TYPE_FLAG <=> masked < SEQUENCE_LOCKTIME_TYPE_FLAG
      /\ masked <= txMasked

\* Interpreter.prototype.checkSequence
CheckSequence(tx, n) ==
  LET txMasked == LockTimeMasked(tx.sequence)
      masked == LockTimeMasked(n)
  IN  /\ tx.version >= 2
      /\ ~HasFlag(tx.sequence, SEQUENCE_LOCKTIME_DISABLE_FLAG)
      /\ txMasked < SEQUENCE_LOCKTIME_TYPE_FLAG <=> masked < SEQUENCE_LOCKTIME_TYPE_FLAG
      /\ masked <= txMasked

LockOps == {Opcode.OP_CHECKLOCKTIMEVERIFY, Opcode.OP_CHECKSEQUENCEVERIFY}

\* OP_CHECKLOCKTIMEVERIFY and OP_CHECKSEQUENCEVERIFY leave the stack alone
CheckLock(m, num) ==
  LET absolute == num = Opcode.OP_CHECKLOCKTIMEVERIFY
  IN  IF ~Enabled(m, IF absolute THEN "CHECKLOCKTIMEVERIFY" ELSE "CHECKSEQUENCEVERIFY")
        THEN Nop(m)
      ELSE IF ~Has(m, 1) THEN Fail(m, "INVALID_STACK_OPERATION")
      ELSE IF ~Numbers(m, {1}, LOCK_SIZE) THEN Throw(m)
      ELSE LET n == Number(m, 1)
           IN  IF n < 0 THEN Fail(m, "NEGATIVE_LOCKTIME")
               ELSE IF IF absolute THEN CheckLockTime(m.tx, n)
                       ELSE \/ HasFlag(n, SEQUENCE_LOCKTIME_DISABLE_FLAG)
                            \/ CheckSequence(m.tx, n)
                 THEN m
               ELSE Fail(m, "UNSATISFIED_LOCKTIME")

-----------------------------------------------------------------------------
(* Signatures *)

HashOps == Opcode.OP_RIPEMD160 .. Opcode.OP_HASH256
HashName(num) ==
  CASE num = Opcode.OP_RIPEMD160 -> "ripemd160"
    [] num = Opcode.OP_SHA1 -> "sha1"
    [] num = Opcode.OP_SHA256 -> "sha256"
    [] num = Opcode.OP_HASH160 -> "hash160"
    [] num = Opcode.OP_HASH256 -> "hash256"
HashOp(m, num) ==
  IF ~Has(m, 1) THEN Fail(m, "INVALID_STACK_OPERATION")
  ELSE Replace(m, 1, <<Digest(HashName(num), Top(m, 1))>>)

\* The script a signature covers, from the last OP_CODESEPARATOR on
Subscript(m) == SubSeq(m.script, m.pbegincodehash + 1, Len(m.script))

\* checkSignatureEncoding and checkPubkeyEncoding: the error, or "".  With LOW_S
\* set the hash type of a signature is not looked at.
EncodingError(m, sig, key) ==
  IF m.flags \cap {"DERSIG", "LOW_S", "STRICTENC"} # {} /\ ~IsTxDER(sig)
    THEN "SIG_DER_INVALID_FORMAT"
  ELSE IF Enabled(m, "LOW_S") /\ ~IsLowS(sig) THEN "SIG_DER_HIGH_S"
  ELSE IF Enabled(m, "STRICTENC") /\ ~Enabled(m, "LOW_S") /\ ~IsDefinedHashtype(sig)
    THEN "SIG_HASHTYPE"
  ELSE IF Enabled(m, "STRICTENC") /\ ~IsPublicKey(key) THEN "PUBKEYTYPE"
  ELSE ""

CheckSig(m, num) ==
  IF ~Has(m, 2) THEN Fail(m, "INVALID_STACK_OPERATION")
  ELSE LET sig == Top(m, 2)
           key == Top(m, 1)
           subscript == FindAndDelete(Subscript(m), <<PushChunk(sig)>>)
           success == Signs(sig, key, subscript)
       IN  IF EncodingError(m, sig, key) # "" THEN Fail(m, EncodingError(m, sig, key))
           ELSE IF num = Opcode.OP_CHECKSIG THEN Replace(m, 2, <<ToBool(success)>>)
           ELSE IF success THEN Replace(m, 2, <<>>)
           ELSE Fail(Replace(m, 2, <<FALSEBUF>>), "CHECKSIGVERIFY")

\* (fault) a key stays for the next signature
MatchingKeysAgain(m, sigs, keys, subscript) ==
  LET match[k \in 1 .. Len(keys) + 1] == [i \in 1 .. Len(sigs) + 1 |->
        IF i > Len(sigs) THEN "true"
        ELSE IF EncodingError(m, sigs[i], keys[k]) # "" THEN EncodingError(m, sigs[i], keys[k])
        ELSE IF Signs(sigs[i], keys[k], subscript) THEN match[k][i + 1]
        ELSE IF k = Len(keys) THEN "false"
        ELSE match[k + 1][i]]
  IN  match[1][1]

\* The loop of OP_CHECKMULTISIG, at signature i and key k: "true", "false" or the
\* error it returns with
Matching(m, sigs, keys, subscript) ==
  LET match[k \in 1 .. Len(keys) + 1] == [i \in 1 .. Len(sigs) + 1 |->
        IF i > Len(sigs) THEN "true"
        ELSE IF EncodingError(m, sigs[i], keys[k]) # "" THEN EncodingError(m, sigs[i], keys[k])
        ELSE LET next == IF Signs(sigs[i], keys[k], subscript) THEN i + 1 ELSE i
             IN  IF Len(sigs) - next >= Len(keys) - k THEN "false" ELSE match[k + 1][next]]
  IN  match[1][1]

\* The n elements that start at depth i, the uppermost first
Elements(m, i, n) == [j \in 1..n |-> Top(m, i + j - 1)]

CheckMultisig(m, num) ==
  IF ~Has(m, 1) THEN Fail(m, "INVALID_STACK_OPERATION")
  ELSE IF ~Numbers(m, {1}, NUMBER_SIZE) THEN Throw(m)
  ELSE IF Number(m, 1) \notin 0..MAX_KEYS THEN Fail(m, "PUBKEY_COUNT")
  ELSE LET nKeys == Number(m, 1)
           counted == [m EXCEPT !.nOpCount = @ + nKeys]
       IN
  IF counted.nOpCount > MAX_OPS THEN Fail(counted, "OP_COUNT")
  ELSE IF ~Has(m, nKeys + 2) THEN Fail(counted, "INVALID_STACK_OPERATION")
  ELSE IF ~Numbers(m, {nKeys + 2}, NUMBER_SIZE) THEN Throw(counted)
  ELSE IF Number(m, nKeys + 2) \notin 0..nKeys THEN Fail(counted, "SIG_COUNT")
  ELSE LET nSigs == Number(m, nKeys + 2)
           n == 2 + nKeys + nSigs
           keys == Elements(m, 2, nKeys)
           sigs == Elements(m, nKeys + 3, nSigs)
           subscript == FoldLeft(LAMBDA s, sig : FindAndDelete(s, <<PushChunk(sig)>>),
                                 Subscript(m), sigs)
           matched == Matching(m, sigs, keys, subscript)
       IN
  IF ~Has(m, n + 1) THEN Fail(counted, "INVALID_STACK_OPERATION")
  ELSE IF matched \notin {"true", "false"} THEN Fail(counted, matched)
  ELSE IF Enabled(m, "NULLDUMMY") /\ Top(m, n + 1) # <<>>
    THEN Fail(Replace(counted, n, <<>>), "SIG_NULLDUMMY")
  ELSE IF num = Opcode.OP_CHECKMULTISIG
    THEN Replace(counted, n + 1, <<ToBool(matched = "true")>>)
  ELSE IF matched = "true" THEN Replace(counted, n + 1, <<>>)
  ELSE Fail(Replace(counted, n + 1, <<FALSEBUF>>), "CHECKMULTISIGVERIFY")

-----------------------------------------------------------------------------
(* One step *)

Disabled ==
  {Opcode.OP_CAT, Opcode.OP_SUBSTR, Opcode.OP_LEFT, Opcode.OP_RIGHT, Opcode.OP_INVERT,
   Opcode.OP_AND, Opcode.OP_OR, Opcode.OP_XOR, Opcode.OP_2MUL, Opcode.OP_2DIV,
   Opcode.OP_MUL, Opcode.OP_DIV, Opcode.OP_MOD, Opcode.OP_LSHIFT, Opcode.OP_RSHIFT}

PushData(m, chunk) ==
  IF Enabled(m, "MINIMALDATA") /\ ~CheckMinimalPush(chunk) THEN Fail(m, "MINIMALDATA")
  ELSE IF ~HasBuf(chunk) THEN Replace(m, 0, <<FALSEBUF>>)
  ELSE IF chunk.len # Len(chunk.buf) THEN Throw(m)
  ELSE Replace(m, 0, <<chunk.buf>>)

\* The branch of an opcode that pushes no data
Execute(m, num) ==
  CASE num \in {Opcode.OP_1NEGATE} \cup Opcode.OP_1 .. Opcode.OP_16 ->
         Replace(m, 0, <<ToScriptNum(num - (Opcode.OP_1 - 1))>>)
    [] num = Opcode.OP_NOP -> m
    [] num \in LockOps -> CheckLock(m, num)
    [] num \in {Opcode.OP_NOP1} \cup Opcode.OP_NOP4 .. Opcode.OP_NOP10 -> Nop(m)
    [] num \in {Opcode.OP_IF, Opcode.OP_NOTIF} -> If(m, num)
    [] num = Opcode.OP_ELSE -> Else(m)
    [] num = Opcode.OP_ENDIF -> EndIf(m)
    [] num = Opcode.OP_VERIFY -> Verify(m)
    [] num = Opcode.OP_RETURN -> Fail(m, "OP_RETURN")
    [] num = Opcode.OP_TOALTSTACK -> ToAltStack(m)
    [] num = Opcode.OP_FROMALTSTACK -> FromAltStack(m)
    [] num \in MoveOps -> Move(m, num)
    [] num = Opcode.OP_IFDUP -> IfDup(m)
    [] num = Opcode.OP_DEPTH -> Depth(m)
    [] num \in {Opcode.OP_PICK, Opcode.OP_ROLL} -> PickOrRoll(m, num)
    [] num = Opcode.OP_SIZE -> Size(m)
    [] num \in {Opcode.OP_EQUAL, Opcode.OP_EQUALVERIFY} -> Equal(m, num)
    [] num \in UnaryOps -> UnaryOp(m, num)
    [] num \in BinaryOps -> BinaryOp(m, num)
    [] num = Opcode.OP_WITHIN -> Within(m)
    [] num \in HashOps -> HashOp(m, num)
    [] num = Opcode.OP_CODESEPARATOR -> [m EXCEPT !.pbegincodehash = m.pc]
    [] num \in {Opcode.OP_CHECKSIG, Opcode.OP_CHECKSIGVERIFY} -> CheckSig(m, num)
    [] num \in {Opcode.OP_CHECKMULTISIG, Opcode.OP_CHECKMULTISIGVERIFY} ->
         CheckMultisig(m, num)
    [] OTHER -> Fail(m, "BAD_OPCODE")

\* (fault) an opcode that is skipped does not count
StepCountsExecuted(m0) ==
  LET chunk == m0.script[m0.pc + 1]
      num == chunk.op
      counts == num > Opcode.OP_16 /\ Executing(m0)
      m == [m0 EXCEPT !.pc = @ + 1, !.nOpCount = IF counts THEN @ + 1 ELSE @]
  IN  IF counts /\ m.nOpCount > MAX_OPS THEN Fail(m, "OP_COUNT")
      ELSE IF Executing(m) /\ num \in 0 .. Opcode.OP_PUSHDATA4 THEN PushData(m, chunk)
      ELSE IF Executing(m) \/ num \in Opcode.OP_IF .. Opcode.OP_ENDIF THEN Execute(m, num)
      ELSE m

\* Interpreter.prototype.step; errstr is set when it returns false or throws
Step(m0) ==
  LET chunk == m0.script[m0.pc + 1]
      num == chunk.op
      counts == num > Opcode.OP_16
      next == [m0 EXCEPT !.pc = @ + 1]
      m == IF counts THEN [next EXCEPT !.nOpCount = @ + 1] ELSE next
  IN  IF HasBuf(chunk) /\ Len(chunk.buf) > MAX_SCRIPT_ELEMENT_SIZE THEN Fail(next, "PUSH_SIZE")
      ELSE IF counts /\ m.nOpCount > MAX_OPS THEN Fail(m, "OP_COUNT")
      ELSE IF num \in Disabled THEN Fail(m, "DISABLED_OPCODE")
      ELSE IF Executing(m) /\ num \in 0 .. Opcode.OP_PUSHDATA4 THEN PushData(m, chunk)
      ELSE IF Executing(m) \/ num \in Opcode.OP_IF .. Opcode.OP_ENDIF THEN Execute(m, num)
      ELSE m

-----------------------------------------------------------------------------
(* verify() *)

Running == {"scriptSig", "scriptPubkey", "redeemScript"}
Ended == {"true", "false", "threw"}

Init ==
  /\ interpreter = Initialized
  /\ phase = "idle"
  /\ call = [args |-> [scriptSig |-> <<>>, scriptPubkey |-> <<>>, tx |-> NoTx, flags |-> {}],
             stackCopy |-> <<>>]
  /\ calls = 0

\* evaluate() refuses a script that is too long before its first step.
Enter(m, name) ==
  IF Len(ToBuffer(m.script)) > MAX_SCRIPT_SIZE
    THEN interpreter' = Fail(m, "SCRIPT_SIZE") /\ phase' = "false"
    ELSE interpreter' = m /\ phase' = name

\* The call begins: the object is not initialized.  (The code also keeps errstr,
\* which it never reads; here errstr is that of the running call.)
CallVerify ==
  /\ phase \notin Running /\ calls < MaxCalls
  /\ calls' = calls + 1
  /\ \E i \in DOMAIN Calls : \E args \in Calls[i] :
       LET m == [interpreter EXCEPT !.script = args.scriptSig, !.tx = args.tx,
                                    !.flags = args.flags, !.errstr = ""]
       IN  /\ call' = [args |-> args, stackCopy |-> <<>>]
           /\ IF "SIGPUSHONLY" \in args.flags /\ ~IsPushOnly(args.scriptSig)
                THEN interpreter' = Fail(m, "SIG_PUSHONLY") /\ phase' = "false"
                ELSE Enter(m, "scriptSig")

\* One turn of the loop of evaluate()
RunStep ==
  /\ phase \in Running
  /\ interpreter.pc < Len(interpreter.script)
  /\ interpreter' = Step(interpreter)
  /\ phase' = IF interpreter'.errstr = "" THEN phase ELSE "false"
  /\ UNCHANGED <<call, calls>>

\* What evaluate() finds wrong behind its loop, or ""
EndError(m) ==
  IF Len(m.stack) + Len(m.altstack) > MAX_STACK THEN "STACK_SIZE"
  ELSE IF m.vfExec # <<>> THEN "UNBALANCED_CONDITIONAL" ELSE ""

AtEnd(name) == phase = name /\ interpreter.pc >= Len(interpreter.script)
Return(m, result) == interpreter' = m /\ phase' = result

\* (fault) the object is not initialized again
LoadUninitialized(script, stack) ==
  [interpreter EXCEPT !.script = script, !.stack = stack, !.tx = call.args.tx,
                      !.flags = call.args.flags]

\* A new script on a stack
Load(script, stack) ==
  [Initialized EXCEPT !.script = script, !.stack = stack, !.tx = call.args.tx,
                      !.flags = call.args.flags]

FinishScriptSig ==
  /\ AtEnd("scriptSig")
  /\ IF EndError(interpreter) # ""
       THEN Return(Fail(interpreter, EndError(interpreter)), "false") /\ UNCHANGED call
       ELSE /\ call' = [call EXCEPT !.stackCopy =
                          IF "P2SH" \in call.args.flags THEN interpreter.stack ELSE <<>>]
            /\ Enter(Load(call.args.scriptPubkey, interpreter.stack), "scriptPubkey")
  /\ UNCHANGED calls

\* (fault) the redeem script runs on the stack that the output's script left
RedeemStackLeft(stackCopy, m) == m.stack

RedeemStack(stackCopy, m) == Front(stackCopy)

\* The top of the stack is the result; none is false.
EvalError(m) ==
  IF m.stack = <<>> THEN "EVAL_FALSE_NO_RESULT"
  ELSE IF ~CastToBool(Top(m, 1)) THEN "EVAL_FALSE_IN_STACK" ELSE ""

\* A redeem script whose bytes end within a length makes verify() throw.
FinishScriptPubkey ==
  /\ AtEnd("scriptPubkey")
  /\ LET m == interpreter
         error == IF EndError(m) # "" THEN EndError(m) ELSE EvalError(m)
         redeem == FromBuffer(Last(call.stackCopy))
     IN  IF error # "" THEN Return(Fail(m, error), "false")
         ELSE IF "P2SH" \notin call.args.flags \/ ~IsScriptHashOut(call.args.scriptPubkey)
           THEN Return(m, "true")
         ELSE IF ~IsPushOnly(call.args.scriptSig) THEN Return(Fail(m, "SIG_PUSHONLY"), "false")
         ELSE IF call.stackCopy = <<>> \/ ~redeem.ok THEN Return(m, "threw")
         ELSE Enter(Load(redeem.chunks, RedeemStack(call.stackCopy, m)), "redeemScript")
  /\ UNCHANGED <<call, calls>>

FinishRedeemScript ==
  /\ AtEnd("redeemScript")
  /\ LET m == interpreter
         error == IF EndError(m) # "" THEN EndError(m) ELSE EvalError(m)
     IN  IF error # "" THEN Return(Fail(m, error), "false") ELSE Return(m, "true")
  /\ UNCHANGED <<call, calls>>

Next == \/ CallVerify \/ RunStep
        \/ FinishScriptSig \/ FinishScriptPubkey \/ FinishRedeemScript

Spec == Init /\ [][Next]_vars

-----------------------------------------------------------------------------
\* The types of the interpreter's fields
TypeOK ==
  /\ phase \in {"idle"} \cup Running \cup Ended
  /\ calls \in 0 .. MaxCalls
  /\ call.args.flags \subseteq Flags
  /\ interpreter.pc \in 0 .. Len(interpreter.script)
  /\ interpreter.pbegincodehash \in 0 .. interpreter.pc
  /\ interpreter.flags \subseteq Flags
  /\ \A i \in DOMAIN interpreter.vfExec : interpreter.vfExec[i] \in BOOLEAN
  /\ \A stack \in {interpreter.stack, interpreter.altstack} : \A i \in DOMAIN stack :
       \A j \in DOMAIN stack[i] : stack[i][j] \in Byte

OpsOf(s) == Cardinality({i \in DOMAIN s : s[i].op > Opcode.OP_16})

\* A script that has run to its end has no more opcodes and no longer element than
\* allowed, those in branches that were skipped included (nOpCount in step).
LimitsHold ==
  \A name \in Running :
    AtEnd(name) /\ interpreter.errstr = "" =>
      /\ OpsOf(interpreter.script) <= MAX_OPS
      /\ \A i \in DOMAIN interpreter.script :
           /\ HasBuf(interpreter.script[i])
                => Len(interpreter.script[i].buf) <= MAX_SCRIPT_ELEMENT_SIZE
           /\ interpreter.script[i].op \notin Disabled
=============================================================================

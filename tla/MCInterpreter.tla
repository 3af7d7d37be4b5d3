--------------------------- MODULE MCInterpreter ---------------------------
(* Families of scripts for the interpreter.  A hash has three bytes, a public *)
(* key <<2, k>> two, and a signature <<48, k, hash type, n>> by key k covers  *)
(* a script of n chunks.                                                      *)
EXTENDS ScriptReference

HashTags == "ripemd160" :> 1 @@ "sha1" :> 2 @@ "sha256" :> 3 @@ "hash160" :> 4 @@ "hash256" :> 5
SmallDigest(name, buf) ==
  LET h == FoldLeft(LAMBDA acc, b : (acc * 31 + b) % 65521, Len(buf) + HashTags[name], buf)
  IN  <<h % 256, h \div 256, HashTags[name]>>
SmallDER(buf) == Len(buf) = 4 /\ buf[1] = 48
SmallLowS(buf) == buf[2] # 12
SmallHashtype(buf) == buf[3] \in 1..3
SmallPublicKey(buf) == Len(buf) = 2 /\ buf[1] \in {2, 3}
SmallSigns(sig, key, script) ==
  SmallDER(sig) /\ SmallPublicKey(key) /\ sig[2] = key[2] /\ sig[4] = Len(script)

Key(k) == <<2, k>>
Sig(k, n) == <<48, k, 1, n>>
Data(n) == PushChunk(ToScriptNum(n))
Family(sigs, pubkeys, flags) ==
  [scriptSig : sigs, scriptPubkey : pubkeys, tx : {NoTx}, flags : flags]
SeqsUpTo(S, n) == UNION {[1..k -> S] : k \in 0..n}
Ops(s) == [i \in DOMAIN s |-> Op(s[i])]
\* Conditionals, with negative zero among the conditions
Conditions(S) == {[i \in DOMAIN c |-> PushChunk(c[i])] : c \in S}
ConditionalCalls ==
  <<Family(Conditions({<<<<>>, <<1>>>>, <<<<1>>, <<1>>>>, <<<<1>>, <<128>>>>}),
           SeqsUpTo({Op(Opcode.OP_IF), Op(Opcode.OP_ELSE), Op(Opcode.OP_ENDIF), Op(Opcode.OP_1)}, 6),
           {{}}),
    Family(Conditions({<<<<>>>>, <<<<1>>>>, <<<<128>>>>}),
           SeqsUpTo({Op(Opcode.OP_NOTIF), Op(Opcode.OP_ELSE), Op(Opcode.OP_ENDIF), Op(Opcode.OP_0),
                     Op(Opcode.OP_1)}, 4), {{}})>>

\* What an opcode stands for
OP_(n) == IF n = 0 THEN Opcode.OP_0 ELSE Opcode.OP_1 + n - 1
FirstIf(op) == <<Opcode.OP_2DUP, op, Opcode.OP_IF, Opcode.OP_DROP, Opcode.OP_ELSE, Opcode.OP_NIP,
                 Opcode.OP_ENDIF>>
Synonyms == {
  <<Opcode.OP_TUCK, <<Opcode.OP_SWAP, Opcode.OP_OVER>>>>,
  <<Opcode.OP_NIP, <<Opcode.OP_SWAP, Opcode.OP_DROP>>>>,
  <<Opcode.OP_DUP, <<OP_(0), Opcode.OP_PICK>>>>,
  <<Opcode.OP_OVER, <<OP_(1), Opcode.OP_PICK>>>>,
  <<Opcode.OP_SWAP, <<OP_(1), Opcode.OP_ROLL>>>>,
  <<Opcode.OP_ROT, <<OP_(2), Opcode.OP_ROLL>>>>,
  <<Opcode.OP_ROT, <<Opcode.OP_TOALTSTACK, Opcode.OP_SWAP, Opcode.OP_FROMALTSTACK, Opcode.OP_SWAP>>>>,
  <<Opcode.OP_2DROP, <<Opcode.OP_DROP, Opcode.OP_DROP>>>>,
  <<Opcode.OP_2DUP, <<Opcode.OP_OVER, Opcode.OP_OVER>>>>,
  <<Opcode.OP_3DUP, <<OP_(2), Opcode.OP_PICK, OP_(2), Opcode.OP_PICK, OP_(2), Opcode.OP_PICK>>>>,
  <<Opcode.OP_2OVER, <<OP_(3), Opcode.OP_PICK, OP_(3), Opcode.OP_PICK>>>>,
  <<Opcode.OP_2SWAP, <<OP_(3), Opcode.OP_ROLL, OP_(3), Opcode.OP_ROLL>>>>,
  <<Opcode.OP_2ROT, <<OP_(5), Opcode.OP_ROLL, OP_(5), Opcode.OP_ROLL>>>>,
  <<Opcode.OP_IFDUP, <<Opcode.OP_DUP, Opcode.OP_IF, Opcode.OP_DUP, Opcode.OP_ENDIF>>>>,
  <<Opcode.OP_1ADD, <<OP_(1), Opcode.OP_ADD>>>>,
  <<Opcode.OP_1SUB, <<OP_(1), Opcode.OP_SUB>>>>,
  <<Opcode.OP_NEGATE, <<OP_(0), Opcode.OP_SWAP, Opcode.OP_SUB>>>>,
  <<Opcode.OP_ABS, <<Opcode.OP_DUP, Opcode.OP_NEGATE, Opcode.OP_MAX>>>>,
  <<Opcode.OP_NOT, <<OP_(0), Opcode.OP_NUMEQUAL>>>>,
  <<Opcode.OP_0NOTEQUAL, <<Opcode.OP_NOT, Opcode.OP_NOT>>>>,
  <<Opcode.OP_ADD, <<Opcode.OP_NEGATE, Opcode.OP_SUB>>>>,
  <<Opcode.OP_BOOLAND, <<Opcode.OP_NOT, Opcode.OP_SWAP, Opcode.OP_NOT, Opcode.OP_BOOLOR, Opcode.OP_NOT>>>>,
  <<Opcode.OP_BOOLOR, <<Opcode.OP_NOT, Opcode.OP_SWAP, Opcode.OP_NOT, Opcode.OP_BOOLAND, Opcode.OP_NOT>>>>,
  <<Opcode.OP_NUMNOTEQUAL, <<Opcode.OP_NUMEQUAL, Opcode.OP_NOT>>>>,
  <<Opcode.OP_NUMEQUAL, <<Opcode.OP_2DUP, Opcode.OP_MIN, Opcode.OP_ROT, Opcode.OP_ROT, Opcode.OP_MAX,
                          Opcode.OP_EQUAL>>>>,
  <<Opcode.OP_LESSTHAN, <<Opcode.OP_GREATERTHANOREQUAL, Opcode.OP_NOT>>>>,
  <<Opcode.OP_GREATERTHAN, <<Opcode.OP_SWAP, Opcode.OP_LESSTHAN>>>>,
  <<Opcode.OP_LESSTHANOREQUAL, <<Opcode.OP_SWAP, Opcode.OP_GREATERTHANOREQUAL>>>>,
  <<Opcode.OP_MIN, FirstIf(Opcode.OP_LESSTHAN)>>,
  <<Opcode.OP_MAX, FirstIf(Opcode.OP_GREATERTHAN)>>,
  <<Opcode.OP_WITHIN, <<OP_(2), Opcode.OP_PICK, Opcode.OP_GREATERTHAN, Opcode.OP_ROT, Opcode.OP_ROT,
                        Opcode.OP_GREATERTHANOREQUAL, Opcode.OP_BOOLAND>>>>,
  <<Opcode.OP_EQUALVERIFY, <<Opcode.OP_EQUAL, Opcode.OP_VERIFY>>>>,
  <<Opcode.OP_NUMEQUALVERIFY, <<Opcode.OP_NUMEQUAL, Opcode.OP_VERIFY>>>>}
SmallExpansions == {<<Ops(<<s[1]>>), Ops(s[2])>> : s \in Synonyms}
Stacks ==
  {[i \in 1..d |-> 4 + i] : d \in 0..7}
  \cup {<<x, y>> : x, y \in {-128, -2, 0, 1, 127, 128, 32767}}
  \cup [1..3 -> {-1, 0, 1, 2}]
SynonymCalls ==
  <<Family({[i \in DOMAIN s |-> Data(s[i])] : s \in Stacks}, {pair[1] : pair \in SmallExpansions},
           {{"MINIMALDATA"}})>>

\* Signatures
MultisigScript(keys, m) == MultisigOut([i \in DOMAIN keys |-> Key(keys[i])], m, TRUE)
MultisigFamily(n, m) ==
  Family({MultisigIn(sigs) : sigs \in [1..m -> {Sig(k, n + 3) : k \in 10..12} \cup {Sig(11, 1)}]},
         {MultisigScript(keys, m) : keys \in [1..n -> 10..12]}, {{"DERSIG"}})
MultisigCalls ==
  <<MultisigFamily(1, 1), MultisigFamily(2, 1), MultisigFamily(2, 2), MultisigFamily(3, 1),
    MultisigFamily(3, 2), MultisigFamily(3, 3),
    Family({<<Op(dummy), PushChunk(Sig(10, n))>> : dummy \in {Opcode.OP_0, Opcode.OP_1}, n \in {4, 5}},
           {MultisigScript(keys, 1) : keys \in {<<10>>, <<12, 10>>, <<10, 10, 10, 10>>}},
           {{"NULLDUMMY"}, {"STRICTENC", "LOW_S"}})>>
SignatureScripts ==
  {PublicKeyHashOut(SmallDigest("hash160", Key(10))), PublicKeyOut(Key(10)),
   <<Op(Opcode.OP_CODESEPARATOR)>> \o PublicKeyOut(Key(10)),
   <<PushChunk(Sig(10, 3)), Op(Opcode.OP_DROP)>> \o PublicKeyOut(Key(10)),
   <<PushChunk(Sig(10, 3)), PushChunk(Sig(10, 3)), Op(Opcode.OP_2DROP)>> \o PublicKeyOut(Key(10)),
   PublicKeyOut(<<5, 5>>), <<PushChunk(Key(10)), Op(Opcode.OP_CHECKSIGVERIFY), Op(Opcode.OP_1)>>}
SignatureCalls ==
  <<Family({PublicKeyHashIn(Key(k), Sig(k, 5)) : k \in {10, 11}}
           \cup {PublicKeyIn(s) : s \in {Sig(10, 2), Sig(10, 3), Sig(12, 2), <<48, 10, 9, 2>>, <<1>>}},
           SignatureScripts,
           {{"P2SH"}, {"STRICTENC"}, {"LOW_S"}, {"LOW_S", "STRICTENC"}, {"SIGPUSHONLY", "P2SH"}})>>

\* Locks
LockTxs == [nLockTime : {0, 2, 3, 5}, version : {1, 2}, sequence : {0, 1, 2, 4, 5, 7, 8, 10, 15}]
LockCalls ==
  <<[scriptSig : {<<>>}, scriptPubkey : {<<Data(n), Op(num)>> : n \in {-1, 0, 70000} \cup 1..9, num \in LockOps},
     tx : LockTxs, flags : {{"CHECKLOCKTIMEVERIFY", "CHECKSEQUENCEVERIFY"}}],
    Family({<<>>}, {<<Data(1), Op(num)>> : num \in LockOps}, {{}, {"DISCOURAGE_UPGRADABLE_NOPS"}})>>

\* Limits, and every opcode by itself
Nops(n) == [i \in 1..n |-> Op(Opcode.OP_NOP)]
Skipped(script) == <<Op(Opcode.OP_0), Op(Opcode.OP_IF)>> \o script \o Ops(<<Opcode.OP_ENDIF, Opcode.OP_1>>)
LongPush == PushChunk([i \in 1..15 |-> 1])
LimitCalls ==
  <<Family({<<>>},
           {Append(Nops(n), Op(Opcode.OP_1)) : n \in 6..8} \cup {Skipped(Nops(n)) : n \in 4..7}
           \cup {Skipped(<<Op(n)>>) : n \in {Opcode.OP_CAT, Opcode.OP_VERIF, Opcode.OP_RESERVED, 186}}
           \cup {<<LongPush>>, Skipped(<<LongPush>>)}
           \cup {[i \in 1..n |-> Op(Opcode.OP_1)] : n \in {8, 9, 41}}
           \cup {Nops(n) \o MultisigScript(<<10, 11, 12>>, 0) : n \in 3..4}, {{}}),
    Family({Ops(<<Opcode.OP_1, Opcode.OP_1, Opcode.OP_1>>)}, {<<Op(n)>> : n \in 79..255},
           {{}, {"DISCOURAGE_UPGRADABLE_NOPS"}})>>

\* Pay to script hash
Redeems ==
  <<ToBuffer(<<Op(Opcode.OP_1)>>), ToBuffer(<<Op(Opcode.OP_0)>>), ToBuffer(<<Op(Opcode.OP_EQUAL)>>),
    ToBuffer(<<Op(Opcode.OP_NOT)>>), ToBuffer(<<Op(Opcode.OP_IF)>>), ToBuffer(<<Op(Opcode.OP_DEPTH)>>),
    ToBuffer(Ops(<<Opcode.OP_IF, Opcode.OP_0, Opcode.OP_ELSE, Opcode.OP_1, Opcode.OP_ENDIF>>)),
    ToBuffer(MultisigScript(<<10, 11>>, 1)), ToBuffer(PublicKeyOut(Key(10))),
    <<Opcode.OP_PUSHDATA2, 1>>, <<Opcode.OP_PUSHDATA1, 5, 1>>>>
HashOut(redeem) == ScriptHashOut(SmallDigest("hash160", redeem))
RedeemCalls ==
  [i \in DOMAIN Redeems |->
     Family({Append(pushes, PushChunk(Redeems[i])) :
               pushes \in SeqsUpTo({Op(Opcode.OP_0), PushChunk(<<1>>), PushChunk(Sig(10, 5)), Op(Opcode.OP_NOP)}, 2)},
            {HashOut(Redeems[i])}, {{}, {"P2SH"}, {"P2SH", "SIGPUSHONLY"}})]
  \o <<Family({<<PushChunk(Redeems[i])>> : i \in DOMAIN Redeems},
              {HashOut(Redeems[i]) : i \in DOMAIN Redeems}, {{"P2SH"}}),
       Family({P2SHMultisigIn(<<Key(11), Key(10)>>, 1, <<Sig(k, 5)>>, sorting) :
                 k \in {10, 12}, sorting \in BOOLEAN},
              {HashOut(ToBuffer(MultisigOut(<<Key(10), Key(11)>>, 1, TRUE))), DataOut(<<7, 7>>)},
              {{"P2SH"}})>>

\* Ways to push data
PushedBuffers ==
  {<<>>} \cup {<<b>> : b \in {0, 1, 16, 17, 128, 129}}
  \cup {[i \in 1..n |-> 7] : n \in {2, 3, 75, 76, 255, 256}}
PushCalls ==
  <<Family({<<chunk>> : chunk \in UNION {PushesOf(buf) : buf \in PushedBuffers}}, {<<>>},
           {{}, {"MINIMALDATA"}}),
    Family({<<[op |-> 3, len |-> 3, buf |-> <<1>>]>>}, {<<>>}, {{}})>>

SmallCalls ==
  ConditionalCalls \o SynonymCalls \o MultisigCalls \o SignatureCalls \o LockCalls \o LimitCalls
  \o RedeemCalls \o PushCalls

ASSUME ReadAssumption == ScriptHashesAreRead /\ PushesAreRead
=============================================================================

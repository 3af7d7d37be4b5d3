-------------------------- MODULE ScriptReference --------------------------
(* What scripts mean, defined another way than the interpreter runs them,    *)
(* and the properties that compare the two.                                  *)
EXTENDS Spending

CONSTANT Expansions    \* pairs of scripts that do the same

Ifs == {Opcode.OP_IF, Opcode.OP_NOTIF}
Closes == {Opcode.OP_ELSE, Opcode.OP_ENDIF}

-----------------------------------------------------------------------------
(* Conditionals as blocks within blocks: a block ends before the OP_ELSE or *)
(* OP_ENDIF that belongs to it.                                             *)

Nested(s, i, j) ==
  Cardinality({k \in i .. j - 1 : s[k].op \in Ifs})
  - Cardinality({k \in i .. j - 1 : s[k].op = Opcode.OP_ENDIF})
BlockEnd(s, i) ==
  LET ends == {j \in i .. Len(s) : s[j].op \in Closes /\ Nested(s, i, j) = 0}
  IN  IF ends = {} THEN Len(s) + 1 ELSE CHOOSE j \in ends : \A k \in ends : j <= k

NoMeaning == [at |-> 0, stack |-> <<>>]
RECURSIVE Block(_, _, _), Arms(_, _, _, _)

\* The stack after the block from i on, and where the block ends
Block(s, i, stack) ==
  IF i > Len(s) \/ s[i].op \in Closes THEN [at |-> i, stack |-> stack]
  ELSE IF s[i].op \in SmallInts THEN Block(s, i + 1, Append(stack, Pushed(s[i])))
  ELSE IF stack = <<>> THEN NoMeaning
  ELSE LET taken == Truth(Last(stack)) = (s[i].op = Opcode.OP_IF)
           after == Arms(s, i + 1, Front(stack), taken)
       IN  IF after = NoMeaning THEN after ELSE Block(s, after.at, after.stack)

\* The arms of a conditional: every other one is taken
Arms(s, i, stack, taken) ==
  LET arm == IF taken THEN Block(s, i, stack) ELSE [at |-> BlockEnd(s, i), stack |-> stack]
  IN  IF arm = NoMeaning \/ arm.at > Len(s) THEN NoMeaning
      ELSE IF s[arm.at].op = Opcode.OP_ENDIF THEN [arm EXCEPT !.at = @ + 1]
      ELSE Arms(s, arm.at + 1, arm.stack, ~taken)

Structured(s) == \A i \in DOMAIN s : s[i].op \in SmallInts \cup Ifs \cup Closes
Means(s, stack) ==
  LET end == Block(s, 1, stack)
  IN  end.at > Len(s) /\ end.stack # <<>> /\ Truth(Last(end.stack))

WellFormed(s) == \A i \in DOMAIN s : HasBuf(s[i]) => s[i].len = Len(s[i].buf)

\* A script of conditionals within the limits is valid exactly when the blocks
\* that its conditions choose leave a true result: nesting, repeated OP_ELSE and
\* conditions left open included (vfExec in step and evaluate).
Conditionals ==
  LET args == call.args
  IN  /\ phase \in Ended /\ calls = 1 /\ interpreter.errstr \notin Exceeded
      /\ args.flags = {} /\ Structured(args.scriptPubkey)
      /\ IsPushOnly(args.scriptSig) /\ WellFormed(args.scriptSig)
      => (phase = "true" <=> Means(args.scriptPubkey, StackOf(args.scriptSig)))

-----------------------------------------------------------------------------
(* Opcodes and what they abbreviate *)

\* An opcode that abbreviates others leaves the stack that these leave, and fails
\* where they fail, for every stack it finds (the stack opcodes, OP_PICK, OP_ROLL
\* and the arithmetic in step).
Abbreviations ==
  \A pair \in Expansions :
    call.args.scriptPubkey = pair[1] /\ interpreter.script = pair[1] =>
      LET long == EvaluateOn(pair[2], StackOf(call.args.scriptSig), call.args)
      IN  /\ phase = "scriptPubkey" /\ interpreter.pc = Len(interpreter.script)
               => long.errstr = "" /\ long.stack = interpreter.stack
          /\ phase = "false" /\ long.errstr = ""
               => interpreter.errstr
                    \in {"EVAL_FALSE_IN_STACK", "EVAL_FALSE_NO_RESULT", "STACK_SIZE"}
=============================================================================

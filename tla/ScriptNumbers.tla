--------------------------- MODULE ScriptNumbers ---------------------------
(***************************************************************************)
(* The numbers of scripts, from lib/crypto/bn.js: a buffer holds the       *)
(* magnitude, least significant byte first, and the highest bit of its     *)
(* last byte is the sign.                                                  *)
(***************************************************************************)
EXTENDS Integers, Sequences, SequencesExt

\* BN.fromScriptNumBuffer throws for a buffer longer than size and, when
\* minimal is required, for one with a last byte that only holds the sign.
NumberOverflows(buf, size) == Len(buf) > size

IsMinimal(buf) ==
  buf # <<>> /\ Last(buf) % 128 = 0 => Len(buf) > 1 /\ buf[Len(buf) - 1] >= 128

\* BN.fromSM, little endian
FromScriptNum(buf) ==
  IF buf = <<>> THEN 0
  ELSE LET from[i \in 1 .. Len(buf)] ==
             IF i = Len(buf) THEN buf[i] % 128 ELSE buf[i] + 256 * from[i + 1]
       IN  IF Last(buf) >= 128 THEN - from[1] ELSE from[1]

\* The magnitude of n in as many bytes as it needs
Magnitude(n) ==
  LET abs == IF n < 0 THEN - n ELSE n
      digits[m \in 0 .. abs] == IF m = 0 THEN <<>> ELSE Cons(m % 256, digits[m \div 256])
  IN  digits[abs]

\* BN.prototype.toScriptNumBuffer
ToScriptNum(n) ==
  LET buf == Magnitude(n)
      sign == IF n < 0 THEN 128 ELSE 0
  IN  IF buf = <<>> THEN buf
      ELSE IF Last(buf) >= 128 THEN Append(buf, sign)
      ELSE [buf EXCEPT ![Len(buf)] = @ + sign]
=============================================================================

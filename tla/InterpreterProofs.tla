------------------------- MODULE InterpreterProofs -------------------------
(***************************************************************************)
(* What holds of the interpreter for every script it is called with: the   *)
(* types of its fields; that no script runs to its end past a limit; that  *)
(* a pay to script hash output is spent with its script alone, and from    *)
(* the address of the input; what an output's lock has checked; that as    *)
(* many signatures as a multisig output asks for are accepted exactly in   *)
(* the order of the keys; that a push let through as minimal is the        *)
(* shortest; and that a script is read back from its bytes and its text.   *)
(*                                                                         *)
(* The numbers and the chunks of scripts are read by recursive functions.  *)
(* That these functions exist is shown by a smallest counterexample        *)
(* (LeastNat), as for the sums.                                            *)
(***************************************************************************)
EXTENDS Spending, SumsProofs

Buffer == Seq(Byte)
Stack == Seq(Buffer)

(* The smallest number that is not in S *)
LEMMA LeastMissing ==
  ASSUME NEW S, NEW n \in Nat, n \notin S
  PROVE  \E k \in Nat : k \notin S /\ \A j \in Nat : j < k => j \in S
<1> DEFINE Bad == {j \in Nat : j \notin S}
<1>1. Bad \subseteq Nat /\ Bad # {}
  OBVIOUS
<1>2. PICK k \in Bad : \A j \in Bad : k <= j
  <2> HIDE DEF Bad
  <2> QED BY <1>1, LeastNat
<1>3. k \in Nat /\ k \notin S
  BY <1>2
<1>4. ASSUME NEW j \in Nat, j < k PROVE j \in S
  <2>1. ~(k <= j) BY <1>3, <1>4
  <2>2. j \notin Bad
    <3> HIDE DEF Bad
    <3> QED BY <2>1, <1>2
  <2> QED BY <2>2
<1> QED BY <1>3, <1>4

(* B only looks at places of a lower rank, and f is a solution of it. *)
Causal(D, R, rank, B) ==
  \A f, g \in [D -> R] : \A m \in D :
    (\A j \in D : rank[j] < rank[m] => f[j] = g[j]) => B[f][m] = B[g][m]
Solvable(D, R, B) == \E f \in [D -> R] : \A m \in D : f[m] = B[f][m]

(* Such a recursion has a solution. *)
LEMMA RecursionExists ==
  ASSUME NEW D, NEW R, R # {}, NEW n \in Nat, NEW rank \in [D -> 0 .. n],
         NEW B \in [[D -> R] -> [D -> R]], Causal(D, R, rank, B)
  PROVE  Solvable(D, R, B)
<1> DEFINE Solves(f, k) == \A m \in D : rank[m] < k => f[m] = B[f][m]
           Solved == {k \in Nat : \E f \in [D -> R] : Solves(f, k)}
<1>1. 0 \in Solved
  <2>1. PICK r \in R : TRUE OBVIOUS
  <2>2. [m \in D |-> r] \in [D -> R] OBVIOUS
  <2>3. Solves([m \in D |-> r], 0) OBVIOUS
  <2> HIDE DEF Solves
  <2> QED BY <2>2, <2>3
<1>2. ASSUME NEW k \in Nat, k \in Solved PROVE k + 1 \in Solved
  <2>1. PICK f \in [D -> R] : Solves(f, k) BY <1>2
  <2> DEFINE g == [m \in D |-> IF rank[m] < k THEN f[m] ELSE B[f][m]]
  <2>2. g \in [D -> R] OBVIOUS
  <2>3. ASSUME NEW m \in D, rank[m] < k + 1 PROVE g[m] = B[g][m]
    <3>1. rank[m] <= k BY <2>3
    <3>2. \A j \in D : rank[j] < rank[m] => f[j] = g[j] BY <3>1
    <3>3. B[f][m] = B[g][m]
      <4> HIDE DEF g
      <4> QED BY <3>2, <2>2 DEF Causal
    <3>4. g[m] = B[f][m] BY <2>1
    <3> QED BY <3>3, <3>4
  <2>4. Solves(g, k + 1) BY <2>3
  <2> HIDE DEF Solves, g
  <2> QED BY <2>2, <2>4
<1>3. n + 1 \in Solved
  <2> HIDE DEF Solved
  <2>1. SUFFICES ASSUME n + 1 \notin Solved PROVE FALSE OBVIOUS
  <2>2. PICK k \in Nat : k \notin Solved /\ \A j \in Nat : j < k => j \in Solved
    BY <2>1, LeastMissing
  <2>3. k # 0 BY <2>2, <1>1
  <2>4. k - 1 \in Nat /\ k - 1 < k /\ (k - 1) + 1 = k BY <2>3
  <2> QED BY <2>2, <2>4, <1>2
<1>4. PICK f \in [D -> R] : Solves(f, n + 1) BY <1>3
<1>5. \A m \in D : rank[m] < n + 1 OBVIOUS
<1> QED BY <1>4, <1>5 DEF Solvable

(* An element before a sequence *)
LEMMA ConsIsSeq ==
  ASSUME NEW S, NEW e \in S, NEW s \in Seq(S)
  PROVE  /\ Cons(e, s) \in Seq(S)
         /\ Len(Cons(e, s)) = Len(s) + 1
<1>1. <<e>> \in Seq(S) /\ Len(<<e>>) = 1
  OBVIOUS
<1> QED BY <1>1, ConcatProperties, 1 + Len(s) = Len(s) + 1, LenProperties DEF Cons

-----------------------------------------------------------------------------
(* Numbers *)

(* The bytes of a magnitude, from the functions that satisfy its recursion *)
DigitsOf(f, m) == IF m = 0 THEN <<>> ELSE Cons(m % 256, f[m \div 256])

LEMMA DigitsShrink ==
  ASSUME NEW m \in Nat, m # 0
  PROVE  /\ m \div 256 \in Nat /\ m \div 256 < m
         /\ m % 256 \in Byte
BY DEF Byte

(* The digits of every number up to n exist *)
LEMMA DigitsExist ==
  ASSUME NEW n \in Nat
  PROVE  \E f \in [0 .. n -> Buffer] : \A m \in 0 .. n : f[m] = DigitsOf(f, m)
<1> DEFINE D == 0 .. n
           B == [f \in [D -> Buffer] |-> [m \in D |-> DigitsOf(f, m)]]
           rank == [m \in D |-> m]
<1>1. <<>> \in Buffer /\ Buffer # {}
  <2>1. <<>> \in Buffer BY DEF Buffer
  <2> QED BY <2>1, Zenon
<1>2. \A m \in D : m # 0 => m \div 256 \in D /\ m \div 256 < m /\ m % 256 \in Byte
  BY DigitsShrink
<1>3. \A f \in [D -> Buffer], m \in D : DigitsOf(f, m) \in Buffer
  <2> TAKE f \in [D -> Buffer], m \in D
  <2>1. CASE m = 0 BY <2>1, <1>1 DEF DigitsOf
  <2>2. CASE m # 0
    <3>1. f[m \div 256] \in Buffer BY <1>2, <2>2
    <3>2. Cons(m % 256, f[m \div 256]) \in Buffer
      BY <3>1, <1>2, <2>2, ConsIsSeq DEF Buffer
    <3> QED BY <2>2, <3>2 DEF DigitsOf
  <2> QED BY <2>1, <2>2
<1>4. B \in [[D -> Buffer] -> [D -> Buffer]] BY <1>3
<1>5. rank \in [D -> 0 .. n] OBVIOUS
<1>6. Causal(D, Buffer, rank, B)
  <2> SUFFICES ASSUME NEW f \in [D -> Buffer], NEW g \in [D -> Buffer], NEW m \in D,
                      \A j \in D : rank[j] < rank[m] => f[j] = g[j]
               PROVE  B[f][m] = B[g][m]
    BY DEF Causal
  <2>1. m # 0 => f[m \div 256] = g[m \div 256] BY <1>2
  <2> QED BY <2>1 DEF DigitsOf
<1>7. Solvable(D, Buffer, B)
  <2> HIDE DEF B, rank, D
  <2> QED BY <1>1, <1>4, <1>5, <1>6, RecursionExists
<1> QED BY <1>7 DEF Solvable

(* A magnitude is a sequence of bytes *)
LEMMA MagnitudeType ==
  ASSUME NEW n \in Int
  PROVE  Magnitude(n) \in Buffer
<1> DEFINE abs == IF n < 0 THEN - n ELSE n
           Rec(f) == [m \in 0 .. abs |-> IF m = 0 THEN <<>> ELSE Cons(m % 256, f[m \div 256])]
           digits == CHOOSE f : f = Rec(f)
<1>1. abs \in Nat OBVIOUS
<1>2. Magnitude(n) = digits[abs] BY DEF Magnitude
<1>3. digits = Rec(digits)
  <2>1. PICK f \in [0 .. abs -> Buffer] : \A m \in 0 .. abs : f[m] = DigitsOf(f, m)
    <3> HIDE DEF abs
    <3> QED BY <1>1, DigitsExist
  <2>2. f = Rec(f) BY <2>1 DEF DigitsOf
  <2> QED BY <2>2
<1>4. \A m \in 0 .. abs : digits[m] = DigitsOf(digits, m)
  <2> HIDE DEF digits
  <2> QED BY <1>3 DEF DigitsOf
<1> HIDE DEF digits
<1> DEFINE Typed == {m \in Nat : m \in 0 .. abs => digits[m] \in Buffer}
<1>5. ASSUME NEW k \in Nat, k \notin Typed, \A j \in Nat : j < k => j \in Typed
      PROVE  FALSE
  <2>1. k \in 0 .. abs /\ digits[k] \notin Buffer BY <1>5
  <2>2. k # 0
    <3>1. <<>> \in Buffer BY DEF Buffer
    <3> QED BY <2>1, <1>4, <3>1 DEF DigitsOf
  <2>3. k \div 256 \in Nat /\ k \div 256 < k /\ k % 256 \in Byte BY <2>2, DigitsShrink
  <2>4. digits[k \div 256] \in Buffer
    <3>1. k \div 256 \in 0 .. abs BY <2>3, <2>1
    <3> QED BY <3>1, <2>3, <1>5
  <2>5. digits[k] \in Buffer
    <3>1. digits[k] = Cons(k % 256, digits[k \div 256]) BY <2>1, <2>2, <1>4 DEF DigitsOf
    <3> QED BY <3>1, <2>3, <2>4, ConsIsSeq DEF Buffer
  <2> QED BY <2>1, <2>5
<1>6. abs \in Typed
  <2> HIDE DEF Typed, abs
  <2> QED BY <1>1, <1>5, LeastMissing
<1> QED BY <1>1, <1>2, <1>6

(* The bytes of a buffer *)
LEMMA BytesOf ==
  ASSUME NEW buf \in Buffer
  PROVE  /\ Len(buf) \in Nat
         /\ buf # <<>> => Len(buf) \in 1 .. Len(buf)
         /\ \A i \in 1 .. Len(buf) : buf[i] \in Int /\ 0 <= buf[i] /\ buf[i] <= 255
<1>1. Len(buf) \in Nat /\ (buf # <<>> => Len(buf) # 0)
  BY EmptySeq, LenProperties DEF Buffer
<1>2. \A i \in 1 .. Len(buf) : buf[i] \in Byte BY ElementOfSeq DEF Buffer
<1>3. \A b \in Byte : b \in Int /\ 0 <= b /\ b <= 255 BY DEF Byte
<1> QED BY <1>1, <1>2, <1>3

(* A number written for the stack is a sequence of bytes *)
LEMMA ToScriptNumType ==
  ASSUME NEW n \in Int
  PROVE  ToScriptNum(n) \in Buffer
<1> DEFINE buf == Magnitude(n)
           sign == IF n < 0 THEN 128 ELSE 0
<1>1. buf \in Buffer BY MagnitudeType
<1>2. sign \in Byte /\ sign \in {0, 128} BY DEF Byte
<1>3. ToScriptNum(n) = IF buf = <<>> THEN buf
                       ELSE IF Last(buf) >= 128 THEN Append(buf, sign)
                       ELSE [buf EXCEPT ![Len(buf)] = @ + sign]
  BY DEF ToScriptNum
<1> HIDE DEF buf, sign
<1>4. CASE buf = <<>> BY <1>4, <1>3, <1>1
<1>5. CASE buf # <<>> /\ Last(buf) >= 128
  <2>1. Append(buf, sign) \in Buffer BY <1>1, <1>2, AppendProperties DEF Buffer
  <2> QED BY <2>1, <1>5, <1>3
<1>6. CASE buf # <<>> /\ ~(Last(buf) >= 128)
  <2>1. Len(buf) \in 1 .. Len(buf) BY <1>1, <1>6, BytesOf
  <2>2. buf[Len(buf)] + sign \in Byte
    <3> DEFINE b == buf[Len(buf)]
    <3>1. b \in Int /\ 0 <= b BY <1>1, <2>1, BytesOf
    <3>2. b < 128
      <4>1. ~(b >= 128) BY <1>6, Zenon DEF Last
      <4> HIDE DEF b
      <4> QED BY <3>1, <4>1
    <3> HIDE DEF b
    <3>3. b + sign \in Byte BY <3>1, <3>2, <1>2 DEF Byte
    <3> QED BY <3>3 DEF b
  <2>3. [buf EXCEPT ![Len(buf)] = buf[Len(buf)] + sign] \in Buffer
    <3> DEFINE e == buf[Len(buf)] + sign
    <3>1. e \in Byte BY <2>2
    <3> HIDE DEF e
    <3>2. [buf EXCEPT ![Len(buf)] = e] \in Buffer BY <3>1, <2>1, <1>1, ExceptSeq DEF Buffer
    <3> QED BY <3>2 DEF e
  <2> QED BY <2>3, <1>6, <1>3
<1> QED BY <1>4, <1>5, <1>6

(* The value of the bytes of buf from i on *)
ValueOf(buf, f, i) == IF i = Len(buf) THEN buf[i] % 128 ELSE buf[i] + 256 * f[i + 1]

LEMMA ValuesExist ==
  ASSUME NEW buf \in Buffer, buf # <<>>
  PROVE  \E f \in [1 .. Len(buf) -> Int] : \A i \in 1 .. Len(buf) : f[i] = ValueOf(buf, f, i)
<1> DEFINE D == 1 .. Len(buf)
           B == [f \in [D -> Int] |-> [i \in D |-> ValueOf(buf, f, i)]]
           rank == [i \in D |-> Len(buf) - i]
<1>1. Len(buf) \in Nat /\ \A i \in D : buf[i] \in Int BY BytesOf
<1>2. \A f \in [D -> Int], i \in D : ValueOf(buf, f, i) \in Int
  <2> TAKE f \in [D -> Int], i \in D
  <2>1. CASE i = Len(buf) BY <2>1, <1>1 DEF ValueOf
  <2>2. CASE i # Len(buf)
    <3>1. f[i + 1] \in Int /\ buf[i] \in Int BY <2>2, <1>1
    <3> QED BY <3>1, <2>2 DEF ValueOf
  <2> QED BY <2>1, <2>2
<1>3. B \in [[D -> Int] -> [D -> Int]] BY <1>2
<1>4. rank \in [D -> 0 .. Len(buf)] BY <1>1
<1>5. Causal(D, Int, rank, B)
  <2> SUFFICES ASSUME NEW f \in [D -> Int], NEW g \in [D -> Int], NEW i \in D,
                      \A j \in D : rank[j] < rank[i] => f[j] = g[j]
               PROVE  B[f][i] = B[g][i]
    BY DEF Causal
  <2>1. i # Len(buf) => f[i + 1] = g[i + 1] BY <1>1
  <2> QED BY <2>1 DEF ValueOf
<1>6. Solvable(D, Int, B)
  <2> HIDE DEF B, rank, D
  <2>1. Int # {} OBVIOUS
  <2> QED BY <1>1, <1>3, <1>4, <1>5, <2>1, RecursionExists
<1> QED BY <1>6 DEF Solvable

(* A buffer read as a number is an integer *)
(* What FromScriptNum returns *)
LEMMA ScriptNumReads ==
  ASSUME NEW buf \in Buffer, buf # <<>>
  PROVE  \E from : /\ FromScriptNum(buf) = IF Last(buf) >= 128 THEN - from[1] ELSE from[1]
                   /\ \A i \in 1 .. Len(buf) : from[i] = ValueOf(buf, from, i)
<1> DEFINE Rec(f) == [i \in 1 .. Len(buf) |->
                        IF i = Len(buf) THEN buf[i] % 128 ELSE buf[i] + 256 * f[i + 1]]
           from == CHOOSE f : f = Rec(f)
<1>1. FromScriptNum(buf) = IF Last(buf) >= 128 THEN - from[1] ELSE from[1]
  BY DEF FromScriptNum
<1>2. from = Rec(from)
  <2>1. PICK f \in [1 .. Len(buf) -> Int] : \A i \in 1 .. Len(buf) : f[i] = ValueOf(buf, f, i)
    BY ValuesExist
  <2>2. f = Rec(f) BY <2>1 DEF ValueOf
  <2>3. \E g : g = Rec(g) BY <2>2
  <2> HIDE DEF Rec
  <2> QED BY <2>3, Zenon
<1>3. \A i \in 1 .. Len(buf) : from[i] = ValueOf(buf, from, i)
  <2> HIDE DEF from
  <2> QED BY <1>2 DEF ValueOf
<1> HIDE DEF from
<1> QED BY <1>1, <1>3

(* The bytes of buf from i on are zero, but for the sign *)
ZeroFrom(buf, i) ==
  \A j \in i .. Len(buf) : buf[j] = 0 \/ (j = Len(buf) /\ buf[j] = 128)

LEMMA ByteWithoutSign ==
  ASSUME NEW byte \in 0 .. 255, NEW rest \in Nat
  PROVE  /\ byte % 128 \in Nat /\ (byte % 128 = 0 <=> byte = 0 \/ byte = 128)
         /\ byte + 256 * rest \in Nat /\ (byte + 256 * rest = 0 <=> byte = 0 /\ rest = 0)
<1>1. CASE byte < 128 BY <1>1
<1>2. CASE byte >= 128
  <2>1. byte % 128 = byte - 128 BY <1>2
  <2> QED BY <2>1, <1>2
<1> QED BY <1>1, <1>2

(* The magnitude that FromScriptNum reads is 0 only when the bytes are. *)
LEMMA ValuesAreNat ==
  ASSUME NEW buf \in Buffer, buf # <<>>,
         NEW from, \A i \in 1 .. Len(buf) : from[i] = ValueOf(buf, from, i)
  PROVE  from[1] \in Nat /\ (from[1] = 0 <=> ZeroFrom(buf, 1))
<1>1. Len(buf) \in Nat /\ Len(buf) # 0 /\ \A i \in 1 .. Len(buf) : buf[i] \in 0 .. 255
  <2>1. Len(buf) \in Nat /\ Len(buf) # 0 BY BytesOf
  <2>2. \A i \in 1 .. Len(buf) : buf[i] \in 0 .. 255 BY ElementOfSeq DEF Buffer, Byte
  <2> QED BY <2>1, <2>2
<1> DEFINE Good(i) == from[i] \in Nat /\ (from[i] = 0 <=> ZeroFrom(buf, i))
           Typed == {k \in Nat : k < Len(buf) => Good(Len(buf) - k)}
<1>2. Good(Len(buf))
  <2>1. Len(buf) \in 1 .. Len(buf) BY <1>1
  <2>2. from[Len(buf)] = buf[Len(buf)] % 128 BY <2>1 DEF ValueOf
  <2>3. buf[Len(buf)] \in 0 .. 255 BY <1>1, <2>1
  <2>4. ZeroFrom(buf, Len(buf)) <=> buf[Len(buf)] = 0 \/ buf[Len(buf)] = 128
    BY <1>1 DEF ZeroFrom
  <2> DEFINE byte == buf[Len(buf)]
  <2> HIDE DEF byte
  <2>5. from[Len(buf)] = byte % 128 /\ byte \in 0 .. 255 BY <2>2, <2>3 DEF byte
  <2>6. byte % 128 \in Nat /\ (byte % 128 = 0 <=> byte = 0 \/ byte = 128)
    BY <2>5, ByteWithoutSign, 0 \in Nat
  <2> QED BY <2>4, <2>5, <2>6, Zenon DEF byte
<1>3. ASSUME NEW i \in 1 .. Len(buf), i # Len(buf), Good(i + 1) PROVE Good(i)
  <2>1. from[i] = buf[i] + 256 * from[i + 1] BY <1>3 DEF ValueOf
  <2>2. buf[i] \in 0 .. 255 /\ i < Len(buf) BY <1>1, <1>3
  <2>3. ZeroFrom(buf, i) <=> buf[i] = 0 /\ ZeroFrom(buf, i + 1)
    <3>1. ASSUME ZeroFrom(buf, i) PROVE buf[i] = 0 /\ ZeroFrom(buf, i + 1)
      BY <3>1, <2>2, <1>1 DEF ZeroFrom
    <3>2. ASSUME buf[i] = 0, ZeroFrom(buf, i + 1) PROVE ZeroFrom(buf, i)
      <4>1. \A j \in i .. Len(buf) : j = i \/ j \in i + 1 .. Len(buf) BY <1>1
      <4> QED BY <3>2, <4>1 DEF ZeroFrom
    <3> QED BY <3>1, <3>2
  <2>4. from[i + 1] \in Nat BY <1>3
  <2>5. from[i] \in Nat /\ (from[i] = 0 <=> buf[i] = 0 /\ from[i + 1] = 0)
    <3>1. /\ buf[i] + 256 * from[i + 1] \in Nat
          /\ buf[i] + 256 * from[i + 1] = 0 <=> buf[i] = 0 /\ from[i + 1] = 0
      <4> DEFINE byte == buf[i]
                 rest == from[i + 1]
      <4>1. byte \in 0 .. 255 /\ rest \in Nat BY <2>2, <2>4
      <4> HIDE DEF byte, rest
      <4>2. byte + 256 * rest \in Nat /\ (byte + 256 * rest = 0 <=> byte = 0 /\ rest = 0)
        BY <4>1, ByteWithoutSign
      <4> QED BY <4>2, Zenon DEF byte, rest
    <3> QED BY <2>1, <3>1, Zenon
  <2> QED BY <1>3, <2>3, <2>5
<1> HIDE DEF Good
<1>4. ASSUME NEW k \in Nat, k \notin Typed, \A j \in Nat : j < k => j \in Typed
      PROVE  FALSE
  <2>1. k < Len(buf) /\ ~Good(Len(buf) - k) BY <1>4
  <2>2. k # 0
    <3>1. Len(buf) - 0 = Len(buf) BY <1>1
    <3> QED BY <2>1, <3>1, <1>2
  <2>3. k - 1 \in Nat /\ k - 1 < k /\ Len(buf) - (k - 1) = Len(buf) - k + 1 BY <2>2, <1>1
  <2>4. Good(Len(buf) - k + 1)
    <3>1. k - 1 \in Typed
      <4> HIDE DEF Typed
      <4> QED BY <2>3, <1>4
    <3>2. k - 1 < Len(buf) BY <2>1, <2>3, <1>1
    <3>3. Good(Len(buf) - (k - 1)) BY <3>1, <3>2
    <3> QED BY <3>3, <2>3
  <2>5. Len(buf) - k \in 1 .. Len(buf) /\ Len(buf) - k # Len(buf) BY <2>1, <2>2, <1>1
  <2> DEFINE i == Len(buf) - k
  <2> HIDE DEF i
  <2>6. i \in 1 .. Len(buf) /\ i # Len(buf) /\ Good(i + 1) BY <2>4, <2>5 DEF i
  <2>7. Good(i) BY <2>6, <1>3
  <2> QED BY <2>7, <2>1 DEF i
<1>5. Len(buf) - 1 \in Typed
  <2> HIDE DEF Typed
  <2>1. Len(buf) - 1 \in Nat BY <1>1
  <2> QED BY <2>1, <1>4, LeastMissing
<1>6. Good(1)
  <2>1. Len(buf) - 1 < Len(buf) /\ Len(buf) - (Len(buf) - 1) = 1 BY <1>1
  <2> QED BY <1>5, <2>1
<1> QED BY <1>6 DEF Good

LEMMA FromScriptNumType ==
  ASSUME NEW buf \in Buffer
  PROVE  FromScriptNum(buf) \in Int
<1>1. CASE buf = <<>> BY <1>1 DEF FromScriptNum
<1>2. CASE buf # <<>>
  <2>1. PICK from : /\ FromScriptNum(buf) = IF Last(buf) >= 128 THEN - from[1] ELSE from[1]
                    /\ \A i \in 1 .. Len(buf) : from[i] = ValueOf(buf, from, i)
    BY <1>2, ScriptNumReads
  <2>2. from[1] \in Nat BY <1>2, <2>1, ValuesAreNat
  <2>3. FromScriptNum(buf) = from[1] \/ FromScriptNum(buf) = - from[1] BY <2>1
  <2> QED BY <2>2, <2>3
<1> QED BY <1>1, <1>2

(* castToBool looks at the bytes, and finds false exactly the buffers that are  *)
(* the number 0, negative zero of any length among them.                       *)
THEOREM CastToBoolIsTruth ==
  ASSUME NEW buf \in Buffer
  PROVE  CastToBool(buf) <=> Truth(buf)
<1>1. Len(buf) \in Nat /\ DOMAIN buf = 1 .. Len(buf) BY LenProperties DEF Buffer
<1>2. CastToBool(buf) <=> ~ZeroFrom(buf, 1)
  <2>1. ASSUME CastToBool(buf) PROVE ~ZeroFrom(buf, 1)
    <3>1. PICK i \in DOMAIN buf : buf[i] # 0 /\ ~(i = Len(buf) /\ buf[i] = 128)
      BY <2>1, Zenon DEF CastToBool
    <3>2. i \in 1 .. Len(buf) BY <3>1, <1>1, Zenon
    <3> QED BY <3>1, <3>2, ZenonT(60) DEF ZeroFrom
  <2>2. ASSUME ~ZeroFrom(buf, 1) PROVE CastToBool(buf)
    <3>1. PICK i \in 1 .. Len(buf) : ~(buf[i] = 0 \/ (i = Len(buf) /\ buf[i] = 128))
      BY <2>2, ZenonT(60) DEF ZeroFrom
    <3>2. i \in DOMAIN buf BY <3>1, <1>1, Zenon
    <3> QED BY <3>1, <3>2, ZenonT(60) DEF CastToBool
  <2> QED BY <2>1, <2>2
<1>3. CASE buf = <<>> BY <1>1, <1>2, <1>3 DEF Truth, FromScriptNum, ZeroFrom
<1>4. CASE buf # <<>>
  <2>1. PICK from : /\ FromScriptNum(buf) = IF Last(buf) >= 128 THEN - from[1] ELSE from[1]
                    /\ \A i \in 1 .. Len(buf) : from[i] = ValueOf(buf, from, i)
    BY <1>4, ScriptNumReads
  <2>2. from[1] \in Nat /\ (from[1] = 0 <=> ZeroFrom(buf, 1)) BY <1>4, <2>1, ValuesAreNat
  <2>3. FromScriptNum(buf) = from[1] \/ FromScriptNum(buf) = - from[1] BY <2>1
  <2>4. FromScriptNum(buf) = 0 <=> from[1] = 0 BY <2>2, <2>3
  <2> QED BY <1>2, <2>2, <2>4 DEF Truth
<1> QED BY <1>3, <1>4

-----------------------------------------------------------------------------
(* Scripts read from a buffer *)

LEMMA OpIsChunk ==
  ASSUME NEW num \in Byte
  PROVE  Op(num) \in Chunk
<1>1. [op |-> num] \in [op : Byte] OBVIOUS
<1> QED BY <1>1 DEF Op, Chunk

LEMMA PushIsChunk ==
  ASSUME NEW num \in Byte, NEW len \in Nat, NEW buf \in Buffer
  PROVE  [op |-> num, len |-> len, buf |-> buf] \in Chunk
<1>1. [op |-> num, len |-> len, buf |-> buf] \in [op : Byte, buf : Seq(Byte), len : Nat]
  BY DEF Buffer
<1> QED BY <1>1 DEF Chunk

LEMMA ReadLengthType ==
  ASSUME NEW buffer \in Buffer, NEW p \in Nat, NEW n \in Nat, p + n <= Len(buffer)
  PROVE  ReadLength(buffer, p, n) \in Nat
<1> DEFINE byte(i) == IF i <= n THEN buffer[p + i] ELSE 0
<1>1. ASSUME NEW i \in 1 .. 4 PROVE byte(i) \in Nat
  <2>1. CASE i <= n
    <3>1. p + i \in 1 .. Len(buffer) BY <2>1, BytesOf
    <3>2. buffer[p + i] \in Nat BY <3>1, BytesOf
    <3> QED BY <3>2, <2>1
  <2>2. CASE ~(i <= n) BY <2>2
  <2> QED BY <2>1, <2>2
<1>2. byte(1) \in Nat /\ byte(2) \in Nat /\ byte(3) \in Nat /\ byte(4) \in Nat
  BY <1>1, 1 \in 1 .. 4, 2 \in 1 .. 4, 3 \in 1 .. 4, 4 \in 1 .. 4
<1>3. ReadLength(buffer, p, n) = byte(1) + 256 * (byte(2) + 256 * (byte(3) + 256 * byte(4)))
  BY DEF ReadLength
<1> DEFINE a == byte(1)
           b == byte(2)
           c == byte(3)
           d == byte(4)
<1>4. ReadLength(buffer, p, n) = a + 256 * (b + 256 * (c + 256 * d)) BY <1>3
<1>5. a \in Nat /\ b \in Nat /\ c \in Nat /\ d \in Nat BY <1>2
<1> HIDE DEF a, b, c, d
<1> QED BY <1>4, <1>5

(* A chunk that is read is a chunk, and the next one is behind it. *)
LEMMA ReadChunkType ==
  ASSUME NEW buffer \in Buffer, NEW p \in 1 .. Len(buffer),
         ReadChunk(buffer, p).next # 0
  PROVE  /\ ReadChunk(buffer, p).chunk \in Chunk
         /\ ReadChunk(buffer, p).next \in Nat
         /\ ReadChunk(buffer, p).next > p
<1> DEFINE num == buffer[p]
           n == LengthBytes(num)
           len == IF n = 0 THEN num ELSE ReadLength(buffer, p, n)
           end == p + n + len
           last == IF end < Len(buffer) THEN end ELSE Len(buffer)
           data == SubSeq(buffer, p + n + 1, last)
<1>1. num \in Byte /\ num \in Nat
  <2>1. buffer[p] \in Byte BY ElementOfSeq DEF Buffer
  <2>2. \A b \in Byte : b \in Nat BY DEF Byte
  <2> QED BY <2>1, <2>2
<1>2. n \in Nat BY Zenon DEF LengthBytes
<1>3. ReadChunk(buffer, p) =
        IF p + n > Len(buffer) THEN [chunk |-> Op(num), next |-> 0]
        ELSE IF num \notin 1 .. Opcode.OP_PUSHDATA4 THEN [chunk |-> Op(num), next |-> p + 1]
        ELSE [chunk |-> [op |-> num, len |-> len, buf |-> data], next |-> end + 1]
  BY Zenon DEF ReadChunk
<1>4. Len(buffer) \in Nat /\ p \in Nat BY BytesOf
<1> HIDE DEF num, n
<1>5. ~(p + n > Len(buffer))
  <2> HIDE DEF len, end, data
  <2> QED BY <1>3
<1>6. len \in Nat BY <1>1, <1>2, <1>4, <1>5, ReadLengthType
<1>7. end \in Nat /\ end + 1 > p
  <2> HIDE DEF len
  <2> QED BY <1>2, <1>4, <1>6
<1>8. data \in Buffer
  <2> HIDE DEF end
  <2>1. p + n + 1 \in Int /\ last \in Int BY <1>2, <1>4, <1>7
  <2>2. ASSUME NEW i \in p + n + 1 .. last PROVE buffer[i] \in Byte
    <3>1. i \in 1 .. Len(buffer) BY <1>2, <1>4, <1>7
    <3> QED BY <3>1, ElementOfSeq DEF Buffer
  <2> HIDE DEF last
  <2> QED BY <2>1, <2>2, SubSeqProperties DEF Buffer
<1> HIDE DEF len, end, data
<1>9. CASE num \notin 1 .. Opcode.OP_PUSHDATA4
  <2>1. ReadChunk(buffer, p) = [chunk |-> Op(num), next |-> p + 1] BY <1>3, <1>5, <1>9
  <2>2. Op(num) \in Chunk BY <1>1, OpIsChunk
  <2> QED BY <2>1, <2>2, <1>4
<1>10. CASE num \in 1 .. Opcode.OP_PUSHDATA4
  <2> DEFINE c == [op |-> num, len |-> len, buf |-> data]
  <2>1. ReadChunk(buffer, p) = [chunk |-> c, next |-> end + 1] BY <1>3, <1>5, <1>10
  <2>2. c \in Chunk BY <1>1, <1>6, <1>8, PushIsChunk
  <2> HIDE DEF c
  <2> QED BY <2>1, <2>2, <1>7
<1> QED BY <1>9, <1>10

(* What is read from place p on, from the functions that satisfy the recursion *)
Reading == [ok : BOOLEAN, chunks : Seq(Chunk)]
ReadFrom(buffer, f, p) ==
  IF p > Len(buffer) THEN [ok |-> TRUE, chunks |-> <<>>]
  ELSE IF ReadChunk(buffer, p).next = 0 THEN [ok |-> FALSE, chunks |-> <<>>]
  ELSE [ok |-> f[ReadChunk(buffer, p).next].ok,
        chunks |-> Cons(ReadChunk(buffer, p).chunk, f[ReadChunk(buffer, p).next].chunks)]

LEMMA ReadFromType ==
  ASSUME NEW buffer \in Buffer, NEW f, NEW p \in Nat \ {0},
         p <= Len(buffer) /\ ReadChunk(buffer, p).next # 0
           => f[ReadChunk(buffer, p).next] \in Reading
  PROVE  ReadFrom(buffer, f, p) \in Reading
<1> DEFINE read == ReadChunk(buffer, p)
<1>1. <<>> \in Seq(Chunk) OBVIOUS
<1>2. CASE p > Len(buffer) BY <1>1, <1>2 DEF ReadFrom, Reading
<1>3. CASE ~(p > Len(buffer)) /\ read.next = 0 BY <1>1, <1>3 DEF ReadFrom, Reading
<1>4. CASE ~(p > Len(buffer)) /\ read.next # 0
  <2> DEFINE rest == f[read.next]
  <2>1. p \in 1 .. Len(buffer) /\ p <= Len(buffer) BY <1>4, BytesOf
  <2>2. rest \in Reading BY <1>4, <2>1
  <2>3. read.chunk \in Chunk BY <1>4, <2>1, ReadChunkType
  <2>4. ReadFrom(buffer, f, p) = [ok |-> rest.ok, chunks |-> Cons(read.chunk, rest.chunks)]
    BY <1>4 DEF ReadFrom
  <2> HIDE DEF read, rest
  <2>5. Cons(read.chunk, rest.chunks) \in Seq(Chunk) BY <2>2, <2>3, ConsIsSeq DEF Reading
  <2> QED BY <2>2, <2>4, <2>5 DEF Reading
<1> QED BY <1>2, <1>3, <1>4

LEMMA ReadingsExist ==
  ASSUME NEW buffer \in Buffer
  PROVE  \E f \in [Nat \ {0} -> Reading] : \A p \in Nat \ {0} : f[p] = ReadFrom(buffer, f, p)
<1> DEFINE D == Nat \ {0}
           B == [f \in [D -> Reading] |-> [p \in D |-> ReadFrom(buffer, f, p)]]
           rank == [p \in D |-> IF p > Len(buffer) THEN 0 ELSE Len(buffer) + 1 - p]
<1>1. Len(buffer) \in Nat BY BytesOf
<1>2. \A p \in D : p <= Len(buffer) /\ ReadChunk(buffer, p).next # 0
                     => ReadChunk(buffer, p).next \in D /\ ReadChunk(buffer, p).next > p
  <2> TAKE p \in D
  <2> HAVE p <= Len(buffer) /\ ReadChunk(buffer, p).next # 0
  <2>1. p \in 1 .. Len(buffer) BY <1>1
  <2> QED BY <2>1, ReadChunkType
<1>3. \A f \in [D -> Reading], p \in D : ReadFrom(buffer, f, p) \in Reading
  <2> TAKE f \in [D -> Reading], p \in D
  <2>1. p <= Len(buffer) /\ ReadChunk(buffer, p).next # 0
          => f[ReadChunk(buffer, p).next] \in Reading
    BY <1>2
  <2> QED BY <2>1, ReadFromType
<1>4. B \in [[D -> Reading] -> [D -> Reading]] BY <1>3
<1>5. rank \in [D -> 0 .. Len(buffer)] BY <1>1
<1>6. Causal(D, Reading, rank, B)
  <2> SUFFICES ASSUME NEW f \in [D -> Reading], NEW g \in [D -> Reading], NEW p \in D,
                      \A q \in D : rank[q] < rank[p] => f[q] = g[q]
               PROVE  B[f][p] = B[g][p]
    BY DEF Causal
  <2>1. CASE p <= Len(buffer) /\ ReadChunk(buffer, p).next # 0
    <3>1. rank[ReadChunk(buffer, p).next] < rank[p] BY <2>1, <1>1, <1>2
    <3>2. f[ReadChunk(buffer, p).next] = g[ReadChunk(buffer, p).next] BY <3>1, <2>1, <1>2
    <3> QED BY <3>2 DEF ReadFrom
  <2>2. CASE ~(p <= Len(buffer) /\ ReadChunk(buffer, p).next # 0)
    <3>1. p > Len(buffer) \/ ReadChunk(buffer, p).next = 0 BY <2>2, <1>1
    <3> QED BY <3>1 DEF ReadFrom
  <2> QED BY <2>1, <2>2
<1>7. Solvable(D, Reading, B)
  <2> HIDE DEF B, rank, D
  <2>1. Reading # {}
    <3>1. [ok |-> TRUE, chunks |-> <<>>] \in Reading BY DEF Reading
    <3> QED BY <3>1, Zenon
  <2> QED BY <1>1, <1>4, <1>5, <1>6, <2>1, RecursionExists, Zenon
<1> QED BY <1>7 DEF Solvable

(* The recursion of fromBuffer *)
LEMMA FromBufferRecursion ==
  ASSUME NEW buffer \in Buffer
  PROVE  \E from : /\ FromBuffer(buffer) = from[1]
                   /\ \A p \in Nat \ {0} : from[p] = ReadFrom(buffer, from, p)
<1> DEFINE Rec(f) == [p \in Nat \ {0} |->
                        IF p > Len(buffer) THEN [ok |-> TRUE, chunks |-> <<>>]
                        ELSE LET read == ReadChunk(buffer, p)
                                 rest == f[read.next]
                             IN  IF read.next = 0 THEN [ok |-> FALSE, chunks |-> <<>>]
                                 ELSE [ok |-> rest.ok, chunks |-> Cons(read.chunk, rest.chunks)]]
           from == CHOOSE f : f = Rec(f)
<1>1. FromBuffer(buffer) = from[1] BY DEF FromBuffer
<1>2. from = Rec(from)
  <2>1. PICK f \in [Nat \ {0} -> Reading] :
               \A p \in Nat \ {0} : f[p] = ReadFrom(buffer, f, p)
    BY ReadingsExist
  <2>2. f = Rec(f) BY <2>1 DEF ReadFrom
  <2>3. \E g : g = Rec(g) BY <2>2
  <2> HIDE DEF Rec
  <2> QED BY <2>3, Zenon
<1>3. \A p \in Nat \ {0} : from[p] = ReadFrom(buffer, from, p)
  <2> HIDE DEF from
  <2> QED BY <1>2 DEF ReadFrom
<1> HIDE DEF from
<1> QED BY <1>1, <1>3

(* A redeem script is a sequence of chunks, also when it is cut off. *)
LEMMA FromBufferType ==
  ASSUME NEW buffer \in Buffer
  PROVE  FromBuffer(buffer) \in Reading
<1>1. PICK from : /\ FromBuffer(buffer) = from[1]
                  /\ \A p \in Nat \ {0} : from[p] = ReadFrom(buffer, from, p)
  BY FromBufferRecursion
<1>2. Len(buffer) \in Nat BY BytesOf
<1> DEFINE Place(k) == Len(buffer) + 1 - k
           Typed == {k \in Nat : \A p \in Nat \ {0} : p >= Place(k) => from[p] \in Reading}
<1>3. ASSUME NEW k \in Nat, k \notin Typed, \A j \in Nat : j < k => j \in Typed
      PROVE  FALSE
  <2>1. PICK p \in Nat \ {0} : p >= Place(k) /\ from[p] \notin Reading BY <1>3
  <2>2. p <= Len(buffer) /\ ReadChunk(buffer, p).next # 0
          /\ from[ReadChunk(buffer, p).next] \notin Reading
    BY <2>1, <1>1, ReadFromType
  <2> DEFINE next == ReadChunk(buffer, p).next
  <2>3. next \in Nat \ {0} /\ next > p
    <3>1. p \in 1 .. Len(buffer) BY <2>2, <1>2
    <3> QED BY <3>1, <2>2, ReadChunkType
  <2>4. k # 0 BY <2>1, <2>2, <1>2
  <2>5. k - 1 \in Typed
    <3>1. k - 1 \in Nat /\ k - 1 < k BY <2>4
    <3> HIDE DEF Typed
    <3> QED BY <3>1, <1>3
  <2>6. next >= Place(k - 1) BY <2>1, <2>3, <2>4, <1>2
  <2> HIDE DEF next, Place
  <2>7. from[next] \in Reading BY <2>3, <2>5, <2>6
  <2> QED BY <2>7, <2>2 DEF next
<1>4. Len(buffer) \in Typed
  <2> HIDE DEF Typed
  <2> QED BY <1>2, <1>3, LeastMissing
<1>5. from[1] \in Reading
  <2>1. Len(buffer) + 1 - Len(buffer) = 1 /\ 1 \in Nat \ {0} /\ 1 >= 1 BY <1>2
  <2> QED BY <1>4, <2>1
<1> QED BY <1>1, <1>5

-----------------------------------------------------------------------------
(* The machine *)

(* The types of the fields; pc may lie behind the end of the script when the *)
(* object is used again.                                                     *)
Machines(err, tx) ==
  [script : Seq(Chunk), stack : Stack, altstack : Stack, pc : Nat, pbegincodehash : Nat,
   nOpCount : Nat, vfExec : Seq(BOOLEAN), errstr : {err}, flags : SUBSET Flags, tx : {tx}]
Machine(m) == m \in Machines(m.errstr, m.tx)

(* What the branch of an opcode may do to the machine: it stays in place, and *)
(* counts no more operations than are allowed unless it fails.                *)
Runs(m, n) ==
  /\ Machine(n)
  /\ n.script = m.script /\ n.pc = m.pc
  /\ n.pbegincodehash \in {m.pbegincodehash, m.pc}
  /\ n.nOpCount >= m.nOpCount
  /\ m.nOpCount <= MAX_OPS => n.nOpCount <= MAX_OPS \/ n.errstr # ""

LEMMA MachineFields ==
  ASSUME NEW m, Machine(m)
  PROVE  /\ m.script \in Seq(Chunk) /\ m.stack \in Stack /\ m.altstack \in Stack
         /\ m.pc \in Nat /\ m.pbegincodehash \in Nat /\ m.nOpCount \in Nat
         /\ m.vfExec \in Seq(BOOLEAN) /\ m.flags \subseteq Flags
BY DEF Machine, Machines

LEMMA RunsItself ==
  ASSUME NEW m, Machine(m)
  PROVE  Runs(m, m)
<1>1. m.nOpCount \in Nat BY MachineFields
<1>2. m.nOpCount >= m.nOpCount BY <1>1
<1> QED BY <1>2 DEF Runs

LEMMA Failing ==
  ASSUME NEW m, Machine(m), NEW n, Runs(m, n), NEW e,
         e # "" \/ n.nOpCount <= MAX_OPS \/ n.nOpCount = m.nOpCount
  PROVE  Runs(m, Fail(n, e))
<1> DEFINE k == Fail(n, e)
<1>1. n \in Machines(n.errstr, n.tx) BY DEF Runs, Machine
<1>2. k \in Machines(e, n.tx) /\ k.errstr = e /\ k.tx = n.tx
  BY <1>1 DEF Machines, Fail
<1>3. /\ k.script = n.script /\ k.pc = n.pc
      /\ k.pbegincodehash = n.pbegincodehash /\ k.nOpCount = n.nOpCount
  BY <1>1 DEF Machines, Fail
<1> HIDE DEF k
<1>4. Machine(k) BY <1>2 DEF Machine
<1> QED BY <1>2, <1>3, <1>4 DEF Runs, k

LEMMA Refusing ==
  ASSUME NEW m, Machine(m), NEW e
  PROVE  Runs(m, Fail(m, e)) /\ Runs(m, Throw(m))
BY RunsItself, Failing DEF Throw

LEMMA Stacking ==
  ASSUME NEW m, Machine(m), NEW n, Runs(m, n), NEW s \in Stack
  PROVE  /\ Runs(m, [n EXCEPT !.stack = s])
         /\ [n EXCEPT !.stack = s].stack = s
         /\ [n EXCEPT !.stack = s].altstack = n.altstack
         /\ [n EXCEPT !.stack = s].nOpCount = n.nOpCount
<1> DEFINE k == [n EXCEPT !.stack = s]
<1>1. n \in Machines(n.errstr, n.tx) BY DEF Runs, Machine
<1>2. k \in Machines(n.errstr, n.tx) BY <1>1 DEF Machines
<1>3. k.errstr = n.errstr /\ k.tx = n.tx /\ k.script = n.script BY <1>1 DEF Machines
<1>4. /\ k.pc = n.pc /\ k.pbegincodehash = n.pbegincodehash
      /\ k.nOpCount = n.nOpCount
  BY <1>1 DEF Machines
<1>6. k.stack = s /\ k.altstack = n.altstack BY <1>1 DEF Machines
<1> HIDE DEF k
<1>5. Runs(m, k) BY <1>2, <1>3, <1>4 DEF Runs, Machine
<1> QED BY <1>4, <1>5, <1>6 DEF k

LEMMA AltStacking ==
  ASSUME NEW m, Machine(m), NEW n, Runs(m, n), NEW s \in Stack
  PROVE  Runs(m, [n EXCEPT !.altstack = s])
<1> DEFINE k == [n EXCEPT !.altstack = s]
<1>1. n \in Machines(n.errstr, n.tx) BY DEF Runs, Machine
<1>2. k \in Machines(n.errstr, n.tx) BY <1>1 DEF Machines
<1>3. k.errstr = n.errstr /\ k.tx = n.tx /\ k.script = n.script BY <1>1 DEF Machines
<1>4. /\ k.pc = n.pc /\ k.pbegincodehash = n.pbegincodehash
      /\ k.nOpCount = n.nOpCount
  BY <1>1 DEF Machines
<1> HIDE DEF k
<1>5. Runs(m, k) BY <1>2, <1>3, <1>4 DEF Runs, Machine
<1> QED BY <1>5 DEF k

LEMMA Nesting ==
  ASSUME NEW m, Machine(m), NEW n, Runs(m, n), NEW s \in Seq(BOOLEAN)
  PROVE  Runs(m, [n EXCEPT !.vfExec = s])
<1> DEFINE k == [n EXCEPT !.vfExec = s]
<1>1. n \in Machines(n.errstr, n.tx) BY DEF Runs, Machine
<1>2. k \in Machines(n.errstr, n.tx) BY <1>1 DEF Machines
<1>3. k.errstr = n.errstr /\ k.tx = n.tx /\ k.script = n.script BY <1>1 DEF Machines
<1>4. /\ k.pc = n.pc /\ k.pbegincodehash = n.pbegincodehash
      /\ k.nOpCount = n.nOpCount
  BY <1>1 DEF Machines
<1> HIDE DEF k
<1>5. Runs(m, k) BY <1>2, <1>3, <1>4 DEF Runs, Machine
<1> QED BY <1>5 DEF k

(* The elements of the stack, from the uppermost *)
LEMMA TopType ==
  ASSUME NEW m, Machine(m), NEW i \in Nat \ {0}, Has(m, i)
  PROVE  Top(m, i) \in Buffer
<1>1. m.stack \in Seq(Buffer) /\ Len(m.stack) \in Nat BY LenProperties, MachineFields DEF Stack
<1>2. Len(m.stack) + 1 - i \in 1 .. Len(m.stack) BY <1>1 DEF Has
<1> QED BY <1>1, <1>2, ElementOfSeq DEF Top

(* Elements taken from the stack and others put there *)
LEMMA Replacing ==
  ASSUME NEW m, Machine(m), NEW n, Runs(m, n), NEW i \in Nat, Has(n, i), NEW bufs \in Stack
  PROVE  /\ Runs(m, Replace(n, i, bufs))
         /\ Replace(n, i, bufs).stack = Below(n, i) \o bufs
         /\ Replace(n, i, bufs).altstack = n.altstack
         /\ Replace(n, i, bufs).nOpCount = n.nOpCount
<1>1. n.stack \in Seq(Buffer) /\ Len(n.stack) \in Nat
  BY LenProperties, MachineFields DEF Runs, Stack
<1>2. Below(n, i) \in Seq(Buffer)
  <2>1. \A j \in 1 .. Len(n.stack) - i : n.stack[j] \in Buffer
    <3> TAKE j \in 1 .. Len(n.stack) - i
    <3>1. j \in 1 .. Len(n.stack) BY <1>1
    <3> QED BY <3>1, <1>1, ElementOfSeq
  <2>2. 1 \in Int /\ Len(n.stack) - i \in Int BY <1>1
  <2> QED BY <2>1, <2>2, SubSeqProperties DEF Below
<1>3. Below(n, i) \o bufs \in Stack BY <1>2, ConcatProperties DEF Stack
<1> QED BY <1>3, Stacking DEF Replace

(* Elements of the machine's own stack replaced *)
LEMMA Pushing ==
  ASSUME NEW m, Machine(m), NEW i \in Nat, Has(m, i), NEW bufs \in Stack
  PROVE  /\ Runs(m, Replace(m, i, bufs))
         /\ Replace(m, i, bufs).stack = Below(m, i) \o bufs
         /\ Replace(m, i, bufs).altstack = m.altstack
         /\ Replace(m, i, bufs).nOpCount = m.nOpCount
BY RunsItself, Replacing

LEMMA HasNone == ASSUME NEW m, Machine(m) PROVE Has(m, 0)
<1>1. Len(m.stack) \in Nat BY MachineFields, LenProperties DEF Stack
<1> QED BY <1>1 DEF Has

LEMMA Singles ==
  /\ <<>> \in Stack
  /\ \A buf \in Buffer : <<buf>> \in Stack
  /\ TRUEBUF \in Buffer /\ FALSEBUF \in Buffer
  /\ \A b : ToBool(b) \in Buffer
<1>1. 1 \in Byte BY DEF Byte
<1>2. TRUEBUF \in Buffer /\ FALSEBUF \in Buffer BY <1>1 DEF TRUEBUF, FALSEBUF, Buffer
<1>3. \A b : ToBool(b) \in Buffer BY <1>2 DEF ToBool
<1>4. <<>> \in Stack /\ \A buf \in Buffer : <<buf>> \in Stack BY DEF Stack
<1> QED BY <1>2, <1>3, <1>4

LEMMA NumberType ==
  ASSUME NEW m, Machine(m), NEW i \in Nat \ {0}, Has(m, i)
  PROVE  Number(m, i) \in Int
BY TopType, FromScriptNumType DEF Number

-----------------------------------------------------------------------------
(* The opcodes that move the stack *)

LEMMA AltStackRuns ==
  ASSUME NEW m, Machine(m)
  PROVE  Runs(m, ToAltStack(m)) /\ Runs(m, FromAltStack(m))
<1>1. Runs(m, ToAltStack(m))
  <2>1. CASE ~Has(m, 1) BY <2>1, Refusing DEF ToAltStack
  <2>2. CASE Has(m, 1)
    <3> DEFINE k == Replace(m, 1, <<>>)
               s == Append(k.altstack, Top(m, 1))
    <3>1. Runs(m, k) /\ k.altstack = m.altstack BY <2>2, Pushing, Singles
    <3>2. Top(m, 1) \in Buffer BY <2>2, TopType
    <3>3. s \in Stack BY <3>1, <3>2, MachineFields, AppendProperties DEF Stack
    <3>4. ToAltStack(m) = [k EXCEPT !.altstack = s] BY <2>2 DEF ToAltStack
    <3> HIDE DEF k, s
    <3> QED BY <3>1, <3>3, <3>4, AltStacking
  <2> QED BY <2>1, <2>2
<1>2. Runs(m, FromAltStack(m))
  <2>1. CASE m.altstack = <<>> BY <2>1, Refusing DEF FromAltStack
  <2>2. CASE m.altstack # <<>>
    <3> DEFINE s == Append(m.stack, Last(m.altstack))
               a == Front(m.altstack)
               k == [m EXCEPT !.stack = s]
    <3>1. m.altstack \in Seq(Buffer) /\ m.stack \in Seq(Buffer) BY MachineFields DEF Stack
    <3>2. Len(m.altstack) \in 1 .. Len(m.altstack) BY <2>2, <3>1, EmptySeq
    <3>3. Last(m.altstack) \in Buffer BY <3>1, <3>2, ElementOfSeq DEF Last
    <3>4. s \in Stack BY <3>1, <3>3, AppendProperties DEF Stack
    <3>5. a \in Stack
      <4>1. Len(m.altstack) - 1 \in Int BY <3>2
      <4>2. \A i \in 1 .. Len(m.altstack) - 1 : m.altstack[i] \in Buffer
        <5> TAKE i \in 1 .. Len(m.altstack) - 1
        <5>1. i \in 1 .. Len(m.altstack) BY <3>2
        <5> QED BY <5>1, <3>1, ElementOfSeq
      <4> QED BY <4>1, <4>2, SubSeqProperties DEF Front, Stack
    <3>6. FromAltStack(m) = [k EXCEPT !.altstack = a]
      <4>1. FromAltStack(m) = [m EXCEPT !.stack = s, !.altstack = a]
        BY <2>2 DEF FromAltStack
      <4> HIDE DEF s, a
      <4>2. m \in Machines(m.errstr, m.tx) BY DEF Machine
      <4>3. [m EXCEPT !.stack = s, !.altstack = a] = [k EXCEPT !.altstack = a]
        BY <4>2 DEF Machines
      <4> QED BY <4>1, <4>3
    <3> HIDE DEF s, a
    <3>7. Runs(m, k) BY <3>4, RunsItself, Stacking
    <3> HIDE DEF k
    <3> QED BY <3>5, <3>6, <3>7, AltStacking
  <2> QED BY <2>1, <2>2
<1> QED BY <1>1, <1>2

LEMMA StackSizesRun ==
  ASSUME NEW m, Machine(m)
  PROVE  Runs(m, IfDup(m)) /\ Runs(m, Depth(m)) /\ Runs(m, Size(m))
<1>1. Has(m, 0) BY HasNone
<1>2. Runs(m, IfDup(m))
  <2>1. CASE ~Has(m, 1) BY <2>1, Refusing DEF IfDup
  <2>2. CASE Has(m, 1)
    <3>1. <<Top(m, 1)>> \in Stack BY <2>2, TopType, Singles
    <3>2. Runs(m, Replace(m, 0, <<Top(m, 1)>>)) BY <3>1, <1>1, Pushing
    <3> QED BY <2>2, <3>2, RunsItself DEF IfDup
  <2> QED BY <2>1, <2>2
<1>3. Runs(m, Depth(m))
  <2>1. Len(m.stack) \in Int BY MachineFields, LenProperties DEF Stack
  <2>2. <<ToScriptNum(Len(m.stack))>> \in Stack BY <2>1, ToScriptNumType, Singles
  <2> QED BY <2>2, <1>1, Pushing DEF Depth
<1>4. Runs(m, Size(m))
  <2>1. CASE ~Has(m, 1) BY <2>1, Refusing DEF Size
  <2>2. CASE Has(m, 1)
    <3>1. Len(Top(m, 1)) \in Int
      <4>1. Top(m, 1) \in Buffer BY <2>2, TopType
      <4> QED BY <4>1, LenProperties DEF Buffer
    <3>2. <<ToScriptNum(Len(Top(m, 1)))>> \in Stack BY <3>1, ToScriptNumType, Singles
    <3> QED BY <2>2, <3>2, <1>1, Pushing DEF Size
  <2> QED BY <2>1, <2>2
<1> QED BY <1>2, <1>3, <1>4

(* An opcode takes some elements and leaves some of these *)
LEMMA MovesTakeWhatTheyLeave ==
  ASSUME NEW num \in MoveOps
  PROVE  Moves(num)[1] \in Nat /\ Moves(num)[2] \in Seq(1 .. Moves(num)[1])
<1>1. /\ <<>> \in Seq(1 .. 1) /\ <<>> \in Seq(1 .. 2)
      /\ <<1, 1>> \in Seq(1 .. 1)
      /\ <<2>> \in Seq(1 .. 2) /\ <<2, 1>> \in Seq(1 .. 2) /\ <<1, 2, 1>> \in Seq(1 .. 2)
      /\ <<2, 1, 2>> \in Seq(1 .. 2) /\ <<1, 2, 1, 2>> \in Seq(1 .. 2)
      /\ <<2, 3, 1>> \in Seq(1 .. 3) /\ <<1, 2, 3, 1, 2, 3>> \in Seq(1 .. 3)
      /\ <<3, 4, 1, 2>> \in Seq(1 .. 4) /\ <<1, 2, 3, 4, 1, 2>> \in Seq(1 .. 4)
      /\ <<3, 4, 5, 6, 1, 2>> \in Seq(1 .. 6)
  OBVIOUS
<1>2. /\ Opcode.OP_2DROP = 109 /\ Opcode.OP_2DUP = 110 /\ Opcode.OP_3DUP = 111
      /\ Opcode.OP_2OVER = 112 /\ Opcode.OP_2ROT = 113 /\ Opcode.OP_2SWAP = 114
      /\ Opcode.OP_DROP = 117 /\ Opcode.OP_DUP = 118 /\ Opcode.OP_NIP = 119
      /\ Opcode.OP_OVER = 120 /\ Opcode.OP_ROT = 123 /\ Opcode.OP_SWAP = 124
      /\ Opcode.OP_TUCK = 125
  BY DEF Opcode
<1>3. num \in 109 .. 114 \cup 117 .. 120 \cup 123 .. 125 BY <1>2 DEF MoveOps
<1> DEFINE Known == {<<2, <<>>>>, <<2, <<1, 2, 1, 2>>>>, <<3, <<1, 2, 3, 1, 2, 3>>>>,
                     <<4, <<1, 2, 3, 4, 1, 2>>>>, <<6, <<3, 4, 5, 6, 1, 2>>>>,
                     <<4, <<3, 4, 1, 2>>>>, <<1, <<>>>>, <<1, <<1, 1>>>>, <<2, <<2>>>>,
                     <<2, <<1, 2, 1>>>>, <<3, <<2, 3, 1>>>>, <<2, <<2, 1>>>>,
                     <<2, <<2, 1, 2>>>>}
<1>4. Moves(num) \in Known BY <1>2, <1>3 DEF Moves
<1>5. \A k \in Known : \E n \in {1, 2, 3, 4, 6} : \E to \in Seq(1 .. n) : k = <<n, to>>
  BY <1>1, ZenonT(30)
<1> HIDE DEF Known
<1>6. PICK n \in {1, 2, 3, 4, 6} : \E to \in Seq(1 .. n) : Moves(num) = <<n, to>>
  BY <1>4, <1>5, Zenon
<1> QED BY <1>6

LEMMA MoveRuns ==
  ASSUME NEW m, Machine(m), NEW num \in MoveOps
  PROVE  Runs(m, Move(m, num))
<1> DEFINE n == Moves(num)[1]
           to == Moves(num)[2]
           taken == SubSeq(m.stack, Len(m.stack) - n + 1, Len(m.stack))
           bufs == [i \in DOMAIN to |-> taken[to[i]]]
<1>1. n \in Nat /\ to \in Seq(1 .. n) BY MovesTakeWhatTheyLeave
<1>2. CASE ~Has(m, n) BY <1>2, Refusing DEF Move
<1>3. CASE Has(m, n)
  <2>1. m.stack \in Seq(Buffer) /\ Len(m.stack) \in Nat /\ Len(m.stack) >= n
    BY MachineFields, LenProperties, <1>3 DEF Stack, Has
  <2>2. \A i \in 1 .. n : taken[i] \in Buffer
    <3> HIDE DEF n
    <3>1. \A i \in Len(m.stack) - n + 1 .. Len(m.stack) : m.stack[i] \in Buffer
      <4> TAKE i \in Len(m.stack) - n + 1 .. Len(m.stack)
      <4>1. i \in 1 .. Len(m.stack) BY <1>1, <2>1
      <4> QED BY <4>1, <2>1, ElementOfSeq
    <3>2. taken \in Seq(Buffer) /\ Len(taken) = n
      <4>1. Len(m.stack) - n + 1 \in Int /\ Len(m.stack) \in Int BY <1>1, <2>1
      <4>2. Len(m.stack) - (Len(m.stack) - n + 1) + 1 = n BY <1>1, <2>1
      <4>3. ~(Len(m.stack) - n + 1 <= Len(m.stack)) => n = 0 BY <1>1, <2>1
      <4> QED BY <3>1, <4>1, <4>2, <4>3, SubSeqProperties
    <3> HIDE DEF taken
    <3> QED BY <3>2, ElementOfSeq
  <2>3. bufs \in Stack
    <3> HIDE DEF n, taken, to
    <3>1. DOMAIN to = 1 .. Len(to) /\ Len(to) \in Nat BY <1>1, LenProperties
    <3>2. \A i \in 1 .. Len(to) : to[i] \in 1 .. n BY <1>1, ElementOfSeq
    <3>3. bufs \in [1 .. Len(to) -> Buffer] BY <3>1, <3>2, <2>2
    <3> HIDE DEF bufs
    <3> QED BY <3>1, <3>3, SeqDef DEF Stack
  <2>4. Move(m, num) = Replace(m, n, bufs) BY <1>3 DEF Move
  <2> HIDE DEF n, bufs
  <2> QED BY <1>1, <1>3, <2>3, <2>4, Pushing
<1> QED BY <1>2, <1>3

(* The stack without one of its elements *)
LEMMA RemovedType ==
  ASSUME NEW s \in Stack, NEW i \in 1 .. Len(s)
  PROVE  RemoveAt(s, i) \in Stack
<1>1. s \in Seq(Buffer) /\ Len(s) \in Nat BY LenProperties DEF Stack
<1>2. SubSeq(s, 1, i - 1) \in Seq(Buffer)
  <2>1. \A j \in 1 .. i - 1 : s[j] \in Buffer
    <3> TAKE j \in 1 .. i - 1
    <3>1. j \in 1 .. Len(s) BY <1>1
    <3> QED BY <3>1, <1>1, ElementOfSeq
  <2>2. 1 \in Int /\ i - 1 \in Int OBVIOUS
  <2> QED BY <2>1, <2>2, SubSeqProperties
<1>3. SubSeq(s, i + 1, Len(s)) \in Seq(Buffer)
  <2>1. \A j \in i + 1 .. Len(s) : s[j] \in Buffer
    <3> TAKE j \in i + 1 .. Len(s)
    <3>1. j \in 1 .. Len(s) BY <1>1
    <3> QED BY <3>1, <1>1, ElementOfSeq
  <2>2. i + 1 \in Int /\ Len(s) \in Int BY <1>1
  <2> QED BY <2>1, <2>2, SubSeqProperties
<1> QED BY <1>2, <1>3, ConcatProperties DEF RemoveAt, Stack

LEMMA PickOrRollRuns ==
  ASSUME NEW m, Machine(m), NEW num
  PROVE  Runs(m, PickOrRoll(m, num))
<1> DEFINE n == Number(m, 1)
           popped == Replace(m, 1, <<>>)
           buf == Top(popped, n + 1)
           rest == IF num = Opcode.OP_ROLL
                     THEN RemoveAt(popped.stack, Len(popped.stack) - n)
                     ELSE popped.stack
<1>1. CASE ~Has(m, 2) \/ ~Numbers(m, {1}, NUMBER_SIZE)
  BY <1>1, Refusing DEF PickOrRoll
<1>2. CASE Has(m, 2) /\ Numbers(m, {1}, NUMBER_SIZE)
  <2>1. Has(m, 1)
    <3>1. Len(m.stack) \in Nat BY MachineFields, LenProperties DEF Stack
    <3> QED BY <3>1, <1>2 DEF Has
  <2>2. n \in Int BY <2>1, NumberType
  <2>3. Runs(m, popped) /\ popped.nOpCount = m.nOpCount BY <2>1, Pushing, Singles
  <2>4. PickOrRoll(m, num) =
          IF n < 0 \/ n >= Len(popped.stack) THEN Fail(popped, "INVALID_STACK_OPERATION")
          ELSE [popped EXCEPT !.stack = Append(rest, buf)]
    BY <1>2, Zenon DEF PickOrRoll
  <2> HIDE DEF n, popped
  <2>5. CASE n < 0 \/ n >= Len(popped.stack) BY <2>3, <2>4, <2>5, Failing
  <2>6. CASE ~(n < 0 \/ n >= Len(popped.stack))
    <3>1. Machine(popped) BY <2>3 DEF Runs
    <3>2. popped.stack \in Stack /\ Len(popped.stack) \in Nat
      BY <3>1, MachineFields, LenProperties DEF Stack
    <3>3. n + 1 \in Nat \ {0} /\ Has(popped, n + 1) BY <2>2, <2>6, <3>2 DEF Has
    <3>4. buf \in Buffer BY <3>1, <3>3, TopType
    <3>5. Len(popped.stack) - n \in 1 .. Len(popped.stack) BY <2>2, <2>6, <3>2
    <3>6. rest \in Stack BY <3>2, <3>5, RemovedType
    <3>7. Append(rest, buf) \in Stack
      <4> HIDE DEF rest, buf
      <4> QED BY <3>4, <3>6, AppendProperties DEF Stack
    <3> DEFINE s == Append(rest, buf)
    <3>8. PickOrRoll(m, num) = [popped EXCEPT !.stack = s] BY <2>4, <2>6, Zenon
    <3> HIDE DEF s
    <3>9. s \in Stack BY <3>7 DEF s
    <3> QED BY <2>3, <3>8, <3>9, Stacking
  <2> QED BY <2>5, <2>6
<1> QED BY <1>1, <1>2

LEMMA EqualRuns ==
  ASSUME NEW m, Machine(m), NEW num
  PROVE  Runs(m, Equal(m, num))
<1>1. CASE ~Has(m, 2) BY <1>1, Refusing DEF Equal
<1>2. CASE Has(m, 2)
  <2> DEFINE equal == Top(m, 1) = Top(m, 2)
             failed == Replace(m, 2, <<FALSEBUF>>)
  <2>1. Runs(m, Replace(m, 2, <<ToBool(equal)>>)) /\ Runs(m, Replace(m, 2, <<>>))
    BY <1>2, Pushing, Singles
  <2>2. Runs(m, failed) /\ failed.nOpCount = m.nOpCount
    BY <1>2, Pushing, Singles
  <2>3. Runs(m, Fail(failed, "EQUALVERIFY"))
    <3> HIDE DEF failed
    <3> QED BY <2>2, Failing
  <2> QED BY <1>2, <2>1, <2>3 DEF Equal
<1> QED BY <1>1, <1>2

-----------------------------------------------------------------------------
(* The opcodes of numbers *)

(* Fewer elements are there too *)
LEMMA HasFewer ==
  ASSUME NEW m, Machine(m), NEW i \in Nat, Has(m, i), NEW j \in Nat, j <= i
  PROVE  Has(m, j)
<1>1. Len(m.stack) \in Nat BY MachineFields, LenProperties DEF Stack
<1> QED BY <1>1 DEF Has

LEMMA UnaryType ==
  ASSUME NEW num \in UnaryOps, NEW x \in Int
  PROVE  Unary(num, x) \in Int
BY DEF UnaryOps, Unary, Bit

LEMMA BinaryType ==
  ASSUME NEW num \in BinaryOps, NEW x \in Int, NEW y \in Int
  PROVE  Binary(num, x, y) \in Int
<1>1. /\ Opcode.OP_BOOLAND = 154 /\ Opcode.OP_BOOLOR = 155 /\ Opcode.OP_NUMEQUAL = 156
      /\ Opcode.OP_NUMEQUALVERIFY = 157 /\ Opcode.OP_NUMNOTEQUAL = 158
      /\ Opcode.OP_LESSTHAN = 159 /\ Opcode.OP_GREATERTHAN = 160
      /\ Opcode.OP_LESSTHANOREQUAL = 161 /\ Opcode.OP_GREATERTHANOREQUAL = 162
      /\ Opcode.OP_MIN = 163 /\ Opcode.OP_MAX = 164
  BY DEF Opcode
<1>2. num \in {Opcode.OP_ADD, Opcode.OP_SUB} \cup 154 .. 164 BY <1>1 DEF BinaryOps
<1>3. \A b : Bit(b) \in Int BY DEF Bit
<1>4. x + y \in Int /\ x - y \in Int OBVIOUS
<1> QED BY <1>1, <1>2, <1>3, <1>4 DEF Binary

LEMMA UnaryOpRuns ==
  ASSUME NEW m, Machine(m), NEW num \in UnaryOps
  PROVE  Runs(m, UnaryOp(m, num))
<1>1. CASE ~Has(m, 1) \/ ~Numbers(m, {1}, NUMBER_SIZE) BY <1>1, Refusing DEF UnaryOp
<1>2. CASE Has(m, 1) /\ Numbers(m, {1}, NUMBER_SIZE)
  <2> DEFINE result == ToScriptNum(Unary(num, Number(m, 1)))
  <2>1. result \in Buffer BY <1>2, NumberType, UnaryType, ToScriptNumType
  <2>2. UnaryOp(m, num) = Replace(m, 1, <<result>>) BY <1>2 DEF UnaryOp
  <2> HIDE DEF result
  <2> QED BY <1>2, <2>1, <2>2, Pushing, Singles
<1> QED BY <1>1, <1>2

LEMMA BinaryOpRuns ==
  ASSUME NEW m, Machine(m), NEW num \in BinaryOps
  PROVE  Runs(m, BinaryOp(m, num))
<1>1. CASE ~Has(m, 2) \/ ~Numbers(m, {1, 2}, NUMBER_SIZE) BY <1>1, Refusing DEF BinaryOp
<1>2. CASE Has(m, 2) /\ Numbers(m, {1, 2}, NUMBER_SIZE)
  <2> DEFINE result == ToScriptNum(Binary(num, Number(m, 2), Number(m, 1)))
             pushed == Replace(m, 2, <<result>>)
  <2>1. result \in Buffer
    <3>1. Has(m, 1) BY <1>2, HasFewer
    <3>2. Number(m, 1) \in Int /\ Number(m, 2) \in Int BY <1>2, <3>1, NumberType
    <3> QED BY <3>2, BinaryType, ToScriptNumType
  <2>2. BinaryOp(m, num) =
          IF num # Opcode.OP_NUMEQUALVERIFY THEN pushed
          ELSE IF CastToBool(result) THEN Replace(m, 2, <<>>)
          ELSE Fail(pushed, "NUMEQUALVERIFY")
    BY <1>2, Zenon DEF BinaryOp
  <2> HIDE DEF result
  <2>3. Runs(m, pushed) BY <1>2, <2>1, Pushing, Singles
  <2>4. Runs(m, Replace(m, 2, <<>>)) BY <1>2, Pushing, Singles
  <2> HIDE DEF pushed
  <2>5. Runs(m, Fail(pushed, "NUMEQUALVERIFY")) BY <2>3, Failing
  <2> QED BY <2>2, <2>3, <2>4, <2>5
<1> QED BY <1>1, <1>2

LEMMA WithinRuns ==
  ASSUME NEW m, Machine(m)
  PROVE  Runs(m, Within(m))
<1>1. CASE ~Has(m, 3) \/ ~Numbers(m, 1..3, NUMBER_SIZE) BY <1>1, Refusing DEF Within
<1>2. CASE Has(m, 3) /\ Numbers(m, 1..3, NUMBER_SIZE)
  <2> DEFINE b == Number(m, 2) <= Number(m, 3) /\ Number(m, 3) < Number(m, 1)
  <2>1. Within(m) = Replace(m, 3, <<ToBool(b)>>) BY <1>2 DEF Within
  <2> HIDE DEF b
  <2>2. <<ToBool(b)>> \in Stack BY Singles
  <2> QED BY <1>2, <2>1, <2>2, Pushing
<1> QED BY <1>1, <1>2

-----------------------------------------------------------------------------
(* The opcodes of control *)

LEMMA NopRuns == ASSUME NEW m, Machine(m) PROVE Runs(m, Nop(m))
BY RunsItself, Refusing DEF Nop

LEMMA IfRuns ==
  ASSUME NEW m, Machine(m), NEW num
  PROVE  Runs(m, If(m, num))
<1> DEFINE value == CastToBool(Top(m, 1)) = (num = Opcode.OP_IF)
<1>1. m.vfExec \in Seq(BOOLEAN) BY MachineFields
<1>2. CASE ~Executing(m)
  <2>1. Append(m.vfExec, FALSE) \in Seq(BOOLEAN) BY <1>1, AppendProperties
  <2> DEFINE s == Append(m.vfExec, FALSE)
  <2>2. If(m, num) = [m EXCEPT !.vfExec = s] BY <1>2, Zenon DEF If
  <2> HIDE DEF s
  <2>3. s \in Seq(BOOLEAN) BY <2>1 DEF s
  <2> QED BY <2>2, <2>3, RunsItself, Nesting
<1>3. CASE Executing(m) /\ ~Has(m, 1) BY <1>3, Refusing DEF If
<1>4. CASE Executing(m) /\ Has(m, 1)
  <2> DEFINE k == Replace(m, 1, <<>>)
  <2>1. Runs(m, k) BY <1>4, Pushing, Singles
  <2>2. value \in BOOLEAN OBVIOUS
  <2> DEFINE s == Append(k.vfExec, value)
  <2>3. If(m, num) = [k EXCEPT !.vfExec = s] BY <1>4, Zenon DEF If
  <2> HIDE DEF k, value
  <2>4. k.vfExec \in Seq(BOOLEAN) BY <2>1, MachineFields DEF Runs
  <2>5. s \in Seq(BOOLEAN) BY <2>2, <2>4, AppendProperties
  <2> HIDE DEF s
  <2> QED BY <2>1, <2>3, <2>5, Nesting
<1> QED BY <1>2, <1>3, <1>4

LEMMA ElseRuns ==
  ASSUME NEW m, Machine(m)
  PROVE  Runs(m, Else(m)) /\ Runs(m, EndIf(m))
<1>1. m.vfExec \in Seq(BOOLEAN) BY MachineFields
<1>2. CASE m.vfExec = <<>> BY <1>2, Refusing DEF Else, EndIf
<1>3. CASE m.vfExec # <<>>
  <2>1. Len(m.vfExec) \in 1 .. Len(m.vfExec) BY <1>1, <1>3, EmptySeq
  <2>2. Runs(m, Else(m))
    <3> DEFINE s == [m.vfExec EXCEPT ![Len(m.vfExec)] = ~m.vfExec[Len(m.vfExec)]]
    <3>1. s \in Seq(BOOLEAN)
      <4>1. (~m.vfExec[Len(m.vfExec)]) \in BOOLEAN OBVIOUS
      <4> QED BY <1>1, <2>1, <4>1, ExceptSeq
    <3>2. Else(m) = [m EXCEPT !.vfExec = s]
      <4>1. Else(m) = [m EXCEPT !.vfExec[Len(m.vfExec)] = ~@] BY <1>3, Zenon DEF Else
      <4> QED BY <4>1
    <3> HIDE DEF s
    <3> QED BY <3>1, <3>2, RunsItself, Nesting
  <2>3. Runs(m, EndIf(m))
    <3>1. Front(m.vfExec) \in Seq(BOOLEAN)
      <4>1. Len(m.vfExec) - 1 \in Int BY <2>1
      <4>2. \A i \in 1 .. Len(m.vfExec) - 1 : m.vfExec[i] \in BOOLEAN
        <5> TAKE i \in 1 .. Len(m.vfExec) - 1
        <5>1. i \in 1 .. Len(m.vfExec) BY <2>1
        <5> QED BY <5>1, <1>1, ElementOfSeq
      <4> QED BY <4>1, <4>2, SubSeqProperties DEF Front
    <3>2. EndIf(m) = [m EXCEPT !.vfExec = Front(m.vfExec)] BY <1>3 DEF EndIf
    <3> QED BY <3>1, <3>2, RunsItself, Nesting
  <2> QED BY <2>2, <2>3
<1> QED BY <1>2, <1>3

LEMMA VerifyRuns == ASSUME NEW m, Machine(m) PROVE Runs(m, Verify(m))
<1>1. Has(m, 1) => Runs(m, Replace(m, 1, <<>>)) BY Pushing, Singles
<1> QED BY <1>1, Refusing DEF Verify

LEMMA CheckLockRuns ==
  ASSUME NEW m, Machine(m), NEW num
  PROVE  Runs(m, CheckLock(m, num))
BY RunsItself, Refusing, NopRuns, ZenonT(30) DEF CheckLock

LEMMA SeparatorRuns ==
  ASSUME NEW m, Machine(m)
  PROVE  Runs(m, [m EXCEPT !.pbegincodehash = m.pc])
<1> DEFINE k == [m EXCEPT !.pbegincodehash = m.pc]
<1>1. m \in Machines(m.errstr, m.tx) /\ m.pc \in Nat BY MachineFields DEF Machine
<1>2. k \in Machines(m.errstr, m.tx) BY <1>1 DEF Machines
<1>3. k.errstr = m.errstr /\ k.tx = m.tx /\ k.script = m.script BY <1>1 DEF Machines
<1>4. k.pc = m.pc /\ k.pbegincodehash = m.pc /\ k.nOpCount = m.nOpCount BY <1>1 DEF Machines
<1>5. m.nOpCount \in Nat BY MachineFields
<1> HIDE DEF k
<1>6. Machine(k) BY <1>2, <1>3 DEF Machine
<1>7. k.nOpCount >= m.nOpCount BY <1>4, <1>5
<1>8. Runs(m, k) BY <1>3, <1>4, <1>6, <1>7 DEF Runs
<1> QED BY <1>8 DEF k

-----------------------------------------------------------------------------
(* Digests and signatures *)

(* The hash functions turn buffers into buffers. *)
DigestsAreBuffers ==
  \A num \in HashOps : \A buf \in Buffer : Digest(HashName(num), buf) \in Buffer

LEMMA HashOpRuns ==
  ASSUME DigestsAreBuffers, NEW m, Machine(m), NEW num \in HashOps
  PROVE  Runs(m, HashOp(m, num))
<1>1. CASE ~Has(m, 1) BY <1>1, Refusing DEF HashOp
<1>2. CASE Has(m, 1)
  <2>1. Top(m, 1) \in Buffer BY <1>2, TopType
  <2>2. <<Digest(HashName(num), Top(m, 1))>> \in Stack
    BY <2>1, Singles DEF DigestsAreBuffers
  <2> QED BY <1>2, <2>2, Pushing DEF HashOp
<1> QED BY <1>1, <1>2

LEMMA CheckSigRuns ==
  ASSUME NEW m, Machine(m), NEW num
  PROVE  Runs(m, CheckSig(m, num))
<1>1. CASE ~Has(m, 2) BY <1>1, Refusing DEF CheckSig
<1>2. CASE Has(m, 2)
  <2> DEFINE sig == Top(m, 2)
             key == Top(m, 1)
             subscript == FindAndDelete(Subscript(m), <<PushChunk(sig)>>)
             success == Signs(sig, key, subscript)
             failed == Replace(m, 2, <<FALSEBUF>>)
  <2>1. CheckSig(m, num) =
          IF EncodingError(m, sig, key) # "" THEN Fail(m, EncodingError(m, sig, key))
          ELSE IF num = Opcode.OP_CHECKSIG THEN Replace(m, 2, <<ToBool(success)>>)
          ELSE IF success THEN Replace(m, 2, <<>>)
          ELSE Fail(failed, "CHECKSIGVERIFY")
    BY <1>2, Zenon DEF CheckSig
  <2> HIDE DEF sig, key, success
  <2>2. Runs(m, Replace(m, 2, <<ToBool(success)>>)) BY <1>2, Pushing, Singles
  <2>3. Runs(m, Replace(m, 2, <<>>)) BY <1>2, Pushing, Singles
  <2>4. Runs(m, failed) BY <1>2, Pushing, Singles
  <2> HIDE DEF failed
  <2>5. Runs(m, Fail(failed, "CHECKSIGVERIFY")) BY <2>4, Failing
  <2>6. Runs(m, Fail(m, EncodingError(m, sig, key))) BY Refusing
  <2> QED BY <2>1, <2>2, <2>3, <2>5, <2>6, Zenon
<1> QED BY <1>1, <1>2

(* The keys of OP_CHECKMULTISIG count as operations. *)
LEMMA CountingKeys ==
  ASSUME NEW m, Machine(m), NEW n \in Nat
  PROVE  LET counted == [m EXCEPT !.nOpCount = @ + n]
         IN  /\ Machine(counted) /\ counted.nOpCount = m.nOpCount + n
             /\ counted.stack = m.stack
             /\ counted.nOpCount <= MAX_OPS => Runs(m, counted)
             /\ \A e : e # "" => Runs(m, Fail(counted, e))
<1> DEFINE counted == [m EXCEPT !.nOpCount = @ + n]
<1>1. m \in Machines(m.errstr, m.tx) /\ m.nOpCount \in Nat BY MachineFields DEF Machine
<1>2. m.nOpCount + n \in Nat BY <1>1
<1>3. counted \in Machines(m.errstr, m.tx) BY <1>1, <1>2 DEF Machines
<1>4. /\ counted.errstr = m.errstr /\ counted.tx = m.tx /\ counted.script = m.script
      /\ counted.stack = m.stack
  BY <1>1 DEF Machines
<1>5. /\ counted.pc = m.pc /\ counted.pbegincodehash = m.pbegincodehash
      /\ counted.nOpCount = m.nOpCount + n
  BY <1>1 DEF Machines
<1> HIDE DEF counted
<1>6. Machine(counted) BY <1>3, <1>4 DEF Machine
<1>9. m.nOpCount + n >= m.nOpCount BY <1>1
<1>7. counted.nOpCount <= MAX_OPS => Runs(m, counted)
  <2> SUFFICES ASSUME counted.nOpCount <= MAX_OPS PROVE Runs(m, counted) OBVIOUS
  <2>1. counted.nOpCount >= m.nOpCount BY <1>9, <1>5
  <2> QED BY <2>1, <1>4, <1>5, <1>6, Zenon DEF Runs
<1>8. ASSUME NEW e, e # "" PROVE Runs(m, Fail(counted, e))
  <2> DEFINE k == Fail(counted, e)
  <2>1. counted \in Machines(counted.errstr, counted.tx) BY <1>6 DEF Machine
  <2>2. k \in Machines(e, counted.tx) /\ k.errstr = e /\ k.tx = counted.tx
    BY <2>1 DEF Machines, Fail
  <2>3. /\ k.script = m.script /\ k.pc = m.pc /\ k.pbegincodehash = m.pbegincodehash
        /\ k.nOpCount = m.nOpCount + n
    BY <2>1, <1>4, <1>5 DEF Machines, Fail
  <2> HIDE DEF k
  <2>4. Machine(k) BY <2>2 DEF Machine
  <2>5. k.nOpCount >= m.nOpCount BY <1>9, <2>3
  <2>6. Runs(m, k) BY <2>2, <2>3, <2>4, <2>5, <1>8, Zenon DEF Runs
  <2> QED BY <2>6 DEF k
<1> QED BY <1>4, <1>5, <1>6, <1>7, <1>8 DEF counted

LEMMA CheckMultisigRuns ==
  ASSUME NEW m, Machine(m), NEW num
  PROVE  Runs(m, CheckMultisig(m, num))
<1> DEFINE nKeys == Number(m, 1)
           counted == [m EXCEPT !.nOpCount = @ + nKeys]
           nSigs == Number(m, nKeys + 2)
           n == 2 + nKeys + nSigs
           keys == Elements(m, 2, nKeys)
           sigs == Elements(m, nKeys + 3, nSigs)
           subscript == FoldLeft(LAMBDA s, sig : FindAndDelete(s, <<PushChunk(sig)>>),
                                 Subscript(m), sigs)
           matched == Matching(m, sigs, keys, subscript)
<1>1. CASE ~Has(m, 1) BY <1>1, Refusing DEF CheckMultisig
<1>2. CASE Has(m, 1) /\ ~Numbers(m, {1}, NUMBER_SIZE) BY <1>2, Refusing DEF CheckMultisig
<1>3. CASE Has(m, 1) /\ Numbers(m, {1}, NUMBER_SIZE) /\ nKeys \notin 0..MAX_KEYS
  BY <1>3, Refusing DEF CheckMultisig
<1>4. CASE Has(m, 1) /\ Numbers(m, {1}, NUMBER_SIZE) /\ nKeys \in 0..MAX_KEYS
  <2>1. CheckMultisig(m, num) =
          IF counted.nOpCount > MAX_OPS THEN Fail(counted, "OP_COUNT")
          ELSE IF ~Has(m, nKeys + 2) THEN Fail(counted, "INVALID_STACK_OPERATION")
          ELSE IF ~Numbers(m, {nKeys + 2}, NUMBER_SIZE) THEN Throw(counted)
          ELSE IF nSigs \notin 0..nKeys THEN Fail(counted, "SIG_COUNT")
          ELSE IF ~Has(m, n + 1) THEN Fail(counted, "INVALID_STACK_OPERATION")
          ELSE IF matched \notin {"true", "false"} THEN Fail(counted, matched)
          ELSE IF Enabled(m, "NULLDUMMY") /\ Top(m, n + 1) # <<>>
            THEN Fail(Replace(counted, n, <<>>), "SIG_NULLDUMMY")
          ELSE IF num = Opcode.OP_CHECKMULTISIG
            THEN Replace(counted, n + 1, <<ToBool(matched = "true")>>)
          ELSE IF matched = "true" THEN Replace(counted, n + 1, <<>>)
          ELSE Fail(Replace(counted, n + 1, <<FALSEBUF>>), "CHECKMULTISIGVERIFY")
    BY <1>4, Zenon DEF CheckMultisig
  <2>2. nKeys \in Nat BY <1>4
  <2> HIDE DEF nKeys, matched
  <2>3. /\ counted.nOpCount = m.nOpCount + nKeys /\ counted.stack = m.stack
        /\ counted.nOpCount <= MAX_OPS => Runs(m, counted)
        /\ \A e : e # "" => Runs(m, Fail(counted, e))
    BY <2>2, CountingKeys
  <2>4. counted.nOpCount \in Nat /\ MAX_OPS \in Nat
    <3>1. m.nOpCount \in Nat BY MachineFields
    <3>2. m.nOpCount + nKeys \in Nat BY <2>2, <3>1
    <3>3. counted.nOpCount \in Nat
      <4> HIDE DEF counted
      <4> QED BY <2>3, <3>2
    <3> QED BY <3>3, LimitsAssumption
  <2> HIDE DEF counted
  <2>5. CASE counted.nOpCount > MAX_OPS \/ ~Has(m, nKeys + 2)
             \/ ~Numbers(m, {nKeys + 2}, NUMBER_SIZE) \/ nSigs \notin 0..nKeys
             \/ ~Has(m, n + 1)
    <3>1. CheckMultisig(m, num) \in {Fail(counted, "OP_COUNT"), Throw(counted),
            Fail(counted, "INVALID_STACK_OPERATION"), Fail(counted, "SIG_COUNT")}
      <4> HIDE DEF nSigs, n
      <4> QED BY <2>1, <2>5
    <3> QED BY <3>1, <2>3 DEF Throw
  <2>6. CASE /\ ~(counted.nOpCount > MAX_OPS) /\ Has(m, nKeys + 2)
             /\ Numbers(m, {nKeys + 2}, NUMBER_SIZE) /\ nSigs \in 0..nKeys
             /\ Has(m, n + 1)
    <3>1. counted.nOpCount <= MAX_OPS /\ Runs(m, counted)
      <4>1. counted.nOpCount <= MAX_OPS
        <5>1. ~(counted.nOpCount > MAX_OPS) BY <2>6
        <5> QED BY <5>1, <2>4
      <4> QED BY <4>1, <2>3
    <3>2. n \in Nat /\ n + 1 \in Nat /\ Has(counted, n + 1) /\ Has(counted, n)
      <4>1. n \in Nat /\ n + 1 \in Nat /\ n <= n + 1 BY <2>2, <2>6
      <4> HIDE DEF n
      <4>2. Has(m, n) BY <4>1, <2>6, HasFewer
      <4> QED BY <4>1, <4>2, <2>6, <2>3 DEF Has
    <3> HIDE DEF n
    <3>3. Runs(m, Fail(counted, matched)) BY <3>1, Failing
    <3>4. Runs(m, Fail(Replace(counted, n, <<>>), "SIG_NULLDUMMY"))
      <4>1. Runs(m, Replace(counted, n, <<>>)) BY <3>1, <3>2, Replacing, Singles
      <4> QED BY <4>1, Failing
    <3>5. Runs(m, Replace(counted, n + 1, <<ToBool(matched = "true")>>))
          /\ Runs(m, Replace(counted, n + 1, <<>>))
      BY <3>1, <3>2, Replacing, Singles
    <3>6. Runs(m, Fail(Replace(counted, n + 1, <<FALSEBUF>>), "CHECKMULTISIGVERIFY"))
      <4>1. Runs(m, Replace(counted, n + 1, <<FALSEBUF>>)) BY <3>1, <3>2, Replacing, Singles
      <4> QED BY <4>1, Failing
    <3> HIDE DEF nSigs
    <3> QED BY <2>1, <2>6, <3>3, <3>4, <3>5, <3>6
  <2> QED BY <2>5, <2>6
<1> QED BY <1>1, <1>2, <1>3, <1>4

-----------------------------------------------------------------------------
(* One step *)

LEMMA ChunkFields ==
  ASSUME NEW chunk \in Chunk
  PROVE  /\ chunk.op \in Byte /\ chunk.op \in Nat
         /\ HasBuf(chunk) => chunk.buf \in Buffer
<1>1. \A b \in Byte : b \in Nat BY DEF Byte
<1>2. CASE chunk \in [op : Byte]
  <2>1. DOMAIN chunk = {"op"} /\ chunk.op \in Byte BY <1>2
  <2>2. ~HasBuf(chunk) BY <2>1 DEF HasBuf
  <2> QED BY <2>1, <2>2, <1>1
<1>3. CASE chunk \in [op : Byte, buf : Seq(Byte), len : Nat]
  <2>1. chunk.op \in Byte /\ chunk.buf \in Seq(Byte) BY <1>3
  <2> QED BY <2>1, <1>1 DEF Buffer
<1> QED BY <1>2, <1>3 DEF Chunk

LEMMA PushDataRuns ==
  ASSUME NEW m, Machine(m), NEW chunk \in Chunk
  PROVE  Runs(m, PushData(m, chunk))
<1>1. Has(m, 0) BY HasNone
<1>2. Runs(m, Replace(m, 0, <<FALSEBUF>>)) BY <1>1, Pushing, Singles
<1>3. HasBuf(chunk) => Runs(m, Replace(m, 0, <<chunk.buf>>))
  BY <1>1, Pushing, Singles, ChunkFields
<1> QED BY <1>2, <1>3, Refusing, Zenon DEF PushData

(* No branch breaks the machine. *)
LEMMA ExecuteRuns ==
  ASSUME DigestsAreBuffers, NEW m, Machine(m), NEW num \in Byte
  PROVE  Runs(m, Execute(m, num))
<1>1. Runs(m, Replace(m, 0, <<ToScriptNum(num - (Opcode.OP_1 - 1))>>))
  <2>1. Opcode.OP_1 = 81 BY DEF Opcode
  <2>2. num - (Opcode.OP_1 - 1) \in Int BY <2>1 DEF Byte
  <2>3. <<ToScriptNum(num - (Opcode.OP_1 - 1))>> \in Stack BY <2>2, ToScriptNumType, Singles
  <2> QED BY <2>3, HasNone, Pushing
<1>2. Runs(m, m) BY RunsItself
<1>3. Runs(m, CheckLock(m, num)) BY CheckLockRuns
<1>4. Runs(m, Nop(m)) /\ Runs(m, Verify(m)) BY NopRuns, VerifyRuns
<1>5. Runs(m, If(m, num)) /\ Runs(m, Else(m)) /\ Runs(m, EndIf(m)) BY IfRuns, ElseRuns
<1>6. Runs(m, Fail(m, "OP_RETURN")) /\ Runs(m, Fail(m, "BAD_OPCODE")) BY Refusing
<1>7. Runs(m, ToAltStack(m)) /\ Runs(m, FromAltStack(m)) BY AltStackRuns
<1>8. num \in MoveOps => Runs(m, Move(m, num)) BY MoveRuns
<1>9. Runs(m, IfDup(m)) /\ Runs(m, Depth(m)) /\ Runs(m, Size(m)) BY StackSizesRun
<1>10. Runs(m, PickOrRoll(m, num)) /\ Runs(m, Equal(m, num)) BY PickOrRollRuns, EqualRuns
<1>11. num \in UnaryOps => Runs(m, UnaryOp(m, num)) BY UnaryOpRuns
<1>12. num \in BinaryOps => Runs(m, BinaryOp(m, num)) BY BinaryOpRuns
<1>13. Runs(m, Within(m)) BY WithinRuns
<1>14. num \in HashOps => Runs(m, HashOp(m, num)) BY HashOpRuns
<1>15. Runs(m, [m EXCEPT !.pbegincodehash = m.pc]) BY SeparatorRuns
<1>16. Runs(m, CheckSig(m, num)) /\ Runs(m, CheckMultisig(m, num))
  BY CheckSigRuns, CheckMultisigRuns
<1> DEFINE separated == [m EXCEPT !.pbegincodehash = m.pc]
           small == Replace(m, 0, <<ToScriptNum(num - (Opcode.OP_1 - 1))>>)
           smalls == {Opcode.OP_1NEGATE} \cup Opcode.OP_1 .. Opcode.OP_16
           nops == {Opcode.OP_NOP1} \cup Opcode.OP_NOP4 .. Opcode.OP_NOP10
<1>17. Runs(m, separated) /\ Runs(m, small) BY <1>1, <1>15
<1>18. Execute(m, num) =
         CASE num \in smalls -> small
           [] num = Opcode.OP_NOP -> m
           [] num \in LockOps -> CheckLock(m, num)
           [] num \in nops -> Nop(m)
           [] num \in {Opcode.OP_IF, Opcode.OP_NOTIF} -> If(m, num)
           [] num = Opcode.OP_ELSE -> Else(m)
           [] num = Opcode.OP_ENDIF -> EndIf(m)
           [] num = Opcode.OP_VERIFY -> Verify(m)
           [] num = Opcode.OP_RETURN -> Fail(m, "OP_RETURN")
           [] num = Opcode.OP_TOALTSTACK -> ToAltStack(m)
           [] num = Opcode.OP_FROMALTSTACK -> FromAltStack(m)
           [] num \in MoveOps -> Move(m, num)
           [] num = Opcode.OP_IFDUP -> IfDup(m)
           [] num = Opcode.OP_DEPTH -> Depth(m)
           [] num \in {Opcode.OP_PICK, Opcode.OP_ROLL} -> PickOrRoll(m, num)
           [] num = Opcode.OP_SIZE -> Size(m)
           [] num \in {Opcode.OP_EQUAL, Opcode.OP_EQUALVERIFY} -> Equal(m, num)
           [] num \in UnaryOps -> UnaryOp(m, num)
           [] num \in BinaryOps -> BinaryOp(m, num)
           [] num = Opcode.OP_WITHIN -> Within(m)
           [] num \in HashOps -> HashOp(m, num)
           [] num = Opcode.OP_CODESEPARATOR -> separated
           [] num \in {Opcode.OP_CHECKSIG, Opcode.OP_CHECKSIGVERIFY} -> CheckSig(m, num)
           [] num \in {Opcode.OP_CHECKMULTISIG, Opcode.OP_CHECKMULTISIGVERIFY} ->
                CheckMultisig(m, num)
           [] OTHER -> Fail(m, "BAD_OPCODE")
  BY Zenon DEF Execute
<1> HIDE DEF separated, small, smalls, nops
<1> QED
  BY <1>2, <1>3, <1>4, <1>5, <1>6, <1>7, <1>8, <1>9, <1>10, <1>11, <1>12, <1>13, <1>14,
     <1>16, <1>17, <1>18, SMT

(* A step from a place in the script: what it leaves, and what is known of the *)
(* chunk when it goes on.                                                      *)
LEMMA StepRuns ==
  ASSUME DigestsAreBuffers, NEW m0, Machine(m0), m0.pc < Len(m0.script)
  PROVE  LET chunk == m0.script[m0.pc + 1]
             counts == chunk.op > Opcode.OP_16
             n == Step(m0)
         IN  /\ Machine(n) /\ n.script = m0.script /\ n.pc = m0.pc + 1
             /\ n.pbegincodehash \in {m0.pbegincodehash, m0.pc + 1}
             /\ n.errstr = "" =>
                  /\ HasBuf(chunk) => Len(chunk.buf) <= MAX_SCRIPT_ELEMENT_SIZE
                  /\ chunk.op \notin Disabled
                  /\ n.nOpCount >= m0.nOpCount + (IF counts THEN 1 ELSE 0)
                  /\ m0.nOpCount <= MAX_OPS => n.nOpCount <= MAX_OPS
<1> DEFINE chunk == m0.script[m0.pc + 1]
           num == chunk.op
           counts == num > Opcode.OP_16
           next == [m0 EXCEPT !.pc = @ + 1]
           m == IF counts THEN [next EXCEPT !.nOpCount = @ + 1] ELSE next
           n == Step(m0)
<1>1. /\ m0 \in Machines(m0.errstr, m0.tx) /\ m0.pc \in Nat /\ m0.nOpCount \in Nat
      /\ m0.pbegincodehash \in Nat /\ m0.script \in Seq(Chunk)
  BY MachineFields DEF Machine
<1>2. chunk \in Chunk
  <2>1. m0.pc + 1 \in 1 .. Len(m0.script) BY <1>1, LenProperties
  <2> QED BY <2>1, <1>1, ElementOfSeq
<1>3. num \in Byte /\ num \in Nat /\ (HasBuf(chunk) => chunk.buf \in Buffer)
  BY <1>2, ChunkFields
<1> HIDE DEF chunk, counts
<1>4. /\ next \in Machines(m0.errstr, m0.tx) /\ next.errstr = m0.errstr /\ next.tx = m0.tx
      /\ next.script = m0.script /\ next.pc = m0.pc + 1
      /\ next.pbegincodehash = m0.pbegincodehash /\ next.nOpCount = m0.nOpCount
  <2>1. next \in Machines(m0.errstr, m0.tx) BY <1>1, SMTT(30) DEF Machines
  <2>2. /\ next.errstr = m0.errstr /\ next.tx = m0.tx
        /\ next.script = m0.script /\ next.pc = m0.pc + 1
        /\ next.pbegincodehash = m0.pbegincodehash /\ next.nOpCount = m0.nOpCount
    BY <1>1 DEF Machines
  <2> QED BY <2>1, <2>2
<1> HIDE DEF next
<1>5. /\ m \in Machines(m0.errstr, m0.tx) /\ m.errstr = m0.errstr /\ m.tx = m0.tx
      /\ m.script = m0.script /\ m.pc = m0.pc + 1
      /\ m.pbegincodehash = m0.pbegincodehash
      /\ m.nOpCount = m0.nOpCount + (IF counts THEN 1 ELSE 0)
  <2>1. CASE counts
    <3>1. m = [next EXCEPT !.nOpCount = next.nOpCount + 1] BY <2>1
    <3>2. next.nOpCount + 1 \in Nat /\ next.nOpCount + 1 = m0.nOpCount + 1 BY <1>1, <1>4
    <3> HIDE DEF m
    <3> QED BY <3>1, <3>2, <2>1, <1>4 DEF Machines
  <2>2. CASE ~counts
    <3>1. m = next /\ m0.nOpCount = m0.nOpCount + 0 BY <2>2, <1>1
    <3> HIDE DEF m
    <3> QED BY <3>1, <2>2, <1>4
  <2> QED BY <2>1, <2>2
<1> HIDE DEF m
<1>6. Machine(next) /\ Machine(m) BY <1>4, <1>5 DEF Machine
<1>7. n =
        IF HasBuf(chunk) /\ Len(chunk.buf) > MAX_SCRIPT_ELEMENT_SIZE THEN Fail(next, "PUSH_SIZE")
        ELSE IF counts /\ m.nOpCount > MAX_OPS THEN Fail(m, "OP_COUNT")
        ELSE IF num \in Disabled THEN Fail(m, "DISABLED_OPCODE")
        ELSE IF Executing(m) /\ num \in 0 .. Opcode.OP_PUSHDATA4 THEN PushData(m, chunk)
        ELSE IF Executing(m) \/ num \in Opcode.OP_IF .. Opcode.OP_ENDIF THEN Execute(m, num)
        ELSE m
  BY Zenon DEF Step, chunk, counts, m, next
<1> HIDE DEF n, num
<1>8. CASE HasBuf(chunk) /\ Len(chunk.buf) > MAX_SCRIPT_ELEMENT_SIZE
  <2>1. n = Fail(next, "PUSH_SIZE") BY <1>7, <1>8
  <2>2. Runs(next, n) BY <2>1, <1>6, Refusing
  <2>3. n.errstr = "PUSH_SIZE" BY <2>1, <1>4 DEF Fail, Machines
  <2> QED BY <2>2, <2>3, <1>4 DEF Runs, n, num, chunk, counts
<1>9. CASE /\ ~(HasBuf(chunk) /\ Len(chunk.buf) > MAX_SCRIPT_ELEMENT_SIZE)
           /\ (counts /\ m.nOpCount > MAX_OPS) \/ num \in Disabled
  <2>1. PICK e \in {"OP_COUNT", "DISABLED_OPCODE"} : n = Fail(m, e) BY <1>7, <1>9
  <2>2. Runs(m, n) BY <2>1, <1>6, Refusing
  <2>3. n.errstr = e /\ e # "" BY <2>1, <1>5 DEF Fail, Machines
  <2> QED BY <2>2, <2>3, <1>5 DEF Runs, n, num, chunk, counts
<1>10. CASE /\ ~(HasBuf(chunk) /\ Len(chunk.buf) > MAX_SCRIPT_ELEMENT_SIZE)
            /\ ~(counts /\ m.nOpCount > MAX_OPS) /\ num \notin Disabled
  <2>1. n \in {PushData(m, chunk), Execute(m, num), m} BY <1>7, <1>10
  <2>2. Runs(m, n)
    BY <2>1, <1>2, <1>3, <1>6, PushDataRuns, ExecuteRuns, RunsItself
  <2>3. m0.nOpCount <= MAX_OPS => m.nOpCount <= MAX_OPS
    <3>1. MAX_OPS \in Nat BY LimitsAssumption
    <3>2. m.nOpCount \in Nat /\ (~counts => m.nOpCount = m0.nOpCount) BY <1>1, <1>5
    <3> QED BY <3>1, <3>2, <1>10
  <2>4. HasBuf(chunk) => Len(chunk.buf) <= MAX_SCRIPT_ELEMENT_SIZE
    <3> SUFFICES ASSUME HasBuf(chunk) PROVE Len(chunk.buf) <= MAX_SCRIPT_ELEMENT_SIZE
      OBVIOUS
    <3>1. Len(chunk.buf) \in Nat BY <1>3, BytesOf
    <3>2. MAX_SCRIPT_ELEMENT_SIZE \in Nat BY LimitsAssumption
    <3>3. ~(Len(chunk.buf) > MAX_SCRIPT_ELEMENT_SIZE) BY <1>10
    <3> QED BY <3>1, <3>2, <3>3
  <2>5. Machine(n) /\ n.script = m0.script /\ n.pc = m0.pc + 1
        /\ n.pbegincodehash \in {m0.pbegincodehash, m0.pc + 1}
    BY <2>2, <1>5 DEF Runs
  <2>6. n.nOpCount >= m0.nOpCount + (IF counts THEN 1 ELSE 0) BY <2>2, <1>5, Zenon DEF Runs
  <2>7. n.errstr = "" => (m0.nOpCount <= MAX_OPS => n.nOpCount <= MAX_OPS)
    BY <2>2, <2>3 DEF Runs
  <2> QED BY <2>4, <2>5, <2>6, <2>7, <1>10, Zenon DEF n, num, chunk, counts
<1> QED BY <1>8, <1>9, <1>10

-----------------------------------------------------------------------------
(* The signatures of a multisig script                                     *)

Verdicts == {"true", "false", "", "SIG_DER_INVALID_FORMAT", "SIG_DER_HIGH_S",
             "SIG_HASHTYPE", "PUBKEYTYPE"}

LEMMA EncodingErrorType ==
  ASSUME NEW m, NEW sig, NEW key
  PROVE  EncodingError(m, sig, key) \in Verdicts \ {"true", "false"}
BY Zenon DEF EncodingError, Verdicts

(* What the loop finds at key k and signature i, from what f finds behind them *)
Verdict(f, m, sigs, keys, script, k, i) ==
  IF i > Len(sigs) THEN "true"
  ELSE IF EncodingError(m, sigs[i], keys[k]) # "" THEN EncodingError(m, sigs[i], keys[k])
  ELSE LET next == IF Signs(sigs[i], keys[k], script) THEN i + 1 ELSE i
       IN  IF Len(sigs) - next >= Len(keys) - k THEN "false" ELSE f[k + 1][next]

(* Keys from k on, in their order, match the signatures from i on. *)
OrderFrom(sigs, keys, script, i, k) ==
  \E f \in [i .. Len(sigs) -> k .. Len(keys)] :
    /\ \A a, b \in i .. Len(sigs) : a < b => f[a] < f[b]
    /\ \A a \in i .. Len(sigs) : Signs(sigs[a], keys[f[a]], script)

(* The loop looks behind key k only when there are more keys. *)
LEMMA VerdictType ==
  ASSUME NEW m, NEW sigs, NEW keys, NEW script, Len(sigs) \in Nat, Len(keys) \in Nat,
         NEW k \in 1 .. Len(keys) + 1, NEW i \in 1 .. Len(sigs) + 1,
         NEW f \in [1 .. Len(keys) + 1 -> [1 .. Len(sigs) + 1 -> Verdicts]]
  PROVE  Verdict(f, m, sigs, keys, script, k, i) \in Verdicts
<1> DEFINE next == IF Signs(sigs[i], keys[k], script) THEN i + 1 ELSE i
<1>1. CASE i <= Len(sigs) /\ ~(Len(sigs) - next >= Len(keys) - k)
  <2>1. next \in 1 .. Len(sigs) + 1 /\ k + 1 \in 1 .. Len(keys) + 1 BY <1>1
  <2>2. f[k + 1][next] \in Verdicts
    <3> HIDE DEF next
    <3> QED BY <2>1
  <2> QED BY <1>1, <2>2, EncodingErrorType, Zenon DEF Verdict, Verdicts
<1>2. CASE ~(i <= Len(sigs))
  <2>1. i > Len(sigs) BY <1>2
  <2> QED BY <2>1, Zenon DEF Verdict, Verdicts
<1>3. CASE Len(sigs) - next >= Len(keys) - k
  BY <1>3, EncodingErrorType, Zenon DEF Verdict, Verdicts
<1> QED BY <1>1, <1>2, <1>3

Decides(f, m, sigs, keys, script) ==
  f = [k \in 1 .. Len(keys) + 1 |->
        [i \in 1 .. Len(sigs) + 1 |-> Verdict(f, m, sigs, keys, script, k, i)]]

LEMMA MatchingsExist ==
  ASSUME NEW m, NEW sigs, NEW keys, NEW script, Len(sigs) \in Nat, Len(keys) \in Nat
  PROVE  \E f : Decides(f, m, sigs, keys, script)
<1> DEFINE D == 1 .. Len(keys) + 1
           I == 1 .. Len(sigs) + 1
           R == [I -> Verdicts]
           B == [f \in [D -> R] |-> [k \in D |->
                  [i \in I |-> Verdict(f, m, sigs, keys, script, k, i)]]]
           rank == [k \in D |-> Len(keys) + 1 - k]
<1>1. R # {}
  <2>1. [i \in I |-> ""] \in R BY DEF Verdicts
  <2> QED BY <2>1, Zenon
<1>2. \A f \in [D -> R] : \A k \in D, i \in I : Verdict(f, m, sigs, keys, script, k, i) \in Verdicts
  BY VerdictType
<1>3. B \in [[D -> R] -> [D -> R]] BY <1>2
<1>4. rank \in [D -> 0 .. Len(keys)] OBVIOUS
<1>5. Causal(D, R, rank, B)
  <2> SUFFICES ASSUME NEW f \in [D -> R], NEW g \in [D -> R], NEW k \in D,
                      \A j \in D : rank[j] < rank[k] => f[j] = g[j]
               PROVE  B[f][k] = B[g][k]
    BY DEF Causal
  <2>1. \A i \in I : Verdict(f, m, sigs, keys, script, k, i)
                       = Verdict(g, m, sigs, keys, script, k, i)
    <3> TAKE i \in I
    <3>1. CASE k = Len(keys) + 1
      <4>1. i > Len(sigs) \/ (/\ Len(sigs) - i >= Len(keys) - k
                             /\ Len(sigs) - (i + 1) >= Len(keys) - k)
        BY <3>1
      <4> DEFINE next == IF Signs(sigs[i], keys[k], script) THEN i + 1 ELSE i
      <4>2. i > Len(sigs) \/ Len(sigs) - next >= Len(keys) - k BY <4>1
      <4> QED BY <4>2, Zenon DEF Verdict
    <3>2. CASE k # Len(keys) + 1
      <4>1. k + 1 \in D /\ rank[k + 1] < rank[k] BY <3>2
      <4> HIDE DEF D, rank
      <4>2. f[k + 1] = g[k + 1] BY <4>1
      <4> QED BY <4>2, Zenon DEF Verdict
    <3> QED BY <3>1, <3>2
  <2> QED BY <2>1
<1>6. Solvable(D, R, B)
  <2> HIDE DEF B, rank, D, R
  <2> QED BY <1>1, <1>3, <1>4, <1>5, RecursionExists, Zenon
<1>7. PICK f \in [D -> R] : \A k \in D : f[k] = B[f][k] BY <1>6 DEF Solvable
<1>8. \A k \in D : f[k] = [i \in I |-> Verdict(f, m, sigs, keys, script, k, i)] BY <1>7
<1>9. f = [k \in D |-> f[k]] BY <1>7
<1>10. f = [k \in D |-> [i \in I |-> Verdict(f, m, sigs, keys, script, k, i)]] BY <1>8, <1>9
<1> QED BY <1>10, Zenon DEF Decides

(* A key that does not match the next signature is of no use. *)
LEMMA OrderSkips ==
  ASSUME NEW sigs, NEW keys, NEW script, Len(sigs) \in Nat, Len(keys) \in Nat,
         NEW i \in 1 .. Len(sigs), NEW k \in 1 .. Len(keys),
         ~Signs(sigs[i], keys[k], script)
  PROVE  OrderFrom(sigs, keys, script, i, k) <=> OrderFrom(sigs, keys, script, i, k + 1)
<1>1. ASSUME OrderFrom(sigs, keys, script, i, k) PROVE OrderFrom(sigs, keys, script, i, k + 1)
  <2>1. PICK f \in [i .. Len(sigs) -> k .. Len(keys)] :
          /\ \A a, b \in i .. Len(sigs) : a < b => f[a] < f[b]
          /\ \A a \in i .. Len(sigs) : Signs(sigs[a], keys[f[a]], script)
    BY <1>1 DEF OrderFrom
  <2>2. i \in i .. Len(sigs) /\ f[i] \in k .. Len(keys) /\ f[i] # k
    <3>1. i \in i .. Len(sigs) OBVIOUS
    <3>2. Signs(sigs[i], keys[f[i]], script) BY <3>1, <2>1
    <3>3. f[i] # k BY <3>2
    <3> QED BY <3>1, <3>3, <2>1
  <2>3. \A a \in i .. Len(sigs) : f[a] \in k + 1 .. Len(keys)
    <3> TAKE a \in i .. Len(sigs)
    <3>1. f[a] \in k .. Len(keys) BY <2>1
    <3>2. a = i \/ f[i] < f[a] BY <2>1, <2>2
    <3> QED BY <3>1, <3>2, <2>2
  <2>4. f \in [i .. Len(sigs) -> k + 1 .. Len(keys)] BY <2>1, <2>3
  <2> QED BY <2>1, <2>4 DEF OrderFrom
<1>2. ASSUME OrderFrom(sigs, keys, script, i, k + 1) PROVE OrderFrom(sigs, keys, script, i, k)
  <2>1. k + 1 .. Len(keys) \subseteq k .. Len(keys) OBVIOUS
  <2>2. [i .. Len(sigs) -> k + 1 .. Len(keys)] \subseteq [i .. Len(sigs) -> k .. Len(keys)]
    BY <2>1
  <2> QED BY <1>2, <2>2, Zenon DEF OrderFrom
<1> QED BY <1>1, <1>2

(* A key that matches it may be used for it: another would do no better. *)
LEMMA OrderTakes ==
  ASSUME NEW sigs, NEW keys, NEW script, Len(sigs) \in Nat, Len(keys) \in Nat,
         NEW i \in 1 .. Len(sigs), NEW k \in 1 .. Len(keys),
         Signs(sigs[i], keys[k], script)
  PROVE  OrderFrom(sigs, keys, script, i, k) <=> OrderFrom(sigs, keys, script, i + 1, k + 1)
<1>1. ASSUME OrderFrom(sigs, keys, script, i, k)
      PROVE  OrderFrom(sigs, keys, script, i + 1, k + 1)
  <2>1. PICK f \in [i .. Len(sigs) -> k .. Len(keys)] :
          /\ \A a, b \in i .. Len(sigs) : a < b => f[a] < f[b]
          /\ \A a \in i .. Len(sigs) : Signs(sigs[a], keys[f[a]], script)
    BY <1>1 DEF OrderFrom
  <2> DEFINE g == [a \in i + 1 .. Len(sigs) |-> f[a]]
  <2>2. \A a \in i + 1 .. Len(sigs) : g[a] = f[a] /\ f[a] \in k + 1 .. Len(keys)
    <3> TAKE a \in i + 1 .. Len(sigs)
    <3>1. a \in i .. Len(sigs) /\ i \in i .. Len(sigs) /\ i < a OBVIOUS
    <3>2. f[i] < f[a] /\ f[i] \in k .. Len(keys) /\ f[a] \in k .. Len(keys) BY <2>1, <3>1
    <3> QED BY <3>2
  <2>3. g \in [i + 1 .. Len(sigs) -> k + 1 .. Len(keys)] BY <2>2
  <2>4. \A a \in i + 1 .. Len(sigs) : a \in i .. Len(sigs) OBVIOUS
  <2> HIDE DEF g
  <2> QED BY <2>1, <2>2, <2>3, <2>4 DEF OrderFrom
<1>2. ASSUME OrderFrom(sigs, keys, script, i + 1, k + 1)
      PROVE  OrderFrom(sigs, keys, script, i, k)
  <2>1. PICK f \in [i + 1 .. Len(sigs) -> k + 1 .. Len(keys)] :
          /\ \A a, b \in i + 1 .. Len(sigs) : a < b => f[a] < f[b]
          /\ \A a \in i + 1 .. Len(sigs) : Signs(sigs[a], keys[f[a]], script)
    BY <1>2 DEF OrderFrom
  <2> DEFINE g == [a \in i .. Len(sigs) |-> IF a = i THEN k ELSE f[a]]
  <2>2. g[i] = k BY i \in i .. Len(sigs)
  <2>3. \A a \in i .. Len(sigs) :
          a = i \/ (a \in i + 1 .. Len(sigs) /\ g[a] = f[a] /\ f[a] \in k + 1 .. Len(keys))
    <3> TAKE a \in i .. Len(sigs)
    <3>1. a # i => a \in i + 1 .. Len(sigs) OBVIOUS
    <3> QED BY <3>1, <2>1
  <2>4. g \in [i .. Len(sigs) -> k .. Len(keys)]
    <3>1. \A a \in i .. Len(sigs) : (IF a = i THEN k ELSE f[a]) \in k .. Len(keys) BY <2>3
    <3> QED BY <3>1
  <2> HIDE DEF g
  <2>5. \A a, b \in i .. Len(sigs) : a < b => g[a] < g[b]
    <3> TAKE a, b \in i .. Len(sigs)
    <3> HAVE a < b
    <3>1. b # i /\ g[b] = f[b] /\ b \in i + 1 .. Len(sigs) /\ f[b] \in k + 1 .. Len(keys)
      BY <2>3
    <3>2. CASE a = i BY <3>1, <3>2, <2>2
    <3>3. CASE a # i
      <4>1. a \in i + 1 .. Len(sigs) /\ g[a] = f[a] BY <3>3, <2>3
      <4> QED BY <4>1, <3>1, <2>1
    <3> QED BY <3>2, <3>3
  <2>6. \A a \in i .. Len(sigs) : Signs(sigs[a], keys[g[a]], script)
    <3> TAKE a \in i .. Len(sigs)
    <3>1. CASE a = i BY <3>1, <2>2
    <3>2. CASE a # i BY <3>2, <2>1, <2>3
    <3> QED BY <3>1, <3>2
  <2> QED BY <2>4, <2>5, <2>6 DEF OrderFrom
<1> QED BY <1>1, <1>2

(* Every signature needs a key of its own. *)
LEMMA OrderNeedsKeys ==
  ASSUME NEW sigs, NEW keys, NEW script, Len(sigs) \in Nat, Len(keys) \in Nat,
         NEW i \in 1 .. Len(sigs), NEW k \in 1 .. Len(keys) + 1,
         OrderFrom(sigs, keys, script, i, k)
  PROVE  Len(sigs) - i <= Len(keys) - k
<1>1. PICK f \in [i .. Len(sigs) -> k .. Len(keys)] :
        \A a, b \in i .. Len(sigs) : a < b => f[a] < f[b]
  BY DEF OrderFrom
<1> DEFINE Far == {j \in Nat : i + j <= Len(sigs) => f[i + j] >= k + j}
<1>2. ASSUME NEW j \in Nat, j \notin Far, \A l \in Nat : l < j => l \in Far PROVE FALSE
  <2>1. i + j \in i .. Len(sigs) /\ ~(f[i + j] >= k + j) BY <1>2
  <2>2. f[i + j] \in k .. Len(keys) BY <1>1, <2>1
  <2>3. j # 0 BY <2>1, <2>2
  <2>4. j - 1 \in Far
    <3> HIDE DEF Far
    <3>1. j - 1 \in Nat /\ j - 1 < j BY <2>3
    <3> QED BY <3>1, <1>2
  <2>5. i + (j - 1) \in i .. Len(sigs) /\ i + (j - 1) < i + j BY <2>1, <2>3
  <2>6. f[i + (j - 1)] >= k + (j - 1) BY <2>4, <2>5
  <2>7. f[i + (j - 1)] < f[i + j] BY <1>1, <2>1, <2>5
  <2>8. f[i + (j - 1)] \in k .. Len(keys) BY <1>1, <2>5
  <2> QED BY <2>1, <2>2, <2>6, <2>7, <2>8
<1>3. Len(sigs) - i \in Far
  <2>1. Len(sigs) - i \in Nat OBVIOUS
  <2> HIDE DEF Far
  <2> QED BY <2>1, <1>2, LeastMissing
<1>4. Len(sigs) \in i .. Len(sigs) /\ i + (Len(sigs) - i) = Len(sigs) OBVIOUS
<1>5. f[Len(sigs)] \in k .. Len(keys) BY <1>1, <1>4
<1>6. f[Len(sigs)] >= k + (Len(sigs) - i) BY <1>3, <1>4
<1> QED BY <1>5, <1>6

(* The loop meets no error in an encoding. *)
WellEncoded(m, sigs, keys) ==
  \A i \in 1 .. Len(sigs), k \in 1 .. Len(keys) : EncodingError(m, sigs[i], keys[k]) = ""

(* What is found at key k and signature i is right. *)
RightAt(verdict, m, sigs, keys, script, k, i) ==
  /\ verdict \in Verdicts \ {""}
  /\ verdict = "true" => OrderFrom(sigs, keys, script, i, k)
  /\ verdict = "false" => ~OrderFrom(sigs, keys, script, i, k)
  /\ WellEncoded(m, sigs, keys) => verdict \in {"true", "false"}

(* What the loop decides at its first key and signature *)
LEMMA MatchingDecides ==
  ASSUME NEW m, NEW sigs, NEW keys, NEW script, NEW n \in Nat, NEW K \in Nat,
         n = Len(sigs), K = Len(keys), n <= K
  PROVE  RightAt(Matching(m, sigs, keys, script), m, sigs, keys, script, 1, 1)
<1> DEFINE Rec(f) == [k \in 1 .. Len(keys) + 1 |-> [i \in 1 .. Len(sigs) + 1 |->
             IF i > Len(sigs) THEN "true"
             ELSE IF EncodingError(m, sigs[i], keys[k]) # "" THEN EncodingError(m, sigs[i], keys[k])
             ELSE LET next == IF Signs(sigs[i], keys[k], script) THEN i + 1 ELSE i
                  IN  IF Len(sigs) - next >= Len(keys) - k THEN "false" ELSE f[k + 1][next]]]
           match == CHOOSE f : f = Rec(f)
<1>1. Matching(m, sigs, keys, script) = match[1][1] BY DEF Matching
<1>2. Len(sigs) = n /\ Len(keys) = K OBVIOUS
<1>3. match = Rec(match)
  <2>1. Len(sigs) \in Nat /\ Len(keys) \in Nat BY <1>2
  <2>2. PICK f : Decides(f, m, sigs, keys, script) BY <2>1, MatchingsExist, Zenon
  <2>3. f = Rec(f) BY <2>2, Zenon DEF Verdict, Decides
  <2>4. \E g : g = Rec(g) BY <2>3, Zenon
  <2> HIDE DEF Rec
  <2> QED BY <2>4, Zenon
<1>4. \A k \in 1 .. K + 1, i \in 1 .. n + 1 :
        match[k][i] = Verdict(match, m, sigs, keys, script, k, i)
  <2> HIDE DEF match
  <2>1. Decides(match, m, sigs, keys, script) BY <1>3, Zenon DEF Verdict, Decides
  <2> TAKE k \in 1 .. K + 1, i \in 1 .. n + 1
  <2>2. k \in 1 .. Len(keys) + 1 /\ i \in 1 .. Len(sigs) + 1 BY <1>2
  <2>3. match[k] = [j \in 1 .. Len(sigs) + 1 |-> Verdict(match, m, sigs, keys, script, k, j)]
    <3> DEFINE D == 1 .. Len(keys) + 1
               F(l) == [j \in 1 .. Len(sigs) + 1 |-> Verdict(match, m, sigs, keys, script, l, j)]
    <3>1. match = [l \in D |-> F(l)] /\ k \in D BY <2>1, <2>2 DEF Decides
    <3> HIDE DEF D, F
    <3>2. match[k] = F(k) BY <3>1
    <3> QED BY <3>2 DEF F
  <2> QED BY <2>2, <2>3
<1> HIDE DEF match, Rec
<1> DEFINE Found(k, i) == RightAt(match[k][i], m, sigs, keys, script, k, i)
           Decided == {d \in Nat : d <= K =>
                         \A i \in 1 .. n + 1 : n - i <= d - 1 => Found(K + 1 - d, i)}
<1>5. \A k \in 1 .. K + 1 : Found(k, n + 1)
  <2> TAKE k \in 1 .. K + 1
  <2>1. match[k][n + 1] = "true"
    <3>1. n + 1 > Len(sigs) /\ n + 1 \in 1 .. n + 1 BY <1>2
    <3>2. match[k][n + 1] = Verdict(match, m, sigs, keys, script, k, n + 1) BY <1>4, <3>1
    <3> QED BY <3>1, <3>2, Zenon DEF Verdict
  <2>2. OrderFrom(sigs, keys, script, n + 1, k)
    <3> DEFINE f == [a \in n + 1 .. n |-> k]
    <3>1. n + 1 .. n = {} BY <1>2
    <3>2. f \in [n + 1 .. n -> k .. K] BY <3>1
    <3> HIDE DEF f
    <3> QED BY <3>1, <3>2 DEF OrderFrom
  <2> QED BY <2>1, <2>2, Zenon DEF RightAt, Verdicts
<1>6. ASSUME NEW k \in 1 .. K, NEW i \in 1 .. n, n - i <= K - k,
             \A j \in 1 .. n + 1 : n - j <= K - k - 1 => Found(k + 1, j)
      PROVE  Found(k, i)
  <2> DEFINE next == IF Signs(sigs[i], keys[k], script) THEN i + 1 ELSE i
           error == EncodingError(m, sigs[i], keys[k])
  <2>1. WellEncoded(m, sigs, keys) => error = "" BY <1>2, Zenon DEF WellEncoded
  <2>2. match[k][i] = IF error # "" THEN error
                      ELSE IF n - next >= K - k THEN "false" ELSE match[k + 1][next]
    <3>1. ~(i > Len(sigs)) /\ i \in 1 .. n + 1 /\ k \in 1 .. K + 1 BY <1>2
    <3>2. match[k][i] = Verdict(match, m, sigs, keys, script, k, i) BY <1>4, <3>1
    <3> QED BY <3>1, <3>2, <1>2, Zenon DEF Verdict
  <2>3. OrderFrom(sigs, keys, script, i, k) <=> OrderFrom(sigs, keys, script, next, k + 1)
    <3>1. CASE Signs(sigs[i], keys[k], script) BY <3>1, <1>2, OrderTakes
    <3>2. CASE ~Signs(sigs[i], keys[k], script) BY <3>2, <1>2, OrderSkips
    <3> QED BY <3>1, <3>2
  <2>4. next \in 1 .. n + 1 BY <1>2
  <2>7. error \in Verdicts \ {"true", "false"} BY EncodingErrorType
  <2> HIDE DEF next, error
  <2>8. CASE error # "" BY <2>1, <2>2, <2>7, <2>8, Zenon DEF RightAt
  <2>5. CASE error = "" /\ n - next >= K - k
    <3>4. n - next >= K - k BY <2>5, Zenon
    <3>1. next \in 1 .. n /\ k + 1 \in 1 .. K + 1 BY <2>4, <3>4, <1>2
    <3>2. ~OrderFrom(sigs, keys, script, next, k + 1)
      <4>1. ~(n - next <= K - (k + 1)) BY <3>4, <2>4, <1>2
      <4> QED BY <3>1, <4>1, <1>2, OrderNeedsKeys
    <3>3. match[k][i] = "false" BY <2>2, <2>5, Zenon
    <3> QED BY <2>3, <3>2, <3>3, Zenon DEF RightAt, Verdicts
  <2>6. CASE error = "" /\ ~(n - next >= K - k)
    <3>4. ~(n - next >= K - k) BY <2>6, Zenon
    <3>1. n - next <= K - k - 1 BY <2>4, <3>4, <1>2
    <3>2. Found(k + 1, next) BY <3>1, <2>4, <1>6
    <3>3. match[k][i] = match[k + 1][next] BY <2>2, <2>6, Zenon
    <3> QED BY <2>3, <3>2, <3>3, Zenon DEF RightAt
  <2> QED BY <2>5, <2>6, <2>8
<1>7. ASSUME NEW d \in Nat, d \notin Decided, \A e \in Nat : e < d => e \in Decided PROVE FALSE
  <2> HIDE DEF Found
  <2>1. PICK i \in 1 .. n + 1 : d <= K /\ n - i <= d - 1 /\ ~Found(K + 1 - d, i) BY <1>7
  <2>2. K + 1 - d \in 1 .. K + 1 BY <2>1, <1>2
  <2>3. i # n + 1 BY <2>1, <2>2, <1>5
  <2>4. d # 0 /\ i \in 1 .. n BY <2>1, <2>3, <1>2
  <2>5. d - 1 \in Decided
    <3> HIDE DEF Decided
    <3>1. d - 1 \in Nat /\ d - 1 < d BY <2>4
    <3> QED BY <3>1, <1>7
  <2>6. \A j \in 1 .. n + 1 : n - j <= d - 1 - 1 => Found(K + 1 - (d - 1), j)
    BY <2>1, <2>5, <1>2
  <2> DEFINE k == K + 1 - d
  <2>7. k \in 1 .. K /\ K + 1 - (d - 1) = k + 1 /\ d - 1 - 1 = K - k - 1 /\ n - i <= K - k
    BY <2>1, <2>4, <1>2
  <2> HIDE DEF k
  <2>8. Found(k, i) BY <2>4, <2>6, <2>7, <1>6
  <2> QED BY <2>1, <2>8 DEF k
<1>8. K \in Decided
  <2> HIDE DEF Decided
  <2> QED BY <1>2, <1>7, LeastMissing
<1>9. Found(1, 1)
  <2> HIDE DEF Found
  <2>1. 1 \in 1 .. n + 1 /\ n - 1 <= K - 1 /\ K + 1 - K = 1 BY <1>2
  <2> QED BY <1>2, <1>8, <2>1
<1> QED BY <1>1, <1>9

(* The loop of OP_CHECKMULTISIG finds the signatures matched exactly when some *)
(* choice of as many keys, in the keys' order, matches them: taking the first   *)
(* key that matches and leaving off when too few are left misses no choice,     *)
(* and no key serves two signatures.                                          *)
THEOREM GreedyIsEnough ==
  ASSUME NEW m, NEW sigs \in Seq(Buffer), NEW keys \in Seq(Buffer), NEW script,
         Len(sigs) <= Len(keys),
         \A i \in DOMAIN sigs, k \in DOMAIN keys : EncodingError(m, sigs[i], keys[k]) = ""
  PROVE  /\ Matching(m, sigs, keys, script) \in {"true", "false"}
         /\ Matching(m, sigs, keys, script) = "true" <=> InOrder(sigs, keys, script)
<1>1. Len(sigs) \in Nat /\ Len(keys) \in Nat
      /\ DOMAIN sigs = 1 .. Len(sigs) /\ DOMAIN keys = 1 .. Len(keys)
  BY LenProperties
<1>2. InOrder(sigs, keys, script) <=> OrderFrom(sigs, keys, script, 1, 1)
  BY <1>1, Zenon DEF InOrder, OrderFrom
<1>3. WellEncoded(m, sigs, keys) BY <1>1, Zenon DEF WellEncoded
<1>4. RightAt(Matching(m, sigs, keys, script), m, sigs, keys, script, 1, 1)
  BY <1>1, MatchingDecides
<1> QED BY <1>2, <1>3, <1>4, Zenon DEF RightAt

-----------------------------------------------------------------------------
(* The inductive invariant                                                 *)

(* The operations among the first k chunks *)
OpsUpTo(s, k) == {i \in 1 .. k : s[i].op > Opcode.OP_16}

(* The machine is within its script, and what it has passed is within the   *)
(* limits.                                                                  *)
InScript(m) == m.pc \in 0 .. Len(m.script) /\ m.pbegincodehash \in 0 .. m.pc
PassedWithinLimits(m) ==
  /\ Cardinality(OpsUpTo(m.script, m.pc)) <= m.nOpCount
  /\ m.nOpCount <= MAX_OPS
  /\ \A i \in 1 .. m.pc :
       /\ HasBuf(m.script[i]) => Len(m.script[i].buf) <= MAX_SCRIPT_ELEMENT_SIZE
       /\ m.script[i].op \notin Disabled

CallTyped ==
  /\ {call.args.scriptSig, call.args.scriptPubkey} \subseteq Seq(Chunk)
  /\ call.args.flags \subseteq Flags
  /\ call.stackCopy \in Stack

(* A second call of verify() finds the counters of the first, so that only    *)
(* the script of its input is not covered.                                    *)
Covered == calls <= 1 \/ phase \in {"scriptPubkey", "redeemScript"}

Inv ==
  /\ Machine(interpreter)
  /\ CallTyped
  /\ phase \in {"idle"} \cup Running \cup Ended
  /\ calls \in 0 .. MaxCalls
  /\ calls = 0 => interpreter = Initialized /\ phase = "idle"
  /\ Covered => InScript(interpreter)
  /\ Covered /\ phase \in Running => PassedWithinLimits(interpreter)

(* One more chunk passed *)
LEMMA OneMoreOp ==
  ASSUME NEW s, NEW k \in Nat
  PROVE  /\ IsFiniteSet(OpsUpTo(s, k)) /\ Cardinality(OpsUpTo(s, k)) \in Nat
         /\ Cardinality(OpsUpTo(s, k + 1))
              = Cardinality(OpsUpTo(s, k)) + (IF s[k + 1].op > Opcode.OP_16 THEN 1 ELSE 0)
<1>1. IsFiniteSet(OpsUpTo(s, k))
  <2>1. IsFiniteSet(1 .. k) BY FS_Interval
  <2>2. OpsUpTo(s, k) \subseteq 1 .. k BY DEF OpsUpTo
  <2> QED BY <2>1, <2>2, FS_Subset
<1>2. Cardinality(OpsUpTo(s, k)) \in Nat BY <1>1, FS_CardinalityType
<1>3. CASE s[k + 1].op > Opcode.OP_16
  <2>1. OpsUpTo(s, k + 1) = OpsUpTo(s, k) \cup {k + 1} BY <1>3 DEF OpsUpTo
  <2>2. k + 1 \notin OpsUpTo(s, k) BY DEF OpsUpTo
  <2> QED BY <1>1, <1>2, <1>3, <2>1, <2>2, FS_AddElement
<1>4. CASE ~(s[k + 1].op > Opcode.OP_16)
  <2>1. OpsUpTo(s, k + 1) = OpsUpTo(s, k) BY <1>4 DEF OpsUpTo
  <2> QED BY <1>1, <1>2, <1>4, <2>1
<1> QED BY <1>1, <1>2, <1>3, <1>4

LEMMA NoOps == ASSUME NEW s PROVE Cardinality(OpsUpTo(s, 0)) = 0
<1>1. OpsUpTo(s, 0) = {} BY DEF OpsUpTo
<1> QED BY <1>1, FS_EmptySet

(* A machine that is about to run a script *)
LEMMA Loaded ==
  ASSUME NEW m, Machine(m), m.pc = 0, m.pbegincodehash = 0, m.nOpCount = 0
  PROVE  InScript(m) /\ PassedWithinLimits(m)
<1>1. Len(m.script) \in Nat BY MachineFields, LenProperties
<1>2. InScript(m) BY <1>1 DEF InScript
<1>3. Cardinality(OpsUpTo(m.script, m.pc)) = 0 BY NoOps
<1>4. MAX_OPS \in Nat BY LimitsAssumption
<1> QED BY <1>2, <1>3, <1>4 DEF PassedWithinLimits

LEMMA InitializedTyped ==
  /\ Machine(Initialized)
  /\ Initialized.pc = 0 /\ Initialized.pbegincodehash = 0 /\ Initialized.nOpCount = 0
<1>1. <<>> \in Stack /\ <<>> \in Seq(Chunk) /\ <<>> \in Seq(BOOLEAN) /\ {} \subseteq Flags
  BY Singles
<1> QED BY <1>1 DEF Initialized, Machine, Machines

LEMMA LoadedTyped ==
  ASSUME CallTyped, NEW script \in Seq(Chunk), NEW stack \in Stack
  PROVE  /\ Machine(Load(script, stack))
         /\ Load(script, stack).pc = 0 /\ Load(script, stack).pbegincodehash = 0
         /\ Load(script, stack).nOpCount = 0
<1>1. Initialized \in Machines(Initialized.errstr, Initialized.tx)
  BY InitializedTyped DEF Machine
<1>2. call.args.flags \in SUBSET Flags BY DEF CallTyped
<1> DEFINE m == Load(script, stack)
<1>3. m \in Machines(Initialized.errstr, call.args.tx) /\ m.errstr = Initialized.errstr
      /\ m.tx = call.args.tx
  BY <1>1, <1>2 DEF Load, Machines
<1>4. m.pc = 0 /\ m.pbegincodehash = 0 /\ m.nOpCount = 0
  BY <1>1, InitializedTyped DEF Load, Machines
<1> HIDE DEF m
<1> QED BY <1>3, <1>4 DEF Machine, m

LEMMA StaysInScript ==
  ASSUME NEW m, Machine(m), NEW n, Runs(m, n), InScript(m)
  PROVE  InScript(n)
<1>1. m.pc \in Nat /\ Len(m.script) \in Nat BY MachineFields, LenProperties
<1>2. n.script = m.script /\ n.pc = m.pc /\ n.pbegincodehash \in {m.pbegincodehash, m.pc}
  BY Zenon DEF Runs
<1> DEFINE k == m.pc
           a == m.pbegincodehash
           b == n.pbegincodehash
<1>3. k \in Nat /\ a \in 0 .. k /\ b \in {a, k} BY <1>1, <1>2 DEF InScript
<1> HIDE DEF k, a, b
<1>4. b \in 0 .. k BY <1>3
<1> QED BY <1>2, <1>4, Zenon DEF InScript, k, a, b

(* evaluate() begins with a machine, or refuses its script. *)
LEMMA Entered ==
  ASSUME NEW m, Machine(m), NEW name, Enter(m, name)
  PROVE  /\ Machine(interpreter')
         /\ InScript(m) => InScript(interpreter')
         /\ phase' = "false" \/ (phase' = name /\ interpreter' = m)
<1>1. Runs(m, Fail(m, "SCRIPT_SIZE")) BY Refusing
<1>2. CASE interpreter' = Fail(m, "SCRIPT_SIZE") /\ phase' = "false"
  BY <1>1, <1>2, StaysInScript DEF Runs
<1>3. CASE interpreter' = m /\ phase' = name BY <1>3
<1> QED BY <1>2, <1>3 DEF Enter

LEMMA InitInv == Init => Inv
<1> SUFFICES ASSUME Init PROVE Inv OBVIOUS
<1>1. Machine(interpreter) /\ InScript(interpreter)
  BY InitializedTyped, Loaded DEF Init
<1>2. CallTyped
  <2>1. <<>> \in Seq(Chunk) /\ <<>> \in Stack /\ {} \subseteq Flags BY Singles
  <2> QED BY <2>1 DEF Init, CallTyped
<1>3. calls = 0 /\ 0 \in 0 .. MaxCalls BY LimitsAssumption DEF Init
<1>4. phase = "idle" /\ "idle" \notin Running BY DEF Init, Running
<1> QED BY <1>1, <1>2, <1>3, <1>4 DEF Init, Inv

LEMMA CallVerifyInv == Inv /\ CallVerify => Inv'
<1> SUFFICES ASSUME Inv, CallVerify PROVE Inv' OBVIOUS
<1>0. PICK i \in DOMAIN Calls : \E args \in Calls[i] :
        LET m == [interpreter EXCEPT !.script = args.scriptSig, !.tx = args.tx,
                                     !.flags = args.flags, !.errstr = ""]
        IN  /\ call' = [args |-> args, stackCopy |-> <<>>]
            /\ IF "SIGPUSHONLY" \in args.flags /\ ~IsPushOnly(args.scriptSig)
                 THEN interpreter' = Fail(m, "SIG_PUSHONLY") /\ phase' = "false"
                 ELSE Enter(m, "scriptSig")
  BY Zenon DEF CallVerify
<1>1. PICK args \in Calls[i] :
        LET m == [interpreter EXCEPT !.script = args.scriptSig, !.tx = args.tx,
                                     !.flags = args.flags, !.errstr = ""]
        IN  /\ call' = [args |-> args, stackCopy |-> <<>>]
            /\ IF "SIGPUSHONLY" \in args.flags /\ ~IsPushOnly(args.scriptSig)
                 THEN interpreter' = Fail(m, "SIG_PUSHONLY") /\ phase' = "false"
                 ELSE Enter(m, "scriptSig")
  BY <1>0, Zenon
<1> DEFINE m == [interpreter EXCEPT !.script = args.scriptSig, !.tx = args.tx,
                                    !.flags = args.flags, !.errstr = ""]
<1>2. args.scriptSig \in Seq(Chunk) /\ args.scriptPubkey \in Seq(Chunk) /\ args.flags \subseteq Flags
  BY CallsAssumption
<1>3. CallTyped'
  <2>1. <<>> \in Stack BY Singles
  <2> QED BY <1>1, <1>2, <2>1 DEF CallTyped
<1>4. interpreter \in Machines(interpreter.errstr, interpreter.tx) BY DEF Inv, Machine
<1>5. m \in Machines("", args.tx) /\ m.errstr = "" /\ m.tx = args.tx
  BY <1>2, <1>4 DEF Machines
<1>6. m.pc = interpreter.pc /\ m.pbegincodehash = interpreter.pbegincodehash
      /\ m.nOpCount = interpreter.nOpCount
  BY <1>4 DEF Machines
<1>7. ("SIGPUSHONLY" \in args.flags /\ ~IsPushOnly(args.scriptSig))
        \/ Enter(m, "scriptSig")
  BY <1>1
<1>8. "SIGPUSHONLY" \in args.flags /\ ~IsPushOnly(args.scriptSig)
        => interpreter' = Fail(m, "SIG_PUSHONLY") /\ phase' = "false"
  BY <1>1
<1> HIDE DEF m
<1>9. Machine(m) BY <1>5 DEF Machine
<1>10. calls = 0 => InScript(m) /\ PassedWithinLimits(m)
  BY <1>6, <1>9, Loaded, InitializedTyped DEF Inv
<1>11. /\ Machine(interpreter')
       /\ InScript(m) => InScript(interpreter')
       /\ phase' = "false" \/ (phase' = "scriptSig" /\ interpreter' = m)
  <2>1. CASE "SIGPUSHONLY" \in args.flags /\ ~IsPushOnly(args.scriptSig)
    <3> DEFINE k == Fail(m, "SIG_PUSHONLY")
    <3>1. Runs(m, k) BY <1>9, Refusing
    <3>2. interpreter' = k /\ phase' = "false" BY <2>1, <1>8
    <3>3. Machine(k) BY <3>1 DEF Runs
    <3> HIDE DEF k
    <3>4. InScript(m) => InScript(k) BY <3>1, <1>9, StaysInScript, Zenon
    <3>5. InScript(m) => InScript(interpreter') BY <3>2, <3>4
    <3>6. Machine(interpreter') BY <3>2, <3>3
    <3> QED BY <3>2, <3>5, <3>6
  <2>2. CASE Enter(m, "scriptSig") BY <2>2, <1>9, Entered
  <2> QED BY <2>1, <2>2, <1>7
<1>12. calls' = calls + 1 /\ calls < MaxCalls BY DEF CallVerify
<1>13. calls \in Nat /\ calls' \in 0 .. MaxCalls /\ calls' # 0 /\ (calls' <= 1 => calls = 0)
  <2>1. MaxCalls \in Nat BY LimitsAssumption
  <2> QED BY <2>1, <1>12 DEF Inv
<1>14. phase' \in {"false", "scriptSig"} BY <1>11
<1>15. phase' \in {"idle"} \cup Running \cup Ended /\ phase' \notin {"scriptPubkey", "redeemScript"}
  BY <1>14 DEF Running, Ended
<1>16. Covered' => InScript(interpreter')
  BY <1>10, <1>11, <1>13, <1>15 DEF Covered
<1>17. Covered' /\ phase' \in Running => PassedWithinLimits(interpreter')
  <2>1. "false" \notin Running BY DEF Running
  <2> QED BY <2>1, <1>10, <1>11, <1>13, <1>15 DEF Covered
<1> QED BY <1>3, <1>11, <1>13, <1>15, <1>16, <1>17 DEF Inv

LEMMA RunStepInv == DigestsAreBuffers /\ Inv /\ RunStep => Inv'
<1> SUFFICES ASSUME DigestsAreBuffers, Inv, RunStep PROVE Inv' OBVIOUS
<1> DEFINE m == interpreter
           chunk == m.script[m.pc + 1]
           n == Step(m)
<1>1. Machine(m) /\ m.pc < Len(m.script) /\ phase \in Running BY DEF Inv, RunStep
<1>2. /\ Machine(n) /\ n.script = m.script /\ n.pc = m.pc + 1
      /\ n.pbegincodehash \in {m.pbegincodehash, m.pc + 1}
      /\ n.errstr = "" =>
           /\ HasBuf(chunk) => Len(chunk.buf) <= MAX_SCRIPT_ELEMENT_SIZE
           /\ chunk.op \notin Disabled
           /\ n.nOpCount >= m.nOpCount + (IF chunk.op > Opcode.OP_16 THEN 1 ELSE 0)
           /\ m.nOpCount <= MAX_OPS => n.nOpCount <= MAX_OPS
  BY <1>1, StepRuns
<1>3. interpreter' = n /\ UNCHANGED <<call, calls>> BY DEF RunStep
<1>4. phase' = IF n.errstr = "" THEN phase ELSE "false" BY <1>3 DEF RunStep
<1> HIDE DEF n
<1>5. "false" \notin Running /\ "false" \in Ended /\ "false" \notin {"scriptPubkey", "redeemScript"}
  BY DEF Running, Ended
<1>6. calls # 0
  <2>1. "idle" \notin Running BY DEF Running
  <2> QED BY <2>1, <1>1 DEF Inv
<1>7. Covered' => Covered
  BY <1>3, <1>4, <1>5 DEF Covered
<1>8. InScript(m) => InScript(n)
  <2>1. m.pc \in Nat /\ m.pbegincodehash \in Nat /\ Len(m.script) \in Nat
    BY <1>1, MachineFields, LenProperties
  <2>2. m.pc < Len(m.script) BY <1>1
  <2>3. n.pc = m.pc + 1 /\ n.script = m.script
        /\ n.pbegincodehash \in {m.pbegincodehash, m.pc + 1}
    BY <1>2
  <2> HIDE DEF m
  <2> QED BY <2>1, <2>2, <2>3 DEF InScript
<1>9. ASSUME PassedWithinLimits(m), InScript(m), n.errstr = "" PROVE PassedWithinLimits(n)
  <2>1. m.pc \in Nat /\ m.nOpCount \in Nat /\ n.nOpCount \in Nat BY <1>1, <1>2, MachineFields
  <2> DEFINE c == IF chunk.op > Opcode.OP_16 THEN 1 ELSE 0
             k == Cardinality(OpsUpTo(m.script, m.pc))
             l == Cardinality(OpsUpTo(n.script, n.pc))
  <2>2. k \in Nat /\ l = k + c BY <1>2, <2>1, OneMoreOp
  <2>3. k <= m.nOpCount BY <1>9 DEF PassedWithinLimits
  <2>4. n.nOpCount >= m.nOpCount + c BY <1>2, <1>9
  <2>5. c \in Nat OBVIOUS
  <2> HIDE DEF c, k, l
  <2>6. l <= n.nOpCount BY <2>1, <2>2, <2>3, <2>4, <2>5
  <2>7. n.nOpCount <= MAX_OPS BY <1>2, <1>9 DEF PassedWithinLimits
  <2>8. ASSUME NEW i \in 1 .. n.pc
        PROVE  /\ HasBuf(n.script[i]) => Len(n.script[i].buf) <= MAX_SCRIPT_ELEMENT_SIZE
               /\ n.script[i].op \notin Disabled
    <3>1. CASE i = m.pc + 1 BY <3>1, <1>2, <1>9
    <3>2. CASE i # m.pc + 1
      <4>1. i \in 1 .. m.pc
        <5>1. i \in 1 .. m.pc + 1 BY <1>2, <2>8
        <5> QED BY <5>1, <3>2, <2>1
      <4> QED BY <4>1, <1>2, <1>9 DEF PassedWithinLimits
    <3> QED BY <3>1, <3>2
  <2> QED BY <2>6, <2>7, <2>8 DEF PassedWithinLimits, l
<1>10. CallTyped' BY <1>3 DEF Inv, CallTyped
<1>11. phase' \in {"idle"} \cup Running \cup Ended BY <1>1, <1>4, <1>5
<1>12. Covered' => InScript(interpreter') BY <1>3, <1>7, <1>8 DEF Inv
<1>13. Covered' /\ phase' \in Running => PassedWithinLimits(interpreter')
  BY <1>1, <1>3, <1>4, <1>5, <1>7, <1>9 DEF Inv
<1> QED BY <1>2, <1>3, <1>6, <1>10, <1>11, <1>12, <1>13 DEF Inv

(* The call ends and keeps its machine, but for the error. *)
LEMMA EndedInv ==
  ASSUME Inv, phase \in Running, phase' \in Ended, UNCHANGED <<call, calls>>,
         NEW n, interpreter' = n, n = interpreter \/ \E e : n = Fail(interpreter, e)
  PROVE  Inv'
<1>1. Machine(interpreter) BY DEF Inv
<1>2. Runs(interpreter, n) BY <1>1, RunsItself, Refusing
<1>3. Machine(n) /\ (InScript(interpreter) => InScript(n))
  BY <1>1, <1>2, StaysInScript DEF Runs
<1>4. CallTyped' BY DEF Inv, CallTyped
<1>5. phase' \notin Running /\ phase' \notin {"scriptPubkey", "redeemScript"} /\ phase # "idle"
  BY DEF Running, Ended
<1>6. Covered' => Covered BY <1>5 DEF Covered
<1>7. calls # 0 BY <1>5 DEF Inv
<1> QED BY <1>3, <1>4, <1>5, <1>6, <1>7 DEF Inv

(* The next script of the call begins. *)
LEMMA EnteredInv ==
  ASSUME Inv, phase \in Running, CallTyped', UNCHANGED calls,
         NEW script \in Seq(Chunk), NEW stack \in Stack,
         NEW name \in {"scriptPubkey", "redeemScript"}, Enter(Load(script, stack), name)
  PROVE  Inv'
<1> DEFINE m == Load(script, stack)
<1>1. Machine(m) /\ m.pc = 0 /\ m.pbegincodehash = 0 /\ m.nOpCount = 0
  BY LoadedTyped DEF Inv
<1> HIDE DEF m
<1>2. InScript(m) /\ PassedWithinLimits(m) BY <1>1, Loaded
<1>3. /\ Machine(interpreter')
      /\ InScript(m) => InScript(interpreter')
      /\ phase' = "false" \/ (phase' = name /\ interpreter' = m)
  BY <1>1, Entered DEF m
<1>4. phase' \in {"idle"} \cup Running \cup Ended BY <1>3 DEF Running, Ended
<1>5. calls # 0 BY DEF Inv, Running
<1>6. phase' \in Running => PassedWithinLimits(interpreter')
  <2>1. "false" \notin Running BY DEF Running
  <2> QED BY <2>1, <1>2, <1>3
<1> QED BY <1>2, <1>3, <1>4, <1>5, <1>6 DEF Inv

(* What P2SH takes from the copy of the stack *)
LEMMA RedeemTyped ==
  ASSUME NEW stackCopy \in Stack, stackCopy # <<>>
  PROVE  Last(stackCopy) \in Buffer /\ Front(stackCopy) \in Stack
<1>1. stackCopy \in Seq(Buffer) /\ Len(stackCopy) \in 1 .. Len(stackCopy)
  BY EmptySeq DEF Stack
<1>2. Last(stackCopy) \in Buffer BY <1>1, ElementOfSeq DEF Last
<1>3. \A i \in 1 .. Len(stackCopy) - 1 : stackCopy[i] \in Buffer
  <2> TAKE i \in 1 .. Len(stackCopy) - 1
  <2>1. i \in 1 .. Len(stackCopy) BY <1>1
  <2> QED BY <2>1, <1>1, ElementOfSeq
<1>4. Len(stackCopy) - 1 \in Int BY <1>1
<1> QED BY <1>2, <1>3, <1>4, SubSeqProperties DEF Front, Stack

LEMMA FinishScriptSigInv == Inv /\ FinishScriptSig => Inv'
<1> SUFFICES ASSUME Inv, FinishScriptSig PROVE Inv' OBVIOUS
<1>1. phase \in Running /\ UNCHANGED calls BY DEF FinishScriptSig, AtEnd, Running
<1>2. CASE Return(Fail(interpreter, EndError(interpreter)), "false") /\ UNCHANGED call
  <2> DEFINE n == Fail(interpreter, EndError(interpreter))
  <2>1. interpreter' = n /\ phase' \in Ended BY <1>2 DEF Return, Ended
  <2>2. n = interpreter \/ \E e : n = Fail(interpreter, e) OBVIOUS
  <2> HIDE DEF n
  <2> QED BY <1>1, <1>2, <2>1, <2>2, EndedInv
<1>3. CASE /\ call' = [call EXCEPT !.stackCopy =
                          IF "P2SH" \in call.args.flags THEN interpreter.stack ELSE <<>>]
           /\ Enter(Load(call.args.scriptPubkey, interpreter.stack), "scriptPubkey")
  <2>1. call.args.scriptPubkey \in Seq(Chunk) BY DEF Inv, CallTyped
  <2>2. interpreter.stack \in Stack /\ <<>> \in Stack BY MachineFields, Singles DEF Inv
  <2>3. CallTyped' BY <1>3, <2>2 DEF Inv, CallTyped
  <2> QED BY <1>1, <1>3, <2>1, <2>2, <2>3, EnteredInv
<1> QED BY <1>2, <1>3 DEF FinishScriptSig

LEMMA FinishScriptPubkeyInv == Inv /\ FinishScriptPubkey => Inv'
<1> SUFFICES ASSUME Inv, FinishScriptPubkey PROVE Inv' OBVIOUS
<1> DEFINE redeem == FromBuffer(Last(call.stackCopy))
           stack == Front(call.stackCopy)
<1>1. phase \in Running /\ UNCHANGED <<call, calls>>
  BY DEF FinishScriptPubkey, AtEnd, Running
<1>2. CallTyped' BY <1>1 DEF Inv, CallTyped
<1>3. \/ \E e : Return(Fail(interpreter, e), "false")
      \/ Return(interpreter, "true") \/ Return(interpreter, "threw")
      \/ call.stackCopy # <<>> /\ Enter(Load(redeem.chunks, stack), "redeemScript")
  BY Zenon DEF FinishScriptPubkey, RedeemStack
<1>4. CASE \E e : Return(Fail(interpreter, e), "false")
  <2>1. PICK e : interpreter' = Fail(interpreter, e) /\ phase' = "false" BY <1>4 DEF Return
  <2>2. "false" \in Ended BY DEF Ended
  <2> QED BY <1>1, <2>1, <2>2, EndedInv
<1>5. CASE Return(interpreter, "true") \/ Return(interpreter, "threw")
  <2>1. interpreter' = interpreter /\ phase' \in Ended BY <1>5 DEF Return, Ended
  <2> QED BY <1>1, <2>1, EndedInv
<1>6. CASE call.stackCopy # <<>> /\ Enter(Load(redeem.chunks, stack), "redeemScript")
  <2>1. Last(call.stackCopy) \in Buffer /\ stack \in Stack
    BY <1>6, RedeemTyped DEF Inv, CallTyped
  <2>2. redeem.chunks \in Seq(Chunk) BY <2>1, FromBufferType DEF Reading
  <2> HIDE DEF redeem, stack
  <2> QED BY <1>1, <1>2, <1>6, <2>1, <2>2, EnteredInv
<1> QED BY <1>3, <1>4, <1>5, <1>6

LEMMA FinishRedeemScriptInv == Inv /\ FinishRedeemScript => Inv'
<1> SUFFICES ASSUME Inv, FinishRedeemScript PROVE Inv' OBVIOUS
<1>1. phase \in Running /\ UNCHANGED <<call, calls>>
  BY DEF FinishRedeemScript, AtEnd, Running
<1>2. (\E e : Return(Fail(interpreter, e), "false")) \/ Return(interpreter, "true")
  BY Zenon DEF FinishRedeemScript
<1>3. PICK n : /\ interpreter' = n /\ phase' \in Ended
               /\ n = interpreter \/ \E e : n = Fail(interpreter, e)
  BY <1>2 DEF Return, Ended
<1> QED BY <1>1, <1>3, EndedInv

LEMMA StepInv == DigestsAreBuffers /\ Inv /\ [Next]_vars => Inv'
<1> SUFFICES ASSUME DigestsAreBuffers, Inv, [Next]_vars PROVE Inv' OBVIOUS
<1>1. CASE CallVerify BY <1>1, CallVerifyInv
<1>2. CASE RunStep BY <1>2, RunStepInv
<1>3. CASE FinishScriptSig BY <1>3, FinishScriptSigInv
<1>4. CASE FinishScriptPubkey BY <1>4, FinishScriptPubkeyInv
<1>5. CASE FinishRedeemScript BY <1>5, FinishRedeemScriptInv
<1>6. CASE UNCHANGED vars
  <2>1. /\ interpreter' = interpreter /\ phase' = phase /\ call' = call /\ calls' = calls
    BY <1>6 DEF vars
  <2>2. CallTyped' BY <2>1 DEF Inv, CallTyped
  <2>3. Machine(interpreter)' BY <2>1 DEF Inv, Machine
  <2>4. (calls = 0 => interpreter = Initialized /\ phase = "idle")' BY <2>1 DEF Inv
  <2>5. (Covered => InScript(interpreter))' BY <2>1 DEF Inv, Covered, InScript
  <2>6. (Covered /\ phase \in Running => PassedWithinLimits(interpreter))'
    BY <2>1, SMTT(30) DEF Inv, Covered, PassedWithinLimits
  <2> QED BY <2>1, <2>2, <2>3, <2>4, <2>5, <2>6 DEF Inv
<1> QED BY <1>1, <1>2, <1>3, <1>4, <1>5, <1>6 DEF Next

-----------------------------------------------------------------------------
(* Pay to script hash: what the steps of its scripts leave                 *)

LEMMA OpcodeValues ==
  /\ Opcode.OP_PUSHDATA4 = 78 /\ Opcode.OP_1NEGATE = 79 /\ Opcode.OP_1 = 81
  /\ Opcode.OP_16 = 96 /\ Opcode.OP_NOP = 97 /\ Opcode.OP_NOP1 = 176
  /\ Opcode.OP_NOP4 = 179 /\ Opcode.OP_NOP10 = 185 /\ Opcode.OP_IF = 99
  /\ Opcode.OP_NOTIF = 100 /\ Opcode.OP_ELSE = 103 /\ Opcode.OP_ENDIF = 104
  /\ Opcode.OP_VERIFY = 105 /\ Opcode.OP_RETURN = 106 /\ Opcode.OP_TOALTSTACK = 107
  /\ Opcode.OP_FROMALTSTACK = 108 /\ Opcode.OP_2DROP = 109 /\ Opcode.OP_2SWAP = 114
  /\ Opcode.OP_DROP = 117 /\ Opcode.OP_DUP = 118 /\ Opcode.OP_OVER = 120
  /\ Opcode.OP_ROT = 123
  /\ Opcode.OP_TUCK = 125 /\ Opcode.OP_IFDUP = 115 /\ Opcode.OP_DEPTH = 116
  /\ Opcode.OP_PICK = 121 /\ Opcode.OP_ROLL = 122 /\ Opcode.OP_SIZE = 130
  /\ Opcode.OP_EQUAL = 135 /\ Opcode.OP_EQUALVERIFY = 136 /\ Opcode.OP_1ADD = 139
  /\ Opcode.OP_1SUB = 140 /\ Opcode.OP_NEGATE = 143 /\ Opcode.OP_ABS = 144
  /\ Opcode.OP_NOT = 145 /\ Opcode.OP_0NOTEQUAL = 146 /\ Opcode.OP_ADD = 147
  /\ Opcode.OP_SUB = 148 /\ Opcode.OP_BOOLAND = 154 /\ Opcode.OP_MAX = 164
  /\ Opcode.OP_WITHIN = 165 /\ Opcode.OP_RIPEMD160 = 166 /\ Opcode.OP_SHA1 = 167
  /\ Opcode.OP_SHA256 = 168 /\ Opcode.OP_HASH160 = 169 /\ Opcode.OP_HASH256 = 170
  /\ Opcode.OP_CODESEPARATOR = 171 /\ Opcode.OP_CHECKSIG = 172
  /\ Opcode.OP_CHECKSIGVERIFY = 173 /\ Opcode.OP_CHECKMULTISIG = 174
  /\ Opcode.OP_CHECKMULTISIGVERIFY = 175 /\ Opcode.OP_CHECKLOCKTIMEVERIFY = 177
  /\ Opcode.OP_CHECKSEQUENCEVERIFY = 178
BY DEF Opcode

(* The branches that the scripts of an input and of its output take *)
LEMMA Branches ==
  ASSUME NEW m, NEW num \in Byte
  PROVE  /\ num \in {Opcode.OP_1NEGATE} \cup Opcode.OP_1 .. Opcode.OP_16
              => Execute(m, num) = Replace(m, 0, <<ToScriptNum(num - (Opcode.OP_1 - 1))>>)
         /\ num = 80 => Execute(m, num) = Fail(m, "BAD_OPCODE")
         /\ num \in {Opcode.OP_EQUAL, Opcode.OP_EQUALVERIFY} => Execute(m, num) = Equal(m, num)
         /\ num = Opcode.OP_DUP => Execute(m, num) = Move(m, num)
         /\ num = Opcode.OP_HASH160 => Execute(m, num) = HashOp(m, num)
         /\ num \in LockOps => Execute(m, num) = CheckLock(m, num)
         /\ num = Opcode.OP_CHECKMULTISIG => Execute(m, num) = CheckMultisig(m, num)
<1> DEFINE separated == [m EXCEPT !.pbegincodehash = m.pc]
           small == Replace(m, 0, <<ToScriptNum(num - (Opcode.OP_1 - 1))>>)
           smalls == {Opcode.OP_1NEGATE} \cup Opcode.OP_1 .. Opcode.OP_16
           nops == {Opcode.OP_NOP1} \cup Opcode.OP_NOP4 .. Opcode.OP_NOP10
<1>1. Execute(m, num) =
         CASE num \in smalls -> small
           [] num = Opcode.OP_NOP -> m
           [] num \in LockOps -> CheckLock(m, num)
           [] num \in nops -> Nop(m)
           [] num \in {Opcode.OP_IF, Opcode.OP_NOTIF} -> If(m, num)
           [] num = Opcode.OP_ELSE -> Else(m)
           [] num = Opcode.OP_ENDIF -> EndIf(m)
           [] num = Opcode.OP_VERIFY -> Verify(m)
           [] num = Opcode.OP_RETURN -> Fail(m, "OP_RETURN")
           [] num = Opcode.OP_TOALTSTACK -> ToAltStack(m)
           [] num = Opcode.OP_FROMALTSTACK -> FromAltStack(m)
           [] num \in MoveOps -> Move(m, num)
           [] num = Opcode.OP_IFDUP -> IfDup(m)
           [] num = Opcode.OP_DEPTH -> Depth(m)
           [] num \in {Opcode.OP_PICK, Opcode.OP_ROLL} -> PickOrRoll(m, num)
           [] num = Opcode.OP_SIZE -> Size(m)
           [] num \in {Opcode.OP_EQUAL, Opcode.OP_EQUALVERIFY} -> Equal(m, num)
           [] num \in UnaryOps -> UnaryOp(m, num)
           [] num \in BinaryOps -> BinaryOp(m, num)
           [] num = Opcode.OP_WITHIN -> Within(m)
           [] num \in HashOps -> HashOp(m, num)
           [] num = Opcode.OP_CODESEPARATOR -> separated
           [] num \in {Opcode.OP_CHECKSIG, Opcode.OP_CHECKSIGVERIFY} -> CheckSig(m, num)
           [] num \in {Opcode.OP_CHECKMULTISIG, Opcode.OP_CHECKMULTISIGVERIFY} ->
                CheckMultisig(m, num)
           [] OTHER -> Fail(m, "BAD_OPCODE")
  BY Zenon DEF Execute
<1>2. num \in Nat BY DEF Byte
<1>3. num \in smalls <=> num = 79 \/ num \in 81 .. 96 BY OpcodeValues
<1>4. num \in nops <=> num = 176 \/ num \in 179 .. 185 BY OpcodeValues
<1>5. num \in LockOps <=> num = 177 \/ num = 178 BY OpcodeValues DEF LockOps
<1>6. num \in MoveOps <=> num \in 109 .. 114 \/ num \in 117 .. 120 \/ num \in 123 .. 125
  BY OpcodeValues DEF MoveOps
<1>7. num \in UnaryOps <=> num \in {139, 140} \/ num \in 143 .. 146
  BY OpcodeValues, <1>2 DEF UnaryOps
<1>8. num \in BinaryOps <=> num \in {147, 148} \/ num \in 154 .. 164
  BY OpcodeValues DEF BinaryOps
<1>9. num \in HashOps <=> num \in 166 .. 170 BY OpcodeValues DEF HashOps
<1> HIDE DEF separated, small, smalls, nops
<1>10. num \in smalls => Execute(m, num) = small
  BY <1>1, <1>3, <1>4, <1>5, <1>6, <1>7, <1>8, <1>9, OpcodeValues
<1>11. num = 80 => Execute(m, num) = Fail(m, "BAD_OPCODE")
  BY <1>1, <1>3, <1>4, <1>5, <1>6, <1>7, <1>8, <1>9, OpcodeValues
<1>12. num \in {Opcode.OP_EQUAL, Opcode.OP_EQUALVERIFY} => Execute(m, num) = Equal(m, num)
  BY <1>1, <1>3, <1>4, <1>5, <1>6, <1>7, <1>8, <1>9, OpcodeValues
<1>13. num = Opcode.OP_HASH160 => Execute(m, num) = HashOp(m, num)
  BY <1>1, <1>3, <1>4, <1>5, <1>6, <1>7, <1>8, <1>9, OpcodeValues
<1>14. num \in LockOps => Execute(m, num) = CheckLock(m, num)
  BY <1>1, <1>3, <1>4, <1>5, <1>6, <1>7, <1>8, <1>9, OpcodeValues
<1>15. num = Opcode.OP_DUP => Execute(m, num) = Move(m, num)
  BY <1>1, <1>3, <1>4, <1>5, <1>6, <1>7, <1>8, <1>9, OpcodeValues
<1>16. num = Opcode.OP_CHECKMULTISIG => Execute(m, num) = CheckMultisig(m, num)
  BY <1>1, <1>3, <1>4, <1>5, <1>6, <1>7, <1>8, <1>9, OpcodeValues
<1> QED BY <1>10, <1>11, <1>12, <1>13, <1>14, <1>15, <1>16 DEF small, smalls

(* A machine that differs in its place and its counter alone *)
OnlyCounts(m, m0) ==
  /\ Machine(m) /\ m.errstr = m0.errstr /\ m.script = m0.script /\ m.stack = m0.stack
  /\ m.vfExec = m0.vfExec /\ m.tx = m0.tx /\ m.flags = m0.flags
  /\ m.pbegincodehash = m0.pbegincodehash

(* A chunk that is not skipped is past a limit, or has its branch. *)
LEMMA StepBranches ==
  ASSUME NEW m0, Machine(m0), m0.pc < Len(m0.script), Executing(m0)
  PROVE  LET chunk == m0.script[m0.pc + 1]
         IN  /\ chunk \in Chunk
             /\ \E m : /\ OnlyCounts(m, m0)
                      /\ \/ Step(m0).errstr \in {"PUSH_SIZE", "OP_COUNT"}
                         \/ chunk.op \in Disabled /\ Step(m0).errstr = "DISABLED_OPCODE"
                         \/ Step(m0) = IF chunk.op <= Opcode.OP_PUSHDATA4 THEN PushData(m, chunk)
                                       ELSE Execute(m, chunk.op)
<1> DEFINE chunk == m0.script[m0.pc + 1]
           num == chunk.op
           counts == num > Opcode.OP_16
           next == [m0 EXCEPT !.pc = @ + 1]
           m == IF counts THEN [next EXCEPT !.nOpCount = @ + 1] ELSE next
<1>1. /\ m0 \in Machines(m0.errstr, m0.tx) /\ m0.pc \in Nat /\ m0.nOpCount \in Nat
      /\ m0.script \in Seq(Chunk)
  BY MachineFields DEF Machine
<1>2. chunk \in Chunk /\ num \in Byte /\ num \in Nat
  <2>1. m0.pc + 1 \in 1 .. Len(m0.script) BY <1>1, LenProperties
  <2>2. chunk \in Chunk BY <2>1, <1>1, ElementOfSeq
  <2> QED BY <2>2, ChunkFields
<1> HIDE DEF chunk, counts
<1>3. /\ next \in Machines(m0.errstr, m0.tx) /\ next.nOpCount = m0.nOpCount
      /\ next.errstr = m0.errstr /\ next.script = m0.script /\ next.stack = m0.stack
      /\ next.vfExec = m0.vfExec /\ next.tx = m0.tx /\ next.flags = m0.flags
      /\ next.pbegincodehash = m0.pbegincodehash
  BY <1>1, SMTT(30) DEF Machines
<1> HIDE DEF next
<1>4. /\ m \in Machines(m0.errstr, m0.tx)
      /\ m.errstr = m0.errstr /\ m.script = m0.script /\ m.stack = m0.stack
      /\ m.vfExec = m0.vfExec /\ m.tx = m0.tx /\ m.flags = m0.flags
      /\ m.pbegincodehash = m0.pbegincodehash
  <2> DEFINE k == [next EXCEPT !.nOpCount = @ + 1]
             c == next.nOpCount + 1
  <2>1. c \in Nat BY <1>1, <1>3
  <2>2. k = [next EXCEPT !.nOpCount = c] OBVIOUS
  <2> HIDE DEF c, k
  <2>3. k \in Machines(m0.errstr, m0.tx) BY <2>1, <2>2, <1>3 DEF Machines
  <2>4. /\ k.errstr = next.errstr /\ k.script = next.script /\ k.stack = next.stack
        /\ k.vfExec = next.vfExec /\ k.tx = next.tx /\ k.flags = next.flags
        /\ k.pbegincodehash = next.pbegincodehash
    BY <2>2, <1>3 DEF Machines
  <2>5. m = k \/ m = next BY DEF k
  <2> HIDE DEF m
  <2> QED BY <2>3, <2>4, <2>5, <1>3
<1>5. Step(m0) =
        IF HasBuf(chunk) /\ Len(chunk.buf) > MAX_SCRIPT_ELEMENT_SIZE THEN Fail(next, "PUSH_SIZE")
        ELSE IF counts /\ m.nOpCount > MAX_OPS THEN Fail(m, "OP_COUNT")
        ELSE IF num \in Disabled THEN Fail(m, "DISABLED_OPCODE")
        ELSE IF Executing(m) /\ num \in 0 .. Opcode.OP_PUSHDATA4 THEN PushData(m, chunk)
        ELSE IF Executing(m) \/ num \in Opcode.OP_IF .. Opcode.OP_ENDIF THEN Execute(m, num)
        ELSE m
  BY Zenon DEF Step, chunk, counts, next
<1> HIDE DEF m
<1>6. Executing(m) BY <1>4 DEF Executing
<1>7. \A e : Fail(m, e).errstr = e /\ Fail(next, e).errstr = e
  BY <1>3, <1>4 DEF Fail, Machines
<1> HIDE DEF num
<1>8. num \in 0 .. Opcode.OP_PUSHDATA4 <=> num <= Opcode.OP_PUSHDATA4
  <2>1. num \in Nat /\ Opcode.OP_PUSHDATA4 = 78 BY <1>2, OpcodeValues, Zenon
  <2> QED BY <2>1
<1>9. \/ Step(m0) = Fail(next, "PUSH_SIZE") \/ Step(m0) = Fail(m, "OP_COUNT")
      \/ num \in Disabled /\ Step(m0) = Fail(m, "DISABLED_OPCODE")
      \/ Step(m0) = IF num <= Opcode.OP_PUSHDATA4 THEN PushData(m, chunk) ELSE Execute(m, num)
  BY <1>5, <1>6, <1>8, Zenon
<1>10. \/ Step(m0).errstr \in {"PUSH_SIZE", "OP_COUNT"}
       \/ num \in Disabled /\ Step(m0).errstr = "DISABLED_OPCODE"
       \/ Step(m0) = IF num <= Opcode.OP_PUSHDATA4 THEN PushData(m, chunk) ELSE Execute(m, num)
  BY <1>7, <1>9, Zenon
<1>11. OnlyCounts(m, m0) BY <1>4, Zenon DEF OnlyCounts, Machine
<1> QED BY <1>2, <1>10, <1>11, Zenon DEF chunk, num

(* step() runs a chunk that is not skipped, and goes on. *)
GoesOn(m) == m.pc < Len(m.script) /\ Executing(m) /\ Step(m).errstr = ""

(* Such a step is that of its opcode. *)
LEMMA StepExecutes ==
  ASSUME NEW m0, Machine(m0), GoesOn(m0)
  PROVE  LET chunk == m0.script[m0.pc + 1]
         IN  \E m : /\ Machine(m) /\ m.stack = m0.stack /\ m.vfExec = m0.vfExec
                    /\ m.tx = m0.tx /\ m.flags = m0.flags
                    /\ Step(m0) = IF chunk.op <= Opcode.OP_PUSHDATA4 THEN PushData(m, chunk)
                                  ELSE Execute(m, chunk.op)
<1> DEFINE chunk == m0.script[m0.pc + 1]
<1>1. m0.pc < Len(m0.script) /\ Executing(m0) /\ Step(m0).errstr = "" BY Zenon DEF GoesOn
<1>2. PICK m : /\ OnlyCounts(m, m0)
               /\ \/ Step(m0).errstr \in {"PUSH_SIZE", "OP_COUNT"}
                  \/ chunk.op \in Disabled /\ Step(m0).errstr = "DISABLED_OPCODE"
                  \/ Step(m0) = IF chunk.op <= Opcode.OP_PUSHDATA4 THEN PushData(m, chunk)
                                ELSE Execute(m, chunk.op)
  BY <1>1, StepBranches, Zenon
<1>3. "PUSH_SIZE" # "" /\ "OP_COUNT" # "" /\ "DISABLED_OPCODE" # "" OBVIOUS
<1> HIDE DEF chunk
<1>4. Step(m0) = IF chunk.op <= Opcode.OP_PUSHDATA4 THEN PushData(m, chunk)
                 ELSE Execute(m, chunk.op)
  BY <1>1, <1>2, <1>3, Zenon
<1> QED BY <1>2, <1>4, Zenon DEF chunk, OnlyCounts

(* What Replace leaves alone *)
OnlyReplaces(m, n, bufs) ==
  /\ Replace(m, n, bufs).stack = Below(m, n) \o bufs
  /\ Replace(m, n, bufs).vfExec = m.vfExec
  /\ Replace(m, n, bufs).tx = m.tx /\ Replace(m, n, bufs).flags = m.flags
  /\ Replace(m, n, bufs).errstr = m.errstr
  /\ Replace(m, n, bufs).pbegincodehash = m.pbegincodehash

LEMMA ReplaceKeeps ==
  ASSUME NEW m, Machine(m), NEW n, NEW bufs
  PROVE  OnlyReplaces(m, n, bufs)
<1> DEFINE s == Below(m, n) \o bufs
<1>1. m \in Machines(m.errstr, m.tx) BY DEF Machine
<1>2. Replace(m, n, bufs) = [m EXCEPT !.stack = s] BY DEF Replace
<1> HIDE DEF s
<1>3. /\ [m EXCEPT !.stack = s].stack = s /\ [m EXCEPT !.stack = s].vfExec = m.vfExec
      /\ [m EXCEPT !.stack = s].tx = m.tx /\ [m EXCEPT !.stack = s].flags = m.flags
      /\ [m EXCEPT !.stack = s].errstr = m.errstr
      /\ [m EXCEPT !.stack = s].pbegincodehash = m.pbegincodehash
  BY <1>1 DEF Machines
<1> QED BY <1>2, <1>3 DEF s, OnlyReplaces

(* A machine that fails does not go on. *)
LEMMA FailsStop == ASSUME NEW m, Machine(m), NEW e PROVE Fail(m, e).errstr = e
<1>1. m \in Machines(m.errstr, m.tx) BY DEF Machine
<1> QED BY <1>1 DEF Fail, Machines

(* A chunk of a push only script pushes what Pushed says. *)
LEMMA PushesIt ==
  ASSUME NEW m, Machine(m), GoesOn(m), m.script[m.pc + 1].op <= Opcode.OP_16
  PROVE  /\ Step(m).stack = Append(m.stack, Pushed(m.script[m.pc + 1]))
         /\ Step(m).vfExec = m.vfExec
         /\ Step(m).tx = m.tx /\ Step(m).flags = m.flags
<1> DEFINE chunk == m.script[m.pc + 1]
           num == chunk.op
<1>1. chunk \in Chunk /\ num \in Byte /\ num \in Nat
  <2>1. m.pc < Len(m.script) BY DEF GoesOn
  <2>2. m.pc \in Nat /\ m.script \in Seq(Chunk) /\ Len(m.script) \in Nat
    BY MachineFields, LenProperties
  <2>3. m.pc + 1 \in 1 .. Len(m.script) BY <2>1, <2>2
  <2>4. chunk \in Chunk BY <2>2, <2>3, ElementOfSeq
  <2> QED BY <2>4, ChunkFields
<1>2. PICK k : /\ Machine(k) /\ k.stack = m.stack /\ k.vfExec = m.vfExec
               /\ k.tx = m.tx /\ k.flags = m.flags
               /\ Step(m) = IF num <= Opcode.OP_PUSHDATA4 THEN PushData(k, chunk)
                            ELSE Execute(k, num)
  BY StepExecutes, Zenon
<1>3. num <= 96 BY OpcodeValues
<1> HIDE DEF chunk
<1>4. Step(m).errstr = "" BY Zenon DEF GoesOn
<1>5. \A e : e # "" => Step(m) # Fail(k, e)
  <2>1. Machine(k) BY <1>2
  <2> QED BY <2>1, <1>4, FailsStop, Zenon
<1>6. "MINIMALDATA" # "" /\ "UNKNOWN_ERROR" # "" /\ "BAD_OPCODE" # "" OBVIOUS
<1>7. Step(m) = Replace(k, 0, <<Pushed(chunk)>>)
  <2>1. CASE num <= Opcode.OP_PUSHDATA4
    <3>1. ~(num > Opcode.OP_PUSHDATA4) BY <1>1, <2>1, OpcodeValues
    <3>2. Step(m) \in {Replace(k, 0, <<FALSEBUF>>), Replace(k, 0, <<chunk.buf>>)}
          /\ (HasBuf(chunk) => Step(m) = Replace(k, 0, <<chunk.buf>>))
          /\ (~HasBuf(chunk) => Step(m) = Replace(k, 0, <<FALSEBUF>>))
      BY <1>2, <1>5, <1>6, <2>1, Zenon DEF PushData, Throw
    <3> QED BY <3>1, <3>2, Zenon DEF Pushed, FALSEBUF
  <2>2. CASE ~(num <= Opcode.OP_PUSHDATA4)
    <3>1. num > Opcode.OP_PUSHDATA4 BY <1>1, <2>2, OpcodeValues
    <3>2. num = 79 \/ num = 80 \/ num \in 81 .. 96 BY <1>1, <1>3, <3>1, OpcodeValues
    <3>3. num # 80
      <4>1. ASSUME num = 80 PROVE FALSE
        <5>1. Step(m) = Fail(k, "BAD_OPCODE") BY <4>1, <1>1, <1>2, <2>2, Branches, Zenon
        <5> QED BY <5>1, <1>5, <1>6, Zenon
      <4> QED BY <4>1
    <3>4. num \in {Opcode.OP_1NEGATE} \cup Opcode.OP_1 .. Opcode.OP_16
      BY <3>2, <3>3, OpcodeValues
    <3>5. Step(m) = Replace(k, 0, <<ToScriptNum(num - (Opcode.OP_1 - 1))>>)
      BY <3>4, <1>1, <1>2, <2>2, Branches, Zenon
    <3> QED BY <3>1, <3>5, Zenon DEF Pushed
  <2> QED BY <2>1, <2>2
<1>8. /\ Step(m).stack = Below(k, 0) \o <<Pushed(chunk)>> /\ Step(m).vfExec = m.vfExec
      /\ Step(m).tx = m.tx /\ Step(m).flags = m.flags
  <2> DEFINE bufs == <<Pushed(chunk)>>
  <2> HIDE DEF bufs
  <2>1. /\ Replace(k, 0, bufs).stack = Below(k, 0) \o bufs
        /\ Replace(k, 0, bufs).vfExec = k.vfExec
        /\ Replace(k, 0, bufs).tx = k.tx /\ Replace(k, 0, bufs).flags = k.flags
    BY <1>2, ReplaceKeeps DEF OnlyReplaces
  <2>2. Step(m) = Replace(k, 0, bufs) BY <1>7 DEF bufs
  <2> QED BY <1>2, <2>1, <2>2, Zenon DEF bufs
<1>9. Below(k, 0) = m.stack
  <2>1. m.stack \in Seq(Buffer) BY MachineFields DEF Stack
  <2>2. Below(k, 0) = SubSeq(m.stack, 1, Len(m.stack))
    <3>1. Len(m.stack) - 0 = Len(m.stack) BY <2>1, LenProperties
    <3> QED BY <3>1, <1>2 DEF Below
  <2> QED BY <2>1, <2>2, SubSeqProperties
<1>10. m.stack \o <<Pushed(chunk)>> = Append(m.stack, Pushed(chunk))
  <2>1. m.stack \in Seq(Buffer) BY MachineFields DEF Stack
  <2> QED BY <2>1
<1> QED BY <1>8, <1>9, <1>10 DEF chunk

(* The top of the stack behind a step that leaves one buffer *)
LEMMA TopOfReplaced ==
  ASSUME NEW m, Machine(m), NEW n \in Nat, Has(m, n), NEW buf \in Buffer
  PROVE  /\ Has(Replace(m, n, <<buf>>), 1) /\ Top(Replace(m, n, <<buf>>), 1) = buf
         /\ Replace(m, n, <<buf>>).vfExec = m.vfExec
<1> DEFINE bufs == <<buf>>
           s == Below(m, n)
           r == Replace(m, n, bufs)
<1>1. m.stack \in Seq(Buffer) /\ Len(m.stack) \in Nat
  BY LenProperties, MachineFields DEF Stack
<1>2. s \in Seq(Buffer)
  <2>1. \A j \in 1 .. Len(m.stack) - n : m.stack[j] \in Buffer
    <3> TAKE j \in 1 .. Len(m.stack) - n
    <3>1. j \in 1 .. Len(m.stack) BY <1>1
    <3> QED BY <3>1, <1>1, ElementOfSeq
  <2>2. 1 \in Int /\ Len(m.stack) - n \in Int BY <1>1
  <2> QED BY <2>1, <2>2, <1>1, SubSeqProperties DEF Below
<1>3. bufs \in Seq(Buffer) /\ Len(bufs) = 1 /\ bufs[1] = buf OBVIOUS
<1>4. r.stack = s \o bufs /\ r.vfExec = m.vfExec
  <2> HIDE DEF bufs
  <2>1. OnlyReplaces(m, n, bufs) BY ReplaceKeeps, Zenon
  <2> QED BY <2>1, Zenon DEF OnlyReplaces
<1> HIDE DEF s, bufs, r
<1>6. Len(s) \in Nat BY <1>2, LenProperties
<1>5. Len(s \o bufs) = Len(s) + 1 /\ (s \o bufs)[Len(s) + 1] = buf
  <2>1. Len(s) + 1 \in 1 .. Len(s) + Len(bufs) /\ ~(Len(s) + 1 <= Len(s))
        /\ Len(s) + 1 - Len(s) = 1
    BY <1>3, <1>6
  <2>2. Len(s \o bufs) = Len(s) + Len(bufs) BY <1>2, <1>3, ConcatProperties, Zenon
  <2>3. \A i \in 1 .. Len(s) + Len(bufs) :
          (s \o bufs)[i] = IF i <= Len(s) THEN s[i] ELSE bufs[i - Len(s)]
    BY <1>2, <1>3, ConcatProperties, Zenon
  <2>4. (s \o bufs)[Len(s) + 1] = buf
    <3> DEFINE i == Len(s) + 1
    <3>1. i \in 1 .. Len(s) + Len(bufs) /\ ~(i <= Len(s)) /\ i - Len(s) = 1 BY <2>1
    <3> HIDE DEF i
    <3>2. (s \o bufs)[i] = buf BY <2>3, <3>1, <1>3, Zenon
    <3> QED BY <3>2 DEF i
  <2> QED BY <2>2, <2>4, <1>3
<1>7. Has(r, 1) /\ Top(r, 1) = buf BY <1>4, <1>5, <1>6 DEF Has, Top
<1> QED BY <1>4, <1>7 DEF r, bufs

(* The first chunk of a pay to script hash output: the digest of what the     *)
(* input left on top                                                          *)
LEMMA HashesTop ==
  ASSUME DigestsAreBuffers, NEW m, Machine(m), GoesOn(m),
         m.script[m.pc + 1].op = Opcode.OP_HASH160
  PROVE  /\ Has(m, 1) /\ Has(Step(m), 1) /\ Step(m).vfExec = m.vfExec
         /\ Top(Step(m), 1) = Digest("hash160", Top(m, 1))
<1> DEFINE num == Opcode.OP_HASH160
<1>1. PICK k : /\ Machine(k) /\ k.stack = m.stack /\ k.vfExec = m.vfExec
               /\ Step(m) = IF m.script[m.pc + 1].op <= Opcode.OP_PUSHDATA4
                              THEN PushData(k, m.script[m.pc + 1])
                              ELSE Execute(k, m.script[m.pc + 1].op)
  BY StepExecutes, Zenon
<1>2. ~(num <= Opcode.OP_PUSHDATA4) /\ num \in Byte /\ num \in HashOps
  BY OpcodeValues DEF Byte, HashOps
<1>3. HashName(num) = "hash160" BY OpcodeValues DEF HashName
<1> HIDE DEF num
<1>4. Step(m) = HashOp(k, num) BY <1>1, <1>2, Branches, Zenon DEF num
<1>5. Step(m).errstr = "" BY Zenon DEF GoesOn
<1>6. "INVALID_STACK_OPERATION" # "" OBVIOUS
<1>7. Has(k, 1)
  <2>1. ASSUME ~Has(k, 1) PROVE FALSE
    <3>1. Step(m) = Fail(k, "INVALID_STACK_OPERATION") BY <1>4, <2>1, Zenon DEF HashOp
    <3> QED BY <3>1, <1>1, <1>5, <1>6, FailsStop, Zenon
  <2> QED BY <2>1
<1> DEFINE d == Digest("hash160", Top(k, 1))
<1>8. Step(m) = Replace(k, 1, <<d>>) BY <1>3, <1>4, <1>7, Zenon DEF HashOp
<1>9. d \in Buffer
  <2>1. Top(k, 1) \in Buffer BY <1>1, <1>7, TopType
  <2> QED BY <2>1, <1>2, <1>3, Zenon DEF DigestsAreBuffers
<1>10. Top(k, 1) = Top(m, 1) /\ Has(m, 1) BY <1>1, <1>7 DEF Top, Has
<1> HIDE DEF d
<1>11. Has(Step(m), 1) /\ Top(Step(m), 1) = d /\ Step(m).vfExec = k.vfExec
  <2>1. 1 \in Nat OBVIOUS
  <2>2. Machine(k) BY <1>1, Zenon
  <2>3. /\ Has(Replace(k, 1, <<d>>), 1) /\ Top(Replace(k, 1, <<d>>), 1) = d
        /\ Replace(k, 1, <<d>>).vfExec = k.vfExec
    BY <2>1, <2>2, <1>7, <1>9, TopOfReplaced
  <2> QED BY <2>3, <1>8
<1> QED BY <1>1, <1>10, <1>11, Zenon DEF d

(* Its last chunk: whether the two on top are equal *)
LEMMA EqualsTop ==
  ASSUME NEW m, Machine(m), GoesOn(m), m.script[m.pc + 1].op = Opcode.OP_EQUAL
  PROVE  /\ Has(Step(m), 1) /\ Step(m).vfExec = m.vfExec
         /\ Top(Step(m), 1) = ToBool(Top(m, 1) = Top(m, 2))
<1> DEFINE num == Opcode.OP_EQUAL
<1>1. PICK k : /\ Machine(k) /\ k.stack = m.stack /\ k.vfExec = m.vfExec
               /\ Step(m) = IF m.script[m.pc + 1].op <= Opcode.OP_PUSHDATA4
                              THEN PushData(k, m.script[m.pc + 1])
                              ELSE Execute(k, m.script[m.pc + 1].op)
  BY StepExecutes, Zenon
<1>2. ~(num <= Opcode.OP_PUSHDATA4) /\ num \in Byte BY OpcodeValues DEF Byte
<1> HIDE DEF num
<1>4. Step(m) = Equal(k, num) BY <1>1, <1>2, Branches, Zenon DEF num
<1>5. Step(m).errstr = "" BY Zenon DEF GoesOn
<1>6. "INVALID_STACK_OPERATION" # "" OBVIOUS
<1>7. Has(k, 2)
  <2>1. ASSUME ~Has(k, 2) PROVE FALSE
    <3>1. Step(m) = Fail(k, "INVALID_STACK_OPERATION") BY <1>4, <2>1, Zenon DEF Equal
    <3> QED BY <3>1, <1>1, <1>5, <1>6, FailsStop, Zenon
  <2> QED BY <2>1
<1> DEFINE b == ToBool(Top(k, 1) = Top(k, 2))
<1>8. Step(m) = Replace(k, 2, <<b>>) BY <1>4, <1>7, Zenon DEF Equal, num
<1>9. b \in Buffer BY Singles, Zenon
<1>10. Top(k, 1) = Top(m, 1) /\ Top(k, 2) = Top(m, 2) BY <1>1 DEF Top
<1>11. b = ToBool(Top(m, 1) = Top(m, 2)) BY <1>10, Zenon
<1> HIDE DEF b
<1>12. Has(Step(m), 1) /\ Top(Step(m), 1) = b /\ Step(m).vfExec = k.vfExec
  <2>1. 2 \in Nat OBVIOUS
  <2>2. Machine(k) BY <1>1, Zenon
  <2>3. /\ Has(Replace(k, 2, <<b>>), 1) /\ Top(Replace(k, 2, <<b>>), 1) = b
        /\ Replace(k, 2, <<b>>).vfExec = k.vfExec
    BY <2>1, <2>2, <1>7, <1>9, TopOfReplaced
  <2> QED BY <2>3, <1>8
<1> QED BY <1>1, <1>11, <1>12, Zenon

(* The machines that evaluate() goes through, from begin on *)
Onward(m) == IF m.errstr = "" THEN Step(m) ELSE m
Beginning(script, stack, args) ==
  [Initialized EXCEPT !.script = script, !.stack = stack, !.tx = args.tx, !.flags = args.flags]
Trace(script, stack, args) ==
  LET run[k \in 0 .. Len(script)] ==
        IF k = 0 THEN Beginning(script, stack, args) ELSE Onward(run[k - 1])
  IN  run

LEMMA TraceExists ==
  ASSUME NEW begin, NEW n \in Nat
  PROVE  \E f : f = [k \in 0 .. n |-> IF k = 0 THEN begin ELSE Onward(f[k - 1])]
<1> DEFINE Is(f, j) == f = [k \in 0 .. j |-> IF k = 0 THEN begin ELSE Onward(f[k - 1])]
           Some == {j \in Nat : \E f : Is(f, j)}
<1>1. 0 \in Some
  <2> DEFINE f == [k \in 0 .. 0 |-> begin]
  <2>1. Is(f, 0) OBVIOUS
  <2> HIDE DEF Is
  <2> QED BY <2>1
<1>2. ASSUME NEW j \in Nat, j \in Some PROVE j + 1 \in Some
  <2>1. PICK f : Is(f, j) BY <1>2
  <2> DEFINE g == [k \in 0 .. j + 1 |-> IF k = j + 1 THEN Onward(f[j]) ELSE f[k]]
  <2>2. \A k \in 0 .. j + 1 : g[k] = IF k = 0 THEN begin ELSE Onward(g[k - 1])
    <3> TAKE k \in 0 .. j + 1
    <3>1. CASE k = j + 1
      <4>1. g[k] = Onward(f[j]) /\ k - 1 = j /\ k # 0 BY <3>1
      <4>2. g[k - 1] = f[j] BY <4>1
      <4> QED BY <4>1, <4>2
    <3>2. CASE k # j + 1
      <4>1. k \in 0 .. j BY <3>2
      <4>2. g[k] = f[k] BY <3>2
      <4>3. f[k] = IF k = 0 THEN begin ELSE Onward(f[k - 1])
        BY <2>1, <4>1
      <4>4. k # 0 => g[k - 1] = f[k - 1] BY <4>1
      <4> HIDE DEF g, Is
      <4> QED BY <4>2, <4>3, <4>4
    <3> QED BY <3>1, <3>2
  <2>3. Is(g, j + 1)
    <3>1. g = [k \in 0 .. j + 1 |-> g[k]] OBVIOUS
    <3> HIDE DEF g
    <3> QED BY <2>2, <3>1
  <2> HIDE DEF Is, g
  <2> QED BY <2>3
<1>3. n \in Some
  <2> HIDE DEF Some
  <2>1. SUFFICES ASSUME n \notin Some PROVE FALSE OBVIOUS
  <2>2. PICK k \in Nat : k \notin Some /\ \A j \in Nat : j < k => j \in Some
    BY <2>1, LeastMissing
  <2>3. k # 0 BY <2>2, <1>1
  <2>4. k - 1 \in Nat /\ k - 1 < k /\ (k - 1) + 1 = k BY <2>3
  <2> QED BY <2>2, <2>4, <1>2
<1> QED BY <1>3

LEMMA TraceSteps ==
  ASSUME NEW script \in Seq(Chunk), NEW stack, NEW args, NEW k \in 0 .. Len(script)
  PROVE  Trace(script, stack, args)[k]
           = IF k = 0 THEN Beginning(script, stack, args)
             ELSE Onward(Trace(script, stack, args)[k - 1])
<1> DEFINE begin == Beginning(script, stack, args)
           f == Trace(script, stack, args)
           Rec(g) == [j \in 0 .. Len(script) |-> IF j = 0 THEN begin ELSE Onward(g[j - 1])]
<1>1. Len(script) \in Nat BY LenProperties
<1>2. f = CHOOSE g : g = Rec(g) BY Zenon DEF Trace
<1>3. \E g : g = Rec(g)
  <2> HIDE DEF begin
  <2> QED BY <1>1, TraceExists
<1>4. f = Rec(f)
  <2> HIDE DEF Rec, f
  <2> QED BY <1>2, <1>3, Zenon
<1> HIDE DEF f, begin
<1>5. f[k] = IF k = 0 THEN begin ELSE Onward(f[k - 1])
  BY <1>4
<1> QED BY <1>5, Zenon DEF f, begin

LEMMA TraceGoesOn ==
  ASSUME NEW script \in Seq(Chunk), NEW stack, NEW args, NEW k \in 0 .. Len(script), k # 0
  PROVE  Trace(script, stack, args)[k] = Onward(Trace(script, stack, args)[k - 1])
BY TraceSteps

LEMMA TraceEnds ==
  ASSUME NEW script, NEW stack, NEW args
  PROVE  EvaluateOn(script, stack, args) = Trace(script, stack, args)[Len(script)]
BY Zenon DEF EvaluateOn, Trace, Onward, Beginning

Unfailed(m) == m.errstr = ""

(* A machine that Load puts before a script *)
LEMMA LoadFields ==
  ASSUME NEW script, NEW stack, NEW args
  PROVE  /\ Beginning(script, stack, args).script = script
         /\ Beginning(script, stack, args).stack = stack
         /\ Beginning(script, stack, args).pc = 0
         /\ Beginning(script, stack, args).vfExec = <<>>
         /\ Unfailed(Beginning(script, stack, args))
         /\ Beginning(script, stack, args).tx = args.tx
         /\ Beginning(script, stack, args).flags = args.flags
BY DEF Initialized, Beginning, Unfailed

(* The call spends a pay to script hash output under P2SH. *)
SpendsHash(args) == "P2SH" \in args.flags /\ IsScriptHashOut(args.scriptPubkey)

(* What is known of the machine in each script of such a call, up to its place *)
(* in the script: what a push only script has pushed; the digest of the top it *)
(* left, and the hash of the output; the run of the redeem script alone.       *)
SigRun(m, args) ==
  /\ m.script = args.scriptSig
  /\ IsPushOnly(args.scriptSig) =>
       m.vfExec = <<>> /\ m.stack = [i \in 1 .. m.pc |-> Pushed(args.scriptSig[i])]
HashedTop(c) == Digest("hash160", Last(c.stackCopy))
OutRun(m, c) ==
  /\ m.script = c.args.scriptPubkey
  /\ IsPushOnly(c.args.scriptSig) => c.stackCopy = StackOf(c.args.scriptSig)
  /\ m.vfExec = <<>>
  /\ m.pc = 0 => m.stack = c.stackCopy
  /\ m.pc = 1 => Has(m, 1) /\ Top(m, 1) = HashedTop(c)
  /\ m.pc = 2 => /\ Has(m, 2) /\ Top(m, 2) = HashedTop(c)
                 /\ Top(m, 1) = c.args.scriptPubkey[2].buf
  /\ m.pc = 3 => /\ Has(m, 1)
                 /\ Top(m, 1) = ToBool(c.args.scriptPubkey[2].buf = HashedTop(c))
Redeems(c) ==
  /\ IsPushOnly(c.args.scriptSig)
  /\ c.stackCopy = StackOf(c.args.scriptSig) /\ c.stackCopy # <<>>
  /\ HashedTop(c) = c.args.scriptPubkey[2].buf
RedeemScript(c) == FromBuffer(Last(c.stackCopy)).chunks
RedeemRun(m, c) ==
  /\ Redeems(c)
  /\ m.script = RedeemScript(c)
  /\ m = Trace(RedeemScript(c), Front(c.stackCopy), c.args)[m.pc]
Accepts(m) == m.errstr = "" /\ EndError(m) = "" /\ EvalError(m) = ""
Redeemed(m, c) ==
  Redeems(c) /\ m = EvaluateOn(RedeemScript(c), Front(c.stackCopy), c.args) /\ Accepts(m)

HashInv ==
  calls = 1 /\ SpendsHash(call.args) =>
    /\ ThreeChunks(call.args.scriptPubkey)
    /\ phase \in Running => interpreter.errstr = ""
    /\ phase = "scriptSig" => SigRun(interpreter, call.args)
    /\ phase = "scriptPubkey" => OutRun(interpreter, call)
    /\ phase = "redeemScript" => RedeemRun(interpreter, call)
    /\ phase = "true" => Redeemed(interpreter, call)

(* A call that fails has nothing to show. *)
LEMMA FailedCall ==
  ASSUME ThreeChunks(call'.args.scriptPubkey), phase' \in {"idle", "false", "threw"}
  PROVE  HashInv'
BY DEF HashInv, Running

LEMMA CallVerifyHash == ScriptHashesAreRead /\ Inv /\ CallVerify => HashInv'
<1> SUFFICES ASSUME ScriptHashesAreRead, Inv, CallVerify, calls' = 1, SpendsHash(call'.args)
             PROVE  HashInv'
  BY DEF HashInv
<1>0. PICK i \in DOMAIN Calls : \E args \in Calls[i] :
        LET m == [interpreter EXCEPT !.script = args.scriptSig, !.tx = args.tx,
                                     !.flags = args.flags, !.errstr = ""]
        IN  /\ call' = [args |-> args, stackCopy |-> <<>>]
            /\ IF "SIGPUSHONLY" \in args.flags /\ ~IsPushOnly(args.scriptSig)
                 THEN interpreter' = Fail(m, "SIG_PUSHONLY") /\ phase' = "false"
                 ELSE Enter(m, "scriptSig")
  BY Zenon DEF CallVerify
<1>1. PICK args \in Calls[i] :
        LET m == [interpreter EXCEPT !.script = args.scriptSig, !.tx = args.tx,
                                     !.flags = args.flags, !.errstr = ""]
        IN  /\ call' = [args |-> args, stackCopy |-> <<>>]
            /\ IF "SIGPUSHONLY" \in args.flags /\ ~IsPushOnly(args.scriptSig)
                 THEN interpreter' = Fail(m, "SIG_PUSHONLY") /\ phase' = "false"
                 ELSE Enter(m, "scriptSig")
  BY <1>0, Zenon
<1> DEFINE m == [interpreter EXCEPT !.script = args.scriptSig, !.tx = args.tx,
                                    !.flags = args.flags, !.errstr = ""]
<1>2. call'.args = args BY <1>1
<1>3. ThreeChunks(call'.args.scriptPubkey)
  <2>1. IsScriptHashOut(args.scriptPubkey) BY <1>2 DEF SpendsHash
  <2> QED BY <1>2, <2>1, Zenon DEF ScriptHashesAreRead
<1>4. interpreter = Initialized
  <2>1. calls \in Nat /\ MaxCalls \in Nat /\ calls' = calls + 1
    BY LimitsAssumption DEF Inv, CallVerify
  <2>2. calls = 0 BY <2>1
  <2> QED BY <2>2 DEF Inv
<1>5. m.script = args.scriptSig /\ m.stack = <<>> /\ m.pc = 0 /\ m.vfExec = <<>>
      /\ m.errstr = ""
  BY <1>4 DEF Initialized
<1>6. phase' = "false" \/ (phase' = "scriptSig" /\ interpreter' = m)
  BY <1>1 DEF Enter
<1> HIDE DEF m
<1>7. CASE phase' = "false" BY <1>3, <1>7, FailedCall
<1>8. CASE phase' = "scriptSig" /\ interpreter' = m
  <2>1. SigRun(m, args)
    <3>1. <<>> = [j \in 1 .. 0 |-> Pushed(args.scriptSig[j])] OBVIOUS
    <3> QED BY <3>1, <1>5 DEF SigRun
  <2>2. SigRun(interpreter, call.args)' BY <2>1, <1>2, <1>8, Zenon
  <2> QED BY <2>2, <1>3, <1>5, <1>8 DEF HashInv
<1> QED BY <1>6, <1>7, <1>8

(* One more buffer pushed *)
LEMMA PushedType ==
  ASSUME NEW chunk \in Chunk
  PROVE  Pushed(chunk) \in Buffer
<1>1. chunk.op \in Nat /\ (HasBuf(chunk) => chunk.buf \in Buffer) BY ChunkFields
<1>2. <<>> \in Buffer BY DEF Buffer
<1>3. chunk.op - (Opcode.OP_1 - 1) \in Int BY <1>1, OpcodeValues
<1>4. ToScriptNum(chunk.op - (Opcode.OP_1 - 1)) \in Buffer BY <1>3, ToScriptNumType DEF Buffer
<1> QED BY <1>1, <1>2, <1>4 DEF Pushed

(* A step of the loop of evaluate() that goes on *)
Stepped(m, n) ==
  /\ n = Step(m) /\ n.errstr = "" /\ m.pc < Len(m.script)
  /\ n.script = m.script /\ n.pc = m.pc + 1

LEMMA SteppedOn ==
  ASSUME NEW m, NEW n, Stepped(m, n), m.vfExec = <<>>
  PROVE  GoesOn(m) /\ n = Step(m)
<1>1. Executing(m) BY DEF Executing
<1> QED BY <1>1, Zenon DEF GoesOn, Stepped

LEMMA SteppedPlace ==
  ASSUME NEW m, NEW n, Stepped(m, n)
  PROVE  m.pc < Len(m.script) /\ n.script = m.script /\ n.pc = m.pc + 1
BY Zenon DEF Stepped

LEMMA SigRunStep ==
  ASSUME NEW m, Machine(m), NEW args, SigRun(m, args), NEW n, Stepped(m, n)
  PROVE  SigRun(n, args)
<1>0. m.pc < Len(m.script) /\ n.script = m.script /\ n.pc = m.pc + 1 BY SteppedPlace
<1> SUFFICES ASSUME IsPushOnly(args.scriptSig)
             PROVE  /\ n.vfExec = <<>>
                    /\ n.stack = [i \in 1 .. n.pc |-> Pushed(args.scriptSig[i])]
  BY <1>0 DEF SigRun
<1> DEFINE s == args.scriptSig
           k == m.pc
<1>1. m.script = s /\ m.vfExec = <<>> BY DEF SigRun
<1>9. m.stack = [i \in 1 .. k |-> Pushed(s[i])] BY DEF SigRun
<1>2. s \in Seq(Chunk) /\ k \in Nat /\ Len(s) \in Nat /\ k + 1 \in 1 .. Len(s)
      /\ DOMAIN s = 1 .. Len(s)
  <2>1. m.script \in Seq(Chunk) /\ k \in Nat BY MachineFields
  <2>2. s \in Seq(Chunk) /\ k < Len(s) BY <2>1, <1>0, <1>1
  <2> HIDE DEF s, k
  <2>3. Len(s) \in Nat /\ DOMAIN s = 1 .. Len(s) BY <2>2, LenProperties
  <2> QED BY <2>1, <2>2, <2>3
<1>3. GoesOn(m) /\ n = Step(m) BY <1>1, SteppedOn
<1>4. s[k + 1].op <= Opcode.OP_16 BY <1>2 DEF IsPushOnly
<1>5. n.stack = Append(m.stack, Pushed(s[k + 1])) /\ n.vfExec = <<>>
  <2>1. m.script[m.pc + 1].op <= Opcode.OP_16 BY <1>1, <1>4
  <2> QED BY <2>1, <1>1, <1>3, PushesIt
<1> HIDE DEF s
<1>6. Pushed(s[k + 1]) \in Buffer BY <1>2, ElementOfSeq, PushedType
<1>7. \A i \in 1 .. k : Pushed(s[i]) \in Buffer
  <2> TAKE i \in 1 .. k
  <2>1. i \in 1 .. Len(s) BY <1>2
  <2> QED BY <2>1, <1>2, ElementOfSeq, PushedType
<1>8. Append(m.stack, Pushed(s[k + 1])) = [i \in 1 .. k + 1 |-> Pushed(s[i])]
  <2> DEFINE f == [i \in 1 .. k |-> Pushed(s[i])]
             g == [i \in 1 .. k + 1 |-> Pushed(s[i])]
             b == Pushed(s[k + 1])
  <2> HIDE DEF k
  <2>1. \A i \in 1 .. k + 1 : Pushed(s[i]) \in Buffer
    <3> TAKE i \in 1 .. k + 1
    <3>1. i \in 1 .. k \/ i = k + 1 BY <1>2
    <3> QED BY <3>1, <1>6, <1>7
  <2>2. f \in Seq(Buffer) /\ Len(f) = k /\ (\A i \in 1 .. k : f[i] = Pushed(s[i]))
    BY <1>2, <1>7
  <2>3. g \in Seq(Buffer) /\ Len(g) = k + 1 /\ (\A i \in 1 .. k + 1 : g[i] = Pushed(s[i]))
    BY <1>2, <2>1
  <2>4. b \in Buffer BY <1>6
  <2>5. b = Pushed(s[k + 1]) OBVIOUS
  <2> HIDE DEF f, g, b
  <2>6. /\ Append(f, b) \in Seq(Buffer) /\ Len(Append(f, b)) = k + 1
        /\ Append(f, b)[k + 1] = b /\ \A i \in 1 .. k : Append(f, b)[i] = f[i]
    BY <2>2, <2>4, <1>2, AppendProperties
  <2>7. \A i \in 1 .. k + 1 : Append(f, b)[i] = g[i]
    <3> TAKE i \in 1 .. k + 1
    <3>1. i \in 1 .. k \/ i = k + 1 BY <1>2
    <3> QED BY <3>1, <2>2, <2>3, <2>5, <2>6
  <2>8. Append(f, b) = g BY <2>3, <2>6, <2>7, SeqEqual
  <2> QED BY <2>8, <1>9 DEF f, g, b, k
<1> QED BY <1>0, <1>5, <1>8 DEF s

LEMMA OutRunStep ==
  ASSUME DigestsAreBuffers, NEW m, Machine(m), NEW c, ThreeChunks(c.args.scriptPubkey),
         OutRun(m, c), NEW n, Stepped(m, n)
  PROVE  OutRun(n, c)
<1> DEFINE s == c.args.scriptPubkey
<1>1. m.pc < Len(m.script) /\ n.script = m.script /\ n.pc = m.pc + 1 BY SteppedPlace
<1>2. m.script = s /\ m.vfExec = <<>> BY DEF OutRun
<1>3. GoesOn(m) /\ n = Step(m) BY <1>2, SteppedOn
<1>4. m.pc \in {0, 1, 2}
  <2>1. m.pc \in Nat BY MachineFields
  <2>2. Len(m.script) = 3 BY <1>2 DEF ThreeChunks
  <2> QED BY <1>1, <2>1, <2>2
<1>5. CASE m.pc = 0
  <2>1. m.script[m.pc + 1].op = Opcode.OP_HASH160
    <3>1. 0 + 1 = 1 OBVIOUS
    <3> QED BY <3>1, <1>2, <1>5 DEF ThreeChunks
  <2>2. /\ Has(m, 1) /\ Has(n, 1) /\ n.vfExec = <<>>
        /\ Top(n, 1) = Digest("hash160", Top(m, 1))
    BY <1>2, <1>3, <2>1, HashesTop
  <2>3. Top(m, 1) = Last(c.stackCopy)
    <3>1. m.stack = c.stackCopy BY <1>5 DEF OutRun
    <3>2. Len(m.stack) + 1 - 1 = Len(m.stack)
      <4>1. Len(m.stack) \in Nat BY MachineFields, LenProperties DEF Stack
      <4> QED BY <4>1
    <3> QED BY <3>1, <3>2 DEF Top, Last
  <2>4. n.pc = 1 BY <1>1, <1>5
  <2> QED BY <2>2, <2>3, <2>4, <1>1, <1>2 DEF OutRun, HashedTop
<1>6. CASE m.pc = 1
  <2> DEFINE chunk == m.script[m.pc + 1]
  <2>1. chunk = s[2]
    <3>1. 1 + 1 = 2 OBVIOUS
    <3> QED BY <3>1, <1>2, <1>6
  <2>2. HasBuf(s[2]) /\ s[2].op <= Opcode.OP_PUSHDATA4 BY DEF ThreeChunks
  <2>3. s[2].op \in Nat
    <3>1. s \in Seq(Chunk) /\ 2 \in 1 .. Len(s)
      BY <1>2, MachineFields DEF ThreeChunks
    <3> QED BY <3>1, ElementOfSeq, ChunkFields
  <2>4. chunk.op <= Opcode.OP_16 /\ ~(s[2].op > Opcode.OP_PUSHDATA4)
    BY <2>1, <2>2, <2>3, OpcodeValues
  <2>5. n.stack = Append(m.stack, Pushed(chunk)) /\ n.vfExec = <<>>
    BY <1>2, <1>3, <2>4, PushesIt
  <2>6. Pushed(chunk) = s[2].buf BY <2>1, <2>2, <2>4 DEF Pushed
  <2> HIDE DEF chunk, s
  <2> DEFINE b == s[2].buf
  <2>7. b \in Buffer
    <3>1. s \in Seq(Chunk) /\ 2 \in 1 .. Len(s)
      BY <1>2, MachineFields DEF ThreeChunks, s
    <3> QED BY <3>1, <2>2, ElementOfSeq, ChunkFields
  <2>8. m.stack \in Seq(Buffer) /\ Len(m.stack) \in Nat BY MachineFields, LenProperties DEF Stack
  <2>9. n.stack = Append(m.stack, b) BY <2>5, <2>6
  <2> HIDE DEF b
  <2>10. Len(m.stack) >= 1 /\ m.stack[Len(m.stack)] = HashedTop(c)
    <3>1. Has(m, 1) /\ Top(m, 1) = HashedTop(c) BY <1>6 DEF OutRun
    <3>2. Len(m.stack) + 1 - 1 = Len(m.stack) BY <2>8
    <3> QED BY <3>1, <3>2 DEF Has, Top
  <2>11. /\ Len(n.stack) = Len(m.stack) + 1 /\ n.stack[Len(m.stack) + 1] = b
         /\ \A i \in 1 .. Len(m.stack) : n.stack[i] = m.stack[i]
    BY <2>7, <2>8, <2>9, AppendProperties
  <2>12. n.stack[Len(m.stack)] = HashedTop(c)
    <3>1. Len(m.stack) \in 1 .. Len(m.stack) BY <2>8, <2>10
    <3> QED BY <3>1, <2>10, <2>11, Zenon
  <2>13. Has(n, 2) /\ Top(n, 2) = HashedTop(c) /\ Top(n, 1) = b
    <3>1. Len(n.stack) + 1 - 2 = Len(m.stack) /\ Len(n.stack) + 1 - 1 = Len(m.stack) + 1
          /\ Len(n.stack) >= 2
      BY <2>8, <2>10, <2>11
    <3> QED BY <3>1, <2>11, <2>12 DEF Has, Top
  <2>14. n.pc = 2 BY <1>1, <1>6
  <2> QED BY <2>5, <2>13, <2>14, <1>1, <1>2 DEF OutRun, b, s
<1>7. CASE m.pc = 2
  <2>1. m.script[m.pc + 1].op = Opcode.OP_EQUAL
    <3>1. 2 + 1 = 3 OBVIOUS
    <3> QED BY <3>1, <1>2, <1>7 DEF ThreeChunks
  <2>2. Has(n, 1) /\ n.vfExec = <<>> /\ Top(n, 1) = ToBool(Top(m, 1) = Top(m, 2))
    BY <1>2, <1>3, <2>1, EqualsTop
  <2>3. Top(m, 2) = HashedTop(c) /\ Top(m, 1) = s[2].buf BY <1>7 DEF OutRun
  <2>4. n.pc = 3 BY <1>1, <1>7
  <2> QED BY <2>2, <2>3, <2>4, <1>1, <1>2 DEF OutRun
<1> QED BY <1>4, <1>5, <1>6, <1>7

LEMMA RedeemRunStep ==
  ASSUME NEW m, Machine(m), Unfailed(m), NEW c, RedeemRun(m, c), NEW n, Stepped(m, n)
  PROVE  RedeemRun(n, c)
<1> DEFINE s == RedeemScript(c)
           f == Trace(s, Front(c.stackCopy), c.args)
<1>1. m.pc < Len(m.script) /\ n.script = m.script /\ n.pc = m.pc + 1 BY SteppedPlace
<1>2. m.script = s /\ m = f[m.pc] /\ Redeems(c) BY DEF RedeemRun
<1>3. s \in Seq(Chunk) /\ m.pc \in Nat BY <1>2, MachineFields
<1> HIDE DEF s
<1> HIDE DEF f
<1>5. n.pc \in 0 .. Len(s) /\ n.pc # 0 /\ n.pc - 1 = m.pc
  <2>1. m.pc < Len(s) BY <1>1, <1>2, Zenon
  <2>2. Len(s) \in Nat BY <1>3, LenProperties
  <2> DEFINE k == m.pc
             q == n.pc
             l == Len(s)
  <2>3. k \in Nat /\ k < l /\ q = k + 1 BY <1>1, <1>3, <2>1
  <2>4. l \in Nat BY <2>2
  <2> HIDE DEF k, q, l
  <2>5. q \in 0 .. l /\ q # 0 /\ q - 1 = k BY <2>3, <2>4
  <2> QED BY <2>5, Zenon DEF k, q, l
<1>6. f[n.pc] = Onward(m)
  <2> DEFINE k == n.pc
  <2> HIDE DEF k
  <2>1. k \in 0 .. Len(s) /\ k # 0 /\ k - 1 = m.pc BY <1>5 DEF k
  <2>2. f[k] = Onward(f[k - 1])
    <3> DEFINE st == Front(c.stackCopy)
               ar == c.args
    <3>1. f = Trace(s, st, ar) BY DEF f
    <3> HIDE DEF st, ar
    <3>2. s \in Seq(Chunk) /\ k \in 0 .. Len(s) /\ k # 0 BY <1>3, <2>1
    <3>3. Trace(s, st, ar)[k] = Onward(Trace(s, st, ar)[k - 1]) BY <3>2, TraceGoesOn
    <3> QED BY <3>1, <3>3
  <2> QED BY <1>2, <2>1, <2>2, Zenon DEF k
<1>7. Onward(m) = Step(m) BY Zenon DEF Onward, Unfailed
<1>8. n = Step(m) BY Zenon DEF Stepped
<1> QED BY <1>1, <1>2, <1>6, <1>7, <1>8, Zenon DEF RedeemRun, f, s

LEMMA RunStepHash == DigestsAreBuffers /\ Inv /\ HashInv /\ RunStep => HashInv'
<1> SUFFICES ASSUME DigestsAreBuffers, Inv, HashInv, RunStep,
                    calls' = 1, SpendsHash(call'.args)
             PROVE  HashInv'
  BY DEF HashInv
<1> DEFINE m == interpreter
           n == interpreter'
<1>1. Machine(m) /\ m.pc < Len(m.script) /\ phase \in Running /\ UNCHANGED <<call, calls>>
  BY DEF Inv, RunStep
<1>2. n = Step(m) BY DEF RunStep
<1>3. phase' = IF n.errstr = "" THEN phase ELSE "false" BY DEF RunStep
<1>4. n.script = m.script /\ n.pc = m.pc + 1 BY <1>1, <1>2, StepRuns
<1>5. /\ ThreeChunks(call.args.scriptPubkey) /\ m.errstr = ""
      /\ phase = "scriptSig" => SigRun(m, call.args)
      /\ phase = "scriptPubkey" => OutRun(m, call)
      /\ phase = "redeemScript" => RedeemRun(m, call)
  BY <1>1 DEF HashInv
<1>6. CASE n.errstr # ""
  <2>1. phase' = "false" BY <1>3, <1>6
  <2> QED BY <2>1, <1>1, <1>5, FailedCall
<1>7. CASE n.errstr = ""
  <2>1. Stepped(m, n) BY <1>1, <1>2, <1>4, <1>7, Zenon DEF Stepped
  <2>2. phase' = phase BY <1>3, <1>7
  <2>3. /\ phase = "scriptSig" => SigRun(n, call.args)
        /\ phase = "scriptPubkey" => OutRun(n, call)
        /\ phase = "redeemScript" => RedeemRun(n, call)
    BY <1>1, <1>5, <2>1, SigRunStep, OutRunStep, RedeemRunStep, Zenon DEF Unfailed
  <2>4. phase # "true" BY <1>1 DEF Running
  <2>5. call' = call BY <1>1
  <2>6. /\ phase' = "scriptSig" => SigRun(n, call'.args)
        /\ phase' = "scriptPubkey" => OutRun(n, call')
        /\ phase' = "redeemScript" => RedeemRun(n, call')
        /\ phase' # "true" /\ ThreeChunks(call'.args.scriptPubkey)
    BY <1>5, <2>2, <2>3, <2>4, <2>5, Zenon
  <2> QED BY <2>6, <1>7, Zenon DEF HashInv
<1> QED BY <1>6, <1>7

LEMMA LoadIs ==
  ASSUME NEW script, NEW stack
  PROVE  Load(script, stack) = Beginning(script, stack, call.args)
BY DEF Load, Beginning

(* The script of the call that has come to its end *)
LEMMA AtItsEnd ==
  ASSUME Inv, calls = 1, NEW name, AtEnd(name)
  PROVE  interpreter.pc = Len(interpreter.script)
<1>1. Machine(interpreter) BY DEF Inv
<1>2. interpreter.pc \in Nat /\ Len(interpreter.script) \in Nat
  BY <1>1, MachineFields, LenProperties
<1>3. InScript(interpreter) BY DEF Inv, Covered
<1> QED BY <1>2, <1>3 DEF AtEnd, InScript

LEMMA FinishScriptSigHash == Inv /\ HashInv /\ FinishScriptSig => HashInv'
<1> SUFFICES ASSUME Inv, HashInv, FinishScriptSig, calls' = 1, SpendsHash(call'.args)
             PROVE  HashInv'
  BY DEF HashInv
<1> DEFINE m == interpreter
           s == call.args.scriptSig
<1>1. calls = 1 /\ phase = "scriptSig" BY DEF FinishScriptSig, AtEnd
<1>2. call'.args = call.args
  <2>1. CASE call' = [call EXCEPT !.stackCopy =
                        IF "P2SH" \in call.args.flags THEN interpreter.stack ELSE <<>>]
    BY <2>1
  <2>2. CASE UNCHANGED call BY <2>2
  <2> QED BY <2>1, <2>2, Zenon DEF FinishScriptSig
<1>3. ThreeChunks(call'.args.scriptPubkey) /\ SigRun(m, call.args) /\ SpendsHash(call.args)
  BY <1>1, <1>2 DEF HashInv
<1>4. CASE phase' = "false" BY <1>3, <1>4, FailedCall
<1>5. CASE phase' # "false"
  <2> DEFINE n == Load(call.args.scriptPubkey, m.stack)
  <2>1. /\ call' = [call EXCEPT !.stackCopy =
                      IF "P2SH" \in call.args.flags THEN interpreter.stack ELSE <<>>]
        /\ Enter(n, "scriptPubkey")
    BY <1>5 DEF FinishScriptSig, Return
  <2>2. phase' = "scriptPubkey" /\ interpreter' = n BY <1>5, <2>1 DEF Enter
  <2>3. n.script = call.args.scriptPubkey /\ n.stack = m.stack /\ n.pc = 0
        /\ n.vfExec = <<>> /\ Unfailed(n)
    <3> DEFINE script == call.args.scriptPubkey
               stack == m.stack
               args == call.args
               b == Beginning(script, stack, args)
    <3>1. n = b BY LoadIs
    <3> HIDE DEF n, script, stack, args
    <3>2. b.script = script /\ b.stack = stack /\ b.pc = 0 /\ b.vfExec = <<>> /\ Unfailed(b)
      BY LoadFields
    <3> HIDE DEF b
    <3> QED BY <3>1, <3>2, Zenon DEF script, stack
  <2> HIDE DEF n
  <2>4. call'.stackCopy = m.stack BY <2>1, <1>3 DEF SpendsHash
  <2>5. IsPushOnly(s) => m.stack = StackOf(s)
    <3>1. m.pc = Len(m.script) BY <1>1, AtItsEnd DEF FinishScriptSig
    <3>2. m.script = s BY <1>3 DEF SigRun
    <3>3. s \in Seq(Chunk) BY DEF Inv, CallTyped
    <3>4. DOMAIN s = 1 .. m.pc BY <3>1, <3>2, <3>3, LenProperties
    <3>5. IsPushOnly(s) => m.stack = [i \in 1 .. m.pc |-> Pushed(s[i])] BY <1>3 DEF SigRun
    <3> HIDE DEF s, m
    <3> QED BY <3>4, <3>5 DEF StackOf
  <2>6. OutRun(n, call')
    <3>1. ~(n.pc = 1) /\ ~(n.pc = 2) /\ ~(n.pc = 3) BY <2>3
    <3>2. IsPushOnly(call'.args.scriptSig) => call'.stackCopy = StackOf(call'.args.scriptSig)
      BY <1>2, <2>4, <2>5, Zenon
    <3>3. n.script = call'.args.scriptPubkey /\ n.vfExec = <<>> /\ n.stack = call'.stackCopy
      BY <1>2, <2>3, <2>4, Zenon
    <3> QED BY <3>1, <3>2, <3>3, Zenon DEF OutRun
  <2>7. OutRun(interpreter', call') BY <2>2, <2>6
  <2>8. interpreter'.errstr = "" BY <2>2, <2>3, Zenon DEF Unfailed
  <2> QED BY <1>3, <2>2, <2>7, <2>8 DEF HashInv
<1> QED BY <1>4, <1>5

LEMMA FalseIsNotTrue == ~CastToBool(ToBool(FALSE))
BY DEF CastToBool, ToBool, FALSEBUF

LEMMA FinishScriptPubkeyHash == Inv /\ HashInv /\ FinishScriptPubkey => HashInv'
<1> SUFFICES ASSUME Inv, HashInv, FinishScriptPubkey, calls' = 1, SpendsHash(call'.args)
             PROVE  HashInv'
  BY DEF HashInv
<1> DEFINE m == interpreter
           stack == Front(call.stackCopy)
           n == Load(RedeemScript(call), stack)
<1>1. calls = 1 /\ phase = "scriptPubkey" /\ call' = call
  BY DEF FinishScriptPubkey, AtEnd
<1>2. ThreeChunks(call.args.scriptPubkey) /\ OutRun(m, call) /\ SpendsHash(call.args)
  BY <1>1 DEF HashInv
<1>3. CASE phase' \in {"false", "threw"} BY <1>1, <1>2, <1>3, FailedCall
<1>4. CASE phase' \notin {"false", "threw"}
  <2>1. /\ EvalError(m) = "" /\ IsPushOnly(call.args.scriptSig) /\ call.stackCopy # <<>>
        /\ Enter(n, "redeemScript")
    <3>1. "P2SH" \in call.args.flags /\ IsScriptHashOut(call.args.scriptPubkey)
      BY <1>2 DEF SpendsHash
    <3>2. \A x, r : Return(x, r) => phase' = r BY DEF Return
    <3>3. phase' # "false" /\ phase' # "threw" BY <1>4
    <3> QED BY <3>1, <3>2, <3>3, Zenon DEF FinishScriptPubkey, RedeemStack, RedeemScript
  <2>2. m.pc = 3
    <3>1. m.pc = Len(m.script) BY <1>1, AtItsEnd DEF FinishScriptPubkey
    <3> QED BY <3>1, <1>2 DEF OutRun, ThreeChunks
  <2>3. Top(m, 1) = ToBool(call.args.scriptPubkey[2].buf = HashedTop(call))
    BY <1>2, <2>2 DEF OutRun
  <2>4. CastToBool(Top(m, 1))
    <3>1. "EVAL_FALSE_NO_RESULT" # "" /\ "EVAL_FALSE_IN_STACK" # "" OBVIOUS
    <3> QED BY <3>1, <2>1, Zenon DEF EvalError
  <2>5. call.args.scriptPubkey[2].buf = HashedTop(call)
    BY <2>3, <2>4, FalseIsNotTrue, Zenon
  <2>6. Redeems(call) BY <1>2, <2>1, <2>5 DEF Redeems, OutRun
  <2>7. phase' = "redeemScript" /\ interpreter' = n BY <1>4, <2>1 DEF Enter
  <2>8. n = Beginning(RedeemScript(call), stack, call.args) BY LoadIs
  <2>9. n.script = RedeemScript(call) /\ n.pc = 0 /\ Unfailed(n)
    <3> DEFINE script == RedeemScript(call)
               args == call.args
               b == Beginning(script, stack, args)
    <3>1. n = b BY <2>8
    <3> HIDE DEF n, script, stack, args
    <3>2. b.script = script /\ b.pc = 0 /\ Unfailed(b) BY LoadFields
    <3> HIDE DEF b
    <3> QED BY <3>1, <3>2, Zenon DEF script
  <2>10. n = Trace(RedeemScript(call), stack, call.args)[0]
    <3> DEFINE r == RedeemScript(call)
               args == call.args
    <3>1. r \in Seq(Chunk)
      <4>1. Last(call.stackCopy) \in Buffer
        BY <2>1, RedeemTyped DEF Inv, CallTyped
      <4> QED BY <4>1, FromBufferType DEF Reading, RedeemScript
    <3> HIDE DEF r, args, stack
    <3>2. 0 \in 0 .. Len(r) BY <3>1, LenProperties
    <3>3. Trace(r, stack, args)[0] = Beginning(r, stack, args)
      BY <3>1, <3>2, TraceSteps
    <3> QED BY <2>8, <3>3 DEF r, args
  <2> HIDE DEF n
  <2>11. RedeemRun(n, call) BY <2>6, <2>9, <2>10 DEF RedeemRun
  <2>12. interpreter'.errstr = "" BY <2>7, <2>9, Zenon DEF Unfailed
  <2> QED BY <1>1, <1>2, <2>7, <2>11, <2>12 DEF HashInv
<1> QED BY <1>3, <1>4

LEMMA FinishRedeemScriptHash == Inv /\ HashInv /\ FinishRedeemScript => HashInv'
<1> SUFFICES ASSUME Inv, HashInv, FinishRedeemScript, calls' = 1, SpendsHash(call'.args)
             PROVE  HashInv'
  BY DEF HashInv
<1> DEFINE m == interpreter
<1>1. calls = 1 /\ phase = "redeemScript" /\ call' = call
  BY DEF FinishRedeemScript, AtEnd
<1>2. ThreeChunks(call.args.scriptPubkey) /\ RedeemRun(m, call) /\ m.errstr = ""
  BY <1>1 DEF HashInv, Running
<1>3. CASE phase' = "false" BY <1>1, <1>2, <1>3, FailedCall
<1>4. CASE phase' # "false"
  <2>1. EndError(m) = "" /\ EvalError(m) = "" /\ phase' = "true"
    <3>1. \A x, r : Return(x, r) => phase' = r BY DEF Return
    <3> QED BY <1>4, <3>1, Zenon DEF FinishRedeemScript
  <2>2. m.pc = Len(m.script) BY <1>1, AtItsEnd DEF FinishRedeemScript
  <2>3. m = EvaluateOn(RedeemScript(call), Front(call.stackCopy), call.args)
    BY <1>2, <2>2, TraceEnds DEF RedeemRun
  <2>4. Accepts(m) BY <1>2, <2>1, Zenon DEF Accepts
  <2>5. Redeemed(m, call) BY <1>2, <2>3, <2>4, Zenon DEF Redeemed, RedeemRun
  <2>6. interpreter' = m
    <3>1. \A e : Return(Fail(m, e), "false") => phase' = "false" BY DEF Return
    <3>2. Return(m, "true") BY <1>4, <3>1, Zenon DEF FinishRedeemScript
    <3> QED BY <3>2 DEF Return
  <2> QED BY <1>1, <1>2, <2>1, <2>5, <2>6 DEF HashInv, Running
<1> QED BY <1>3, <1>4

LEMMA HashStep ==
  DigestsAreBuffers /\ ScriptHashesAreRead /\ Inv /\ HashInv /\ [Next]_vars => HashInv'
<1> SUFFICES ASSUME DigestsAreBuffers, ScriptHashesAreRead, Inv, HashInv, [Next]_vars
             PROVE  HashInv'
  OBVIOUS
<1>1. CASE CallVerify BY <1>1, CallVerifyHash
<1>2. CASE RunStep BY <1>2, RunStepHash
<1>3. CASE FinishScriptSig BY <1>3, FinishScriptSigHash
<1>4. CASE FinishScriptPubkey BY <1>4, FinishScriptPubkeyHash
<1>5. CASE FinishRedeemScript BY <1>5, FinishRedeemScriptHash
<1>6. CASE UNCHANGED vars BY <1>6 DEF vars, HashInv
<1> QED BY <1>1, <1>2, <1>3, <1>4, <1>5, <1>6 DEF Next

(* What a push only script has pushed, but for its last *)
LEMMA StackOfFront ==
  ASSUME NEW s \in Seq(Chunk), s # <<>>
  PROVE  /\ StackOf(s) # <<>>
         /\ Last(StackOf(s)) = Pushed(Last(s))
         /\ Front(StackOf(s)) = StackOf(Front(s))
<1> DEFINE k == Len(s)
           f == StackOf(s)
<1>1. k \in Nat /\ k # 0 /\ DOMAIN s = 1 .. k BY EmptySeq, LenProperties
<1>2. \A i \in 1 .. k : Pushed(s[i]) \in Buffer BY ElementOfSeq, PushedType
<1>3. f = [i \in 1 .. k |-> Pushed(s[i])] BY <1>1 DEF StackOf
<1> HIDE DEF k, f
<1>4. f \in Seq(Buffer) /\ Len(f) = k /\ \A i \in 1 .. k : f[i] = Pushed(s[i])
  BY <1>1, <1>2, <1>3
<1>5. f # <<>> BY <1>1, <1>4
<1>6. Last(f) = Pushed(Last(s))
  <2>1. Last(f) = f[k] /\ Last(s) = s[k] BY <1>4 DEF Last, k
  <2>2. k \in 1 .. k BY <1>1
  <2> QED BY <2>1, <2>2, <1>4
<1> DEFINE g == Front(f)
           h == StackOf(Front(s))
           t == Front(s)
<1>7. g = SubSeq(f, 1, k - 1) /\ t = SubSeq(s, 1, k - 1) BY <1>4 DEF Front, k
<1>8. \A i \in 1 .. k - 1 : i \in 1 .. k BY <1>1
<1>9. t \in Seq(Chunk) /\ Len(t) = k - 1 /\ \A i \in 1 .. k - 1 : t[i] = s[i]
  <2>1. \A i \in 1 .. k - 1 : s[i] \in Chunk BY <1>8, ElementOfSeq DEF k
  <2> HIDE DEF t
  <2> QED BY <2>1, <1>1, <1>7, SubSeqProperties
<1>10. g \in Seq(Buffer) /\ Len(g) = k - 1 /\ \A i \in 1 .. k - 1 : g[i] = f[i]
  <2>1. \A i \in 1 .. k - 1 : f[i] \in Buffer BY <1>4, <1>8, ElementOfSeq
  <2> HIDE DEF g
  <2> QED BY <2>1, <1>1, <1>7, SubSeqProperties
<1>11. h = [i \in 1 .. k - 1 |-> Pushed(t[i])]
  <2> HIDE DEF t
  <2>1. DOMAIN t = 1 .. k - 1 BY <1>9, LenProperties
  <2> QED BY <2>1 DEF StackOf, h, t
<1> HIDE DEF g, h, t
<1>12. \A i \in 1 .. k - 1 : Pushed(t[i]) \in Buffer BY <1>9, <1>8, <1>2
<1>13. h \in Seq(Buffer) /\ Len(h) = k - 1 /\ \A i \in 1 .. k - 1 : h[i] = Pushed(t[i])
  BY <1>1, <1>11, <1>12
<1>14. \A i \in 1 .. k - 1 : g[i] = h[i] BY <1>4, <1>8, <1>9, <1>10, <1>13
<1>15. g = h BY <1>10, <1>13, <1>14, SeqEqual
<1> QED BY <1>5, <1>6, <1>15 DEF f, g, h, t

-----------------------------------------------------------------------------
(* Locks: what a script <n> <lock> has checked when it comes to its end    *)

LEMMA LocksTop ==
  ASSUME NEW m, Machine(m), GoesOn(m), NEW num \in LockOps, m.script[m.pc + 1].op = num,
         Enabled(m, IF num = Opcode.OP_CHECKLOCKTIMEVERIFY THEN "CHECKLOCKTIMEVERIFY"
                    ELSE "CHECKSEQUENCEVERIFY")
  PROVE  LET n == FromScriptNum(Top(m, 1))
         IN  /\ Has(m, 1)
             /\ num = Opcode.OP_CHECKLOCKTIMEVERIFY => CheckLockTime(m.tx, n)
             /\ num # Opcode.OP_CHECKLOCKTIMEVERIFY =>
                  HasFlag(n, SEQUENCE_LOCKTIME_DISABLE_FLAG) \/ CheckSequence(m.tx, n)
<1>1. PICK k : /\ Machine(k) /\ k.stack = m.stack /\ k.vfExec = m.vfExec
               /\ k.tx = m.tx /\ k.flags = m.flags
               /\ Step(m) = IF m.script[m.pc + 1].op <= Opcode.OP_PUSHDATA4
                              THEN PushData(k, m.script[m.pc + 1])
                              ELSE Execute(k, m.script[m.pc + 1].op)
  BY StepExecutes, Zenon
<1>2. ~(num <= Opcode.OP_PUSHDATA4) /\ num \in Byte BY OpcodeValues DEF Byte, LockOps
<1>3. Step(m) = CheckLock(k, num)
  <2>1. Step(m) = Execute(k, num) BY <1>1, <1>2, Zenon
  <2> QED BY <2>1, <1>2, Branches, Zenon
<1>4. Machine(k) /\ Has(k, 1) = Has(m, 1) /\ Number(k, 1) = FromScriptNum(Top(m, 1))
      /\ Enabled(k, IF num = Opcode.OP_CHECKLOCKTIMEVERIFY THEN "CHECKLOCKTIMEVERIFY"
                    ELSE "CHECKSEQUENCEVERIFY")
  BY <1>1, Zenon DEF Has, Number, Top, Enabled
<1>5. \A e : e # "" => Step(m) # Fail(k, e)
  <2>1. Step(m).errstr = "" BY Zenon DEF GoesOn
  <2> QED BY <2>1, <1>4, FailsStop, Zenon
<1>6. "INVALID_STACK_OPERATION" # "" /\ "UNKNOWN_ERROR" # "" /\ "UNSATISFIED_LOCKTIME" # ""
  OBVIOUS
<1> DEFINE n == Number(k, 1)
<1>7. /\ Has(k, 1)
      /\ IF num = Opcode.OP_CHECKLOCKTIMEVERIFY THEN CheckLockTime(k.tx, n)
         ELSE HasFlag(n, SEQUENCE_LOCKTIME_DISABLE_FLAG) \/ CheckSequence(k.tx, n)
  <2>1. Has(k, 1) BY <1>3, <1>4, <1>5, <1>6, Zenon DEF CheckLock
  <2>2. Step(m) # Throw(k) BY <1>5, <1>6, Zenon DEF Throw
  <2>3. Step(m) # Fail(k, "UNSATISFIED_LOCKTIME") /\ Step(m) # Fail(k, "NEGATIVE_LOCKTIME")
    <3>1. "NEGATIVE_LOCKTIME" # "" OBVIOUS
    <3> QED BY <3>1, <1>5, <1>6, Zenon
  <2> QED BY <1>3, <1>4, <2>1, <2>2, <2>3, Zenon DEF CheckLock
<1>8. k.tx = m.tx BY <1>1, Zenon
<1> QED BY <1>4, <1>7, <1>8, Zenon

(* A lock time that is checked is one of the height's or the time's kind. *)
LEMMA LockTimeHolds ==
  ASSUME NEW tx, tx.nLockTime \in Nat, NEW n \in Int, CheckLockTime(tx, n),
         NEW height \in Int, NEW time \in Int, FinalAt(tx, height, time)
  PROVE  n < (IF n < LOCKTIME_THRESHOLD THEN height ELSE time)
<1>1. LOCKTIME_THRESHOLD \in Nat BY LocksAssumption
<1>2. n <= tx.nLockTime /\ (tx.nLockTime < LOCKTIME_THRESHOLD <=> n < LOCKTIME_THRESHOLD)
  BY DEF CheckLockTime
<1>3. tx.nLockTime < (IF tx.nLockTime < LOCKTIME_THRESHOLD THEN height ELSE time)
  BY DEF CheckLockTime, FinalAt
<1> DEFINE l == tx.nLockTime
<1>4. l \in Nat OBVIOUS
<1> HIDE DEF l
<1> QED BY <1>1, <1>2, <1>3, <1>4 DEF l

LEMMA MaskedBits ==
  ASSUME NEW x \in Int
  PROVE  x % (SEQUENCE_LOCKTIME_MASK + 1) \in 0 .. SEQUENCE_LOCKTIME_MASK
<1>1. SEQUENCE_LOCKTIME_MASK \in Nat BY LocksAssumption
<1> DEFINE b == SEQUENCE_LOCKTIME_MASK + 1
<1>2. b \in Nat \ {0} BY <1>1
<1> HIDE DEF b
<1>3. x % b \in 0 .. b - 1 BY <1>2
<1>4. b - 1 = SEQUENCE_LOCKTIME_MASK BY <1>1 DEF b
<1> QED BY <1>3, <1>4 DEF b

(* The fields that checkSequence compares are the ages that BIP 68 asks for. *)
LEMMA SequenceHolds ==
  ASSUME NEW tx, tx.sequence \in Nat, tx.version \in Int, NEW n \in Int, CheckSequence(tx, n),
         NEW blocks \in Int, NEW seconds \in Int, MatureAt(tx, blocks, seconds)
  PROVE  Reached(n, blocks, seconds)
<1> DEFINE b == SEQUENCE_LOCKTIME_MASK + 1
           p == tx.sequence % b
           q == n % b
           T == SEQUENCE_LOCKTIME_TYPE_FLAG
           Typed(x) == HasFlag(x, T)
<1>1. p \in 0 .. SEQUENCE_LOCKTIME_MASK /\ q \in 0 .. SEQUENCE_LOCKTIME_MASK
  BY MaskedBits
<1>2. SEQUENCE_LOCKTIME_MASK \in Nat /\ T \in Nat /\ SEQUENCE_LOCKTIME_MASK < T
  BY LocksAssumption
<1>3. /\ LockTimeMasked(tx.sequence) = p + (IF Typed(tx.sequence) THEN T ELSE 0)
      /\ LockTimeMasked(n) = q + (IF Typed(n) THEN T ELSE 0)
  BY DEF LockTimeMasked
<1>4. /\ tx.version >= 2 /\ ~HasFlag(tx.sequence, SEQUENCE_LOCKTIME_DISABLE_FLAG)
      /\ LockTimeMasked(tx.sequence) < T <=> LockTimeMasked(n) < T
      /\ LockTimeMasked(n) <= LockTimeMasked(tx.sequence)
  BY Zenon DEF CheckSequence
<1>5. p <= (IF Typed(tx.sequence) THEN seconds ELSE blocks)
  <2>1. Reached(tx.sequence, blocks, seconds) BY <1>4 DEF MatureAt
  <2> QED BY <2>1 DEF Reached
<1> HIDE DEF p, q, T, Typed
<1>6. (Typed(tx.sequence) <=> Typed(n)) /\ q <= p BY <1>1, <1>2, <1>3, <1>4
<1>7. q <= (IF Typed(n) THEN seconds ELSE blocks)
  <2>1. p \in Int /\ q \in Int BY <1>1
  <2> QED BY <2>1, <1>5, <1>6
<1> QED BY <1>7 DEF Reached, q, T, Typed

(* What the output's script asks for has been checked. *)
Checks(args) ==
  /\ (LockedWith(args, Opcode.OP_CHECKLOCKTIMEVERIFY) /\ "CHECKLOCKTIMEVERIFY" \in args.flags)
       => CheckLockTime(args.tx, LockNumber(args))
  /\ (LockedWith(args, Opcode.OP_CHECKSEQUENCEVERIFY) /\ "CHECKSEQUENCEVERIFY" \in args.flags)
       => \/ HasFlag(LockNumber(args), SEQUENCE_LOCKTIME_DISABLE_FLAG)
          \/ CheckSequence(args.tx, LockNumber(args))
Locked(args) == \E num \in LockOps : LockedWith(args, num)

(* What is known of the machine in the output's script, up to its place there *)
LockRun(m, args) ==
  /\ m.script = args.scriptPubkey
  /\ m.pc \in {0, 1} => m.vfExec = <<>> /\ m.tx = args.tx /\ m.flags = args.flags
  /\ m.pc = 1 => Top(m, 1) = Pushed(args.scriptPubkey[1])
  /\ m.pc = 2 => Checks(args)

TimesTyped(tx) == {tx.nLockTime, tx.sequence} \subseteq Nat /\ tx.version \in Int

LockInv ==
  calls = 1 /\ Locked(call.args) =>
    /\ TimesTyped(call.args.tx)
    /\ phase = "scriptPubkey" => LockRun(interpreter, call.args)
    /\ phase \in {"redeemScript", "true"} => Checks(call.args)

LEMMA LockRunStep ==
  ASSUME NEW m, Machine(m), NEW args, Locked(args), LockRun(m, args), NEW n, Stepped(m, n)
  PROVE  LockRun(n, args)
<1> DEFINE s == args.scriptPubkey
<1>1. m.pc < Len(m.script) /\ n.script = m.script /\ n.pc = m.pc + 1 BY SteppedPlace
<1>2. m.script = s BY DEF LockRun
<1>3. Len(s) = 2 /\ s[1].op <= Opcode.OP_16 /\ s[2].op \in LockOps
  BY Zenon DEF Locked, LockedWith
<1>4. m.pc \in {0, 1}
  <2>1. m.pc \in Nat BY MachineFields
  <2> QED BY <1>1, <1>2, <1>3, <2>1
<1>5. m.vfExec = <<>> /\ m.tx = args.tx /\ m.flags = args.flags BY <1>4 DEF LockRun
<1>6. GoesOn(m) /\ n = Step(m) BY <1>5, SteppedOn
<1>7. CASE m.pc = 0
  <2>1. m.script[m.pc + 1] = s[1]
    <3>1. 0 + 1 = 1 OBVIOUS
    <3> QED BY <3>1, <1>2, <1>7
  <2>2. /\ n.stack = Append(m.stack, Pushed(s[1])) /\ n.vfExec = m.vfExec
        /\ n.tx = m.tx /\ n.flags = m.flags
    BY <1>3, <1>6, <2>1, PushesIt
  <2>3. Top(n, 1) = Pushed(s[1])
    <3> DEFINE b == Pushed(s[1])
               stack == m.stack
    <3>1. stack \in Seq(Buffer) BY MachineFields DEF Stack
    <3>2. b \in Buffer
      <4>1. s \in Seq(Chunk) /\ 1 \in 1 .. Len(s) BY <1>2, <1>3, MachineFields
      <4> HIDE DEF s
      <4>2. s[1] \in Chunk BY <4>1, ElementOfSeq
      <4> QED BY <4>2, PushedType
    <3>3. n.stack = Append(stack, b) BY <2>2
    <3> HIDE DEF b, stack
    <3>4. Len(n.stack) = Len(stack) + 1 /\ n.stack[Len(stack) + 1] = b
      BY <3>1, <3>2, <3>3, AppendProperties
    <3>5. Len(n.stack) + 1 - 1 = Len(stack) + 1 BY <3>1, <3>4, LenProperties
    <3> QED BY <3>4, <3>5 DEF Top, b
  <2>4. n.pc = 1 BY <1>1, <1>7
  <2>5. n.vfExec = <<>> /\ n.tx = args.tx /\ n.flags = args.flags BY <1>5, <2>2
  <2> HIDE DEF s
  <2> QED BY <1>1, <1>2, <2>3, <2>4, <2>5 DEF LockRun, s
<1>8. CASE m.pc = 1
  <2>1. m.script[m.pc + 1] = s[2]
    <3>1. 1 + 1 = 2 OBVIOUS
    <3> QED BY <3>1, <1>2, <1>8
  <2>2. LockNumber(args) = FromScriptNum(Top(m, 1)) BY <1>8 DEF LockRun, LockNumber
  <2>3. Opcode.OP_CHECKLOCKTIMEVERIFY # Opcode.OP_CHECKSEQUENCEVERIFY
        /\ Opcode.OP_CHECKLOCKTIMEVERIFY \in LockOps /\ Opcode.OP_CHECKSEQUENCEVERIFY \in LockOps
    BY OpcodeValues DEF LockOps
  <2>4. ASSUME LockedWith(args, Opcode.OP_CHECKLOCKTIMEVERIFY),
               "CHECKLOCKTIMEVERIFY" \in args.flags
        PROVE  CheckLockTime(args.tx, LockNumber(args))
    <3>1. m.script[m.pc + 1].op = Opcode.OP_CHECKLOCKTIMEVERIFY
      BY <2>1, <2>4 DEF LockedWith
    <3>2. Enabled(m, "CHECKLOCKTIMEVERIFY") BY <1>5, <2>4 DEF Enabled
    <3> DEFINE num == Opcode.OP_CHECKLOCKTIMEVERIFY
    <3>3. num \in LockOps /\ num = Opcode.OP_CHECKLOCKTIMEVERIFY BY <2>3
    <3> HIDE DEF num
    <3>4. CheckLockTime(m.tx, FromScriptNum(Top(m, 1)))
      BY <1>6, <3>1, <3>2, <3>3, LocksTop, Zenon
    <3> QED BY <1>5, <2>2, <3>4
  <2>5. ASSUME LockedWith(args, Opcode.OP_CHECKSEQUENCEVERIFY),
               "CHECKSEQUENCEVERIFY" \in args.flags
        PROVE  \/ HasFlag(LockNumber(args), SEQUENCE_LOCKTIME_DISABLE_FLAG)
               \/ CheckSequence(args.tx, LockNumber(args))
    <3>1. m.script[m.pc + 1].op = Opcode.OP_CHECKSEQUENCEVERIFY
      BY <2>1, <2>5 DEF LockedWith
    <3>2. Enabled(m, "CHECKSEQUENCEVERIFY") BY <1>5, <2>5 DEF Enabled
    <3> DEFINE num == Opcode.OP_CHECKSEQUENCEVERIFY
    <3>3. num \in LockOps /\ num # Opcode.OP_CHECKLOCKTIMEVERIFY
          /\ num = Opcode.OP_CHECKSEQUENCEVERIFY
      BY <2>3
    <3> HIDE DEF num
    <3>4. \/ HasFlag(FromScriptNum(Top(m, 1)), SEQUENCE_LOCKTIME_DISABLE_FLAG)
          \/ CheckSequence(m.tx, FromScriptNum(Top(m, 1)))
      BY <1>6, <3>1, <3>2, <3>3, LocksTop, Zenon
    <3> QED BY <1>5, <2>2, <3>4, Zenon
  <2>6. Checks(args) BY <2>4, <2>5, Zenon DEF Checks
  <2>7. n.pc = 2 BY <1>1, <1>8
  <2>8. n.pc \notin {0, 1} BY <2>7
  <2> HIDE DEF s
  <2> QED BY <1>1, <1>2, <2>6, <2>7, <2>8 DEF LockRun, s
<1> QED BY <1>4, <1>7, <1>8

LEMMA CallVerifyLock == Inv /\ CallVerify => LockInv'
<1> SUFFICES ASSUME Inv, CallVerify PROVE LockInv' OBVIOUS
<1>0. PICK i \in DOMAIN Calls : \E args \in Calls[i] :
        LET m == [interpreter EXCEPT !.script = args.scriptSig, !.tx = args.tx,
                                     !.flags = args.flags, !.errstr = ""]
        IN  /\ call' = [args |-> args, stackCopy |-> <<>>]
            /\ IF "SIGPUSHONLY" \in args.flags /\ ~IsPushOnly(args.scriptSig)
                 THEN interpreter' = Fail(m, "SIG_PUSHONLY") /\ phase' = "false"
                 ELSE Enter(m, "scriptSig")
  BY Zenon DEF CallVerify
<1>1. PICK args \in Calls[i] :
        LET m == [interpreter EXCEPT !.script = args.scriptSig, !.tx = args.tx,
                                     !.flags = args.flags, !.errstr = ""]
        IN  /\ call' = [args |-> args, stackCopy |-> <<>>]
            /\ IF "SIGPUSHONLY" \in args.flags /\ ~IsPushOnly(args.scriptSig)
                 THEN interpreter' = Fail(m, "SIG_PUSHONLY") /\ phase' = "false"
                 ELSE Enter(m, "scriptSig")
  BY <1>0, Zenon
<1>2. call'.args = args BY <1>1
<1>4. TimesTyped(args.tx) BY CallsAssumption, Zenon DEF TimesTyped
<1>5. phase' \in {"false", "scriptSig"} BY <1>1 DEF Enter
<1> QED BY <1>2, <1>4, <1>5 DEF LockInv

LEMMA RunStepLock == DigestsAreBuffers /\ Inv /\ LockInv /\ RunStep => LockInv'
<1> SUFFICES ASSUME DigestsAreBuffers, Inv, LockInv, RunStep, calls' = 1, Locked(call'.args)
             PROVE  LockInv'
  BY DEF LockInv
<1> DEFINE m == interpreter
           n == interpreter'
<1>1. Machine(m) /\ m.pc < Len(m.script) /\ phase \in Running /\ UNCHANGED <<call, calls>>
  BY DEF Inv, RunStep
<1>2. n = Step(m) BY DEF RunStep
<1>3. phase' = IF n.errstr = "" THEN phase ELSE "false" BY DEF RunStep
<1>4. n.script = m.script /\ n.pc = m.pc + 1 BY <1>1, <1>2, StepRuns
<1>5. /\ TimesTyped(call.args.tx) /\ Locked(call.args)
      /\ phase = "scriptPubkey" => LockRun(m, call.args)
      /\ phase = "redeemScript" => Checks(call.args)
  BY <1>1 DEF LockInv
<1>6. CASE n.errstr # "" BY <1>1, <1>3, <1>5, <1>6 DEF LockInv
<1>7. CASE n.errstr = ""
  <2>1. Stepped(m, n) BY <1>1, <1>2, <1>4, <1>7, Zenon DEF Stepped
  <2>2. phase' = phase BY <1>3, <1>7
  <2>3. phase = "scriptPubkey" => LockRun(n, call.args)
    BY <1>1, <1>5, <2>1, LockRunStep, Zenon
  <2>4. phase # "true" BY <1>1 DEF Running
  <2>5. call' = call BY <1>1
  <2>6. phase' \in {"redeemScript", "true"} => phase = "redeemScript" BY <2>2, <2>4
  <2> QED BY <1>5, <2>2, <2>3, <2>5, <2>6, Zenon DEF LockInv
<1> QED BY <1>6, <1>7

LEMMA FinishScriptSigLock == Inv /\ LockInv /\ FinishScriptSig => LockInv'
<1> SUFFICES ASSUME Inv, LockInv, FinishScriptSig, calls' = 1, Locked(call'.args) PROVE LockInv'
  BY DEF LockInv
<1> DEFINE m == interpreter
           n == Load(call.args.scriptPubkey, m.stack)
<1>1. calls = 1 BY DEF FinishScriptSig
<1>2. call'.args = call.args
  <2>1. CASE call' = [call EXCEPT !.stackCopy =
                        IF "P2SH" \in call.args.flags THEN interpreter.stack ELSE <<>>]
    BY <2>1
  <2>2. CASE UNCHANGED call BY <2>2
  <2> QED BY <2>1, <2>2, Zenon DEF FinishScriptSig
<1>3. TimesTyped(call'.args.tx) BY <1>1, <1>2 DEF LockInv
<1>4. phase' = "false" \/ (phase' = "scriptPubkey" /\ interpreter' = n)
  BY DEF FinishScriptSig, Return, Enter
<1>5. LockRun(n, call.args)
  <2> DEFINE script == call.args.scriptPubkey
             stack == m.stack
             args == call.args
             b == Beginning(script, stack, args)
  <2>1. n = b BY LoadIs
  <2>2. script = args.scriptPubkey OBVIOUS
  <2> HIDE DEF n, script, stack, args
  <2>3. b.script = script /\ b.pc = 0 /\ b.vfExec = <<>> /\ b.tx = args.tx /\ b.flags = args.flags
    BY LoadFields
  <2> HIDE DEF b
  <2>4. LockRun(b, args) BY <2>2, <2>3 DEF LockRun
  <2> QED BY <2>1, <2>4 DEF args
<1> HIDE DEF n
<1>6. phase' = "scriptPubkey" => LockRun(interpreter', call'.args) BY <1>2, <1>4, <1>5
<1>7. phase' \notin {"redeemScript", "true"} BY <1>4
<1> QED BY <1>3, <1>6, <1>7, Zenon DEF LockInv

(* At its end the output's script has made its checks, whatever comes then. *)
LEMMA FinishScriptPubkeyLock == Inv /\ LockInv /\ FinishScriptPubkey => LockInv'
<1> SUFFICES ASSUME Inv, LockInv, FinishScriptPubkey, calls' = 1, Locked(call'.args)
             PROVE  LockInv'
  BY DEF LockInv
<1>1. calls = 1 /\ phase = "scriptPubkey" /\ call' = call
  BY DEF FinishScriptPubkey, AtEnd
<1>2. TimesTyped(call.args.tx) /\ LockRun(interpreter, call.args) BY <1>1 DEF LockInv
<1>3. interpreter.pc = 2
  <2>1. interpreter.pc = Len(interpreter.script) BY <1>1, AtItsEnd DEF FinishScriptPubkey
  <2>2. Len(call.args.scriptPubkey) = 2 BY <1>1 DEF Locked, LockedWith
  <2> QED BY <1>2, <2>1, <2>2 DEF LockRun
<1>4. Checks(call.args) BY <1>2, <1>3 DEF LockRun
<1>5. phase' # "scriptPubkey"
  <2>1. \A x, r : r # "scriptPubkey" /\ Return(x, r) => phase' # "scriptPubkey" BY DEF Return
  <2>2. \A x : Enter(x, "redeemScript") => phase' # "scriptPubkey" BY DEF Enter
  <2>3. "false" # "scriptPubkey" /\ "true" # "scriptPubkey" /\ "threw" # "scriptPubkey" OBVIOUS
  <2> QED BY <2>1, <2>2, <2>3, Zenon DEF FinishScriptPubkey
<1> QED BY <1>1, <1>2, <1>4, <1>5, Zenon DEF LockInv

LEMMA FinishRedeemScriptLock == Inv /\ LockInv /\ FinishRedeemScript => LockInv'
<1> SUFFICES ASSUME LockInv, FinishRedeemScript, calls' = 1, Locked(call'.args) PROVE LockInv'
  BY DEF LockInv
<1>1. calls = 1 /\ phase = "redeemScript" /\ call' = call
  BY DEF FinishRedeemScript, AtEnd
<1>2. TimesTyped(call.args.tx) /\ Checks(call.args) BY <1>1 DEF LockInv
<1>3. phase' # "scriptPubkey" BY DEF FinishRedeemScript, Return
<1> QED BY <1>1, <1>2, <1>3, Zenon DEF LockInv

LEMMA LockStep == DigestsAreBuffers /\ Inv /\ LockInv /\ [Next]_vars => LockInv'
<1> SUFFICES ASSUME DigestsAreBuffers, Inv, LockInv, [Next]_vars PROVE LockInv' OBVIOUS
<1>1. CASE CallVerify BY <1>1, CallVerifyLock
<1>2. CASE RunStep BY <1>2, RunStepLock
<1>3. CASE FinishScriptSig BY <1>3, FinishScriptSigLock
<1>4. CASE FinishScriptPubkey BY <1>4, FinishScriptPubkeyLock
<1>5. CASE FinishRedeemScript BY <1>5, FinishRedeemScriptLock
<1>6. CASE UNCHANGED vars BY <1>6 DEF vars, LockInv
<1> QED BY <1>1, <1>2, <1>3, <1>4, <1>5, <1>6 DEF Next

-----------------------------------------------------------------------------
(* Addresses: the hash of the key that an input pushes last, and that of a *)
(* pay to public key hash output                                           *)

LEMMA DupsTop ==
  ASSUME NEW m, Machine(m), GoesOn(m), m.script[m.pc + 1].op = Opcode.OP_DUP, Has(m, 1)
  PROVE  /\ Has(Step(m), 1) /\ Step(m).vfExec = m.vfExec
         /\ Top(Step(m), 1) = Top(m, 1)
<1> DEFINE num == Opcode.OP_DUP
<1>1. PICK k : /\ Machine(k) /\ k.stack = m.stack /\ k.vfExec = m.vfExec
               /\ Step(m) = IF m.script[m.pc + 1].op <= Opcode.OP_PUSHDATA4
                              THEN PushData(k, m.script[m.pc + 1])
                              ELSE Execute(k, m.script[m.pc + 1].op)
  BY StepExecutes, Zenon
<1>2. ~(num <= Opcode.OP_PUSHDATA4) /\ num \in Byte BY OpcodeValues DEF Byte
<1>3. Moves(num)[1] = 1 /\ Moves(num)[2] = <<1, 1>> BY DEF Moves, Opcode
<1> HIDE DEF num
<1>4. Step(m) = Move(k, num) BY <1>1, <1>2, Branches, Zenon DEF num
<1>5. Has(k, 1) /\ Top(k, 1) = Top(m, 1) /\ Machine(k) BY <1>1 DEF Top, Has
<1> DEFINE taken == SubSeq(k.stack, Len(k.stack) - 1 + 1, Len(k.stack))
           to == <<1, 1>>
           bufs == [i \in DOMAIN to |-> taken[to[i]]]
<1>6. Step(m) = Replace(k, 1, bufs) BY <1>3, <1>4, <1>5, Zenon DEF Move
<1>7. k.stack \in Seq(Buffer) /\ Len(k.stack) \in Nat /\ Len(k.stack) >= 1
  BY <1>5, MachineFields, LenProperties DEF Stack, Has
<1>8. taken = <<Top(k, 1)>>
  <2> DEFINE n == Len(k.stack)
  <2>1. n - 1 + 1 = n /\ n + 1 - 1 = n BY <1>7
  <2>2. Top(k, 1) = k.stack[n] BY <2>1 DEF Top
  <2>3. k.stack[n] \in Buffer BY <1>7, ElementOfSeq
  <2> DEFINE s == k.stack
             t == SubSeq(s, n, n)
  <2>4. t = <<s[n]>>
    <3>1. \A i \in n .. n : s[i] \in Buffer BY <2>3, <1>7
    <3>2. s \in Seq(Buffer) /\ n \in Int /\ n <= n /\ n - n + 1 = 1 /\ n + 1 - 1 = n BY <1>7
    <3> HIDE DEF s, n
    <3>3. t \in Seq(Buffer) /\ Len(t) = 1 /\ t[1] = s[n]
      BY <3>1, <3>2, SubSeqProperties
    <3> HIDE DEF t
    <3> QED BY <3>3
  <2> QED BY <2>1, <2>2, <2>4
<1> DEFINE top == Top(k, 1)
<1>9. bufs = <<top, top>>
  <2> HIDE DEF taken
  <2>1. taken[1] = top BY <1>8
  <2> HIDE DEF top
  <2> QED BY <2>1
<1>10. top \in Buffer BY <1>5, TopType
<1> HIDE DEF bufs, top
<1> DEFINE s == Below(k, 1)
<1>11. s \in Seq(Buffer) /\ Len(s) \in Nat
  <2>1. \A j \in 1 .. Len(k.stack) - 1 : k.stack[j] \in Buffer
    <3> TAKE j \in 1 .. Len(k.stack) - 1
    <3>1. j \in 1 .. Len(k.stack) BY <1>7
    <3> QED BY <3>1, <1>7, ElementOfSeq
  <2>2. 1 \in Int /\ Len(k.stack) - 1 \in Int BY <1>7
  <2>3. s \in Seq(Buffer) BY <2>1, <2>2, <1>7, SubSeqProperties DEF Below
  <2> QED BY <2>3, LenProperties
<1> DEFINE n == Step(m)
<1>12. n.stack = s \o bufs /\ n.vfExec = k.vfExec BY <1>5, <1>6, ReplaceKeeps DEF OnlyReplaces
<1> HIDE DEF s, n
<1>13. bufs \in Seq(Buffer) /\ Len(bufs) = 2 /\ bufs[2] = top BY <1>9, <1>10
<1>14. Len(s \o bufs) = Len(s) + 2 /\ (s \o bufs)[Len(s) + 2] = top
  <2>1. Len(s \o bufs) = Len(s) + Len(bufs)
        /\ \A i \in 1 .. Len(s) + Len(bufs) :
             (s \o bufs)[i] = IF i <= Len(s) THEN s[i] ELSE bufs[i - Len(s)]
    BY <1>11, <1>13, ConcatProperties, Zenon
  <2> DEFINE i == Len(s) + 2
  <2>2. i \in 1 .. Len(s) + Len(bufs) /\ ~(i <= Len(s)) /\ i - Len(s) = 2 BY <1>11, <1>13
  <2> HIDE DEF i
  <2>3. (s \o bufs)[i] = bufs[2] BY <2>1, <2>2
  <2> QED BY <2>1, <2>3, <1>13 DEF i
<1>15. Has(n, 1) /\ Top(n, 1) = top
  <2>1. Len(n.stack) = Len(s) + 2 /\ n.stack[Len(s) + 2] = top BY <1>12, <1>14
  <2>2. Len(n.stack) + 1 - 1 = Len(s) + 2 /\ Len(n.stack) >= 1 BY <2>1, <1>11
  <2> QED BY <2>1, <2>2 DEF Has, Top
<1> QED BY <1>1, <1>5, <1>12, <1>15 DEF n, top

(* OP_EQUALVERIFY goes on only when the two on top are equal. *)
LEMMA VerifiesEqual ==
  ASSUME NEW m, Machine(m), GoesOn(m), m.script[m.pc + 1].op = Opcode.OP_EQUALVERIFY
  PROVE  Top(m, 1) = Top(m, 2)
<1> DEFINE num == Opcode.OP_EQUALVERIFY
<1>1. PICK k : /\ Machine(k) /\ k.stack = m.stack /\ k.vfExec = m.vfExec
               /\ Step(m) = IF m.script[m.pc + 1].op <= Opcode.OP_PUSHDATA4
                              THEN PushData(k, m.script[m.pc + 1])
                              ELSE Execute(k, m.script[m.pc + 1].op)
  BY StepExecutes, Zenon
<1>2. ~(num <= Opcode.OP_PUSHDATA4) /\ num \in Byte /\ num # Opcode.OP_EQUAL
  BY OpcodeValues DEF Byte
<1> HIDE DEF num
<1>3. Step(m) = Equal(k, num) BY <1>1, <1>2, Branches, Zenon DEF num
<1>4. Step(m).errstr = "" BY Zenon DEF GoesOn
<1>5. "INVALID_STACK_OPERATION" # "" /\ "EQUALVERIFY" # "" OBVIOUS
<1>6. Top(k, 1) = Top(m, 1) /\ Top(k, 2) = Top(m, 2) BY <1>1 DEF Top
<1>7. Has(k, 2)
  <2>1. ASSUME ~Has(k, 2) PROVE FALSE
    <3>1. Step(m) = Fail(k, "INVALID_STACK_OPERATION") BY <1>3, <2>1, Zenon DEF Equal
    <3> QED BY <3>1, <1>1, <1>4, <1>5, FailsStop, Zenon
  <2> QED BY <2>1
<1>8. ASSUME Top(k, 1) # Top(k, 2) PROVE FALSE
  <2> DEFINE e == Replace(k, 2, <<FALSEBUF>>)
  <2>1. Step(m) = Fail(e, "EQUALVERIFY") BY <1>2, <1>3, <1>7, <1>8, Zenon DEF Equal
  <2>2. Machine(e)
    <3>1. Machine(k) /\ <<FALSEBUF>> \in Stack BY <1>1, Singles, Zenon
    <3>2. 2 \in Nat OBVIOUS
    <3>3. Runs(k, e) BY <3>1, <3>2, <1>7, Replacing, RunsItself, Zenon
    <3> QED BY <3>3, Zenon DEF Runs
  <2> HIDE DEF e
  <2> QED BY <2>1, <2>2, <1>4, <1>5, FailsStop, Zenon
<1> QED BY <1>6, <1>8

(* A push in a branch that is skipped changes no branch. *)
LEMMA SkipsPush ==
  ASSUME NEW m0, Machine(m0), NEW n, Stepped(m0, n), ~Executing(m0),
         m0.script[m0.pc + 1].op <= Opcode.OP_PUSHDATA4
  PROVE  n.vfExec = m0.vfExec
<1> DEFINE chunk == m0.script[m0.pc + 1]
           num == chunk.op
           next == [m0 EXCEPT !.pc = @ + 1]
<1>1. m0 \in Machines(m0.errstr, m0.tx) /\ m0.pc \in Nat /\ m0.script \in Seq(Chunk)
  BY MachineFields DEF Machine
<1>2. num \in Nat
  <2>1. m0.pc < Len(m0.script) BY SteppedPlace
  <2>2. m0.pc + 1 \in 1 .. Len(m0.script) BY <2>1, <1>1, LenProperties
  <2>3. chunk \in Chunk BY <2>2, <1>1, ElementOfSeq
  <2> QED BY <2>3, ChunkFields
<1>3. ~(num > Opcode.OP_16) /\ num \notin Opcode.OP_IF .. Opcode.OP_ENDIF
  BY <1>2, OpcodeValues
<1> HIDE DEF chunk
<1>4. next.vfExec = m0.vfExec /\ \A e : Fail(next, e).vfExec = m0.vfExec
  BY <1>1 DEF Fail, Machines
<1> HIDE DEF next
<1>5. ~Executing(next) BY <1>4 DEF Executing
<1>6. n = IF HasBuf(chunk) /\ Len(chunk.buf) > MAX_SCRIPT_ELEMENT_SIZE
            THEN Fail(next, "PUSH_SIZE")
          ELSE IF num \in Disabled THEN Fail(next, "DISABLED_OPCODE") ELSE next
  BY <1>3, <1>5, Zenon DEF Stepped, Step, chunk, next
<1> QED BY <1>4, <1>6, Zenon

(* A buffer pushed on what was there *)
OnTop(m, n, buf) ==
  /\ Has(n, 1) /\ Top(n, 1) = buf
  /\ Has(m, 1) => Has(n, 2) /\ Top(n, 2) = Top(m, 1)

LEMMA PushedOn ==
  ASSUME NEW m, Machine(m), NEW n, NEW buf \in Buffer, n.stack = Append(m.stack, buf)
  PROVE  OnTop(m, n, buf)
<1> DEFINE s == m.stack
           l == Len(m.stack)
           t == n.stack
<1>1. s \in Seq(Buffer) /\ l \in Nat BY MachineFields, LenProperties DEF Stack
<1>2. t = Append(s, buf) OBVIOUS
<1> HIDE DEF s, l, t
<1>3. Len(t) = l + 1 /\ t[l + 1] = buf /\ \A i \in 1 .. l : t[i] = s[i]
  BY <1>1, <1>2, AppendProperties DEF l, s
<1>4. Has(n, 1) /\ Top(n, 1) = buf
  <2>1. l + 1 + 1 - 1 = l + 1 /\ l + 1 >= 1 BY <1>1
  <2> QED BY <2>1, <1>3 DEF Has, Top, t
<1>5. ASSUME Has(m, 1) PROVE Has(n, 2) /\ Top(n, 2) = Top(m, 1)
  <2>1. l >= 1 BY <1>5 DEF Has, l
  <2>2. l + 1 + 1 - 2 = l /\ l + 1 >= 2 /\ l + 1 - 1 = l /\ l \in 1 .. l BY <1>1, <2>1
  <2>3. t[l] = s[l] BY <1>3, <2>2
  <2> QED BY <2>2, <2>3, <1>3 DEF Has, Top, t, s, l
<1> QED BY <1>4, <1>5 DEF OnTop

(* The scripts of a call in which only pushes have data *)
PushesRead(args) ==
  \A s \in {args.scriptSig, args.scriptPubkey} :
    \A j \in DOMAIN s : HasBuf(s[j]) => s[j].op <= Opcode.OP_PUSHDATA4
(* An input's script with a buffer at its end, for a pay to public key hash output *)
SpendsKeyHash(args) ==
  /\ args.scriptSig # <<>> /\ HasBuf(Last(args.scriptSig))
  /\ IsPublicKeyHashOut(args.scriptPubkey)
LastPush(args) == Last(args.scriptSig).buf
SameHash(args) == Digest("hash160", LastPush(args)) = args.scriptPubkey[3].buf

(* What is known of the machine in each of the two scripts, up to its place *)
LastPushRun(m, args) ==
  /\ m.script = args.scriptSig
  /\ (m.pc = Len(m.script) /\ m.vfExec = <<>>) => Has(m, 1) /\ Top(m, 1) = LastPush(args)
KeyHashRun(m, args) ==
  /\ m.script = args.scriptPubkey
  /\ m.pc \in 0 .. 3 => m.vfExec = <<>>
  /\ m.pc \in {0, 1} => Has(m, 1) /\ Top(m, 1) = LastPush(args)
  /\ m.pc = 2 => Has(m, 1) /\ Top(m, 1) = Digest("hash160", LastPush(args))
  /\ m.pc = 3 => /\ Top(m, 1) = args.scriptPubkey[3].buf
                 /\ Top(m, 2) = Digest("hash160", LastPush(args))
  /\ m.pc \in {4, 5} => SameHash(args)

AddressInv ==
  calls = 1 =>
    /\ phase # "idle" => PushesRead(call.args)
    /\ SpendsKeyHash(call.args) =>
         /\ phase = "scriptSig" => LastPushRun(interpreter, call.args)
         /\ phase = "scriptPubkey" => KeyHashRun(interpreter, call.args)
         /\ phase \in {"redeemScript", "true"} => SameHash(call.args)

LEMMA PushIsSmall ==
  \A num \in Nat : num <= Opcode.OP_PUSHDATA4 => num <= Opcode.OP_16 /\ ~(num > Opcode.OP_PUSHDATA4)
BY OpcodeValues

LEMMA LastPushRunStep ==
  ASSUME NEW m, Machine(m), NEW args, PushesRead(args), SpendsKeyHash(args),
         LastPushRun(m, args), NEW n, Stepped(m, n)
  PROVE  LastPushRun(n, args)
<1> DEFINE s == args.scriptSig
<1>1. m.pc < Len(m.script) /\ n.script = m.script /\ n.pc = m.pc + 1 BY SteppedPlace
<1>2. m.script = s BY DEF LastPushRun
<1> SUFFICES ASSUME n.pc = Len(s), n.vfExec = <<>>
             PROVE  Has(n, 1) /\ Top(n, 1) = LastPush(args)
  BY <1>1, <1>2 DEF LastPushRun
<1>3. m.script[m.pc + 1] = Last(s) BY <1>1, <1>2 DEF Last
<1>4. s \in Seq(Chunk) /\ Len(s) \in 1 .. Len(s) /\ DOMAIN s = 1 .. Len(s)
  <2>1. s \in Seq(Chunk) /\ s # <<>> BY <1>2, MachineFields DEF SpendsKeyHash
  <2> HIDE DEF s
  <2> QED BY <2>1, LenProperties, EmptySeq
<1>5. HasBuf(Last(s)) /\ Last(s).op <= Opcode.OP_PUSHDATA4
  BY <1>4 DEF SpendsKeyHash, PushesRead, Last
<1>6. Last(s) \in Chunk
  <2> HIDE DEF s
  <2> QED BY <1>4, ElementOfSeq DEF Last
<1>7. Last(s).op \in Nat /\ Last(s).buf \in Buffer BY <1>5, <1>6, ChunkFields
<1>8. Executing(m)
  <2>1. ASSUME ~Executing(m) PROVE FALSE
    <3>1. m.vfExec = <<>> BY <1>3, <1>5, <2>1, SkipsPush
    <3> QED BY <3>1, <2>1 DEF Executing
  <2> QED BY <2>1
<1>9. GoesOn(m) /\ n = Step(m) BY <1>8, Zenon DEF GoesOn, Stepped
<1> HIDE DEF s
<1>10. Last(s).op <= Opcode.OP_16 /\ ~(Last(s).op > Opcode.OP_PUSHDATA4)
  BY <1>5, <1>7, PushIsSmall, Zenon
<1>11. n.stack = Append(m.stack, Pushed(Last(s))) BY <1>3, <1>9, <1>10, PushesIt
<1>12. Pushed(Last(s)) = LastPush(args) BY <1>5, <1>10 DEF Pushed, LastPush, s
<1>13. LastPush(args) \in Buffer BY <1>7 DEF LastPush, s
<1>14. OnTop(m, n, LastPush(args)) BY <1>11, <1>12, <1>13, PushedOn
<1> QED BY <1>14 DEF OnTop

LEMMA KeyHashRunStep ==
  ASSUME DigestsAreBuffers, NEW m, Machine(m), NEW args, PushesRead(args), SpendsKeyHash(args),
         KeyHashRun(m, args), NEW n, Stepped(m, n)
  PROVE  KeyHashRun(n, args)
<1> DEFINE o == args.scriptPubkey
           hash == Digest("hash160", LastPush(args))
<1>1. m.pc < Len(m.script) /\ n.script = m.script /\ n.pc = m.pc + 1 BY SteppedPlace
<1>2. m.script = o BY DEF KeyHashRun
<1>3. /\ Len(o) = 5 /\ o[1].op = Opcode.OP_DUP /\ o[2].op = Opcode.OP_HASH160
      /\ HasBuf(o[3]) /\ o[4].op = Opcode.OP_EQUALVERIFY
  BY DEF SpendsKeyHash, IsPublicKeyHashOut
<1>4. o \in Seq(Chunk) /\ DOMAIN o = 1 .. 5
  <2>1. o \in Seq(Chunk) BY <1>2, MachineFields
  <2> HIDE DEF o
  <2> QED BY <2>1, <1>3, LenProperties
<1>5. o[3].op <= Opcode.OP_PUSHDATA4 BY <1>3, <1>4 DEF PushesRead
<1> HIDE DEF o
<1>6. m.pc \in {0, 1, 2, 3, 4}
  <2>1. m.pc \in Nat BY MachineFields
  <2> QED BY <1>1, <1>2, <1>3, <2>1
<1>7. m.pc # 4 => GoesOn(m) /\ n = Step(m) /\ m.vfExec = <<>>
  <2>1. m.pc # 4 => m.vfExec = <<>> BY <1>6 DEF KeyHashRun
  <2> QED BY <2>1, SteppedOn
<1>8. n.script = args.scriptPubkey BY <1>1, <1>2 DEF o
<1>9. CASE m.pc = 0
  <2>1. m.script[m.pc + 1].op = Opcode.OP_DUP
    <3>1. 0 + 1 = 1 OBVIOUS
    <3> QED BY <3>1, <1>2, <1>3, <1>9
  <2>2. Has(m, 1) /\ Top(m, 1) = LastPush(args) BY <1>9 DEF KeyHashRun
  <2>3. Has(n, 1) /\ n.vfExec = <<>> /\ Top(n, 1) = LastPush(args)
    BY <1>7, <1>9, <2>1, <2>2, DupsTop
  <2>4. n.pc = 1 BY <1>1, <1>9
  <2> QED BY <1>8, <2>3, <2>4 DEF KeyHashRun
<1>10. CASE m.pc = 1
  <2>1. m.script[m.pc + 1].op = Opcode.OP_HASH160
    <3>1. 1 + 1 = 2 OBVIOUS
    <3> QED BY <3>1, <1>2, <1>3, <1>10
  <2>2. Top(m, 1) = LastPush(args) BY <1>10 DEF KeyHashRun
  <2>3. Has(n, 1) /\ n.vfExec = <<>> /\ Top(n, 1) = hash
    BY <1>7, <1>10, <2>1, <2>2, HashesTop
  <2>4. n.pc = 2 BY <1>1, <1>10
  <2> QED BY <1>8, <2>3, <2>4 DEF KeyHashRun
<1>11. CASE m.pc = 2
  <2>1. m.script[m.pc + 1] = o[3]
    <3>1. 2 + 1 = 3 OBVIOUS
    <3> QED BY <3>1, <1>2, <1>11
  <2> DEFINE c == o[3]
  <2>2. c \in Chunk
    <3>1. 3 \in 1 .. Len(o) BY <1>3
    <3> QED BY <3>1, <1>4, ElementOfSeq
  <2>3. c.op \in Nat /\ c.buf \in Buffer BY <1>3, <2>2, ChunkFields
  <2>4. c.op <= Opcode.OP_16 /\ ~(c.op > Opcode.OP_PUSHDATA4)
    BY <1>5, <2>3, PushIsSmall, Zenon
  <2>5. n.stack = Append(m.stack, Pushed(c)) /\ n.vfExec = <<>>
    BY <1>7, <1>11, <2>1, <2>4, PushesIt
  <2>6. Pushed(c) = c.buf BY <1>3, <2>4 DEF Pushed
  <2>7. Has(m, 1) /\ Top(m, 1) = hash BY <1>11 DEF KeyHashRun
  <2> DEFINE b == c.buf
  <2> HIDE DEF b, c
  <2>8. Top(n, 1) = b /\ Top(n, 2) = Top(m, 1)
    <3>1. n.stack = Append(m.stack, b) BY <2>5, <2>6 DEF b
    <3>2. b \in Buffer BY <2>3 DEF b
    <3>3. OnTop(m, n, b) BY <3>1, <3>2, PushedOn
    <3> QED BY <3>3, <2>7 DEF OnTop
  <2>9. n.pc = 3 BY <1>1, <1>11
  <2>10. b = args.scriptPubkey[3].buf BY DEF b, c, o
  <2> HIDE DEF hash
  <2>11. Top(n, 1) = args.scriptPubkey[3].buf /\ Top(n, 2) = hash BY <2>7, <2>8, <2>10
  <2> QED BY <1>8, <2>5, <2>9, <2>11 DEF KeyHashRun, hash
<1>12. CASE m.pc = 3
  <2>1. m.script[m.pc + 1].op = Opcode.OP_EQUALVERIFY
    <3>1. 3 + 1 = 4 OBVIOUS
    <3> QED BY <3>1, <1>2, <1>3, <1>12
  <2>2. Top(m, 1) = Top(m, 2) BY <1>7, <1>12, <2>1, VerifiesEqual
  <2>3. SameHash(args) BY <1>12, <2>2 DEF KeyHashRun, SameHash
  <2>4. n.pc = 4 BY <1>1, <1>12
  <2> QED BY <1>8, <2>3, <2>4 DEF KeyHashRun
<1>13. CASE m.pc = 4
  <2>1. SameHash(args) BY <1>13 DEF KeyHashRun
  <2>2. n.pc = 5 BY <1>1, <1>13
  <2> QED BY <1>8, <2>1, <2>2 DEF KeyHashRun
<1> QED BY <1>6, <1>9, <1>10, <1>11, <1>12, <1>13

LEMMA CallVerifyAddress == PushesAreRead /\ Inv /\ CallVerify => AddressInv'
<1> SUFFICES ASSUME PushesAreRead, Inv, CallVerify, calls' = 1 PROVE AddressInv'
  BY DEF AddressInv
<1>0. PICK i \in DOMAIN Calls : \E args \in Calls[i] :
        LET m == [interpreter EXCEPT !.script = args.scriptSig, !.tx = args.tx,
                                     !.flags = args.flags, !.errstr = ""]
        IN  /\ call' = [args |-> args, stackCopy |-> <<>>]
            /\ IF "SIGPUSHONLY" \in args.flags /\ ~IsPushOnly(args.scriptSig)
                 THEN interpreter' = Fail(m, "SIG_PUSHONLY") /\ phase' = "false"
                 ELSE Enter(m, "scriptSig")
  BY Zenon DEF CallVerify
<1>1. PICK args \in Calls[i] :
        LET m == [interpreter EXCEPT !.script = args.scriptSig, !.tx = args.tx,
                                     !.flags = args.flags, !.errstr = ""]
        IN  /\ call' = [args |-> args, stackCopy |-> <<>>]
            /\ IF "SIGPUSHONLY" \in args.flags /\ ~IsPushOnly(args.scriptSig)
                 THEN interpreter' = Fail(m, "SIG_PUSHONLY") /\ phase' = "false"
                 ELSE Enter(m, "scriptSig")
  BY <1>0, Zenon
<1> DEFINE m == [interpreter EXCEPT !.script = args.scriptSig, !.tx = args.tx,
                                    !.flags = args.flags, !.errstr = ""]
<1>2. call'.args = args BY <1>1
<1>3. PushesRead(args) BY Zenon DEF PushesAreRead, PushesRead
<1>4. interpreter = Initialized
  <2>1. calls \in Nat /\ MaxCalls \in Nat /\ calls' = calls + 1
    BY LimitsAssumption DEF Inv, CallVerify
  <2>2. calls = 0 BY <2>1
  <2> QED BY <2>2 DEF Inv
<1>5. m.script = args.scriptSig /\ m.pc = 0 BY <1>4 DEF Initialized
<1>6. phase' = "false" \/ (phase' = "scriptSig" /\ interpreter' = m)
  BY <1>1 DEF Enter
<1> HIDE DEF m
<1>7. SpendsKeyHash(args) => LastPushRun(m, args)
  <2> SUFFICES ASSUME SpendsKeyHash(args) PROVE Len(m.script) # 0
    BY <1>5 DEF LastPushRun
  <2>1. args.scriptSig \in Seq(Chunk) BY CallsAssumption
  <2>2. args.scriptSig # <<>> BY DEF SpendsKeyHash
  <2> QED BY <1>5, <2>1, <2>2, EmptySeq
<1>8. /\ SpendsKeyHash(call'.args) => (phase' = "scriptSig" => LastPushRun(interpreter', call'.args))
      /\ phase' \notin {"scriptPubkey", "redeemScript", "true"}
  BY <1>2, <1>6, <1>7
<1> QED BY <1>2, <1>3, <1>8 DEF AddressInv

LEMMA RunStepAddress == DigestsAreBuffers /\ Inv /\ AddressInv /\ RunStep => AddressInv'
<1> SUFFICES ASSUME DigestsAreBuffers, Inv, AddressInv, RunStep, calls' = 1 PROVE AddressInv'
  BY DEF AddressInv
<1> DEFINE m == interpreter
           n == interpreter'
           args == call.args
<1>1. Machine(m) /\ m.pc < Len(m.script) /\ phase \in Running /\ UNCHANGED <<call, calls>>
  BY DEF Inv, RunStep
<1>2. n = Step(m) BY DEF RunStep
<1>3. phase' = IF n.errstr = "" THEN phase ELSE "false" BY DEF RunStep
<1>4. n.script = m.script /\ n.pc = m.pc + 1 BY <1>1, <1>2, StepRuns
<1>5. PushesRead(args) BY <1>1 DEF AddressInv, Running
<1>6. CASE n.errstr # "" BY <1>1, <1>3, <1>5, <1>6 DEF AddressInv
<1>7. CASE n.errstr = ""
  <2>1. Stepped(m, n) BY <1>1, <1>2, <1>4, <1>7, Zenon DEF Stepped
  <2>2. phase' = phase /\ phase # "true" /\ call' = call BY <1>1, <1>3, <1>7 DEF Running
  <2>3. ASSUME SpendsKeyHash(args)
        PROVE  /\ phase = "scriptSig" => LastPushRun(n, args)
               /\ phase = "scriptPubkey" => KeyHashRun(n, args)
               /\ phase = "redeemScript" => SameHash(args)
    <3>1. /\ phase = "scriptSig" => LastPushRun(m, args)
          /\ phase = "scriptPubkey" => KeyHashRun(m, args)
          /\ phase = "redeemScript" => SameHash(args)
      BY <2>3, <1>1 DEF AddressInv
    <3> QED BY <2>1, <2>3, <3>1, <1>1, <1>5, LastPushRunStep, KeyHashRunStep, Zenon
  <2>4. phase' \in {"redeemScript", "true"} => phase = "redeemScript" BY <2>2
  <2> QED BY <1>5, <2>2, <2>3, <2>4, Zenon DEF AddressInv
<1> QED BY <1>6, <1>7

LEMMA FinishScriptSigAddress == Inv /\ AddressInv /\ FinishScriptSig => AddressInv'
<1> SUFFICES ASSUME Inv, AddressInv, FinishScriptSig, calls' = 1 PROVE AddressInv'
  BY DEF AddressInv
<1> DEFINE m == interpreter
           args == call.args
           n == Load(args.scriptPubkey, m.stack)
<1>1. calls = 1 /\ phase = "scriptSig" BY DEF FinishScriptSig, AtEnd
<1>2. call'.args = args
  <2>1. CASE call' = [call EXCEPT !.stackCopy =
                        IF "P2SH" \in call.args.flags THEN interpreter.stack ELSE <<>>]
    BY <2>1
  <2>2. CASE UNCHANGED call BY <2>2
  <2> QED BY <2>1, <2>2, Zenon DEF FinishScriptSig
<1>3. PushesRead(args) BY <1>1 DEF AddressInv
<1>4. phase' = "false" \/ (EndError(m) = "" /\ phase' = "scriptPubkey" /\ interpreter' = n)
  BY DEF FinishScriptSig, Return, Enter
<1>5. ASSUME SpendsKeyHash(args), EndError(m) = "" PROVE KeyHashRun(n, args)
  <2>1. LastPushRun(m, args) BY <1>1, <1>5 DEF AddressInv
  <2>2. m.vfExec = <<>>
    <3>1. "STACK_SIZE" # "" /\ "UNBALANCED_CONDITIONAL" # "" OBVIOUS
    <3> QED BY <3>1, <1>5, Zenon DEF EndError
  <2>3. m.pc = Len(m.script) BY <1>1, AtItsEnd DEF FinishScriptSig
  <2>4. Has(m, 1) /\ Top(m, 1) = LastPush(args) BY <2>1, <2>2, <2>3 DEF LastPushRun
  <2> DEFINE script == args.scriptPubkey
             stack == m.stack
             b == Beginning(script, stack, args)
  <2>5. n = b BY LoadIs
  <2> HIDE DEF n, script, stack, args
  <2>6. b.script = script /\ b.stack = stack /\ b.pc = 0 /\ b.vfExec = <<>> BY LoadFields
  <2> HIDE DEF b
  <2>7. Has(b, 1) /\ Top(b, 1) = LastPush(args) BY <2>4, <2>6 DEF Has, Top, stack
  <2>8. KeyHashRun(b, args) BY <2>6, <2>7 DEF KeyHashRun, script
  <2> QED BY <2>5, <2>8
<1> HIDE DEF n
<1>6. SpendsKeyHash(call'.args) =>
        (phase' = "scriptPubkey" => KeyHashRun(interpreter', call'.args))
  BY <1>2, <1>4, <1>5
<1>7. phase' \notin {"scriptSig", "redeemScript", "true"} BY <1>4
<1> QED BY <1>2, <1>3, <1>6, <1>7, Zenon DEF AddressInv

LEMMA FinishScriptPubkeyAddress == Inv /\ AddressInv /\ FinishScriptPubkey => AddressInv'
<1> SUFFICES ASSUME Inv, AddressInv, FinishScriptPubkey, calls' = 1 PROVE AddressInv'
  BY DEF AddressInv
<1>1. calls = 1 /\ phase = "scriptPubkey" /\ call' = call
  BY DEF FinishScriptPubkey, AtEnd
<1>2. PushesRead(call.args) BY <1>1 DEF AddressInv
<1>3. ASSUME SpendsKeyHash(call.args) PROVE SameHash(call.args)
  <2>1. KeyHashRun(interpreter, call.args) BY <1>1, <1>3 DEF AddressInv
  <2>2. interpreter.pc = Len(interpreter.script) BY <1>1, AtItsEnd DEF FinishScriptPubkey
  <2>3. Len(call.args.scriptPubkey) = 5 BY <1>3 DEF SpendsKeyHash, IsPublicKeyHashOut
  <2>4. interpreter.pc = 5 BY <2>1, <2>2, <2>3 DEF KeyHashRun
  <2> QED BY <2>1, <2>4 DEF KeyHashRun
<1>4. phase' \notin {"scriptSig", "scriptPubkey"}
  <2> DEFINE Running2 == {"scriptSig", "scriptPubkey"}
  <2>1. \A x, r : r \notin Running2 /\ Return(x, r) => phase' \notin Running2 BY DEF Return
  <2>2. \A x : Enter(x, "redeemScript") => phase' \notin Running2 BY DEF Enter
  <2>3. "false" \notin Running2 /\ "true" \notin Running2 /\ "threw" \notin Running2 OBVIOUS
  <2> HIDE DEF Running2
  <2>4. phase' \notin Running2 BY <2>1, <2>2, <2>3, Zenon DEF FinishScriptPubkey
  <2> QED BY <2>4 DEF Running2
<1> QED BY <1>1, <1>2, <1>3, <1>4 DEF AddressInv

LEMMA FinishRedeemScriptAddress == Inv /\ AddressInv /\ FinishRedeemScript => AddressInv'
<1> SUFFICES ASSUME AddressInv, FinishRedeemScript, calls' = 1 PROVE AddressInv'
  BY DEF AddressInv
<1>1. calls = 1 /\ phase = "redeemScript" /\ call' = call
  BY DEF FinishRedeemScript, AtEnd
<1>2. PushesRead(call.args) /\ (SpendsKeyHash(call.args) => SameHash(call.args))
  BY <1>1 DEF AddressInv
<1>3. phase' \in {"false", "true"} BY DEF FinishRedeemScript, Return
<1> QED BY <1>1, <1>2, <1>3 DEF AddressInv

LEMMA AddressStep ==
  DigestsAreBuffers /\ PushesAreRead /\ Inv /\ AddressInv /\ [Next]_vars => AddressInv'
<1> SUFFICES ASSUME DigestsAreBuffers, PushesAreRead, Inv, AddressInv, [Next]_vars
             PROVE  AddressInv'
  OBVIOUS
<1>1. CASE CallVerify BY <1>1, CallVerifyAddress
<1>2. CASE RunStep BY <1>2, RunStepAddress
<1>3. CASE FinishScriptSig BY <1>3, FinishScriptSigAddress
<1>4. CASE FinishScriptPubkey BY <1>4, FinishScriptPubkeyAddress
<1>5. CASE FinishRedeemScript BY <1>5, FinishRedeemScriptAddress
<1>6. CASE UNCHANGED vars BY <1>6 DEF vars, AddressInv
<1> QED BY <1>1, <1>2, <1>3, <1>4, <1>5, <1>6 DEF Next

-----------------------------------------------------------------------------
(* Pushes and their sizes *)

(* A number in n bytes is a sequence of length n *)
LEMMA LittleEndianIsSeq ==
  ASSUME NEW number, NEW n \in Nat
  PROVE  \E S : LittleEndian(number, n) \in Seq(S) /\ Len(LittleEndian(number, n)) = n
<1> DEFINE f == LittleEndian(number, n)
           S == {f[i] : i \in 1 .. n}
<1>1. f = [i \in 1 .. n |-> f[i]] BY Zenon DEF LittleEndian
<1>2. f \in Seq(S) /\ Len(f) = n
  <2> HIDE DEF f
  <2>1. f \in [1 .. n -> S] BY <1>1, Zenon
  <2> HIDE DEF S
  <2> QED BY <2>1, LenProperties
<1> QED BY <1>2

(* The bytes of a chunk *)
SizeOf(chunk) == Len(ChunkToBuffer(chunk))

LEMMA OpSize ==
  ASSUME NEW num
  PROVE  SizeOf(Op(num)) = 1
<1>1. ~HasBuf(Op(num)) BY DEF HasBuf, Op
<1>2. ChunkToBuffer(Op(num)) = <<num>> \o <<>> BY <1>1 DEF ChunkToBuffer, Op
<1>3. Len(<<num>> \o <<>>) = 1 OBVIOUS
<1> QED BY <1>2, <1>3 DEF SizeOf

LEMMA PushSize ==
  ASSUME NEW num \in 1 .. Opcode.OP_PUSHDATA4, NEW buf \in Buffer
  PROVE  SizeOf(Pushes(num, buf)) = 1 + LengthBytes(num) + Len(buf)
<1>1. LengthBytes(num) \in Nat /\ num <= Opcode.OP_PUSHDATA4
  BY DEF LengthBytes, Opcode
<1> DEFINE n == LengthBytes(num)
           f == LittleEndian(Len(buf), n)
<1>2. PICK S : f \in Seq(S) /\ Len(f) = n BY <1>1, LittleEndianIsSeq, Zenon
<1>3. HasBuf(Pushes(num, buf)) BY DEF HasBuf, Pushes
<1>4. ChunkToBuffer(Pushes(num, buf)) = <<num>> \o (f \o buf)
  BY <1>1, <1>3, Zenon DEF ChunkToBuffer, Pushes
<1> HIDE DEF f, n
<1> DEFINE T == S \cup Byte \cup {num}
<1>5. f \in Seq(T) /\ buf \in Seq(T) /\ <<num>> \in Seq(T)
  BY <1>2 DEF Buffer
<1> HIDE DEF T
<1>6. f \o buf \in Seq(T) /\ Len(f \o buf) = Len(f) + Len(buf) BY <1>5, ConcatProperties
<1>7. Len(<<num>> \o (f \o buf)) = Len(<<num>>) + Len(f \o buf) BY <1>5, <1>6, ConcatProperties
<1>8. Len(<<num>>) = 1 /\ Len(buf) \in Nat /\ n \in Nat
  BY <1>1, LenProperties DEF Buffer, n
<1> QED BY <1>2, <1>4, <1>6, <1>7, <1>8 DEF SizeOf, n

(* The bytes of a small number *)
LEMMA SmallMagnitude ==
  ASSUME NEW n \in Int, NEW k \in 1 .. 255, k = IF n < 0 THEN - n ELSE n
  PROVE  Magnitude(n) = <<k>>
<1> DEFINE Rec(f) == [m \in 0 .. k |-> IF m = 0 THEN <<>> ELSE Cons(m % 256, f[m \div 256])]
           digits == CHOOSE f : f = Rec(f)
<1>1. k \in Nat /\ 0 \in 0 .. k /\ k \in 0 .. k /\ k # 0 /\ k % 256 = k /\ k \div 256 = 0 OBVIOUS
<1>2. Magnitude(n) = digits[k] BY Zenon DEF Magnitude
<1>3. digits = Rec(digits)
  <2>1. PICK f \in [0 .. k -> Buffer] : \A m \in 0 .. k : f[m] = DigitsOf(f, m)
    BY <1>1, DigitsExist
  <2>2. f = Rec(f) BY <2>1 DEF DigitsOf
  <2> QED BY <2>2
<1> HIDE DEF digits
<1>4. digits[0] = <<>> BY <1>1, <1>3
<1>5. digits[k] = Cons(k, <<>>) BY <1>1, <1>3, <1>4
<1>6. Cons(k, <<>>) = <<k>> BY DEF Cons
<1> QED BY <1>2, <1>5, <1>6

LEMMA SmallScriptNum ==
  /\ ToScriptNum(-1) = <<129>>
  /\ \A k \in 1 .. 16 : ToScriptNum(k) = <<k>>
<1>1. ToScriptNum(-1) = <<129>>
  <2>1. Magnitude(-1) = <<1>> BY SmallMagnitude
  <2>2. Last(<<1>>) = 1 /\ <<1>> # <<>> /\ Len(<<1>>) = 1 BY DEF Last
  <2>3. ToScriptNum(-1) = [<<1>> EXCEPT ![1] = 1 + 128] BY <2>1, <2>2 DEF ToScriptNum
  <2> QED BY <2>3
<1>2. ASSUME NEW k \in 1 .. 16 PROVE ToScriptNum(k) = <<k>>
  <2>1. Magnitude(k) = <<k>> BY SmallMagnitude
  <2>2. Last(<<k>>) = k /\ <<k>> # <<>> /\ Len(<<k>>) = 1 BY DEF Last
  <2>3. ~(k < 0) /\ ~(k >= 128) OBVIOUS
  <2>4. ToScriptNum(k) = [<<k>> EXCEPT ![1] = <<k>>[1] + 0]
    BY <2>1, <2>2, <2>3, Zenon DEF ToScriptNum
  <2>5. <<k>>[1] + 0 = k OBVIOUS
  <2>6. [<<k>> EXCEPT ![1] = k] = <<k>> OBVIOUS
  <2> QED BY <2>4, <2>5, <2>6
<1> QED BY <1>1, <1>2

(* What the opcodes without data push *)
LEMMA NamedPushes ==
  ASSUME NEW num \in SmallInts \cup {Opcode.OP_1NEGATE}
  PROVE  Pushed(Op(num)) = IF num = 0 THEN <<>> ELSE IF num = 79 THEN <<129>> ELSE <<num - 80>>
<1>1. num \in {0, 79} \cup 81 .. 96 BY DEF SmallInts, Opcode
<1>2. ~HasBuf(Op(num)) /\ Op(num).op = num BY DEF HasBuf, Op
<1>3. num - (Opcode.OP_1 - 1) = num - 80 /\ Opcode.OP_PUSHDATA4 = 78 BY <1>1 DEF Opcode
<1>4. Pushed(Op(num)) = IF num > 78 THEN ToScriptNum(num - 80) ELSE <<>>
  BY <1>2, <1>3 DEF Pushed
<1>5. CASE num = 0 BY <1>4, <1>5
<1>6. CASE num = 79
  <2>1. num - 80 = -1 /\ num > 78 BY <1>6
  <2> QED BY <2>1, <1>4, <1>6, SmallScriptNum
<1>7. CASE num \in 81 .. 96
  <2>1. num - 80 \in 1 .. 16 /\ num > 78 /\ num # 0 /\ num # 79 BY <1>7
  <2> QED BY <2>1, <1>4, SmallScriptNum
<1> QED BY <1>1, <1>5, <1>6, <1>7
HasOpcode(buf) == buf = <<>> \/ buf = <<129>> \/ \E k \in 1 .. 16 : buf = <<k>>
(* The ways to push a buffer *)
LEMMA PushesAre ==
  ASSUME NEW buf \in Buffer, NEW c
  PROVE  c \in PushesOf(buf) <=>
           \/ \E num \in SmallInts \cup {Opcode.OP_1NEGATE} : Pushed(Op(num)) = buf /\ c = Op(num)
           \/ \E num \in 1 .. Opcode.OP_PUSHDATA4 : Direct(num, buf) /\ c = Pushes(num, buf)
<1> DEFINE named == {num \in SmallInts \cup {Opcode.OP_1NEGATE} : Pushed(Op(num)) = buf}
           direct == {num \in 1 .. Opcode.OP_PUSHDATA4 : Direct(num, buf)}
<1>1. PushesOf(buf) = {Op(num) : num \in named} \cup {Pushes(num, buf) : num \in direct}
  BY DEF PushesOf
<1> QED BY <1>1, Zenon

(* The buffers that an opcode without data pushes *)
LEMMA NamedHaveOpcodes ==
  ASSUME NEW buf
  PROVE  (\E num \in SmallInts \cup {Opcode.OP_1NEGATE} : Pushed(Op(num)) = buf) <=> HasOpcode(buf)
<1>1. ASSUME NEW num \in SmallInts \cup {Opcode.OP_1NEGATE}, Pushed(Op(num)) = buf
      PROVE  HasOpcode(buf)
  <2>1. num \in {0, 79} \cup 81 .. 96 BY DEF SmallInts, Opcode
  <2>2. num \in 81 .. 96 => num - 80 \in 1 .. 16 OBVIOUS
  <2> QED BY <2>1, <2>2, <1>1, NamedPushes DEF HasOpcode
<1>2. ASSUME HasOpcode(buf)
      PROVE  \E num \in SmallInts \cup {Opcode.OP_1NEGATE} : Pushed(Op(num)) = buf
  <2>1. \A num \in {0, 79} \cup 81 .. 96 : num \in SmallInts \cup {Opcode.OP_1NEGATE}
    BY DEF SmallInts, Opcode
  <2>2. CASE buf = <<>> BY <2>1, <2>2, NamedPushes
  <2>3. CASE buf = <<129>>
    <3>1. 79 \in SmallInts \cup {Opcode.OP_1NEGATE} /\ 79 # 0 BY <2>1
    <3> QED BY <3>1, <2>3, NamedPushes, Zenon
  <2>4. CASE \E k \in 1 .. 16 : buf = <<k>>
    <3>1. PICK k \in 1 .. 16 : buf = <<k>> BY <2>4
    <3>2. k + 80 \in 81 .. 96 /\ (k + 80) - 80 = k /\ k + 80 # 0 /\ k + 80 # 79 OBVIOUS
    <3>3. Pushed(Op(k + 80)) = <<k>> BY <3>2, <2>1, NamedPushes, Zenon
    <3> QED BY <3>1, <3>2, <3>3, <2>1
  <2> QED BY <1>2, <2>2, <2>3, <2>4 DEF HasOpcode
<1> QED BY <1>1, <1>2

(* The choice of checkMinimalPush *)
Choice(l) == IF l <= 75 THEN l ELSE IF l <= 255 THEN 76 ELSE 77
Chosen(num, buf) ==
  \/ Len(buf) > 65535
  \/ buf = <<>> /\ num = 0
  \/ \E k \in 1 .. 16 : buf = <<k>> /\ num = 80 + k
  \/ buf = <<129>> /\ num = 79
  \/ ~HasOpcode(buf) /\ num = Choice(Len(buf))

LEMMA MinimalChoice ==
  ASSUME NEW num, NEW buf \in Buffer
  PROVE  CheckMinimalPush(Pushes(num, buf)) <=> Chosen(num, buf)
<1> DEFINE c == Pushes(num, buf)
           l == Len(buf)
<1>1. HasBuf(c) /\ c.buf = buf /\ c.op = num BY DEF HasBuf, Pushes
<1>2. /\ Opcode.OP_0 = 0 /\ Opcode.OP_1 = 81 /\ Opcode.OP_1NEGATE = 79
      /\ Opcode.OP_PUSHDATA1 = 76 /\ Opcode.OP_PUSHDATA2 = 77
  BY DEF Opcode
<1>3. l \in Nat BY LenProperties DEF Buffer
<1> HIDE DEF c
<1> DEFINE one == l = 1 /\ buf[1] \in 1 .. 16
<1>4. CheckMinimalPush(c) <=>
        (l <= 65535 => num = (IF buf = <<>> THEN 0
                              ELSE IF one THEN 81 + (buf[1] - 1)
                              ELSE IF buf = <<129>> THEN 79
                              ELSE IF l <= 75 THEN l
                              ELSE IF l <= 255 THEN 76 ELSE 77))
  BY <1>1, <1>2 DEF CheckMinimalPush
<1>5. one <=> \E k \in 1 .. 16 : buf = <<k>>
  <2>1. ASSUME one PROVE buf = <<buf[1]>>
    <3>1. <<buf[1]>> \in Seq(Byte) /\ Len(<<buf[1]>>) = 1
      <4>1. buf[1] \in Byte BY <2>1 DEF Byte
      <4> QED BY <4>1
    <3> QED BY <2>1, <3>1, SeqEqual DEF Buffer
  <2>2. ASSUME NEW k \in 1 .. 16, buf = <<k>> PROVE one BY <2>2
  <2> QED BY <2>1, <2>2, Zenon
<1>6. ASSUME NEW k \in 1 .. 16, buf = <<k>>
      PROVE  /\ buf # <<>> /\ l = 1 /\ 81 + (buf[1] - 1) = 80 + k /\ one /\ HasOpcode(buf)
             /\ buf # <<129>>
  BY <1>6 DEF HasOpcode
<1>7. CASE one
  <2>1. PICK k \in 1 .. 16 : buf = <<k>> BY <1>5, <1>7
  <2>2. \A j \in 1 .. 16 : buf = <<j>> => j = k BY <2>1
  <2>3. CheckMinimalPush(c) <=> num = 80 + k BY <2>1, <1>6, <1>4
  <2>4. ~(l > 65535) /\ buf # <<>> /\ buf # <<129>> /\ HasOpcode(buf) BY <2>1, <1>6
  <2> HIDE DEF l, one
  <2> QED BY <2>1, <2>2, <2>3, <2>4 DEF c, l, Chosen
<1>8. CASE buf = <<>> BY <1>8, <1>4, <1>5 DEF c, HasOpcode, Chosen
<1>9. CASE buf = <<129>>
  <2>1. l = 1 /\ ~one /\ buf # <<>> BY <1>9
  <2> QED BY <2>1, <1>9, <1>4, <1>5 DEF c, HasOpcode, Chosen
<1>10. CASE buf # <<>> /\ buf # <<129>> /\ ~one
  <2>1. ~HasOpcode(buf) BY <1>10, <1>5, Zenon DEF HasOpcode
  <2> HIDE DEF one
  <2>2. Choice(l) = IF l <= 75 THEN l ELSE IF l <= 255 THEN 76 ELSE 77 BY DEF Choice
  <2> QED BY <2>1, <2>2, <1>10, <1>3, <1>4, <1>5 DEF c, Chosen
<1> QED BY <1>7, <1>8, <1>9, <1>10

(* The number of bytes that hold the length, and the opcode that needs fewest *)
LengthSize(num) == IF num = 76 THEN 1 ELSE IF num = 77 THEN 2 ELSE IF num = 78 THEN 4 ELSE 0
Fits(num, l) ==
  \/ num < 76 /\ num = l
  \/ num = 76 /\ l < 256
  \/ num = 77 /\ l < 65536
  \/ num = 78
BestFor(l) == IF l <= 75 THEN l ELSE IF l <= 255 THEN 76 ELSE IF l <= 65535 THEN 77 ELSE 78

LEMMA BestIsSmallest ==
  ASSUME NEW l \in Nat, l # 0
  PROVE  /\ BestFor(l) \in 1 .. 78 /\ Fits(BestFor(l), l)
         /\ \A num \in 1 .. 78 : Fits(num, l) /\ num # BestFor(l)
              => LengthSize(BestFor(l)) < LengthSize(num)
BY DEF BestFor, Fits, LengthSize

LEMMA DirectFits ==
  ASSUME NEW num \in 1 .. 78, NEW buf
  PROVE  /\ num \in 1 .. Opcode.OP_PUSHDATA4
         /\ Direct(num, buf) <=> Fits(num, Len(buf))
         /\ LengthBytes(num) = LengthSize(num) /\ LengthSize(num) \in Nat
<1>1. /\ Opcode.OP_PUSHDATA1 = 76 /\ Opcode.OP_PUSHDATA2 = 77 /\ Opcode.OP_PUSHDATA4 = 78
  BY DEF Opcode
<1>2. Direct(num, buf) <=> Fits(num, Len(buf)) BY <1>1 DEF Direct, Fits
<1>3. LengthBytes(num) = LengthSize(num) BY <1>1 DEF LengthBytes, LengthSize
<1>4. LengthSize(num) \in Nat BY DEF LengthSize
<1> QED BY <1>1, <1>2, <1>3, <1>4

LEMMA SizesCompare ==
  ASSUME NEW a, NEW b, NEW l \in Nat, LengthSize(a) \in Nat, LengthSize(b) \in Nat
  PROVE  (1 + LengthSize(a) + l <= 1 + LengthSize(b) + l) <=> ~(LengthSize(b) < LengthSize(a))
OBVIOUS

LEMMA PushesAlways ==
  ASSUME NEW buf \in Buffer, NEW num \in 1 .. 78, Fits(num, Len(buf))
  PROVE  /\ Pushes(num, buf) \in PushesOf(buf)
         /\ SizeOf(Pushes(num, buf)) = 1 + LengthSize(num) + Len(buf)
<1>1. num \in 1 .. Opcode.OP_PUSHDATA4 /\ Direct(num, buf) /\ LengthBytes(num) = LengthSize(num)
  BY DirectFits
<1>2. Pushes(num, buf) \in PushesOf(buf) BY <1>1, PushesAre, Zenon
<1>3. SizeOf(Pushes(num, buf)) = 1 + LengthBytes(num) + Len(buf) BY <1>1, PushSize
<1> QED BY <1>1, <1>2, <1>3

(* The opcode that checkMinimalPush asks for pushes a buffer in as few bytes  *)
(* as any other, and no other does.                                          *)
LEMMA MinimalIsShort ==
  ASSUME NEW buf \in Buffer, NEW chunk, chunk \in PushesOf(buf), HasBuf(chunk)
  PROVE  CheckMinimalPush(chunk) <=> \A c \in PushesOf(buf) : SizeOf(chunk) <= SizeOf(c)
<1> DEFINE l == Len(buf)
           best == BestFor(l)
<1>1. l \in Nat /\ (buf # <<>> => l # 0) BY LenProperties, EmptySeq DEF Buffer
<1>2. \A n : ~HasBuf(Op(n)) BY DEF HasBuf, Op
<1>3. 1 .. Opcode.OP_PUSHDATA4 = 1 .. 78 BY DEF Opcode
<1>4. PICK num \in 1 .. 78 : Fits(num, l) /\ chunk = Pushes(num, buf)
  <2>1. PICK num \in 1 .. Opcode.OP_PUSHDATA4 : Direct(num, buf) /\ chunk = Pushes(num, buf)
    BY <1>2, PushesAre, Zenon
  <2>2. num \in 1 .. 78 BY <2>1, <1>3
  <2> QED BY <2>1, <2>2, DirectFits, Zenon
<1>5. SizeOf(chunk) = 1 + LengthSize(num) + l BY <1>4, PushesAlways
<1>6. LengthSize(num) \in Nat BY DirectFits
<1>7. CheckMinimalPush(chunk) <=> Chosen(num, buf)
  <2>1. CheckMinimalPush(chunk) <=> CheckMinimalPush(Pushes(num, buf)) BY <1>4
  <2> QED BY <2>1, MinimalChoice, Zenon
<1>8. CASE HasOpcode(buf)
  <2>1. l <= 1
    <3>1. l = 0 \/ l = 1 BY <1>8 DEF HasOpcode
    <3> HIDE DEF l
    <3> QED BY <3>1
  <2>2. ~CheckMinimalPush(chunk)
    <3>1. ~(l > 65535) BY <2>1, <1>1
    <3>2. num # 0 /\ num # 79 /\ \A k \in 1 .. 16 : num # 80 + k OBVIOUS
    <3> QED BY <3>1, <3>2, <1>8, <1>7 DEF Chosen
  <2>3. PICK n \in SmallInts \cup {Opcode.OP_1NEGATE} : Pushed(Op(n)) = buf
    BY <1>8, NamedHaveOpcodes, Zenon
  <2>4. Op(n) \in PushesOf(buf) BY <2>3, PushesAre, Zenon
  <2>5. SizeOf(Op(n)) = 1 BY OpSize
  <2>6. ~(1 + LengthSize(num) + l <= 1)
    <3>1. l # 0 \/ LengthSize(num) > 0 BY <1>4 DEF Fits, LengthSize
    <3> HIDE DEF l
    <3> QED BY <3>1, <1>1, <1>6
  <2> QED BY <2>2, <2>4, <2>5, <2>6, <1>5, Zenon
<1>9. CASE ~HasOpcode(buf)
  <2>1. l # 0
    <3>1. buf # <<>> BY <1>9, Zenon DEF HasOpcode
    <3> QED BY <3>1, <1>1
  <2>2. /\ best \in 1 .. 78 /\ Fits(best, l)
        /\ \A n \in 1 .. 78 : Fits(n, l) /\ n # best => LengthSize(best) < LengthSize(n)
    <3> HIDE DEF l
    <3> QED BY <1>1, <2>1, BestIsSmallest
  <2>3. Fits(num, l) /\ l > 65535 => num = best
    <3> HIDE DEF l
    <3> QED BY <1>1 DEF Fits, BestFor
  <2>4. ~(l > 65535) => best = Choice(l)
    <3> HIDE DEF l
    <3> QED BY <1>1 DEF BestFor, Choice
  <2> HIDE DEF best
  <2>5. CheckMinimalPush(chunk) <=> num = best
    <3>1. buf # <<>> /\ buf # <<129>> /\ \A k \in 1 .. 16 : buf # <<k>>
      BY <1>9, Zenon DEF HasOpcode
    <3>2. CheckMinimalPush(chunk) <=>
            (l > 65535 \/ num = Choice(l))
      BY <1>9, <1>7, <3>1 DEF Chosen
    <3> HIDE DEF l
    <3>3. CASE l > 65535
      <4>1. num = best BY <3>3, <2>3, <1>4
      <4> QED BY <4>1, <3>2, <3>3
    <3>4. CASE ~(l > 65535)
      <4>1. best = Choice(l) BY <3>4, <2>4
      <4> QED BY <4>1, <3>2, <3>4
    <3> QED BY <3>3, <3>4
  <2>6. \A c \in PushesOf(buf) : \E n \in 1 .. 78 : Fits(n, l) /\ c = Pushes(n, buf)
    <3> SUFFICES ASSUME NEW c \in PushesOf(buf)
                 PROVE  \E n \in 1 .. 78 : Fits(n, l) /\ c = Pushes(n, buf)
      OBVIOUS
    <3>1. PICK n \in 1 .. Opcode.OP_PUSHDATA4 : Direct(n, buf) /\ c = Pushes(n, buf)
      BY <1>9, PushesAre, NamedHaveOpcodes, Zenon
    <3>2. n \in 1 .. 78 BY <3>1, <1>3
    <3> QED BY <3>1, <3>2, DirectFits, Zenon
  <2>7. \A n \in 1 .. 78 : LengthSize(n) \in Nat BY DEF LengthSize
  <2> DEFINE Shorter(c) == SizeOf(chunk) <= SizeOf(c)
  <2>8. ASSUME NEW n \in 1 .. 78, Fits(n, l)
        PROVE  Shorter(Pushes(n, buf)) <=> ~(LengthSize(n) < LengthSize(num))
    <3>1. SizeOf(Pushes(n, buf)) = 1 + LengthSize(n) + l BY <2>8, PushesAlways
    <3> HIDE DEF l
    <3> QED BY <3>1, <1>1, <1>5, <1>6, <2>7, SizesCompare
  <2>9. ASSUME num = best, NEW c \in PushesOf(buf) PROVE Shorter(c)
    <3>1. PICK n \in 1 .. 78 : Fits(n, l) /\ c = Pushes(n, buf) BY <2>6
    <3>2. ~(LengthSize(n) < LengthSize(num))
      <4>1. n = best \/ LengthSize(best) < LengthSize(n) BY <2>2, <3>1
      <4>2. LengthSize(n) \in Nat /\ LengthSize(best) \in Nat BY <2>2, <2>7
      <4> QED BY <4>1, <4>2, <2>9
    <3> QED BY <3>1, <3>2, <2>8, Zenon
  <2>10. ASSUME num # best PROVE ~Shorter(Pushes(best, buf))
    <3>1. LengthSize(best) < LengthSize(num) BY <2>2, <2>10, <1>4
    <3> QED BY <3>1, <2>2, <2>8, Zenon
  <2>11. Pushes(best, buf) \in PushesOf(buf) BY <2>2, PushesAlways
  <2>12. (\A c \in PushesOf(buf) : Shorter(c)) <=> num = best
    <3> HIDE DEF Shorter
    <3> QED BY <2>9, <2>10, <2>11, Zenon
  <2> QED BY <2>5, <2>12
<1> QED BY <1>8, <1>9

-----------------------------------------------------------------------------
(* Scripts read back from their bytes and from their text *)

(* s lies in b behind place p. *)
LiesAt(b, p, s) == \A i \in 1 .. Len(s) : b[p + i] = s[i]

(* The sequences of seqs one behind the other, the i-th behind place at[i - 1] *)
Placed(seqs, at, all) ==
  /\ at \in [0 .. Len(seqs) -> Nat] /\ at[0] = 0
  /\ \A i \in 1 .. Len(seqs) :
       /\ at[i] = at[i - 1] + Len(seqs[i]) /\ at[i] <= Len(all)
       /\ LiesAt(all, at[i - 1], seqs[i])
  /\ at[Len(seqs)] = Len(all)

LEMMA FlattenRecursion ==
  ASSUME NEW S, NEW seqs \in Seq(Seq(S)), seqs # <<>>
  PROVE  \E flat \in [1 .. Len(seqs) -> Seq(S)] :
           /\ FlattenSeq(seqs) = flat[Len(seqs)]
           /\ \A i \in 1 .. Len(seqs) : flat[i] = IF i = 1 THEN seqs[i] ELSE flat[i - 1] \o seqs[i]
<1> DEFINE n == Len(seqs)
           D == 1 .. n
           R == Seq(S)
           Rec(f) == [i \in D |-> IF i = 1 THEN seqs[i] ELSE f[i - 1] \o seqs[i]]
           B == [f \in [D -> R] |-> Rec(f)]
           rank == [i \in D |-> i]
           flat == CHOOSE f : f = Rec(f)
<1>1. n \in Nat /\ n # 0 /\ \A i \in D : seqs[i] \in R
  BY EmptySeq, LenProperties, ElementOfSeq
<1>2. B \in [[D -> R] -> [D -> R]]
  <2>1. \A f \in [D -> R], i \in D : i # 1 => f[i - 1] \o seqs[i] \in R
    <3> TAKE f \in [D -> R], i \in D
    <3> HAVE i # 1
    <3>1. i - 1 \in D BY <1>1
    <3>2. f[i - 1] \in R /\ seqs[i] \in R BY <3>1, <1>1
    <3> HIDE DEF D
    <3> QED BY <3>2, ConcatProperties
  <2> HIDE DEF D
  <2> QED BY <1>1, <2>1
<1>3. Causal(D, R, rank, B)
  <2> SUFFICES ASSUME NEW f \in [D -> R], NEW g \in [D -> R], NEW m \in D,
                      \A j \in D : rank[j] < rank[m] => f[j] = g[j]
               PROVE  B[f][m] = B[g][m]
    BY Zenon DEF Causal
  <2>1. CASE m = 1 BY <2>1
  <2>2. CASE m # 1
    <3>1. m - 1 \in D /\ rank[m - 1] < rank[m] BY <2>2, <1>1
    <3>2. f[m - 1] = g[m - 1] BY <3>1
    <3> QED BY <3>2
  <2> QED BY <2>1, <2>2
<1>4. Solvable(D, R, B)
  <2>1. R # {} /\ rank \in [D -> 0 .. n] BY EmptySeq, <1>1
  <2> HIDE DEF B, rank, D, R
  <2> QED BY <1>1, <1>2, <1>3, <2>1, RecursionExists, Zenon
<1>5. PICK f \in [D -> R] : \A m \in D : f[m] = B[f][m]
  <2> HIDE DEF B, D, R
  <2> QED BY <1>4 DEF Solvable
<1>6. f = Rec(f) BY <1>5
<1>7. flat = Rec(flat)
  <2>1. \E g : g = Rec(g)
    <3> HIDE DEF Rec
    <3> QED BY <1>6
  <2> HIDE DEF Rec
  <2> QED BY <2>1, Zenon
<1>8. FlattenSeq(seqs) = flat[n] BY <1>1, Zenon DEF FlattenSeq
<1> HIDE DEF flat
<1>9. \A i \in D : flat[i] = IF i = 1 THEN seqs[i] ELSE flat[i - 1] \o seqs[i]
  <2> HIDE DEF D
  <2> QED BY <1>7
<1> DEFINE Bad == {i \in D : flat[i] \notin R}
<1>10. Bad = {}
  <2> SUFFICES ASSUME Bad # {} PROVE FALSE OBVIOUS
  <2>1. PICK k \in Bad : \A j \in Bad : k <= j
    <3>1. Bad \subseteq Nat OBVIOUS
    <3> HIDE DEF Bad
    <3> QED BY <3>1, LeastNat
  <2>2. k # 1 BY <2>1, <1>1, <1>9
  <2>3. k \in D /\ k - 1 \in D /\ ~(k <= k - 1) BY <2>1, <2>2, <1>1
  <2>4. flat[k - 1] \in R BY <2>1, <2>3
  <2>5. flat[k] = flat[k - 1] \o seqs[k] /\ seqs[k] \in R BY <2>2, <2>3, <1>9, <1>1
  <2> HIDE DEF Bad, D
  <2>6. flat[k] \in R BY <2>4, <2>5, ConcatProperties
  <2> QED BY <2>6, <2>1 DEF Bad
<1>11. flat \in [D -> R]
  <2>1. DOMAIN flat = D /\ flat = [i \in D |-> flat[i]]
    <3> HIDE DEF D
    <3> QED BY <1>7
  <2> HIDE DEF D, R
  <2> QED BY <2>1, <1>10
<1> QED BY <1>8, <1>9, <1>11

LEMMA Flattened ==
  ASSUME NEW S, NEW seqs \in Seq(Seq(S))
  PROVE  /\ FlattenSeq(seqs) \in Seq(S)
         /\ \E at : Placed(seqs, at, FlattenSeq(seqs))
<1> DEFINE n == Len(seqs)
           all == FlattenSeq(seqs)
<1>1. n \in Nat /\ \A i \in 1 .. n : seqs[i] \in Seq(S) /\ Len(seqs[i]) \in Nat
  BY LenProperties, ElementOfSeq
<1>2. CASE seqs = <<>>
  <2>1. n = 0 /\ all = seqs /\ Len(all) = 0 BY <1>2 DEF FlattenSeq
  <2>2. Placed(seqs, [i \in 0 .. 0 |-> 0], all) BY <2>1 DEF Placed
  <2>3. all \in Seq(S) BY <2>1, <1>2
  <2> HIDE DEF all
  <2> QED BY <2>2, <2>3 DEF all
<1>3. CASE seqs # <<>>
  <2>1. n # 0 BY <1>3, <1>1, EmptySeq
  <2>2. PICK flat \in [1 .. n -> Seq(S)] :
           /\ all = flat[n]
           /\ \A i \in 1 .. n : flat[i] = IF i = 1 THEN seqs[i] ELSE flat[i - 1] \o seqs[i]
    BY <1>3, FlattenRecursion
  <2> DEFINE at == [i \in 0 .. n |-> IF i = 0 THEN 0 ELSE Len(flat[i])]
  <2>3. \A i \in 1 .. n : flat[i] \in Seq(S) /\ Len(flat[i]) \in Nat BY <2>2, LenProperties
  <2>4. at \in [0 .. n -> Nat] /\ at[0] = 0 BY <1>1, <2>3
  <2>5. ASSUME NEW i \in 1 .. n
        PROVE  /\ at[i] = at[i - 1] + Len(seqs[i])
               /\ \A j \in 1 .. at[i - 1] : i # 1 => flat[i][j] = flat[i - 1][j]
               /\ \A j \in 1 .. Len(seqs[i]) : flat[i][at[i - 1] + j] = seqs[i][j]
    <3>1. CASE i = 1
      <4>1. flat[i] = seqs[i] BY <3>1, <2>2
      <4>3. at[i - 1] = 0 /\ at[i] = Len(flat[i])
        <5>1. i - 1 = 0 /\ i # 0 /\ i \in 0 .. n BY <3>1, <1>1
        <5> QED BY <5>1, <2>4
      <4>2. \A j \in 1 .. Len(seqs[i]) : 0 + j = j BY <1>1
      <4> HIDE DEF at
      <4> QED BY <4>1, <4>2, <4>3, <1>1, <3>1
    <3>2. CASE i # 1
      <4>1. i - 1 \in 1 .. n /\ i - 1 # 0 /\ i # 0 /\ i \in 0 .. n /\ i - 1 \in 0 .. n BY <3>2, <1>1
      <4>2. flat[i] = flat[i - 1] \o seqs[i] BY <3>2, <2>2
      <4>3. flat[i - 1] \in Seq(S) /\ seqs[i] \in Seq(S) BY <4>1, <2>3, <1>1
      <4>4. at[i - 1] = Len(flat[i - 1]) /\ at[i] = Len(flat[i]) BY <4>1
      <4> HIDE DEF at
      <4>5. Len(flat[i - 1]) \in Nat /\ Len(seqs[i]) \in Nat BY <4>1, <2>3, <1>1
      <4> DEFINE u == flat[i - 1]
                 v == seqs[i]
      <4>6. Len(u \o v) = Len(u) + Len(v)
              /\ \A j \in 1 .. Len(u) + Len(v) : (u \o v)[j] = IF j <= Len(u) THEN u[j] ELSE v[j - Len(u)]
        <5>1. u \in Seq(S) /\ v \in Seq(S) BY <4>3
        <5> HIDE DEF u, v
        <5> QED BY <5>1, ConcatProperties
      <4>7. Len(u) \in Nat /\ Len(v) \in Nat BY <4>5
      <4>8. flat[i] = u \o v /\ at[i - 1] = Len(u) /\ at[i] = Len(u \o v) BY <4>2, <4>4
      <4> HIDE DEF u, v
      <4>9. \A j \in 1 .. Len(u) : (u \o v)[j] = u[j] BY <4>6, <4>7
      <4>10. \A j \in 1 .. Len(v) : (u \o v)[Len(u) + j] = v[j]
        <5> TAKE j \in 1 .. Len(v)
        <5>1. Len(u) + j \in 1 .. Len(u) + Len(v) /\ ~(Len(u) + j <= Len(u)) /\ Len(u) + j - Len(u) = j
          BY <4>7
        <5> QED BY <5>1, <4>6
      <4> QED BY <4>6, <4>8, <4>9, <4>10 DEF u, v
    <3> QED BY <3>1, <3>2
  <2> DEFINE Grows(k) == \A i \in 1 .. n : i <= k =>
               /\ at[i] <= at[k]
               /\ \A j \in 1 .. at[i] : flat[k][j] = flat[i][j]
             Bad == {k \in 1 .. n : ~Grows(k)}
  <2>6. Bad = {}
    <3> SUFFICES ASSUME Bad # {} PROVE FALSE OBVIOUS
    <3>1. PICK k \in Bad : \A j \in Bad : k <= j
      <4>1. Bad \subseteq Nat OBVIOUS
      <4> HIDE DEF Bad
      <4> QED BY <4>1, LeastNat
    <3>2. k \in 1 .. n /\ ~Grows(k) BY <3>1
    <3> HIDE DEF at
    <3>3. PICK i \in 1 .. n : /\ i <= k
                              /\ ~(at[i] <= at[k] /\ \A j \in 1 .. at[i] : flat[k][j] = flat[i][j])
      BY <3>2
    <3>4. at[i] \in Nat /\ at[k] \in Nat /\ Len(seqs[k]) \in Nat
      <4>1. i \in 0 .. n /\ k \in 0 .. n BY <3>2, <1>1
      <4> QED BY <4>1, <2>4, <3>2, <1>1
    <3>5. i # k BY <3>3, <3>4
    <3>6. k # 1 /\ i <= k - 1 /\ k - 1 \in 1 .. n /\ ~(k <= k - 1)
      <4>1. i \in 1 .. n /\ k \in 1 .. n /\ i <= k /\ i # k BY <3>2, <3>3, <3>5
      <4> QED BY <4>1, <1>1
    <3>7. Grows(k - 1) BY <3>1, <3>6
    <3>8. at[i] <= at[k - 1] /\ at[k - 1] \in Nat 
      <4>1. k - 1 \in 0 .. n BY <3>6, <1>1
      <4> QED BY <4>1, <3>6, <3>7, <2>4
    <3>9. \A j \in 1 .. at[i] : flat[k - 1][j] = flat[i][j] BY <3>6, <3>7
    <3>10. at[k] = at[k - 1] + Len(seqs[k]) /\ \A j \in 1 .. at[k - 1] : flat[k][j] = flat[k - 1][j]
      BY <2>5, <3>2, <3>6
    <3> HIDE DEF Grows, Bad
    <3>11. \A j \in 1 .. at[i] : j \in 1 .. at[k - 1] BY <3>4, <3>8
    <3> QED BY <3>3, <3>4, <3>8, <3>9, <3>10, <3>11, SMTT(30)
  <2>7. Grows(n)
    <3>1. n \in 1 .. n BY <1>1, <2>1
    <3> HIDE DEF Grows
    <3> QED BY <3>1, <2>6
  <2>8. at[n] = Len(all) BY <1>1, <2>1, <2>2
  <2>9. ASSUME NEW i \in 1 .. n
        PROVE  /\ at[i] = at[i - 1] + Len(seqs[i]) /\ at[i] <= Len(all)
               /\ \A j \in 1 .. Len(seqs[i]) : all[at[i - 1] + j] = seqs[i][j]
    <3>1. i <= n /\ i - 1 \in 0 .. n /\ i \in 0 .. n BY <1>1
    <3> HIDE DEF at
    <3>2. at[i] <= at[n] /\ \A j \in 1 .. at[i] : flat[n][j] = flat[i][j] BY <3>1, <2>7
    <3>3. at[i - 1] \in Nat /\ at[i] \in Nat /\ Len(seqs[i]) \in Nat BY <3>1, <2>4, <1>1
    <3>4. at[i] = at[i - 1] + Len(seqs[i]) BY <2>5
    <3>5. ASSUME NEW j \in 1 .. Len(seqs[i]) PROVE flat[n][at[i - 1] + j] = seqs[i][j]
      <4>1. at[i - 1] + j \in 1 .. at[i] BY <3>3, <3>4
      <4> QED BY <4>1, <3>2, <2>5
    <3> QED BY <3>2, <3>4, <3>5, <2>2, <2>8
  <2>10. Placed(seqs, at, all)
    <3> HIDE DEF at, all
    <3> QED BY <2>4, <2>8, <2>9 DEF Placed, LiesAt
  <2>11. all \in Seq(S) BY <2>2, <2>3, <2>1, <1>1
  <2> HIDE DEF all, at
  <2> QED BY <2>10, <2>11 DEF all
<1> QED BY <1>2, <1>3

(* What is read chunk after chunk, each where the one before it ended *)
LEMMA ReadsThrough ==
  ASSUME NEW T, NEW s \in Seq(T), NEW from, NEW at,
         from[at[Len(s)]] = [ok |-> TRUE, chunks |-> <<>>],
         \A i \in 1 .. Len(s) :
           from[at[i - 1]] = [ok |-> from[at[i]].ok, chunks |-> Cons(s[i], from[at[i]].chunks)]
  PROVE  from[at[0]] = [ok |-> TRUE, chunks |-> s]
<1> DEFINE n == Len(s)
           Done(i) == from[at[i]] = [ok |-> TRUE, chunks |-> SubSeq(s, i + 1, n)]
           Behind == {k \in Nat : k <= n => Done(n - k)}
<1>1. n \in Nat BY LenProperties
<1>0. /\ from[at[n]] = [ok |-> TRUE, chunks |-> <<>>]
      /\ \A i \in 1 .. n :
           from[at[i - 1]] = [ok |-> from[at[i]].ok, chunks |-> Cons(s[i], from[at[i]].chunks)]
  OBVIOUS
<1>5. SubSeq(s, 1, n) = s BY SubSeqFull
<1> HIDE DEF n
<1>2. ASSUME NEW k \in Nat, k \notin Behind, \A j \in Nat : j < k => j \in Behind
      PROVE  FALSE
  <2>1. k <= n /\ ~Done(n - k) BY <1>2
  <2>2. CASE k = 0
    <3>1. SubSeq(s, n + 1, n) = <<>> BY <1>1, SubSeqEmpty
    <3>2. n - k = n BY <2>2, <1>1
    <3> QED BY <2>1, <3>1, <3>2, <1>0
  <2>3. CASE k # 0
    <3> DEFINE i == n - k + 1
    <3>1. i \in 1 .. n /\ i - 1 = n - k /\ k - 1 \in Nat /\ k - 1 < k /\ n - (k - 1) = i /\ k - 1 <= n
      BY <2>1, <2>3, <1>1
    <3>2. k - 1 \in Behind
      <4> HIDE DEF Behind
      <4> QED BY <1>2, <3>1
    <3>3. Done(i)
      <4>1. Done(n - (k - 1)) BY <3>1, <3>2
      <4> HIDE DEF i
      <4> QED BY <4>1, <3>1
    <3> DEFINE rest == SubSeq(s, i + 1, n)
    <3>4. from[at[i]].ok = TRUE /\ from[at[i]].chunks = rest
      <4> HIDE DEF i
      <4>1. from[at[i]] = [ok |-> TRUE, chunks |-> rest] BY <3>3
      <4> HIDE DEF rest
      <4> QED BY <4>1
    <3>5. from[at[i - 1]] = [ok |-> TRUE, chunks |-> Cons(s[i], rest)]
      <4> HIDE DEF i, rest
      <4> QED BY <3>1, <3>4, <1>0
    <3>6. Cons(s[i], rest) = SubSeq(s, i, n)
      <4>1. SubSeq(s, i, n) = <<s[i]>> \o SubSeq(s, i + 1, n)
        <5>1. i \in 1 .. Len(s) /\ n \in i .. Len(s) BY <3>1, <1>1 DEF n
        <5> HIDE DEF i
        <5> QED BY <5>1, SubSeqRecursiveFirst
      <4> QED BY <4>1 DEF Cons
    <3> HIDE DEF i, rest
    <3>7. i - 1 + 1 = i BY <3>1
    <3> QED BY <3>1, <3>5, <3>6, <3>7, <2>1
  <2> QED BY <2>2, <2>3
<1>3. n \in Behind
  <2> HIDE DEF Behind
  <2> QED BY <1>1, <1>2, LeastMissing
<1>4. Done(0) 
  <2>1. n <= n /\ n - n = 0 BY <1>1
  <2> QED BY <1>3, <2>1
<1>6. 0 + 1 = 1 OBVIOUS
<1> QED BY <1>4, <1>5, <1>6

(* The bytes of a number, and what is read from them *)
LEMMA LittleEndianBytes ==
  ASSUME NEW number \in Nat, NEW n \in 0 .. 4
  PROVE  LittleEndian(number, n) \in Buffer /\ Len(LittleEndian(number, n)) = n
<1> DEFINE f == LittleEndian(number, n)
<1>1. f = [i \in 1 .. n |-> (number \div 256^(i - 1)) % 256] BY DEF LittleEndian
<1>2. ASSUME NEW i \in 1 .. n PROVE (number \div 256^(i - 1)) % 256 \in Byte
  <2>1. 256^(i - 1) \in Nat \ {0}
    <3>1. 256^(1 - 1) = 1 /\ 256^(2 - 1) = 256 /\ 256^(3 - 1) = 65536 /\ 256^(4 - 1) = 16777216 OBVIOUS
    <3>2. i = 1 \/ i = 2 \/ i = 3 \/ i = 4 OBVIOUS
    <3>3. CASE i = 1 BY <3>3
    <3>4. CASE i = 2 BY <3>4
    <3>5. CASE i = 3 BY <3>5
    <3>6. CASE i = 4 BY <3>6
    <3> QED BY <3>2, <3>3, <3>4, <3>5, <3>6
  <2> DEFINE e == 256^(i - 1)
  <2>2. e \in Nat \ {0} BY <2>1
  <2> HIDE DEF e
  <2>3. number \div e \in Int BY <2>2
  <2>4. (number \div e) % 256 \in 0 .. 255 BY <2>3
  <2> QED BY <2>4 DEF e, Byte
<1>3. f \in [1 .. n -> Byte] BY <1>1, <1>2, ZenonT(60)
<1> HIDE DEF f
<1> QED BY <1>3, LenProperties DEF Buffer, f

LEMMA DigitsMakeNumber ==
  /\ \A x \in Nat : x < 256 => x = x % 256
  /\ \A x \in Nat : x < 65536 => x = (x % 256) + 256 * ((x \div 256) % 256)
  /\ \A x \in Nat : x \div 65536 < 65536 =>
       x = (x % 256) + 256 * (((x \div 256) % 256)
             + 256 * (((x \div 65536) % 256) + 256 * ((x \div 16777216) % 256)))
OBVIOUS

LEMMA DigitsLie ==
  ASSUME NEW b, NEW p \in Nat, NEW num \in 76 .. 78, NEW x \in Nat,
         LiesAt(b, p, LittleEndian(x, LengthBytes(num)))
  PROVE  \A i \in 1 .. LengthBytes(num) : b[p + i] = (x \div 256^(i - 1)) % 256
<1> DEFINE n == LengthBytes(num)
           s == LittleEndian(x, n)
<1>1. n \in 0 .. 4 BY DEF LengthBytes, Opcode
<1>2. s = [i \in 1 .. n |-> (x \div 256^(i - 1)) % 256] BY DEF LittleEndian
<1>3. LiesAt(b, p, s) OBVIOUS
<1> HIDE DEF n, s
<1>4. Len(s) = n BY <1>1, LittleEndianBytes DEF s
<1>5. \A i \in 1 .. n : s[i] = (x \div 256^(i - 1)) % 256 BY <1>2, Zenon
<1> QED BY <1>3, <1>4, <1>5, ZenonT(60) DEF LiesAt, n

LEMMA ReadsLength ==
  ASSUME NEW b, NEW p \in Nat, NEW num \in 76 .. 78, NEW x \in Nat,
         num = 76 => x < 256, num = 77 => x < 65536, num = 78 => x \div 65536 < 65536,
         LiesAt(b, p, LittleEndian(x, LengthBytes(num)))
  PROVE  ReadLength(b, p, LengthBytes(num)) = x
<1> DEFINE n == LengthBytes(num)
           byte(i) == IF i <= n THEN b[p + i] ELSE 0
           digit(i) == (x \div 256^(i - 1)) % 256
<1>1. \A i \in 1 .. n : b[p + i] = digit(i) BY DigitsLie
<1>2. ReadLength(b, p, n) = byte(1) + 256 * (byte(2) + 256 * (byte(3) + 256 * byte(4)))
  BY DEF ReadLength
<1>3. n = IF num = 76 THEN 1 ELSE IF num = 77 THEN 2 ELSE 4 BY DEF LengthBytes, Opcode
<1>4. /\ digit(1) = x % 256 /\ digit(2) = (x \div 256) % 256
      /\ digit(3) = (x \div 65536) % 256 /\ digit(4) = (x \div 16777216) % 256
  <2>1. 256^(1 - 1) = 1 /\ 256^(2 - 1) = 256 /\ 256^(3 - 1) = 65536 /\ 256^(4 - 1) = 16777216 OBVIOUS
  <2>2. x \div 1 = x OBVIOUS
  <2> QED BY <2>1, <2>2
<1> HIDE DEF n, digit
<1>5. CASE num = 76
  <2>1. n = 1 BY <1>3, <1>5
  <2>2. byte(1) = digit(1) /\ byte(2) = 0 /\ byte(3) = 0 /\ byte(4) = 0 BY <2>1, <1>1
  <2>3. digit(1) = x BY <1>4, <1>5, DigitsMakeNumber
  <2> HIDE DEF byte
  <2> QED BY <1>2, <2>2, <2>3 DEF n
<1>6. CASE num = 77
  <2>1. n = 2 BY <1>3, <1>6
  <2>2. byte(1) = digit(1) /\ byte(2) = digit(2) /\ byte(3) = 0 /\ byte(4) = 0 BY <2>1, <1>1
  <2>3. digit(1) + 256 * digit(2) = x BY <1>4, <1>6, DigitsMakeNumber
  <2>4. digit(1) \in Nat /\ digit(2) \in Nat BY <1>4
  <2> HIDE DEF byte
  <2> QED BY <1>2, <2>2, <2>3, <2>4 DEF n
<1>7. CASE num = 78
  <2>1. n = 4 BY <1>3, <1>7
  <2>2. byte(1) = digit(1) /\ byte(2) = digit(2) /\ byte(3) = digit(3) /\ byte(4) = digit(4)
    BY <2>1, <1>1
  <2>3. digit(1) + 256 * (digit(2) + 256 * (digit(3) + 256 * digit(4))) = x
    <3>1. x \div 65536 < 65536 BY <1>7
    <3> DEFINE d1 == x % 256
               d2 == (x \div 256) % 256
               d3 == (x \div 65536) % 256
               d4 == (x \div 16777216) % 256
    <3>2. x = d1 + 256 * (d2 + 256 * (d3 + 256 * d4)) BY <3>1, DigitsMakeNumber
    <3>3. digit(1) = d1 /\ digit(2) = d2 /\ digit(3) = d3 /\ digit(4) = d4 BY <1>4
    <3> HIDE DEF d1, d2, d3, d4
    <3> QED BY <3>2, <3>3
  <2> HIDE DEF byte
  <2> QED BY <1>2, <2>2, <2>3 DEF n
<1> QED BY <1>5, <1>6, <1>7

LEMMA LengthBytesIs ==
  ASSUME NEW num
  PROVE  LengthBytes(num) = IF num = 76 THEN 1 ELSE IF num = 77 THEN 2 ELSE IF num = 78 THEN 4 ELSE 0
BY DEF LengthBytes, Opcode

LEMMA LengthBytesSmall ==
  ASSUME NEW num \in 1 .. 78
  PROVE  LengthBytes(num) \in 0 .. 4 /\ num <= Opcode.OP_PUSHDATA4
<1>1. LengthBytes(num) \in 0 .. 4 BY LengthBytesIs
<1>2. Opcode.OP_PUSHDATA4 = 78 BY DEF Opcode
<1> QED BY <1>1, <1>2

(* Parts that lie one behind the other *)
LEMMA Joined ==
  ASSUME NEW S, NEW u \in Seq(S), NEW v \in Seq(S)
  PROVE  /\ u \o v \in Seq(S) /\ Len(u \o v) = Len(u) + Len(v)
         /\ \A i \in 1 .. Len(u) : (u \o v)[i] = u[i]
         /\ \A i \in 1 .. Len(v) : (u \o v)[Len(u) + i] = v[i]
<1>1. /\ u \o v \in Seq(S) /\ Len(u \o v) = Len(u) + Len(v)
      /\ \A j \in 1 .. Len(u) + Len(v) : (u \o v)[j] = IF j <= Len(u) THEN u[j] ELSE v[j - Len(u)]
  BY ConcatProperties
<1>2. Len(u) \in Nat /\ Len(v) \in Nat BY LenProperties
<1>3. \A i \in 1 .. Len(u) : (u \o v)[i] = u[i] BY <1>1, <1>2
<1>4. \A i \in 1 .. Len(v) : (u \o v)[Len(u) + i] = v[i]
  <2> TAKE i \in 1 .. Len(v)
  <2>1. /\ Len(u) + i \in 1 .. Len(u) + Len(v) /\ ~(Len(u) + i <= Len(u))
        /\ Len(u) + i - Len(u) = i
    BY <1>2
  <2> QED BY <2>1, <1>1
<1> QED BY <1>1, <1>3, <1>4

LEMMA LieApart ==
  ASSUME NEW S, NEW u \in Seq(S), NEW v \in Seq(S), NEW b, NEW p \in Nat, LiesAt(b, p, u \o v)
  PROVE  LiesAt(b, p, u) /\ LiesAt(b, p + Len(u), v)
<1> DEFINE w == u \o v
           m == Len(u)
           n == Len(v)
<1>1. /\ Len(w) = m + n
      /\ \A i \in 1 .. m : w[i] = u[i]
      /\ \A i \in 1 .. n : w[m + i] = v[i]
  BY Joined
<1>2. m \in Nat /\ n \in Nat BY LenProperties
<1>3. \A i \in 1 .. Len(w) : b[p + i] = w[i] BY DEF LiesAt
<1> HIDE DEF w, m, n
<1>4. ASSUME NEW i \in 1 .. m PROVE b[p + i] = u[i]
  <2>1. i \in 1 .. m + n BY <1>2
  <2> QED BY <2>1, <1>1, <1>3
<1>5. ASSUME NEW i \in 1 .. n PROVE b[p + m + i] = v[i]
  <2>1. m + i \in 1 .. m + n /\ p + m + i = p + (m + i) BY <1>2
  <2>2. b[p + (m + i)] = w[m + i] BY <2>1, <1>1, <1>3
  <2> QED BY <2>1, <2>2, <1>1
<1> QED BY <1>4, <1>5 DEF LiesAt, m, n

(* The data that is read where it lies *)
LEMMA DataRead ==
  ASSUME NEW b \in Buffer, NEW g \in Buffer, NEW p \in Nat, p + Len(g) <= Len(b),
         LiesAt(b, p, g)
  PROVE  SubSeq(b, p + 1, p + Len(g)) = g
<1> DEFINE l == Len(g)
           from == p + 1
           to == p + l
<1>1. Len(b) \in Nat /\ l \in Nat BY BytesOf
<1>2. p + l <= Len(b) /\ \A i \in 1 .. l : b[p + i] = g[i] BY DEF LiesAt
<1> HIDE DEF l
<1>3. /\ from \in Int /\ to \in Int /\ to - from + 1 = l
      /\ (IF from <= to THEN to - from + 1 ELSE 0) = l
      /\ \A i \in 1 .. l : from + i - 1 = p + i
  BY <1>1
<1>4. \A i \in from .. to : b[i] \in Byte
  <2> TAKE i \in from .. to
  <2>1. i \in 1 .. Len(b) BY <1>1, <1>2
  <2> QED BY <2>1, ElementOfSeq DEF Buffer
<1> HIDE DEF from, to
<1>5. /\ SubSeq(b, from, to) \in Seq(Byte)
      /\ Len(SubSeq(b, from, to)) = IF from <= to THEN to - from + 1 ELSE 0
      /\ \A i \in 1 .. to - from + 1 : SubSeq(b, from, to)[i] = b[from + i - 1]
  BY <1>3, <1>4, SubSeqProperties
<1>6. Len(SubSeq(b, from, to)) = l BY <1>3, <1>5
<1>7. \A i \in 1 .. l : SubSeq(b, from, to)[i] = g[i] BY <1>2, <1>3, <1>5
<1>8. SubSeq(b, from, to) = g BY <1>5, <1>6, <1>7, SeqEqual DEF Buffer, l
<1> QED BY <1>8 DEF from, to, l

(* The bytes of a chunk, in their places *)
LEMMA ChunkBytes ==
  ASSUME NEW c \in Chunk, Readable(c)
  PROVE  /\ ChunkToBuffer(c) \in Buffer
         /\ ~HasBuf(c) => ChunkToBuffer(c) = <<c.op>>
         /\ HasBuf(c) =>
              /\ ChunkToBuffer(c) = <<c.op>> \o (LittleEndian(c.len, LengthBytes(c.op)) \o c.buf)
              /\ c.buf \in Buffer /\ c.len = Len(c.buf) /\ c.op \in 1 .. 78
              /\ LengthBytes(c.op) \in Nat
              /\ SizeOf(c) = 1 + LengthBytes(c.op) + Len(c.buf)
<1>1. c.op \in Byte /\ <<c.op>> \in Buffer BY ChunkFields DEF Buffer
<1>2. CASE ~HasBuf(c)
  <2>1. ChunkToBuffer(c) = <<c.op>> \o <<>> BY <1>2 DEF ChunkToBuffer
  <2>2. <<c.op>> \o <<>> = <<c.op>> BY <1>1, ConcatEmptySeq DEF Buffer
  <2> QED BY <2>1, <2>2, <1>1, <1>2
<1>3. CASE HasBuf(c)
  <2>1. c.buf \in Buffer /\ c.len = Len(c.buf) /\ c.op \in 1 .. 78 /\ Len(c.buf) \in Nat
    <3>1. c.op \in 1 .. Opcode.OP_PUSHDATA4 /\ c.len = Len(c.buf) BY <1>3 DEF Readable
    <3>2. Opcode.OP_PUSHDATA4 = 78 BY DEF Opcode
    <3>3. c.buf \in Buffer BY <1>3, ChunkFields
    <3> QED BY <3>1, <3>2, <3>3, BytesOf
  <2>2. LengthBytes(c.op) \in 0 .. 4 /\ c.op <= Opcode.OP_PUSHDATA4 BY <2>1, LengthBytesSmall
  <2> DEFINE f == LittleEndian(c.len, LengthBytes(c.op))
  <2>3. f \in Buffer /\ Len(f) = LengthBytes(c.op) BY <2>1, <2>2, LittleEndianBytes
  <2>4. ChunkToBuffer(c) = <<c.op>> \o (f \o c.buf)
    BY <1>3, <2>2, Zenon DEF ChunkToBuffer
  <2> HIDE DEF f
  <2>5. f \o c.buf \in Buffer /\ Len(f \o c.buf) = LengthBytes(c.op) + Len(c.buf)
    <3>1. f \o c.buf \in Seq(Byte) /\ Len(f \o c.buf) = Len(f) + Len(c.buf)
      BY <2>1, <2>3, ConcatProperties DEF Buffer
    <3> QED BY <3>1, <2>3 DEF Buffer
  <2>6. /\ <<c.op>> \o (f \o c.buf) \in Buffer
        /\ Len(<<c.op>> \o (f \o c.buf)) = 1 + Len(f \o c.buf)
    <3>1. Len(<<c.op>>) = 1 OBVIOUS
    <3> QED BY <1>1, <2>5, <3>1, ConcatProperties DEF Buffer
  <2>7. 1 + (LengthBytes(c.op) + Len(c.buf)) = 1 + LengthBytes(c.op) + Len(c.buf) BY <2>1, <2>2
  <2>8. LengthBytes(c.op) \in Nat BY <2>2
  <2>9. ChunkToBuffer(c) \in Buffer BY <2>4, <2>6
  <2>10. SizeOf(c) = 1 + LengthBytes(c.op) + Len(c.buf) BY <2>4, <2>5, <2>6, <2>7 DEF SizeOf
  <2>11. ChunkToBuffer(c) = <<c.op>> \o (LittleEndian(c.len, LengthBytes(c.op)) \o c.buf)
    BY <2>4 DEF f
  <2> QED BY <1>3, <2>1, <2>8, <2>9, <2>10, <2>11
<1> QED BY <1>2, <1>3

(* A readable chunk is read back from its bytes, wherever they lie. *)
LEMMA ReadsChunk ==
  ASSUME NEW c \in Chunk, Readable(c), NEW b \in Buffer, NEW p \in Nat,
         p + SizeOf(c) <= Len(b),
         LiesAt(b, p, ChunkToBuffer(c))
  PROVE  /\ SizeOf(c) \in Nat \ {0}
         /\ ReadChunk(b, p + 1) = [chunk |-> c, next |-> p + SizeOf(c) + 1]
<1> DEFINE num == b[p + 1]
           n == LengthBytes(num)
           len == IF n = 0 THEN num ELSE ReadLength(b, p + 1, n)
           end == p + 1 + n + len
           last == IF end < Len(b) THEN end ELSE Len(b)
           data == SubSeq(b, p + 1 + n + 1, last)
<1>1. ReadChunk(b, p + 1) =
        IF p + 1 + n > Len(b) THEN [chunk |-> Op(num), next |-> 0]
        ELSE IF num \notin 1 .. Opcode.OP_PUSHDATA4 THEN [chunk |-> Op(num), next |-> p + 1 + 1]
        ELSE [chunk |-> [op |-> num, len |-> len, buf |-> data], next |-> end + 1]
  BY Zenon DEF ReadChunk
<1>2. Len(b) \in Nat BY BytesOf
<1>3. c.op \in Byte /\ c.op \in Nat BY ChunkFields
<1>4. Opcode.OP_PUSHDATA1 = 76 /\ Opcode.OP_PUSHDATA2 = 77 /\ Opcode.OP_PUSHDATA4 = 78
  BY DEF Opcode
<1>5. CASE ~HasBuf(c)
  <2>1. ChunkToBuffer(c) = <<c.op>> BY <1>5, ChunkBytes
  <2>2. SizeOf(c) = 1 /\ ChunkToBuffer(c)[1] = c.op BY <2>1 DEF SizeOf
  <2>3. num = c.op BY <2>1, <2>2 DEF LiesAt, SizeOf
  <2>4. c.op \notin 1 .. 78 BY <1>4, <1>5 DEF Readable
  <2>5. n = 0
    <3> DEFINE x == c.op
    <3>2. x \in Nat /\ x \notin 1 .. 78 BY <1>3, <2>4
    <3> HIDE DEF x
    <3>3. x # 76 /\ x # 77 /\ x # 78 BY <3>2
    <3>4. LengthBytes(x) = 0 BY <3>3, LengthBytesIs
    <3>1. LengthBytes(c.op) = 0 BY <3>4 DEF x
    <3> QED BY <2>3, <3>1
  <2>6. c = Op(c.op)
    <3>1. c \in [op : Byte] BY <1>5 DEF Chunk, HasBuf
    <3> QED BY <3>1 DEF Op
  <2> HIDE DEF num, n, len, end, data
  <2>7. ~(p + 1 + n > Len(b)) /\ p + 1 + 1 = p + SizeOf(c) + 1 BY <2>2, <2>5, <1>2
  <2>8. num \notin 1 .. Opcode.OP_PUSHDATA4 BY <2>3, <2>4, <1>4
  <2>9. ReadChunk(b, p + 1) = [chunk |-> Op(num), next |-> p + 1 + 1] BY <1>1, <2>7, <2>8
  <2> QED BY <2>2, <2>3, <2>6, <2>7, <2>9
<1>6. CASE HasBuf(c)
  <2> DEFINE k == LengthBytes(c.op)
             f == LittleEndian(c.len, k)
             l == Len(c.buf)
  <2>1. /\ ChunkToBuffer(c) = <<c.op>> \o (f \o c.buf)
        /\ c.buf \in Buffer /\ c.len = l /\ c.op \in 1 .. 78
        /\ SizeOf(c) = 1 + k + l
    BY <1>6, ChunkBytes
  <2>2. k = IF c.op = 76 THEN 1 ELSE IF c.op = 77 THEN 2 ELSE IF c.op = 78 THEN 4 ELSE 0
    BY LengthBytesIs
  <2>3. k \in 0 .. 4 BY <2>1, LengthBytesSmall
  <2>4. l \in Nat BY <2>1, BytesOf
  <2>5. f \in Buffer /\ Len(f) = k
    <3> HIDE DEF k, f, l
    <3> QED BY <2>1, <2>3, <2>4, LittleEndianBytes DEF f
  <2>6. b[p + 1] = c.op /\ LiesAt(b, p + 1, f) /\ LiesAt(b, p + 1 + k, c.buf)
    <3> DEFINE one == <<c.op>>
               g == c.buf
    <3>1. one \in Seq(Byte) /\ Len(one) = 1 /\ one[1] = c.op BY <1>3
    <3> HIDE DEF k, f
    <3>2. f \in Seq(Byte) /\ g \in Seq(Byte) BY <2>1, <2>5 DEF Buffer
    <3>3. LiesAt(b, p, one \o (f \o g)) BY <2>1, Zenon
    <3> HIDE DEF one, g
    <3>4. f \o g \in Seq(Byte) BY <3>2, Joined
    <3>5. LiesAt(b, p, one) /\ LiesAt(b, p + 1, f \o g)
      <4>1. LiesAt(b, p, one) /\ LiesAt(b, p + Len(one), f \o g) BY <3>1, <3>3, <3>4, LieApart
      <4> QED BY <4>1, <3>1
    <3>6. p + 1 \in Nat OBVIOUS
    <3>7. LiesAt(b, p + 1, f) /\ LiesAt(b, p + 1 + Len(f), g) BY <3>2, <3>5, <3>6, LieApart
    <3>8. b[p + 1] = c.op BY <3>1, <3>5 DEF LiesAt
    <3> QED BY <3>7, <3>8, <2>5 DEF g
  <2>7. num = c.op /\ n = k BY <2>6
  <2>8. len = l
    <3>1. CASE c.op \in 76 .. 78
      <4>1. Direct(c.op, c.buf) /\ l \div 65536 < 65536
        <5>1. Direct(c.op, c.buf) /\ c.len \div 65536 < 65536 BY <1>6 DEF Readable
        <5> HIDE DEF l
        <5> QED BY <5>1, <2>1
      <4>2. (c.op = 76 => l < 256) /\ (c.op = 77 => l < 65536) BY <4>1, <3>1, <1>4 DEF Direct
      <4>3. ReadLength(b, p + 1, k) = l
        <5>1. LiesAt(b, p + 1, LittleEndian(l, LengthBytes(c.op))) BY <2>1, <2>6
        <5> DEFINE q == p + 1
                   y == c.op
        <5>2. q \in Nat /\ y \in 76 .. 78 BY <3>1
        <5>3. (y = 76 => l < 256) /\ (y = 77 => l < 65536) BY <4>2
        <5>4. LiesAt(b, q, LittleEndian(l, LengthBytes(y))) BY <5>1
        <5> HIDE DEF l, q, y
        <5>5. y = 78 => l \div 65536 < 65536 BY <4>1
        <5>6. ReadLength(b, q, LengthBytes(y)) = l
          BY <2>4, <5>2, <5>3, <5>4, <5>5, ReadsLength
        <5> QED BY <5>6 DEF q, y
      <4>4. k # 0 BY <2>2, <3>1
      <4> HIDE DEF k, l
      <4> QED BY <2>7, <4>3, <4>4
    <3>2. CASE c.op \notin 76 .. 78
      <4>1. k = 0 BY <2>1, <2>2, <3>2
      <4>2. Direct(c.op, c.buf) BY <1>6 DEF Readable
      <4>3. c.op = l BY <4>2, <3>2, <2>1, <1>4 DEF Direct
      <4> HIDE DEF k, l
      <4> QED BY <2>7, <4>1, <4>3
    <3> QED BY <3>1, <3>2
  <2> HIDE DEF k, f, l, num, n, len
  <2>9. end = p + SizeOf(c) /\ last = end
    <3> DEFINE size == SizeOf(c)
    <3>1. size = 1 + k + l /\ p + size <= Len(b) BY <2>1
    <3> HIDE DEF size
    <3>2. end = p + size BY <2>3, <2>4, <2>7, <2>8, <3>1
    <3>3. end \in Int BY <2>3, <2>4, <2>7, <2>8
    <3> HIDE DEF end
    <3> QED BY <3>1, <3>2, <3>3, <1>2 DEF size
  <2>10. data = c.buf
    <3> DEFINE q == p + 1 + k
               g == c.buf
    <3>1. last = q + l BY <2>1, <2>3, <2>4, <2>9
    <3>2. data = SubSeq(b, q + 1, q + l) BY <3>1, <2>7
    <3>3. q \in Nat /\ q + l <= Len(b) BY <2>1, <2>3, <2>4, <1>2
    <3>4. LiesAt(b, q, g) BY <2>6
    <3>5. g \in Buffer /\ l = Len(g) BY <2>1 DEF l
    <3> HIDE DEF q, g, data
    <3>6. SubSeq(b, q + 1, q + Len(g)) = g BY <3>3, <3>4, <3>5, DataRead
    <3> QED BY <3>2, <3>5, <3>6 DEF g
  <2>11. c = [op |-> c.op, len |-> c.len, buf |-> c.buf]
    <3>1. c \in [op : Byte, buf : Seq(Byte), len : Nat]
      <4>1. c \notin [op : Byte]
        <5>1. \A d \in [op : Byte] : DOMAIN d = {"op"} OBVIOUS
        <5> QED BY <5>1, <1>6 DEF HasBuf
      <4> QED BY <4>1 DEF Chunk
    <3> QED BY <3>1
  <2>12. ~(p + 1 + n > Len(b)) BY <2>1, <2>3, <2>4, <2>7, <1>2
  <2>13. num \in 1 .. Opcode.OP_PUSHDATA4 BY <2>1, <2>7, <1>4
  <2> HIDE DEF end, data
  <2>14. ReadChunk(b, p + 1) = [chunk |-> [op |-> num, len |-> len, buf |-> data], next |-> end + 1]
    BY <1>1, <2>12, <2>13
  <2>15. SizeOf(c) \in Nat \ {0} BY <2>1, <2>3, <2>4
  <2>16. [op |-> num, len |-> len, buf |-> data] = c BY <2>1, <2>7, <2>8, <2>10, <2>11
  <2> QED BY <2>9, <2>14, <2>15, <2>16
<1> QED BY <1>5, <1>6
(* The bytes of a script are read back as its chunks. *)
LEMMA BytesReadBack ==
  ASSUME NEW s \in Seq(Chunk), \A i \in DOMAIN s : Readable(s[i])
  PROVE  FromBuffer(ToBuffer(s)) = [ok |-> TRUE, chunks |-> s]
<1> DEFINE seqs == [i \in DOMAIN s |-> ChunkToBuffer(s[i])]
           b == ToBuffer(s)
           n == Len(s)
<1>1. n \in Nat /\ DOMAIN s = 1 .. n /\ \A i \in 1 .. n : s[i] \in Chunk /\ Readable(s[i])
  BY LenProperties, ElementOfSeq
<1>2. \A i \in 1 .. n : ChunkToBuffer(s[i]) \in Seq(Byte) BY <1>1, ChunkBytes DEF Buffer
<1>3. seqs \in Seq(Seq(Byte)) /\ Len(seqs) = n /\ \A i \in 1 .. n : seqs[i] = ChunkToBuffer(s[i])
  <2>1. seqs \in [1 .. n -> Seq(Byte)] BY <1>1, <1>2
  <2> HIDE DEF n
  <2> QED BY <1>1, <2>1
<1>4. b = FlattenSeq(seqs) BY DEF ToBuffer
<1> HIDE DEF seqs, b
<1>5. PICK at : Placed(seqs, at, b) BY <1>3, <1>4, Flattened
<1>6. b \in Buffer BY <1>3, <1>4, Flattened DEF Buffer
<1>7. PICK from : /\ FromBuffer(b) = from[1]
                  /\ \A p \in Nat \ {0} : from[p] = ReadFrom(b, from, p)
  BY <1>6, FromBufferRecursion
<1> DEFINE place == [i \in 0 .. n |-> at[i] + 1]
<1> HIDE DEF n
<1>8. /\ \A i \in 0 .. n : at[i] \in Nat /\ place[i] = at[i] + 1
      /\ at[0] = 0 /\ at[n] = Len(b)
      /\ \A i \in 1 .. n : /\ at[i] = at[i - 1] + SizeOf(s[i]) /\ at[i] <= Len(b)
                            /\ LiesAt(b, at[i - 1], ChunkToBuffer(s[i]))
  BY <1>3, <1>5, Zenon DEF Placed, SizeOf
<1> HIDE DEF place
<1>9. from[place[n]] = [ok |-> TRUE, chunks |-> <<>>]
  <2>1. n \in 0 .. n /\ Len(b) \in Nat BY <1>1, <1>6, BytesOf
  <2>2. place[n] = Len(b) + 1 BY <1>8, <2>1
  <2>3. place[n] \in Nat \ {0} /\ place[n] > Len(b) BY <2>1, <2>2
  <2> QED BY <1>7, <2>3 DEF ReadFrom
<1>10. ASSUME NEW i \in 1 .. n
       PROVE  from[place[i - 1]] =
                [ok |-> from[place[i]].ok, chunks |-> Cons(s[i], from[place[i]].chunks)]
  <2> DEFINE c == s[i]
             p == at[i - 1]
  <2>1. i - 1 \in 0 .. n /\ i \in 0 .. n BY <1>1
  <2>2. c \in Chunk /\ Readable(c) BY <1>1
  <2>3. /\ p \in Nat /\ p + SizeOf(c) <= Len(b) /\ LiesAt(b, p, ChunkToBuffer(c))
        /\ place[i - 1] = p + 1 /\ place[i] = p + SizeOf(c) + 1
    <3>1. at[i] = p + SizeOf(c) BY <1>8
    <3> HIDE DEF p, c
    <3>2. at[i] <= Len(b) /\ place[i] = at[i] + 1 BY <1>8, <2>1
    <3> QED BY <1>8, <2>1, <3>1, <3>2 DEF p, c
  <2> HIDE DEF c, p
  <2>4. SizeOf(c) \in Nat \ {0} /\ ReadChunk(b, p + 1) = [chunk |-> c, next |-> p + SizeOf(c) + 1]
    BY <1>6, <2>2, <2>3, ReadsChunk
  <2>5. /\ ReadChunk(b, p + 1).chunk = c /\ ReadChunk(b, p + 1).next = place[i]
    BY <2>3, <2>4
  <2>6. p + 1 \in Nat \ {0} /\ ~(p + 1 > Len(b)) /\ place[i] # 0
    <3> DEFINE size == SizeOf(c)
    <3>1. size \in Nat \ {0} /\ p + size <= Len(b) /\ place[i] = p + size + 1 BY <2>3, <2>4
    <3>2. Len(b) \in Nat /\ p \in Nat BY <1>6, <2>3, BytesOf
    <3> HIDE DEF size
    <3> QED BY <3>1, <3>2
  <2>7. from[p + 1] = ReadFrom(b, from, p + 1) BY <1>7, <2>6
  <2>8. ReadFrom(b, from, p + 1) =
          [ok |-> from[place[i]].ok, chunks |-> Cons(c, from[place[i]].chunks)]
    BY <2>5, <2>6 DEF ReadFrom
  <2>9. from[place[i - 1]] = [ok |-> from[place[i]].ok, chunks |-> Cons(c, from[place[i]].chunks)]
    BY <2>3, <2>7, <2>8
  <2> QED BY <2>9 DEF c
<1>11. from[place[0]] = [ok |-> TRUE, chunks |-> s]
  <2>1. from[place[Len(s)]] = [ok |-> TRUE, chunks |-> <<>>] BY <1>9 DEF n
  <2>2. \A i \in 1 .. Len(s) :
          from[place[i - 1]] = [ok |-> from[place[i]].ok, chunks |-> Cons(s[i], from[place[i]].chunks)]
    BY <1>10 DEF n
  <2> QED BY <2>1, <2>2, ReadsThrough
<1>12. place[0] = 1
  <2>1. 0 \in 0 .. n BY <1>1
  <2> QED BY <1>8, <2>1
<1> QED BY <1>7, <1>11, <1>12 DEF b
(* The words of a chunk *)
Word == {Name(num) : num \in Byte} \cup {Decimal(n) : n \in Nat}
          \cup {Hex(buf, TRUE) : buf \in Buffer}

(* A chunk has no other fields. *)
LEMMA ChunkIs ==
  ASSUME NEW c \in Chunk
  PROVE  IF HasBuf(c) THEN c = [op |-> c.op, len |-> c.len, buf |-> c.buf] /\ c.len \in Nat
         ELSE c = Op(c.op)
<1>1. CASE c \in [op : Byte]
  <2>1. DOMAIN c = {"op"} /\ c = [op |-> c.op] BY <1>1
  <2>2. ~HasBuf(c) BY <2>1 DEF HasBuf
  <2> QED BY <2>1, <2>2 DEF Op
<1>2. CASE c \in [op : Byte, buf : Seq(Byte), len : Nat]
  <2>1. DOMAIN c = {"op", "buf", "len"} BY <1>2
  <2>2. c = [op |-> c.op, len |-> c.len, buf |-> c.buf] /\ c.len \in Nat BY <1>2
  <2>3. HasBuf(c) BY <2>1 DEF HasBuf
  <2> QED BY <2>2, <2>3
<1> QED BY <1>1, <1>2 DEF Chunk

LEMMA PushDataIs ==
  ASSUME NEW num \in Nat
  PROVE  IsPushData(num) <=> num \in 76 .. 78
BY DEF IsPushData, Opcode

LEMMA OneTwoThree ==
  ASSUME NEW S, NEW x \in S, NEW y \in S, NEW z \in S
  PROVE  /\ <<>> \o <<y, z>> = <<y, z>> /\ <<y, z>> \in Seq(S) /\ Len(<<y, z>>) = 2
         /\ <<x>> \o <<y, z>> = <<x, y, z>> /\ <<x, y, z>> \in Seq(S) /\ Len(<<x, y, z>>) = 3
         /\ <<x>> \in Seq(S) /\ Len(<<x>>) = 1
<1>1. <<x>> \in Seq(S) /\ Len(<<x>>) = 1 /\ <<x>>[1] = x OBVIOUS
<1>2. <<y, z>> \in Seq(S) /\ Len(<<y, z>>) = 2 /\ <<y, z>>[1] = y /\ <<y, z>>[2] = z OBVIOUS
<1>3. /\ <<x, y, z>> \in Seq(S) /\ Len(<<x, y, z>>) = 3
      /\ <<x, y, z>>[1] = x /\ <<x, y, z>>[2] = y /\ <<x, y, z>>[3] = z
  OBVIOUS
<1>4. <<>> \o <<y, z>> = <<y, z>> BY <1>2, ConcatEmptySeq
<1> DEFINE u == <<x>>
           v == <<y, z>>
           w == <<x, y, z>>
<1>5. u \o v = w
  <2>1. u \in Seq(S) /\ Len(u) = 1 /\ u[1] = x BY <1>1
  <2>2. v \in Seq(S) /\ Len(v) = 2 /\ v[1] = y /\ v[2] = z BY <1>2
  <2>3. w \in Seq(S) /\ Len(w) = 3 /\ w[1] = x /\ w[2] = y /\ w[3] = z BY <1>3
  <2> HIDE DEF u, v, w
  <2>4. u \o v \in Seq(S) /\ Len(u \o v) = Len(u) + Len(v) BY <2>1, <2>2, ConcatProperties
  <2>5. LiesAt(u \o v, 0, u \o v) BY 0 \in Nat, <2>1, <2>2, <2>4 DEF LiesAt
  <2>6. LiesAt(u \o v, 0, u) /\ LiesAt(u \o v, 0 + Len(u), v)
    BY <2>1, <2>2, <2>5, 0 \in Nat, LieApart
  <2> DEFINE uv == u \o v
  <2>7. /\ uv \in Seq(S) /\ Len(uv) = 3 /\ LiesAt(uv, 0, u) /\ LiesAt(uv, 1, v)
    BY <2>1, <2>2, <2>4, <2>6
  <2> HIDE DEF uv
  <2>8. uv[1] = x /\ uv[2] = y /\ uv[3] = z
    <3>1. \A i \in 1 .. 1 : uv[0 + i] = u[i] BY <2>1, <2>7 DEF LiesAt
    <3>2. \A i \in 1 .. 2 : uv[1 + i] = v[i] BY <2>2, <2>7 DEF LiesAt
    <3>3. uv[0 + 1] = u[1] /\ uv[1 + 1] = v[1] /\ uv[1 + 2] = v[2] BY <3>1, <3>2
    <3> QED BY <2>1, <2>2, <3>3
  <2>9. \A i \in 1 .. 3 : uv[i] = w[i] BY <2>3, <2>8
  <2>10. uv = w BY <2>3, <2>7, <2>9, SeqEqual
  <2> QED BY <2>10 DEF uv
<1> QED BY <1>1, <1>2, <1>3, <1>4, <1>5

WordsOf(c) == ChunkToWords(c, FALSE)

LEMMA ChunkWords ==
  ASSUME NEW c \in Chunk, Readable(c), Nameable(c)
  PROVE  /\ WordsOf(c) \in Seq(Word) /\ Len(WordsOf(c)) \in 1 .. 3
         /\ ~HasBuf(c) => WordsOf(c) = <<Name(c.op)>> /\ c.op \notin 76 .. 78
         /\ HasBuf(c) /\ c.op \in 76 .. 78
              => WordsOf(c) = <<Name(c.op), Decimal(c.len), Hex(c.buf, TRUE)>>
         /\ HasBuf(c) /\ c.op \notin 76 .. 78
              => /\ WordsOf(c) = <<Decimal(c.len), Hex(c.buf, TRUE)>>
                 /\ c.len = c.op /\ c.op \in 1 .. 75
<1>1. c.op \in Byte /\ c.op \in Nat BY ChunkFields
<1>2. Name(c.op) \in Word BY <1>1 DEF Word
<1>3. CASE ~HasBuf(c)
  <2>1. HasName(c.op) BY <1>3, Zenon DEF Nameable
  <2>2. WordsOf(c) = <<Name(c.op)>> BY <1>3, <2>1, Zenon DEF WordsOf, ChunkToWords
  <2>3. c.op \notin 76 .. 78
    <3>1. c.op \notin 1 .. Opcode.OP_PUSHDATA4 BY <1>3 DEF Readable
    <3>2. Opcode.OP_PUSHDATA4 = 78 BY DEF Opcode
    <3> QED BY <1>1, <3>1, <3>2
  <2>4. <<Name(c.op)>> \in Seq(Word) /\ Len(<<Name(c.op)>>) = 1 BY <1>2, OneTwoThree
  <2> QED BY <1>3, <2>2, <2>3, <2>4
<1>4. CASE HasBuf(c)
  <2> DEFINE x == Name(c.op)
             y == Decimal(c.len)
             z == Hex(c.buf, TRUE)
  <2>1. /\ c.op \in 1 .. 78 /\ c.len = Len(c.buf) /\ c.buf \in Buffer /\ Direct(c.op, c.buf)
        /\ c.buf # <<>>
    <3>1. c.op \in 1 .. Opcode.OP_PUSHDATA4 /\ c.len = Len(c.buf) /\ Direct(c.op, c.buf)
      BY <1>4 DEF Readable
    <3>2. Opcode.OP_PUSHDATA4 = 78 BY DEF Opcode
    <3>3. c.buf # <<>> BY <1>4, Zenon DEF Nameable
    <3>4. c.buf \in Buffer BY <1>4, ChunkFields
    <3> QED BY <3>1, <3>2, <3>3, <3>4
  <2>2. c.len \in Nat /\ c.len # 0 BY <2>1, EmptySeq DEF Buffer
  <2>3. x \in Word /\ y \in Word /\ z \in Word
    <3>1. y \in {Decimal(n) : n \in Nat} BY <2>2
    <3>2. z \in {Hex(buf, TRUE) : buf \in Buffer} BY <2>1
    <3> QED BY <1>2, <3>1, <3>2 DEF Word
  <2>4. WordsOf(c) = (IF IsPushData(c.op) THEN <<x>> ELSE <<>>) \o <<y, z>>
    BY <1>4, <2>2, Zenon DEF WordsOf, ChunkToWords
  <2>5. c.op \notin 76 .. 78 => c.len = c.op /\ c.op \in 1 .. 75
    <3>1. Opcode.OP_PUSHDATA1 = 76 /\ Opcode.OP_PUSHDATA2 = 77 /\ Opcode.OP_PUSHDATA4 = 78
      BY DEF Opcode
    <3> QED BY <2>1, <3>1 DEF Direct
  <2> HIDE DEF x, y, z
  <2>6. CASE c.op \in 76 .. 78
    <3>1. WordsOf(c) = <<x>> \o <<y, z>> BY <1>1, <2>4, <2>6, PushDataIs
    <3>2. WordsOf(c) = <<x, y, z>> /\ WordsOf(c) \in Seq(Word) /\ Len(WordsOf(c)) = 3
      BY <2>3, <3>1, OneTwoThree
    <3>3. Len(WordsOf(c)) \in 1 .. 3 BY <3>2
    <3> QED BY <1>4, <2>6, <3>2, <3>3, Zenon DEF x, y, z
  <2>7. CASE c.op \notin 76 .. 78
    <3>1. WordsOf(c) = <<>> \o <<y, z>> BY <1>1, <2>4, <2>7, PushDataIs
    <3>2. WordsOf(c) = <<y, z>> /\ WordsOf(c) \in Seq(Word) /\ Len(WordsOf(c)) = 2
      BY <2>3, <3>1, OneTwoThree
    <3>3. Len(WordsOf(c)) \in 1 .. 3 BY <3>2
    <3> QED BY <1>4, <2>5, <2>7, <3>2, <3>3, Zenon DEF x, y, z
  <2> QED BY <2>6, <2>7
<1> QED BY <1>3, <1>4

(* A chunk is read back from its words, wherever they lie. *)
LEMMA ReadsWords ==
  ASSUME NEW c \in Chunk, Readable(c), Nameable(c), NEW words \in Seq(Word), NEW p \in Nat,
         p + Len(WordsOf(c)) <= Len(words), LiesAt(words, p, WordsOf(c))
  PROVE  WordsToChunk(words, p + 1, FALSE) = [chunk |-> c, next |-> p + Len(WordsOf(c)) + 1]
<1>1. c.op \in Byte /\ c.op \in Nat BY ChunkFields
<1>2. Len(words) \in Nat BY LenProperties
<1> DEFINE q == p + 1
<1>3. q \in Nat /\ q = p + 1 OBVIOUS
<1>4. CASE ~HasBuf(c)
  <2>1. WordsOf(c) = <<Name(c.op)>> /\ c.op \notin 76 .. 78 BY <1>4, ChunkWords
  <2>2. Len(WordsOf(c)) = 1 /\ WordsOf(c)[1] = Name(c.op) BY <2>1
  <2>3. words[p + 1] = Name(c.op) BY <2>2 DEF LiesAt
  <2> HIDE DEF q
  <2>4. words[q].is = "name" /\ words[q].op = c.op BY <1>3, <2>3 DEF Name
  <2>5. ~IsPushData(words[q].op) BY <1>1, <2>1, <2>4, PushDataIs
  <2>6. WordsToChunk(words, q, FALSE) = [chunk |-> Op(words[q].op), next |-> q + 1]
    BY <2>4, <2>5 DEF WordsToChunk
  <2>7. c = Op(c.op) BY <1>4, ChunkIs
  <2>8. q + 1 = p + Len(WordsOf(c)) + 1 BY <1>3, <2>2
  <2> QED BY <1>3, <2>4, <2>6, <2>7, <2>8
<1>5. CASE HasBuf(c) /\ c.op \in 76 .. 78
  <2>1. WordsOf(c) = <<Name(c.op), Decimal(c.len), Hex(c.buf, TRUE)>> BY <1>5, ChunkWords
  <2>2. /\ Len(WordsOf(c)) = 3 /\ WordsOf(c)[1] = Name(c.op)
        /\ WordsOf(c)[2] = Decimal(c.len) /\ WordsOf(c)[3] = Hex(c.buf, TRUE)
    BY <2>1
  <2>3. words[p + 1] = Name(c.op) /\ words[p + 2] = Decimal(c.len) /\ words[p + 3] = Hex(c.buf, TRUE)
    <3>1. 1 \in 1 .. 3 /\ 2 \in 1 .. 3 /\ 3 \in 1 .. 3 OBVIOUS
    <3>2. \A i \in 1 .. 3 : words[p + i] = WordsOf(c)[i] BY <2>2 DEF LiesAt
    <3> QED BY <2>2, <3>1, <3>2, Zenon
  <2>4. p + 2 = q + 1 /\ p + 3 = q + 2 /\ q + 2 <= Len(words) BY <1>2, <2>2
  <2> HIDE DEF q
  <2>5. /\ words[q].is = "name" /\ words[q].op = c.op
        /\ words[q + 1].is = "decimal" /\ words[q + 1].n = c.len
        /\ words[q + 2].is = "0x" /\ words[q + 2].buf = c.buf
    BY <1>3, <2>3, <2>4 DEF Name, Decimal, Hex
  <2>6. IsPushData(words[q].op) BY <1>1, <1>5, <2>5, PushDataIs
  <2>7. WordsToChunk(words, q, FALSE) =
          [chunk |-> [op |-> words[q].op, len |-> words[q + 1].n, buf |-> words[q + 2].buf],
           next |-> q + 3]
    BY <2>4, <2>5, <2>6 DEF WordsToChunk
  <2>8. c = [op |-> c.op, len |-> c.len, buf |-> c.buf] BY <1>5, ChunkIs
  <2>9. q + 3 = p + Len(WordsOf(c)) + 1 BY <1>3, <2>2
  <2> QED BY <1>3, <2>5, <2>7, <2>8, <2>9
<1>6. CASE HasBuf(c) /\ c.op \notin 76 .. 78
  <2>1. /\ WordsOf(c) = <<Decimal(c.len), Hex(c.buf, TRUE)>>
        /\ c.len = c.op /\ c.op \in 1 .. 75
    BY <1>6, ChunkWords
  <2>2. /\ Len(WordsOf(c)) = 2 /\ WordsOf(c)[1] = Decimal(c.len)
        /\ WordsOf(c)[2] = Hex(c.buf, TRUE)
    BY <2>1
  <2>3. words[p + 1] = Decimal(c.len) /\ words[p + 2] = Hex(c.buf, TRUE)
    <3>1. 1 \in 1 .. 2 /\ 2 \in 1 .. 2 OBVIOUS
    <3>2. \A i \in 1 .. 2 : words[p + i] = WordsOf(c)[i] BY <2>2 DEF LiesAt
    <3> QED BY <2>2, <3>1, <3>2, Zenon
  <2>4. p + 2 = q + 1 /\ q + 1 <= Len(words) BY <1>2, <2>2
  <2> HIDE DEF q
  <2>5. /\ words[q].is = "decimal" /\ words[q].n = c.op
        /\ words[q + 1].is = "0x" /\ words[q + 1].buf = c.buf
    BY <1>3, <2>1, <2>3, <2>4 DEF Decimal, Hex
  <2>6. words[q].n \in 1 .. Opcode.OP_PUSHDATA1 - 1
    <3>1. Opcode.OP_PUSHDATA1 - 1 = 75 BY DEF Opcode
    <3> QED BY <2>1, <2>5, <3>1
  <2>7. WordsToChunk(words, q, FALSE) =
          [chunk |-> [op |-> words[q].n, len |-> words[q].n, buf |-> words[q + 1].buf],
           next |-> q + 2]
    BY <2>4, <2>5, <2>6 DEF WordsToChunk
  <2>8. c = [op |-> c.op, len |-> c.len, buf |-> c.buf] BY <1>6, ChunkIs
  <2>9. q + 2 = p + Len(WordsOf(c)) + 1 BY <1>3, <2>2
  <2> QED BY <1>3, <2>1, <2>5, <2>7, <2>8, <2>9
<1> QED BY <1>4, <1>5, <1>6

(* The recursion of fromString *)
WordsFrom(words, asm, f, i) ==
  IF i > Len(words) THEN [ok |-> TRUE, chunks |-> <<>>]
  ELSE IF WordsToChunk(words, i, asm).next = 0 THEN [ok |-> FALSE, chunks |-> <<>>]
  ELSE [ok |-> f[WordsToChunk(words, i, asm).next].ok,
        chunks |-> Cons(WordsToChunk(words, i, asm).chunk,
                        f[WordsToChunk(words, i, asm).next].chunks)]

LEMMA NextWord ==
  ASSUME NEW words, NEW i \in Nat, NEW asm
  PROVE  LET next == WordsToChunk(words, i, asm).next IN next \in {0, i + 1, i + 2, i + 3}
BY DEF WordsToChunk

LEMMA FromWordsRecursion ==
  ASSUME NEW words \in Seq(Word), NEW asm
  PROVE  \E from : /\ FromWords(words, asm) = from[1]
                   /\ \A i \in Nat : from[i] = WordsFrom(words, asm, from, i)
<1> DEFINE read(i) == WordsToChunk(words, i, asm)
           T == {read(i).chunk : i \in Nat}
           R == [ok : BOOLEAN, chunks : Seq(T)]
           B == [f \in [Nat -> R] |-> [i \in Nat |-> WordsFrom(words, asm, f, i)]]
           rank == [i \in Nat |-> IF i > Len(words) THEN 0 ELSE Len(words) + 1 - i]
           Rec(f) == [i \in Nat |->
                       IF i > Len(words) THEN [ok |-> TRUE, chunks |-> <<>>]
                       ELSE LET r == WordsToChunk(words, i, asm)
                            IN  IF r.next = 0 THEN [ok |-> FALSE, chunks |-> <<>>]
                                ELSE LET rest == f[r.next]
                                     IN  [ok |-> rest.ok, chunks |-> Cons(r.chunk, rest.chunks)]]
           from == CHOOSE f : f = Rec(f)
<1>1. Len(words) \in Nat BY LenProperties
<1>2. \A i \in Nat : read(i).chunk \in T /\ read(i).next \in Nat
                      /\ (read(i).next # 0 => read(i).next > i)
  BY NextWord
<1>3. R # {} /\ [ok |-> TRUE, chunks |-> <<>>] \in R /\ [ok |-> FALSE, chunks |-> <<>>] \in R
  <2>1. <<>> \in Seq(T) BY EmptySeq
  <2> HIDE DEF T
  <2>2. [ok |-> TRUE, chunks |-> <<>>] \in R /\ [ok |-> FALSE, chunks |-> <<>>] \in R BY <2>1
  <2> HIDE DEF R
  <2> QED BY <2>2, Zenon
<1>4. ASSUME NEW f \in [Nat -> R], NEW i \in Nat PROVE WordsFrom(words, asm, f, i) \in R
  <2> DEFINE rest == f[read(i).next]
             e == read(i).chunk
  <2>1. rest \in R /\ e \in T BY <1>2
  <2>2. WordsFrom(words, asm, f, i) \in {[ok |-> TRUE, chunks |-> <<>>],
          [ok |-> FALSE, chunks |-> <<>>], [ok |-> rest.ok, chunks |-> Cons(e, rest.chunks)]}
    BY Zenon DEF WordsFrom
  <2> HIDE DEF rest, e, T
  <2>3. Cons(e, rest.chunks) \in Seq(T) BY <2>1, ConsIsSeq
  <2>4. [ok |-> rest.ok, chunks |-> Cons(e, rest.chunks)] \in R BY <2>1, <2>3
  <2> HIDE DEF R
  <2> QED BY <1>3, <2>2, <2>4
<1>5. B \in [[Nat -> R] -> [Nat -> R]]
  <2> HIDE DEF R
  <2> QED BY <1>4
<1>6. rank \in [Nat -> 0 .. Len(words) + 1] BY <1>1
<1>7. Causal(Nat, R, rank, B)
  <2> SUFFICES ASSUME NEW f \in [Nat -> R], NEW g \in [Nat -> R], NEW i \in Nat,
                      \A j \in Nat : rank[j] < rank[i] => f[j] = g[j]
               PROVE  B[f][i] = B[g][i]
    BY DEF Causal
  <2> HIDE DEF R
  <2>1. CASE i <= Len(words) /\ read(i).next # 0
    <3>1. read(i).next \in Nat /\ read(i).next > i BY <1>2, <2>1
    <3> HIDE DEF read
    <3>2. rank[read(i).next] < rank[i] BY <2>1, <3>1, <1>1
    <3>3. f[read(i).next] = g[read(i).next] BY <3>1, <3>2
    <3> QED BY <3>3 DEF WordsFrom, read
  <2>2. CASE i > Len(words) \/ read(i).next = 0 BY <2>2 DEF WordsFrom
  <2> QED BY <2>1, <2>2, <1>1
<1>8. Solvable(Nat, R, B)
  <2> HIDE DEF B, rank, R
  <2>1. Len(words) + 1 \in Nat BY <1>1
  <2> QED BY <1>3, <1>5, <1>6, <1>7, <2>1, RecursionExists, Zenon
<1>9. PICK f \in [Nat -> R] : \A i \in Nat : f[i] = WordsFrom(words, asm, f, i)
  <2> HIDE DEF R
  <2> QED BY <1>8 DEF Solvable
<1>10. f = Rec(f)
  <2> HIDE DEF R
  <2> QED BY <1>9 DEF WordsFrom
<1>11. from = Rec(from)
  <2>1. \E g : g = Rec(g)
    <3> HIDE DEF Rec
    <3> QED BY <1>10
  <2> HIDE DEF Rec
  <2> QED BY <2>1, Zenon
<1>12. \A i \in Nat : from[i] = WordsFrom(words, asm, from, i)
  <2> HIDE DEF from
  <2> QED BY <1>11 DEF WordsFrom
<1>13. FromWords(words, asm) = from[1] BY Zenon DEF FromWords
<1> HIDE DEF from
<1> QED BY <1>12, <1>13
(* The words of a script are read back as its chunks. *)
LEMMA WordsReadBack ==
  ASSUME NEW s \in Seq(Chunk), \A i \in DOMAIN s : Readable(s[i]) /\ Nameable(s[i])
  PROVE  FromWords(ToWords(s, FALSE), FALSE) = [ok |-> TRUE, chunks |-> s]
<1> DEFINE seqs == [i \in DOMAIN s |-> ChunkToWords(s[i], FALSE)]
           words == ToWords(s, FALSE)
           n == Len(s)
<1>1. /\ n \in Nat /\ DOMAIN s = 1 .. n
      /\ \A i \in 1 .. n : s[i] \in Chunk /\ Readable(s[i]) /\ Nameable(s[i])
  BY LenProperties, ElementOfSeq
<1>2. \A i \in 1 .. n : WordsOf(s[i]) \in Seq(Word) /\ Len(WordsOf(s[i])) \in 1 .. 3
  BY <1>1, ChunkWords
<1>3. seqs \in Seq(Seq(Word)) /\ Len(seqs) = n /\ \A i \in 1 .. n : seqs[i] = WordsOf(s[i])
  <2>1. \A i \in 1 .. n : ChunkToWords(s[i], FALSE) = WordsOf(s[i]) BY DEF WordsOf
  <2>2. seqs \in [1 .. n -> Seq(Word)] BY <1>1, <1>2, <2>1
  <2>3. \A i \in 1 .. n : seqs[i] = WordsOf(s[i]) BY <1>1, <2>1
  <2> HIDE DEF n, seqs
  <2> QED BY <1>1, <2>2, <2>3
<1>4. words = FlattenSeq(seqs) BY DEF ToWords
<1> HIDE DEF seqs, words
<1>5. PICK at : Placed(seqs, at, words) BY <1>3, <1>4, Flattened
<1>6. words \in Seq(Word) /\ Len(words) \in Nat
  <2>1. words \in Seq(Word) BY <1>3, <1>4, Flattened
  <2> QED BY <2>1, LenProperties
<1>7. PICK from : /\ FromWords(words, FALSE) = from[1]
                  /\ \A i \in Nat : from[i] = WordsFrom(words, FALSE, from, i)
  BY <1>6, FromWordsRecursion
<1> DEFINE place == [i \in 0 .. n |-> at[i] + 1]
<1> HIDE DEF n
<1>8. /\ \A i \in 0 .. n : at[i] \in Nat /\ place[i] = at[i] + 1
      /\ at[0] = 0 /\ at[n] = Len(words)
      /\ \A i \in 1 .. n : /\ at[i] = at[i - 1] + Len(WordsOf(s[i])) /\ at[i] <= Len(words)
                            /\ LiesAt(words, at[i - 1], WordsOf(s[i]))
  BY <1>3, <1>5, Zenon DEF Placed
<1> HIDE DEF place
<1>9. from[place[n]] = [ok |-> TRUE, chunks |-> <<>>]
  <2>1. n \in 0 .. n BY <1>1
  <2>2. place[n] = Len(words) + 1 BY <1>8, <2>1
  <2>3. place[n] \in Nat /\ place[n] > Len(words) BY <1>6, <2>2
  <2> QED BY <1>7, <2>3 DEF WordsFrom
<1>10. ASSUME NEW i \in 1 .. n
       PROVE  from[place[i - 1]] =
                [ok |-> from[place[i]].ok, chunks |-> Cons(s[i], from[place[i]].chunks)]
  <2> DEFINE c == s[i]
             p == at[i - 1]
             m == Len(WordsOf(c))
  <2>1. i - 1 \in 0 .. n /\ i \in 0 .. n BY <1>1
  <2>2. c \in Chunk /\ Readable(c) /\ Nameable(c) /\ m \in 1 .. 3 BY <1>1, <1>2
  <2>3. /\ p \in Nat /\ p + m <= Len(words) /\ LiesAt(words, p, WordsOf(c))
        /\ place[i - 1] = p + 1 /\ place[i] = p + m + 1
    <3>1. at[i] = p + m /\ LiesAt(words, p, WordsOf(c)) BY <1>8
    <3> HIDE DEF m, c
    <3>2. at[i] <= Len(words) /\ place[i] = at[i] + 1 /\ p \in Nat /\ place[i - 1] = p + 1
      BY <1>8, <2>1
    <3> HIDE DEF p
    <3> QED BY <3>1, <3>2
  <2> HIDE DEF c, p
  <2>4. WordsToChunk(words, p + 1, FALSE) = [chunk |-> c, next |-> p + m + 1]
    BY <1>6, <2>2, <2>3, ReadsWords
  <2> HIDE DEF m
  <2>5. /\ WordsToChunk(words, p + 1, FALSE).chunk = c
        /\ WordsToChunk(words, p + 1, FALSE).next = place[i]
    <3> DEFINE read == WordsToChunk(words, p + 1, FALSE)
               next == place[i]
    <3>1. p + m + 1 = next BY <2>3
    <3>2. read = [chunk |-> c, next |-> p + m + 1] BY <2>4
    <3> HIDE DEF read, next
    <3>3. read.chunk = c /\ read.next = next BY <3>1, <3>2
    <3> QED BY <3>3 DEF read, next
  <2>6. p + 1 \in Nat /\ ~(p + 1 > Len(words)) /\ place[i] # 0 BY <1>6, <2>2, <2>3
  <2>7. from[p + 1] = WordsFrom(words, FALSE, from, p + 1) BY <1>7, <2>6
  <2>8. WordsFrom(words, FALSE, from, p + 1) =
          [ok |-> from[place[i]].ok, chunks |-> Cons(c, from[place[i]].chunks)]
    BY <2>5, <2>6 DEF WordsFrom
  <2>9. from[place[i - 1]] = [ok |-> from[place[i]].ok, chunks |-> Cons(c, from[place[i]].chunks)]
    BY <2>3, <2>7, <2>8
  <2> QED BY <2>9 DEF c
<1>11. from[place[0]] = [ok |-> TRUE, chunks |-> s]
  <2>1. from[place[Len(s)]] = [ok |-> TRUE, chunks |-> <<>>] BY <1>9 DEF n
  <2>2. \A i \in 1 .. Len(s) :
          from[place[i - 1]] = [ok |-> from[place[i]].ok, chunks |-> Cons(s[i], from[place[i]].chunks)]
    BY <1>10 DEF n
  <2> QED BY <2>1, <2>2, ReadsThrough
<1>12. place[0] = 1
  <2>1. 0 \in 0 .. n BY <1>1
  <2> QED BY <1>8, <2>1
<1> QED BY <1>7, <1>11, <1>12 DEF words

-----------------------------------------------------------------------------
(* Multisig: what the scripts of its input and of its output leave         *)

(* The rest of a sequence, from one of its elements on *)
LEMMA RestOf ==
  ASSUME NEW S, NEW s \in Seq(S), NEW i \in 1 .. Len(s)
  PROVE  Cons(s[i], SubSeq(s, i + 1, Len(s))) = SubSeq(s, i, Len(s))
<1>1. Len(s) \in i .. Len(s) BY LenProperties
<1> QED BY <1>1, SubSeqRecursiveFirst, Zenon DEF Cons

(* A script without the chunk that is looked for stays as it is. *)
LEMMA FindsNothing ==
  ASSUME NEW s \in Seq(Chunk), NEW script,
         \A i \in 1 .. Len(s) : ChunkToBuffer(s[i]) # ToBuffer(script)
  PROVE  FindAndDelete(s, script) = s
<1> DEFINE n == Len(s)
           buf == ToBuffer(script)
           rest(i) == SubSeq(s, i, n)
           Body(f, i) ==
             IF i > n THEN <<>>
             ELSE IF ChunkToBuffer(s[i]) # buf THEN Cons(s[i], f[i + 1])
             ELSE (IF i < n THEN <<s[i + 1]>> ELSE <<>>) \o f[i + 2]
           Rec(f) == [i \in Nat |-> Body(f, i)]
           from == CHOOSE f : f = Rec(f)
           g == [i \in Nat |-> rest(i)]
           h == [i \in Nat |-> IF i = 0 THEN Body(g, 0) ELSE rest(i)]
<1>1. n \in Nat BY LenProperties
<1>2. FindAndDelete(s, script) = from[1] BY Zenon DEF FindAndDelete
<1>3. \A i \in 1 .. n : ChunkToBuffer(s[i]) # buf /\ Cons(s[i], rest(i + 1)) = rest(i)
  BY RestOf
<1>4. \A i \in Nat : i > n => rest(i) = <<>> BY <1>1, SubSeqEmpty
<1> HIDE DEF rest, n, buf
<1>5. ASSUME NEW i \in Nat PROVE h[i] = Body(h, i)
  <2>1. /\ \A j \in Nat : g[j] = rest(j)
        /\ h[0] = Body(g, 0) /\ \A j \in Nat \ {0} : h[j] = rest(j)
    <3> HIDE DEF Body
    <3> QED OBVIOUS
  <2>2. i + 1 \in Nat \ {0} /\ i + 2 \in Nat \ {0} OBVIOUS
  <2>3. h[i + 1] = g[i + 1] /\ h[i + 2] = g[i + 2] BY <2>1, <2>2
  <2> HIDE DEF g, h
  <2>4. Body(h, i) = Body(g, i) BY <2>3
  <2>5. CASE i = 0 BY <2>1, <2>4, <2>5
  <2>6. CASE i # 0
    <3>1. h[i] = rest(i) /\ g[i + 1] = rest(i + 1) BY <2>1, <2>2, <2>6
    <3>2. CASE i > n BY <3>1, <3>2, <2>4, <1>4
    <3>3. CASE ~(i > n)
      <4>1. i \in 1 .. n BY <3>3, <2>6, <1>1
      <4> QED BY <4>1, <3>1, <3>3, <2>4, <1>3
    <3> QED BY <3>2, <3>3
  <2> QED BY <2>5, <2>6
<1>6. from = Rec(from)
  <2>1. h = Rec(h)
    <3>1. h = [i \in Nat |-> h[i]] OBVIOUS
    <3> HIDE DEF h, Body
    <3> QED BY <3>1, <1>5
  <2>2. \E f : f = Rec(f)
    <3> HIDE DEF h, Rec
    <3> QED BY <2>1
  <2> HIDE DEF Rec
  <2> QED BY <2>2, Zenon
<1>7. \A i \in Nat : from[i] = Body(from, i)
  <2> HIDE DEF from, Body
  <2> QED BY <1>6
<1> HIDE DEF from
<1> DEFINE Right == {d \in Nat : d <= n => from[n + 1 - d] = rest(n + 1 - d)}
<1>8. ASSUME NEW d \in Nat, d \notin Right, \A j \in Nat : j < d => j \in Right PROVE FALSE
  <2>1. d <= n /\ from[n + 1 - d] # rest(n + 1 - d) BY <1>8
  <2>2. CASE d = 0
    <3>1. n + 1 - d \in Nat /\ n + 1 - d > n BY <2>2, <1>1
    <3> QED BY <3>1, <2>1, <1>4, <1>7
  <2>3. CASE d # 0
    <3> DEFINE i == n + 1 - d
    <3>1. i \in 1 .. n /\ i \in Nat /\ ~(i > n) /\ n + 1 - (d - 1) = i + 1 BY <2>1, <2>3, <1>1
    <3>2. d - 1 \in Nat /\ d - 1 < d /\ d - 1 <= n BY <2>1, <2>3, <1>1
    <3>3. d - 1 \in Right
      <4> HIDE DEF Right
      <4> QED BY <3>2, <1>8
    <3>4. from[n + 1 - (d - 1)] = rest(n + 1 - (d - 1)) BY <3>2, <3>3
    <3>6. from[i] # rest(i) BY <2>1
    <3> HIDE DEF i
    <3>5. from[i + 1] = rest(i + 1) BY <3>1, <3>4
    <3>7. from[i] = Cons(s[i], from[i + 1]) BY <3>1, <1>3, <1>7
    <3> QED BY <3>1, <3>5, <3>6, <3>7, <1>3
  <2> QED BY <2>2, <2>3
<1>9. n \in Right
  <2> HIDE DEF Right
  <2> QED BY <1>1, <1>8, LeastMissing
<1>10. from[1] = rest(1) BY <1>1, <1>9
<1>11. rest(1) = s BY SubSeqFull, Zenon DEF rest, n
<1> QED BY <1>2, <1>10, <1>11

(* Deleting what is not there, once for every signature *)
DeletedAll(s, sigs) ==
  FoldLeft(LAMBDA t, sig : FindAndDelete(t, <<PushChunk(sig)>>), s, sigs)

LEMMA DeletesNothing ==
  ASSUME NEW s, NEW sigs, Len(sigs) \in Nat, DOMAIN sigs = 1 .. Len(sigs),
         \A i \in 1 .. Len(sigs) : FindAndDelete(s, <<PushChunk(sigs[i])>>) = s
  PROVE  DeletedAll(s, sigs) = s
<1> DEFINE n == Len(sigs)
           D == DOMAIN sigs
           Rec(f) == [p \in SUBSET D |->
                       IF p = {} THEN s
                       ELSE LET x == Max(p)
                            IN  FindAndDelete(f[p \ {x}], <<PushChunk(sigs[x])>>)]
           iter == CHOOSE f : f = Rec(f)
           g == [p \in SUBSET D |-> s]
<1>1. DeletedAll(s, sigs) = iter[D] BY Zenon DEF DeletedAll, FoldLeft, MapThenFoldSet
<1>2. ASSUME NEW p \in SUBSET D, p # {}
      PROVE  Max(p) \in p /\ \A y \in p : Max(p) >= y
  <2>1. \E x \in p : \A y \in p : x >= y
    <3> DEFINE U == {n - y : y \in p}
    <3>1. U \in SUBSET Nat /\ U # {} BY <1>2
    <3>2. PICK u \in U : \A v \in U : u <= v
      <4> HIDE DEF U
      <4> QED BY <3>1, LeastNat
    <3>3. PICK x \in p : u = n - x BY <3>2
    <3>4. \A y \in p : n - x <= n - y BY <3>2, <3>3
    <3>5. \A y \in p : y \in Int BY <1>2
    <3>6. \A y \in p : x >= y BY <3>3, <3>4, <3>5
    <3> QED BY <3>3, <3>6
  <2> QED BY <2>1, Zenon DEF Max
<1>3. iter = Rec(iter)
  <2>1. \A p \in SUBSET D : p # {} =>
          FindAndDelete(g[p \ {Max(p)}], <<PushChunk(sigs[Max(p)])>>) = s
    <3> TAKE p \in SUBSET D
    <3> HAVE p # {}
    <3>1. Max(p) \in 1 .. n BY <1>2
    <3>2. g[p \ {Max(p)}] = s OBVIOUS
    <3> HIDE DEF g
    <3> QED BY <3>1, <3>2
  <2>2. g = Rec(g) BY <2>1, Zenon
  <2>3. \E f : f = Rec(f)
    <3> HIDE DEF g, Rec
    <3> QED BY <2>2
  <2> HIDE DEF Rec
  <2> QED BY <2>3, Zenon
<1> DEFINE Step1(p) == IF p = {} THEN s
                       ELSE FindAndDelete(iter[p \ {Max(p)}], <<PushChunk(sigs[Max(p)])>>)
<1>4. \A p \in SUBSET D : iter[p] = Step1(p)
  <2> HIDE DEF iter
  <2> QED BY <1>3
<1> HIDE DEF iter
<1> DEFINE Right == {k \in Nat : \A p \in SUBSET D : (\A y \in p : y <= k) => iter[p] = s}
<1>5. ASSUME NEW k \in Nat, k \notin Right, \A j \in Nat : j < k => j \in Right PROVE FALSE
  <2>1. PICK p \in SUBSET D : (\A y \in p : y <= k) /\ iter[p] # s BY <1>5
  <2>2. p # {} BY <2>1, <1>4
  <2>3. Max(p) \in p /\ Max(p) \in 1 .. n /\ \A y \in p : y \in Nat /\ y <= Max(p) BY <2>2, <1>2
  <2> DEFINE x == Max(p)
             q == p \ {x}
  <2>4. q \in SUBSET D OBVIOUS
  <2>5. x \in Nat /\ x >= 1 /\ x <= k /\ x - 1 \in Nat /\ x - 1 < k BY <2>1, <2>3
  <2>6. \A y \in q : y <= x - 1 BY <2>3, <2>5
  <2>7. x - 1 \in Right
    <3> HIDE DEF Right, x
    <3> QED BY <2>5, <1>5
  <2>8. iter[q] = s
    <3> HIDE DEF x, q
    <3> QED BY <2>4, <2>6, <2>7
  <2>9. iter[p] = FindAndDelete(iter[q], <<PushChunk(sigs[x])>>) BY <2>2, <1>4
  <2> HIDE DEF q
  <2>10. FindAndDelete(s, <<PushChunk(sigs[x])>>) = s BY <2>3
  <2> QED BY <2>1, <2>8, <2>9, <2>10
<1>6. n \in Right
  <2> HIDE DEF Right
  <2> QED BY <1>5, LeastMissing
<1>7. \A y \in D : y <= n OBVIOUS
<1> QED BY <1>1, <1>6, <1>7

(* A script of one chunk has its bytes. *)
LEMMA OneChunk ==
  ASSUME NEW c, ChunkToBuffer(c) \in Buffer
  PROVE  ToBuffer(<<c>>) = ChunkToBuffer(c)
<1> DEFINE b == ChunkToBuffer(c)
           seqs == [i \in DOMAIN <<c>> |-> ChunkToBuffer(<<c>>[i])]
           all == FlattenSeq(seqs)
<1>1. ToBuffer(<<c>>) = all BY DEF ToBuffer
<1>2. DOMAIN <<c>> = 1 .. 1 /\ <<c>>[1] = c OBVIOUS
<1>3. seqs = [i \in 1 .. 1 |-> b] BY <1>2
<1> HIDE DEF b, seqs
<1>4. seqs \in Seq(Buffer) /\ Len(seqs) = 1 /\ seqs[1] = b
  <2>1. seqs = <<b>> BY <1>3
  <2>2. b \in Buffer BY DEF b
  <2> HIDE DEF Buffer
  <2>3. <<b>> \in Seq(Buffer) /\ Len(<<b>>) = 1 /\ <<b>>[1] = b BY <2>2
  <2> QED BY <2>1, <2>3
<1>5. all \in Buffer /\ \E at : Placed(seqs, at, all) BY <1>4, Flattened DEF Buffer
<1> HIDE DEF all
<1>6. PICK at : Placed(seqs, at, all) BY <1>5
<1>7. b \in Buffer /\ Len(b) \in Nat BY BytesOf DEF b
<1>8. Len(all) = Len(b) /\ \A i \in 1 .. Len(b) : all[i] = b[i]
  <2>1. /\ at[0] = 0 /\ at[1] = at[1 - 1] + Len(b) /\ LiesAt(all, at[1 - 1], b)
        /\ at[1] = Len(all)
    BY <1>4, <1>6, 1 \in 1 .. 1 DEF Placed
  <2>2. 1 - 1 = 0 /\ 0 + Len(b) = Len(b) /\ \A i \in 1 .. Len(b) : 0 + i = i BY <1>7
  <2> QED BY <2>1, <2>2 DEF LiesAt
<1>9. all = b BY <1>5, <1>7, <1>8, SeqEqual DEF Buffer
<1> QED BY <1>1, <1>9 DEF b

(* A byte, and two parts behind it *)
InParts(b, num, f, g) ==
  /\ b \in Buffer /\ b[1] = num /\ Len(b) = 1 + (Len(f) + Len(g))
  /\ \A i \in 1 .. Len(g) : b[1 + (Len(f) + i)] = g[i]

LEMMA ByteAndParts ==
  ASSUME NEW num \in Byte, NEW f \in Buffer, NEW g \in Buffer
  PROVE  InParts(<<num>> \o (f \o g), num, f, g)
<1> DEFINE v == f \o g
           u == <<num>>
           b == u \o v
<1>1. u \in Seq(Byte) /\ Len(u) = 1 /\ u[1] = num OBVIOUS
<1>2. /\ v \in Seq(Byte) /\ Len(v) = Len(f) + Len(g)
      /\ \A i \in 1 .. Len(g) : v[Len(f) + i] = g[i]
  BY Joined DEF Buffer
<1>3. Len(f) \in Nat /\ Len(g) \in Nat BY BytesOf
<1> HIDE DEF u, v
<1>4. /\ b \in Seq(Byte) /\ Len(b) = Len(u) + Len(v)
      /\ \A i \in 1 .. Len(u) : b[i] = u[i]
      /\ \A i \in 1 .. Len(v) : b[Len(u) + i] = v[i]
  <2> DEFINE S == Byte
  <2>1. u \in Seq(S) /\ v \in Seq(S) BY <1>1, <1>2
  <2> HIDE DEF S
  <2>2. b \in Seq(S) /\ Len(b) = Len(u) + Len(v) BY <2>1, Joined
  <2>3. \A i \in 1 .. Len(u) : b[i] = u[i] BY <2>1, Joined
  <2>4. \A i \in 1 .. Len(v) : b[Len(u) + i] = v[i] BY <2>1, Joined
  <2> QED BY <2>2, <2>3, <2>4 DEF S
<1> HIDE DEF b
<1>5. b[1] = num BY <1>1, <1>4
<1>6. \A i \in 1 .. Len(g) : b[1 + (Len(f) + i)] = g[i]
  <2> TAKE i \in 1 .. Len(g)
  <2>1. Len(f) + i \in 1 .. Len(v) BY <1>2, <1>3
  <2> QED BY <2>1, <1>1, <1>2, <1>4
<1>7. b \in Buffer /\ Len(b) = 1 + (Len(f) + Len(g)) BY <1>1, <1>2, <1>4 DEF Buffer
<1> QED BY <1>5, <1>6, <1>7, Zenon DEF b, u, v, InParts

(* A signature is pushed with other bytes than a chunk that is not that push. *)
LEMMA OtherBytes ==
  ASSUME NEW c \in Chunk, Readable(c), HasBuf(c) \/ c.op > Opcode.OP_PUSHDATA4,
         NEW sig \in Buffer, HasBuf(c) => c.buf # sig
  PROVE  ChunkToBuffer(c) # ToBuffer(<<PushChunk(sig)>>)
<1> DEFINE p == PushChunk(sig)
           num == p.op
           f == LittleEndian(Len(sig), LengthBytes(num))
           b == <<num>> \o (f \o sig)
<1>1. Len(sig) \in Nat BY BytesOf
<1>2. p.buf = sig /\ p.len = Len(sig) /\ HasBuf(p) BY DEF PushChunk, Pushes, HasBuf
<1>3. num \in 0 .. 77
  <2>1. Opcode.OP_PUSHDATA1 = 76 /\ Opcode.OP_PUSHDATA2 = 77 BY DEF Opcode
  <2>2. num = IF Len(sig) < 76 THEN Len(sig) ELSE IF Len(sig) < 256 THEN 76 ELSE 77
    BY <2>1 DEF PushChunk, Pushes
  <2> DEFINE l == Len(sig)
  <2>3. num = (IF l < 76 THEN l ELSE IF l < 256 THEN 76 ELSE 77) /\ l \in Nat BY <2>2, <1>1
  <2> HIDE DEF num, l
  <2> QED BY <2>3
<1>4. Opcode.OP_PUSHDATA4 = 78 BY DEF Opcode
<1>5. num \in Byte /\ num <= Opcode.OP_PUSHDATA4 BY <1>3, <1>4 DEF Byte
<1>6. ChunkToBuffer(p) = b BY <1>2, <1>5, Zenon DEF ChunkToBuffer
<1>7. LengthBytes(num) \in 0 .. 4
  <2> HIDE DEF num
  <2> QED BY LengthBytesIs
<1>8. f \in Buffer /\ Len(f) = LengthBytes(num)
  <2> HIDE DEF num
  <2> QED BY <1>1, <1>7, LittleEndianBytes
<1> HIDE DEF p, num, f
<1>9. /\ b \in Buffer /\ b[1] = num /\ Len(b) = 1 + (Len(f) + Len(sig))
      /\ \A i \in 1 .. Len(sig) : b[1 + (Len(f) + i)] = sig[i]
  BY <1>5, <1>8, ByteAndParts, ZenonT(60) DEF InParts
<1> HIDE DEF b
<1>10. ToBuffer(<<p>>) = b BY <1>6, <1>9, OneChunk
<1>11. CASE ~HasBuf(c)
  <2>1. ChunkToBuffer(c) = <<c.op>> /\ <<c.op>>[1] = c.op BY <1>11, ChunkBytes
  <2>2. c.op # num BY <1>3, <1>4, <1>11, ChunkFields
  <2> QED BY <2>1, <2>2, <1>9, <1>10 DEF p
<1>12. CASE HasBuf(c)
  <2> DEFINE e == LittleEndian(c.len, LengthBytes(c.op))
  <2>1. /\ ChunkToBuffer(c) = <<c.op>> \o (e \o c.buf)
        /\ c.buf \in Buffer /\ c.len = Len(c.buf) /\ c.op \in 1 .. 78
    BY <1>12, ChunkBytes
  <2>2. c.op \in Byte /\ Len(c.buf) \in Nat BY <2>1, ChunkFields, BytesOf
  <2>3. e \in Buffer /\ Len(e) = LengthBytes(c.op)
    <3>1. LengthBytes(c.op) \in 0 .. 4 BY <2>1, LengthBytesSmall
    <3> QED BY <2>1, <2>2, <3>1, LittleEndianBytes
  <2> HIDE DEF e
  <2> DEFINE a == <<c.op>> \o (e \o c.buf)
  <2>4. /\ a[1] = c.op /\ Len(a) = 1 + (Len(e) + Len(c.buf))
        /\ \A i \in 1 .. Len(c.buf) : a[1 + (Len(e) + i)] = c.buf[i]
    <3>1. InParts(a, c.op, e, c.buf) BY <2>1, <2>2, <2>3, ByteAndParts, Zenon
    <3> QED BY <3>1, Zenon DEF InParts
  <2>5. ChunkToBuffer(c) = a BY <2>1
  <2> HIDE DEF a
  <2>6. ASSUME a = b PROVE FALSE
    <3>1. c.op = num BY <2>4, <2>6, <1>9
    <3>2. Len(e) = Len(f) /\ Len(f) \in Nat BY <3>1, <2>3, <1>7, <1>8
    <3>3. Len(c.buf) = Len(sig) BY <2>2, <2>4, <2>6, <3>2, <1>1, <1>9
    <3>4. \A i \in 1 .. Len(sig) : c.buf[i] = sig[i] BY <2>4, <2>6, <3>2, <3>3, <1>9
    <3>5. c.buf = sig BY <2>1, <3>3, <3>4, SeqEqual DEF Buffer
    <3> QED BY <3>5, <1>12
  <2> QED BY <2>5, <2>6, <1>10 DEF p
<1> QED BY <1>11, <1>12

(* The places of a sequence, from the last one *)
Reversed(s, t) ==
  /\ Len(s) \in Nat /\ Len(t) = Len(s)
  /\ \A j \in 1 .. Len(s) : s[j] = t[Len(s) + 1 - j]

LEMMA ReversedBack ==
  ASSUME NEW s, NEW t, Reversed(s, t)
  PROVE  Reversed(t, s)
<1> DEFINE n == Len(s)
<1>1. n \in Nat /\ Len(t) = n /\ \A j \in 1 .. n : s[j] = t[n + 1 - j] BY DEF Reversed
<1> HIDE DEF n
<1>2. \A j \in 1 .. n : t[j] = s[n + 1 - j]
  <2> TAKE j \in 1 .. n
  <2>1. n + 1 - j \in 1 .. n /\ n + 1 - (n + 1 - j) = j BY <1>1
  <2> QED BY <2>1, <1>1
<1> QED BY <1>1, <1>2 DEF n, Reversed

(* Signatures and keys are in order also when both are read from the last one. *)
LEMMA OrderReverses ==
  ASSUME NEW sigs, NEW keys, NEW script, NEW us, NEW ks, Reversed(us, sigs),
         Reversed(ks, keys), OrderFrom(sigs, keys, script, 1, 1)
  PROVE  OrderFrom(us, ks, script, 1, 1)
<1> DEFINE n == Len(us)
           K == Len(ks)
<1>1. n \in Nat /\ Len(sigs) = n /\ \A j \in 1 .. n : us[j] = sigs[n + 1 - j] BY DEF Reversed
<1>2. K \in Nat /\ Len(keys) = K /\ \A j \in 1 .. K : ks[j] = keys[K + 1 - j] BY DEF Reversed
<1>3. PICK f \in [1 .. n -> 1 .. K] :
        /\ \A a, b \in 1 .. n : a < b => f[a] < f[b]
        /\ \A a \in 1 .. n : Signs(sigs[a], keys[f[a]], script)
  BY <1>1, <1>2 DEF OrderFrom
<1> HIDE DEF n, K
<1> DEFINE g == [a \in 1 .. n |-> K + 1 - f[n + 1 - a]]
<1>4. \A a \in 1 .. n : /\ n + 1 - a \in 1 .. n /\ f[n + 1 - a] \in 1 .. K
                        /\ g[a] = K + 1 - f[n + 1 - a] /\ g[a] \in 1 .. K
  <2> TAKE a \in 1 .. n
  <2>1. n + 1 - a \in 1 .. n BY <1>1
  <2>2. f[n + 1 - a] \in 1 .. K BY <2>1
  <2>3. K + 1 - f[n + 1 - a] \in 1 .. K BY <2>2, <1>2
  <2> QED BY <2>1, <2>2, <2>3
<1>5. g \in [1 .. n -> 1 .. K] BY <1>4
<1> HIDE DEF g
<1>6. \A a, b \in 1 .. n : a < b => g[a] < g[b]
  <2> TAKE a, b \in 1 .. n
  <2> HAVE a < b
  <2>1. n + 1 - b < n + 1 - a BY <1>1
  <2>2. f[n + 1 - b] < f[n + 1 - a] BY <2>1, <1>3, <1>4
  <2> DEFINE x == f[n + 1 - b]
             y == f[n + 1 - a]
  <2>3. x \in Int /\ y \in Int /\ x < y /\ g[a] = K + 1 - y /\ g[b] = K + 1 - x
    BY <2>2, <1>4
  <2> HIDE DEF x, y
  <2> QED BY <2>3, <1>2
<1>7. \A a \in 1 .. n : Signs(us[a], ks[g[a]], script)
  <2> TAKE a \in 1 .. n
  <2> DEFINE y == f[n + 1 - a]
  <2>1. /\ y \in 1 .. K /\ g[a] \in 1 .. K /\ g[a] = K + 1 - y /\ us[a] = sigs[n + 1 - a]
        /\ Signs(sigs[n + 1 - a], keys[y], script)
    BY <1>1, <1>3, <1>4
  <2> HIDE DEF y
  <2>2. K + 1 - g[a] = y BY <2>1, <1>2
  <2>3. ks[g[a]] = keys[y] BY <2>1, <2>2, <1>2
  <2> QED BY <2>1, <2>3
<1> QED BY <1>5, <1>6, <1>7, Zenon DEF OrderFrom, n, K

(* The opcodes that push and are not reserved *)
LEMMA PushesNotDisabled ==
  ASSUME NEW num \in Nat, num <= Opcode.OP_16
  PROVE  num \notin Disabled
<1>1. \A d \in Disabled : d \in 97 .. 255 BY DEF Disabled, Opcode
<1> QED BY <1>1, OpcodeValues

LEMMA ReadableLength ==
  ASSUME NEW c, Readable(c), HasBuf(c)
  PROVE  c.len = Len(c.buf)
BY DEF Readable

LEMMA NoneSkipped ==
  ASSUME NEW m, m.vfExec = <<>>
  PROVE  Executing(m)
BY DEF Executing

(* The next chunk is a readable push. *)
PushesNext(m) ==
  LET chunk == m.script[m.pc + 1]
  IN  /\ m.pc < Len(m.script) /\ m.vfExec = <<>> /\ m.errstr = ""
      /\ Readable(chunk) /\ chunk.op <= Opcode.OP_16 /\ chunk.op # 80

(* A readable push is refused for a limit or its encoding, or goes on. *)
LEMMA PushStep ==
  ASSUME NEW m, Machine(m), PushesNext(m)
  PROVE  \/ Step(m).errstr \in Refusals
         \/ /\ Step(m).errstr = "" /\ Step(m).pbegincodehash = m.pbegincodehash
            /\ Step(m).stack = Append(m.stack, Pushed(m.script[m.pc + 1]))
            /\ Step(m).vfExec = <<>> /\ Step(m).flags = m.flags
<1> DEFINE chunk == m.script[m.pc + 1]
           num == chunk.op
<1>11. /\ m.pc < Len(m.script) /\ m.vfExec = <<>> /\ m.errstr = ""
       /\ Readable(chunk) /\ num <= Opcode.OP_16 /\ num # 80
  BY Zenon DEF PushesNext
<1>1. Executing(m) BY <1>11, NoneSkipped
<1>2. chunk \in Chunk BY <1>1, <1>11, StepBranches, Zenon
<1>3. PICK k : /\ OnlyCounts(k, m)
               /\ \/ Step(m).errstr \in {"PUSH_SIZE", "OP_COUNT"}
                  \/ num \in Disabled /\ Step(m).errstr = "DISABLED_OPCODE"
                  \/ Step(m) = IF num <= Opcode.OP_PUSHDATA4 THEN PushData(k, chunk)
                               ELSE Execute(k, num)
  BY <1>1, <1>11, StepBranches, Zenon
<1>4. num \in Byte /\ num \in Nat /\ num # 80 /\ num <= 96 /\ num \notin Disabled
  <2>1. num \in Byte /\ num \in Nat BY <1>2, ChunkFields
  <2>2. num # 80 /\ num <= Opcode.OP_16 BY <1>11, Zenon
  <2> HIDE DEF num
  <2>3. num \notin Disabled BY <2>1, <2>2, PushesNotDisabled
  <2>4. Opcode.OP_16 = 96 BY OpcodeValues, Zenon
  <2> QED BY <2>1, <2>2, <2>3, <2>4
<1> DEFINE goes == Step(m).errstr = "" /\ Step(m).pbegincodehash = m.pbegincodehash
           refused == Step(m).errstr \in Refusals
<1>5. {"PUSH_SIZE", "OP_COUNT", "MINIMALDATA"} \subseteq Refusals BY DEF Refusals, Exceeded
<1>6. Machine(k) /\ k.errstr = "" /\ k.pbegincodehash = m.pbegincodehash
  BY <1>3, <1>11, Zenon DEF OnlyCounts
<1>7. \A bufs : Step(m) = Replace(k, 0, bufs) => goes
  <2> TAKE bufs
  <2> HAVE Step(m) = Replace(k, 0, bufs)
  <2>1. OnlyReplaces(k, 0, bufs) BY <1>6, ReplaceKeeps
  <2> QED BY <2>1, <1>6 DEF OnlyReplaces
<1>8. ASSUME num <= Opcode.OP_PUSHDATA4, Step(m) = PushData(k, chunk) PROVE refused \/ goes
  <2>1. HasBuf(chunk) => chunk.len = Len(chunk.buf) BY <1>11, ReadableLength, Zenon
  <2>2. \/ Step(m) = Fail(k, "MINIMALDATA") \/ \E bufs : Step(m) = Replace(k, 0, bufs)
    BY <1>8, <2>1, Zenon DEF PushData
  <2>3. Fail(k, "MINIMALDATA").errstr = "MINIMALDATA" BY <1>6, FailsStop
  <2>4. "MINIMALDATA" \in Refusals BY <1>5
  <2> HIDE DEF goes
  <2>5. refused \/ goes BY <2>2, <2>3, <2>4, <1>7, Zenon
  <2> QED BY <2>5
<1>9. ASSUME ~(num <= Opcode.OP_PUSHDATA4), Step(m) = Execute(k, num) PROVE refused \/ goes
  <2>1. num \in {Opcode.OP_1NEGATE} \cup Opcode.OP_1 .. Opcode.OP_16
    <3>1. /\ Opcode.OP_PUSHDATA4 = 78 /\ Opcode.OP_1NEGATE = 79 /\ Opcode.OP_1 = 81
          /\ Opcode.OP_16 = 96
      BY OpcodeValues, Zenon
    <3>2. ~(num <= 78) /\ num \in Nat /\ num # 80 /\ num <= 96 BY <1>4, <1>9, <3>1
    <3> HIDE DEF num
    <3>3. num = 79 \/ num \in 81 .. 96 BY <3>2
    <3> QED BY <3>1, <3>3
  <2>2. Step(m) = Replace(k, 0, <<ToScriptNum(num - (Opcode.OP_1 - 1))>>)
    BY <2>1, <1>4, <1>9, Branches, Zenon
  <2> HIDE DEF goes
  <2>3. goes BY <2>2, <1>7
  <2> QED BY <2>3
<1>10. refused \/ goes
  <2>1. {"PUSH_SIZE", "OP_COUNT"} \subseteq Refusals BY <1>5
  <2>2. CASE Step(m).errstr \in {"PUSH_SIZE", "OP_COUNT"} BY <2>1, <2>2
  <2> HIDE DEF goes, refused
  <2>3. CASE Step(m) = IF num <= Opcode.OP_PUSHDATA4 THEN PushData(k, chunk)
                       ELSE Execute(k, num)
    BY <2>3, <1>8, <1>9, Zenon
  <2> QED BY <2>2, <2>3, <1>3, <1>4, Zenon
<1>12. CASE goes
  <2>1. GoesOn(m) BY <1>1, <1>11, <1>12, Zenon DEF GoesOn
  <2>2. /\ Step(m).stack = Append(m.stack, Pushed(chunk))
        /\ Step(m).vfExec = m.vfExec /\ Step(m).flags = m.flags
    BY <2>1, <1>11, PushesIt, Zenon
  <2> QED BY <2>2, <1>11, <1>12, Zenon
<1> QED BY <1>10, <1>12, Zenon

(* A call that spends a bare multisig output, with scripts of chunks *)
MultisigCall(args) ==
  {args.scriptSig, args.scriptPubkey} \subseteq Seq(Chunk) /\ SpendsMultisig(args)

(* What its scripts push: N signatures and, between their counts, K keys *)
PushedAll(args, N, K) ==
  LET s == args.scriptSig
      o == args.scriptPubkey
  IN  /\ Pushed(s[1]) = <<>> /\ Pushed(o[1]) = <<N>> /\ Pushed(o[K + 2]) = <<K>>
      /\ \A j \in 1 .. N : Pushed(s[j + 1]) = InputSignatures(s)[j]
      /\ \A j \in 1 .. K : Pushed(o[j + 1]) = MultisigKeys(o)[j]
Shape(args, N, K) ==
  LET s == args.scriptSig
      o == args.scriptPubkey
  IN  /\ N \in 1 .. 16 /\ K \in 1 .. 16 /\ Len(s) = N + 1 /\ Len(o) = K + 3
      /\ \A i \in 1 .. N + 1 : Readable(s[i]) /\ s[i].op <= 78
      /\ \A i \in 1 .. K + 2 : o[i].op <= 96 /\ o[i].op # 80
      /\ \A i \in 1 .. K + 3 : Readable(o[i]) /\ (HasBuf(o[i]) \/ o[i].op > 78)
      /\ o[K + 3].op = 174 /\ \A i \in {1, K + 2, K + 3} : ~HasBuf(o[i])

LEMMA ReadableOps ==
  ASSUME NEW c, Readable(c)
  PROVE  /\ HasBuf(c) => c.op \in 1 .. 78 /\ Pushed(c) = c.buf
         /\ ~HasBuf(c) => c.op \notin 1 .. 78
<1>1. Opcode.OP_PUSHDATA4 = 78 BY OpcodeValues, Zenon
<1>2. CASE HasBuf(c)
  <2>4. c.op \in 1 .. Opcode.OP_PUSHDATA4 BY <1>2 DEF Readable
  <2>1. c.op \in 1 .. 78 BY <1>1, <2>4
  <2>2. ~(c.op > 78)
    <3> DEFINE num == c.op
    <3>1. num \in 1 .. 78 BY <2>1
    <3> HIDE DEF num
    <3>2. ~(num > 78) BY <3>1
    <3> QED BY <3>2 DEF num
  <2>3. Pushed(c) = c.buf BY <1>1, <1>2, <2>2, Zenon DEF Pushed
  <2> QED BY <1>2, <2>1, <2>3
<1>3. CASE ~HasBuf(c)
  <2>1. c.op \notin 1 .. Opcode.OP_PUSHDATA4 BY <1>3 DEF Readable
  <2>2. c.op \notin 1 .. 78 BY <1>1, <2>1
  <2> QED BY <1>3, <2>2
<1> QED BY <1>2, <1>3

LEMMA PushedSmall ==
  ASSUME NEW c, NEW k \in 1 .. 16, c.op = 80 + k
  PROVE  Pushed(c) = <<k>>
<1> DEFINE num == c.op
<1>1. Opcode.OP_PUSHDATA4 = 78 /\ Opcode.OP_1 = 81 BY OpcodeValues, Zenon
<1>2. num > 78 /\ num - (81 - 1) = k OBVIOUS
<1> HIDE DEF num
<1>3. Pushed(c) = ToScriptNum(k) BY <1>1, <1>2, Zenon DEF Pushed, num
<1> QED BY <1>3, SmallScriptNum

LEMMA MultisigShape ==
  ASSUME NEW args, MultisigCall(args)
  PROVE  LET N == Len(args.scriptSig) - 1
             K == Len(args.scriptPubkey) - 3
         IN  Shape(args, N, K) /\ PushedAll(args, N, K)
<1> DEFINE s == args.scriptSig
           o == args.scriptPubkey
           N == Len(s) - 1
           K == Len(o) - 3
           first == o[1]
           count == o[Len(o) - 1]
<1>1. s \in Seq(Chunk) /\ o \in Seq(Chunk) BY Zenon DEF MultisigCall
<1>2. /\ Len(s) \in Nat /\ DOMAIN s = 1 .. Len(s) /\ Len(o) \in Nat /\ DOMAIN o = 1 .. Len(o)
      /\ \A i \in 1 .. Len(s) : s[i] \in Chunk
      /\ \A i \in 1 .. Len(o) : o[i] \in Chunk
  BY <1>1, LenProperties, ElementOfSeq
<1>3. /\ Len(s) >= 2 /\ s[1].op = Opcode.OP_0 /\ \A i \in 2 .. Len(s) : HasBuf(s[i])
      /\ \A i \in DOMAIN s : Readable(s[i])
  BY Zenon DEF MultisigCall, SpendsMultisig, IsMultisigIn
<1>4. /\ Len(o) > 3 /\ IsSmallIntOp(first.op) /\ IsSmallIntOp(count.op)
      /\ \A i \in 2 .. Len(o) - 2 : HasBuf(o[i])
      /\ Last(o).op = Opcode.OP_CHECKMULTISIG
      /\ \A i \in DOMAIN o : Readable(o[i])
  BY Zenon DEF MultisigCall, SpendsMultisig, IsMultisigOut
<1>5. N = Named(first) /\ K = Named(count)
  BY Zenon DEF MultisigCall, SpendsMultisig
<1>6. Last(o) = o[Len(o)] BY Zenon DEF Last
<1> HIDE DEF s, o, first, count
<1>7. N \in Nat /\ N >= 1 /\ K \in Nat /\ K >= 1 /\ Len(s) = N + 1 /\ Len(o) = K + 3
  BY <1>2, <1>3, <1>4
<1> HIDE DEF N, K
<1>8. ASSUME NEW c, NEW n \in Nat, n >= 1, IsSmallIntOp(c.op), n = Named(c)
      PROVE  n \in 1 .. 16 /\ c.op = 80 + n
  <2>1. Opcode.OP_0 = 0 /\ Opcode.OP_1 = 81 /\ Opcode.OP_16 = 96 BY DEF Opcode
  <2>2. c.op = 0 \/ c.op \in 81 .. 96 BY <2>1, <1>8, Zenon DEF IsSmallIntOp
  <2>3. n = c.op - (81 - 1) BY <2>1, <1>8, Zenon DEF Named
  <2> QED BY <2>2, <2>3, <1>8
<1>9. N \in 1 .. 16 /\ first.op = 80 + N /\ K \in 1 .. 16 /\ count.op = 80 + K
  BY <1>4, <1>5, <1>7, <1>8, Zenon
<1>10. o[1] = first /\ o[K + 2] = count
  <2>1. Len(o) - 1 = K + 2 BY <1>7
  <2> QED BY <2>1 DEF first, count
<1>11. /\ \A j \in 1 .. N : HasBuf(s[j + 1]) /\ Readable(s[j + 1])
       /\ \A j \in 1 .. K : HasBuf(o[j + 1]) /\ Readable(o[j + 1])
  <2>1. ASSUME NEW j \in 1 .. N PROVE j + 1 \in 2 .. Len(s) /\ j + 1 \in 1 .. Len(s)
    BY <1>7
  <2>2. ASSUME NEW j \in 1 .. K PROVE j + 1 \in 2 .. Len(o) - 2 /\ j + 1 \in 1 .. Len(o)
    BY <1>7
  <2> QED BY <2>1, <2>2, <1>2, <1>3, <1>4
<1>12. s[1].op = 0 /\ ~HasBuf(s[1]) /\ Readable(s[1]) /\ Pushed(s[1]) = <<>>
  <2>1. 1 \in 1 .. Len(s) BY <1>7
  <2>2. Readable(s[1]) BY <2>1, <1>2, <1>3
  <2>3. Opcode.OP_0 = 0 /\ Opcode.OP_PUSHDATA4 = 78 BY DEF Opcode
  <2>4. s[1].op = 0 BY <2>3, <1>3
  <2>5. 0 \notin 1 .. 78 /\ ~(0 > 78) OBVIOUS
  <2>6. ~HasBuf(s[1]) BY <2>2, <2>4, <2>5, ReadableOps, Zenon
  <2>7. Pushed(s[1]) = <<>> BY <2>3, <2>4, <2>5, <2>6, Zenon DEF Pushed
  <2> QED BY <2>2, <2>4, <2>6, <2>7
<1>13. o[K + 3].op = 174 /\ ~HasBuf(o[K + 3])
  <2>1. K + 3 = Len(o) /\ K + 3 \in DOMAIN o BY <1>2, <1>7
  <2>5. Opcode.OP_CHECKMULTISIG = 174 BY OpcodeValues, Zenon
  <2>2. o[K + 3].op = 174 BY <2>1, <2>5, <1>4, <1>6
  <2>3. Readable(o[K + 3]) BY <2>1, <1>4
  <2>4. 174 \notin 1 .. 78 OBVIOUS
  <2> QED BY <2>2, <2>3, <2>4, ReadableOps, ZenonT(60)
<1>14. /\ \A i \in 1 .. N + 1 : i = 1 \/ \E j \in 1 .. N : i = j + 1
       /\ \A i \in 1 .. K + 3 : i \in {1, K + 2, K + 3} \/ \E j \in 1 .. K : i = j + 1
       /\ \A i \in 1 .. K + 2 : i \in {1, K + 2} \/ \E j \in 1 .. K : i = j + 1
  <2>1. ASSUME NEW i \in 1 .. N + 1, i # 1 PROVE i - 1 \in 1 .. N /\ i = (i - 1) + 1
    BY <2>1, <1>7
  <2>2. ASSUME NEW i \in 1 .. K + 3, i \notin {1, K + 2, K + 3}
        PROVE  i - 1 \in 1 .. K /\ i = (i - 1) + 1
    BY <2>2, <1>7
  <2>3. ASSUME NEW i \in 1 .. K + 2, i \notin {1, K + 2}
        PROVE  i - 1 \in 1 .. K /\ i = (i - 1) + 1
    BY <2>3, <1>7
  <2> QED BY <2>1, <2>2, <2>3
<1>15. /\ \A j \in 1 .. N : s[j + 1].op \in 1 .. 78 /\ Pushed(s[j + 1]) = s[j + 1].buf
       /\ \A j \in 1 .. K : o[j + 1].op \in 1 .. 78 /\ Pushed(o[j + 1]) = o[j + 1].buf
  BY <1>11, ReadableOps
<1>16. /\ \A i \in 1 .. N + 1 : Readable(s[i])
       /\ \A i \in 1 .. K + 3 : Readable(o[i])
  <2>1. 1 .. N + 1 = DOMAIN s /\ 1 .. K + 3 = DOMAIN o BY <1>2, <1>7
  <2> QED BY <2>1, <1>3, <1>4
<1>17. \A i \in 1 .. N + 1 : s[i].op <= 78
  <2> TAKE i \in 1 .. N + 1
  <2>1. CASE i = 1 BY <2>1, <1>12
  <2>2. CASE i # 1
    <3>1. PICK j \in 1 .. N : i = j + 1 BY <2>2, <1>14
    <3>2. s[i].op \in 1 .. 78 BY <3>1, <1>15
    <3> QED BY <3>2
  <2> QED BY <2>1, <2>2
<1>18. first.op \in 81 .. 96 /\ count.op \in 81 .. 96 BY <1>9
<1>19. \A i \in 1 .. K + 2 : o[i].op <= 96 /\ o[i].op # 80
  <2> TAKE i \in 1 .. K + 2
  <2> DEFINE num == o[i].op
  <2>1. num \in 81 .. 96 \/ num \in 1 .. 78
    <3>1. CASE i \in {1, K + 2} BY <3>1, <1>10, <1>18
    <3>2. CASE i \notin {1, K + 2} BY <3>2, <1>14, <1>15
    <3> QED BY <3>1, <3>2
  <2> HIDE DEF num
  <2>2. num <= 96 /\ num # 80 BY <2>1
  <2> QED BY <2>2 DEF num
<1>20. \A i \in 1 .. K + 3 : HasBuf(o[i]) \/ o[i].op > 78
  <2> TAKE i \in 1 .. K + 3
  <2>1. CASE i \in {1, K + 2} BY <2>1, <1>10, <1>18
  <2>2. CASE i = K + 3 BY <2>2, <1>13
  <2>3. CASE i \notin {1, K + 2, K + 3} BY <2>3, <1>11, <1>14
  <2> QED BY <2>1, <2>2, <2>3
<1>21. Shape(args, N, K)
  <2>1. /\ \A i \in 1 .. N + 1 : Readable(s[i]) /\ s[i].op <= 78
        /\ \A i \in 1 .. K + 3 : Readable(o[i]) /\ (HasBuf(o[i]) \/ o[i].op > 78)
    BY <1>16, <1>17, <1>20
  <2>2. \A i \in {1, K + 2, K + 3} : ~HasBuf(o[i])
    <3>1. 1 \in 1 .. K + 3 /\ K + 2 \in 1 .. K + 3 BY <1>7
    <3>2. Readable(o[1]) /\ Readable(o[K + 2]) BY <3>1, <1>16
    <3>3. \A num \in 81 .. 96 : num \notin 1 .. 78 OBVIOUS
    <3>4. ~HasBuf(o[1]) /\ ~HasBuf(o[K + 2])
      BY <3>2, <3>3, <1>10, <1>18, ReadableOps, ZenonT(60)
    <3> QED BY <3>4, <1>13
  <2> QED BY <2>1, <2>2, <1>7, <1>9, <1>13, <1>19, Zenon DEF Shape, s, o
<1>22. Pushed(o[1]) = <<N>> /\ Pushed(o[K + 2]) = <<K>> BY <1>9, <1>10, PushedSmall
<1>23. \A j \in 1 .. N : s[j + 1].buf = InputSignatures(s)[j]
  <2>1. InputSignatures(s) = [j \in 1 .. N |-> s[j + 1].buf] BY DEF InputSignatures, N
  <2> QED BY <2>1
<1>24. \A j \in 1 .. K : o[j + 1].buf = MultisigKeys(o)[j]
  <2>1. MultisigKeys(o) = [j \in 1 .. K |-> o[j + 1].buf] BY DEF MultisigKeys, K
  <2> QED BY <2>1
<1>25. PushedAll(args, N, K)
  <2>1. /\ \A j \in 1 .. N : Pushed(s[j + 1]) = InputSignatures(s)[j]
        /\ \A j \in 1 .. K : Pushed(o[j + 1]) = MultisigKeys(o)[j]
    BY <1>15, <1>23, <1>24, Zenon
  <2> QED BY <2>1, <1>12, <1>22, Zenon DEF PushedAll, s, o
<1> QED BY <1>21, <1>25 DEF N, K, s, o

(* The number of signatures or of keys is read as it was pushed. *)
LEMMA CountNumber ==
  ASSUME NEW k \in 1 .. 16
  PROVE  /\ FromScriptNum(<<k>>) = k /\ IsMinimal(<<k>>)
         /\ ~NumberOverflows(<<k>>, NUMBER_SIZE) /\ <<k>> \in Buffer
<1>1. <<k>> \in Buffer /\ <<k>> # <<>> /\ Len(<<k>>) = 1 /\ <<k>>[1] = k /\ Last(<<k>>) = k
  BY DEF Buffer, Byte, Last
<1>2. k % 128 = k /\ k # 0 /\ ~(k >= 128) OBVIOUS
<1>3. PICK from : /\ FromScriptNum(<<k>>) = IF Last(<<k>>) >= 128 THEN - from[1] ELSE from[1]
                  /\ \A i \in 1 .. Len(<<k>>) : from[i] = ValueOf(<<k>>, from, i)
  BY <1>1, ScriptNumReads, Zenon
<1>4. from[1] = k
  <2>1. 1 \in 1 .. Len(<<k>>) BY <1>1
  <2>2. from[1] = ValueOf(<<k>>, from, 1) BY <2>1, <1>3, Zenon
  <2> QED BY <2>2, <1>1, <1>2, Zenon DEF ValueOf
<1>5. FromScriptNum(<<k>>) = k BY <1>1, <1>2, <1>3, <1>4, Zenon
<1>6. IsMinimal(<<k>>) BY <1>1, <1>2, Zenon DEF IsMinimal
<1>7. ~NumberOverflows(<<k>>, NUMBER_SIZE)
  <2>1. NUMBER_SIZE \in Nat \ {0} BY LimitsAssumption
  <2>2. ~(1 > NUMBER_SIZE) BY <2>1
  <2> QED BY <2>2, <1>1, Zenon DEF NumberOverflows
<1> QED BY <1>1, <1>5, <1>6, <1>7

(* The stack at a place in the output's script *)
StackTo(args, pc) ==
  LET L == Len(args.scriptSig)
  IN  [i \in 1 .. L + pc |->
        IF i <= L THEN Pushed(args.scriptSig[i]) ELSE Pushed(args.scriptPubkey[i - L])]

(* The elements that OP_CHECKMULTISIG finds, the uppermost first *)
MultisigStack(m, args, N, K) ==
  LET sigs == InputSignatures(args.scriptSig)
      keys == MultisigKeys(args.scriptPubkey)
  IN  /\ Len(m.stack) = N + K + 3
      /\ Top(m, 1) = <<K>> /\ Top(m, K + 2) = <<N>> /\ Top(m, N + K + 3) = <<>>
      /\ \A j \in 1 .. K : Top(m, 1 + j) = keys[K + 1 - j]
      /\ \A j \in 1 .. N : Top(m, K + 2 + j) = sigs[N + 1 - j]

LEMMA MultisigTops ==
  ASSUME NEW args, NEW N, NEW K, Shape(args, N, K), PushedAll(args, N, K),
         NEW m, m.stack = StackTo(args, K + 2)
  PROVE  MultisigStack(m, args, N, K)
<1> DEFINE s == args.scriptSig
           o == args.scriptPubkey
           L == Len(s)
           st == [i \in 1 .. L + (K + 2) |-> IF i <= L THEN Pushed(s[i]) ELSE Pushed(o[i - L])]
           sigs == InputSignatures(s)
           keys == MultisigKeys(o)
<1>1. N \in 1 .. 16 /\ K \in 1 .. 16 /\ L = N + 1 BY Zenon DEF Shape
<1>2. /\ Pushed(s[1]) = <<>> /\ Pushed(o[1]) = <<N>> /\ Pushed(o[K + 2]) = <<K>>
      /\ \A j \in 1 .. N : Pushed(s[j + 1]) = sigs[j]
      /\ \A j \in 1 .. K : Pushed(o[j + 1]) = keys[j]
  BY Zenon DEF PushedAll
<1>3. m.stack = st BY Zenon DEF StackTo
<1> HIDE DEF s, o, L, sigs, keys
<1>4. /\ \A i \in 1 .. N + 1 : st[i] = Pushed(s[i])
      /\ \A i \in 1 .. K + 2 : st[N + 1 + i] = Pushed(o[i])
  <2>1. ASSUME NEW i \in 1 .. N + 1 PROVE i \in 1 .. L + (K + 2) /\ i <= L BY <1>1
  <2>2. ASSUME NEW i \in 1 .. K + 2
        PROVE  N + 1 + i \in 1 .. L + (K + 2) /\ ~(N + 1 + i <= L) /\ N + 1 + i - L = i
    BY <1>1
  <2>3. \A i \in 1 .. L + (K + 2) : st[i] = IF i <= L THEN Pushed(s[i]) ELSE Pushed(o[i - L])
    BY Zenon
  <2> HIDE DEF st
  <2>4. ASSUME NEW i \in 1 .. N + 1 PROVE st[i] = Pushed(s[i]) BY <2>1, <2>3, Zenon
  <2>5. ASSUME NEW i \in 1 .. K + 2 PROVE st[N + 1 + i] = Pushed(o[i])
    <3> DEFINE j == N + 1 + i
    <3>1. j \in 1 .. L + (K + 2) /\ ~(j <= L) /\ j - L = i BY <1>1
    <3> HIDE DEF j
    <3>2. st[j] = Pushed(o[j - L]) BY <3>1, <2>3, Zenon
    <3> QED BY <3>1, <3>2 DEF j
  <2> QED BY <2>4, <2>5
<1>5. Len(st) = N + K + 3
  <2>1. L + (K + 2) = N + K + 3 /\ L + (K + 2) \in Nat BY <1>1
  <2> DEFINE T == L + (K + 2)
             S == {st[i] : i \in 1 .. T}
  <2>2. T \in Nat BY <2>1
  <2>3. st \in [1 .. T -> S] OBVIOUS
  <2> HIDE DEF S, T, st
  <2>4. st \in Seq(S) /\ Len(st) = T BY <2>2, <2>3, LenProperties
  <2> QED BY <2>1, <2>4 DEF T
<1> HIDE DEF st
<1>6. Len(m.stack) = N + K + 3 BY <1>3, <1>5
<1>7. \A d \in Int : Top(m, d) = st[N + K + 3 + 1 - d] BY <1>3, <1>6 DEF Top
<1>8. Top(m, 1) = <<K>>
  <2>1. N + K + 3 + 1 - 1 = N + 1 + (K + 2) /\ K + 2 \in 1 .. K + 2 /\ 1 \in Int BY <1>1
  <2> QED BY <2>1, <1>2, <1>4, <1>7
<1>9. Top(m, K + 2) = <<N>>
  <2>1. N + K + 3 + 1 - (K + 2) = N + 1 + 1 /\ 1 \in 1 .. K + 2 /\ K + 2 \in Int BY <1>1
  <2> QED BY <2>1, <1>2, <1>4, <1>7
<1>10. Top(m, N + K + 3) = <<>>
  <2>1. N + K + 3 + 1 - (N + K + 3) = 1 /\ 1 \in 1 .. N + 1 /\ N + K + 3 \in Int BY <1>1
  <2> QED BY <2>1, <1>2, <1>4, <1>7
<1>11. ASSUME NEW j \in 1 .. K PROVE Top(m, 1 + j) = keys[K + 1 - j]
  <2> DEFINE i == K + 1 - j
  <2>1. /\ i \in 1 .. K /\ i + 1 \in 1 .. K + 2 /\ 1 + j \in Int
        /\ N + K + 3 + 1 - (1 + j) = N + 1 + (i + 1)
    BY <1>1
  <2> HIDE DEF i
  <2>2. Top(m, 1 + j) = st[N + 1 + (i + 1)] BY <2>1, <1>7
  <2>3. st[N + 1 + (i + 1)] = Pushed(o[i + 1]) BY <2>1, <1>4
  <2> QED BY <2>1, <2>2, <2>3, <1>2 DEF i
<1>12. ASSUME NEW j \in 1 .. N PROVE Top(m, K + 2 + j) = sigs[N + 1 - j]
  <2> DEFINE i == N + 1 - j
  <2>1. /\ i \in 1 .. N /\ i + 1 \in 1 .. N + 1 /\ K + 2 + j \in Int
        /\ N + K + 3 + 1 - (K + 2 + j) = i + 1
    BY <1>1
  <2> HIDE DEF i
  <2>2. Top(m, K + 2 + j) = st[i + 1] BY <2>1, <1>7
  <2>3. st[i + 1] = Pushed(s[i + 1]) BY <2>1, <1>4
  <2> QED BY <2>1, <2>2, <2>3, <1>2 DEF i
<1> QED BY <1>6, <1>8, <1>9, <1>10, <1>11, <1>12, Zenon DEF MultisigStack, sigs, keys, s, o

(* n elements that an opcode takes, the uppermost of them at depth i *)
Taken(e, m, i, n) ==
  /\ Len(e) = n /\ DOMAIN e = 1 .. n
  /\ \A j \in 1 .. n : e[j] = Top(m, i + j - 1)

LEMMA ElementsAre ==
  ASSUME NEW m, NEW i, NEW n \in Nat
  PROVE  Taken(Elements(m, i, n), m, i, n)
<1> DEFINE e == [j \in 1 .. n |-> Top(m, i + j - 1)]
           S == {Top(m, i + j - 1) : j \in 1 .. n}
<1>1. Elements(m, i, n) = e BY Zenon DEF Elements
<1>2. e \in [1 .. n -> S] OBVIOUS
<1>3. DOMAIN e = 1 .. n /\ \A j \in 1 .. n : e[j] = Top(m, i + j - 1) OBVIOUS
<1> HIDE DEF S, e
<1>4. Len(e) = n BY <1>2, LenProperties
<1> QED BY <1>1, <1>3, <1>4, Zenon DEF Taken

(* OP_CHECKMULTISIG finds the keys and the signatures from their last ones on. *)
LEMMA ElementsReversed ==
  ASSUME NEW args, NEW N, NEW K, Shape(args, N, K), NEW m, MultisigStack(m, args, N, K)
  PROVE  /\ Reversed(Elements(m, 2, K), MultisigKeys(args.scriptPubkey))
         /\ Reversed(Elements(m, K + 3, N), InputSignatures(args.scriptSig))
<1> DEFINE sigs == InputSignatures(args.scriptSig)
           keys == MultisigKeys(args.scriptPubkey)
           ks == Elements(m, 2, K)
           us == Elements(m, K + 3, N)
<1>1. /\ N \in Nat /\ K \in Nat /\ Len(args.scriptSig) = N + 1
      /\ Len(args.scriptPubkey) = K + 3
  <2>1. N \in 1 .. 16 /\ K \in 1 .. 16 BY Zenon DEF Shape
  <2>2. N \in Nat /\ K \in Nat BY <2>1
  <2> QED BY <2>2, Zenon DEF Shape
<1>2. /\ \A j \in 1 .. K : Top(m, 1 + j) = keys[K + 1 - j]
      /\ \A j \in 1 .. N : Top(m, K + 2 + j) = sigs[N + 1 - j]
  BY Zenon DEF MultisigStack
<1>3. Len(sigs) = N
  <2>1. sigs = [i \in 1 .. N |-> args.scriptSig[i + 1].buf]
    <3>1. Len(args.scriptSig) - 1 = N BY <1>1
    <3> QED BY <3>1, Zenon DEF InputSignatures
  <2> DEFINE S == {args.scriptSig[i + 1].buf : i \in 1 .. N}
  <2>2. sigs \in [1 .. N -> S] BY <2>1
  <2> HIDE DEF S, sigs
  <2> QED BY <2>2, <1>1, LenProperties
<1>4. Len(keys) = K
  <2>1. keys = [i \in 1 .. K |-> args.scriptPubkey[i + 1].buf]
    <3>1. Len(args.scriptPubkey) - 3 = K BY <1>1
    <3> QED BY <3>1, Zenon DEF MultisigKeys
  <2> DEFINE S == {args.scriptPubkey[i + 1].buf : i \in 1 .. K}
  <2>2. keys \in [1 .. K -> S] BY <2>1
  <2> HIDE DEF S, keys
  <2> QED BY <2>2, <1>1, LenProperties
<1>5. /\ Len(ks) = K /\ \A j \in 1 .. K : ks[j] = Top(m, 2 + j - 1)
      /\ Len(us) = N /\ \A j \in 1 .. N : us[j] = Top(m, K + 3 + j - 1)
  <2>1. Taken(ks, m, 2, K) /\ Taken(us, m, K + 3, N) BY <1>1, ElementsAre
  <2> QED BY <2>1, Zenon DEF Taken
<1>6. /\ \A j \in 1 .. K : 2 + j - 1 = 1 + j
      /\ \A j \in 1 .. N : K + 3 + j - 1 = K + 2 + j
  BY <1>1
<1> HIDE DEF sigs, keys, ks, us
<1>7. \A j \in 1 .. K : ks[j] = keys[K + 1 - j] BY <1>2, <1>5, <1>6
<1>8. \A j \in 1 .. N : us[j] = sigs[N + 1 - j] BY <1>2, <1>5, <1>6
<1>9. Reversed(ks, keys) /\ Reversed(us, sigs) BY <1>1, <1>3, <1>4, <1>5, <1>7, <1>8 DEF Reversed
<1> QED BY <1>9 DEF sigs, keys, ks, us

(* The output's script has no chunk that pushes a signature of its input. *)
LEMMA NothingDeleted ==
  ASSUME NEW args, MultisigCall(args), NEW N, NEW K, Shape(args, N, K),
         NEW us, Reversed(us, InputSignatures(args.scriptSig)), DOMAIN us = 1 .. N
  PROVE  DeletedAll(args.scriptPubkey, us) = args.scriptPubkey
<1> DEFINE s == args.scriptSig
           o == args.scriptPubkey
           sigs == InputSignatures(s)
           keys == MultisigKeys(o)
<1>1. s \in Seq(Chunk) /\ o \in Seq(Chunk) BY Zenon DEF MultisigCall
<1>2. N \in 1 .. 16 /\ K \in 1 .. 16 /\ Len(s) = N + 1 /\ Len(o) = K + 3 BY Zenon DEF Shape
<1>3. /\ \A i \in 1 .. N + 1 : Readable(s[i])
      /\ \A i \in 1 .. K + 3 : Readable(o[i]) /\ (HasBuf(o[i]) \/ o[i].op > 78)
      /\ \A i \in {1, K + 2, K + 3} : ~HasBuf(o[i])
  BY ZenonT(60) DEF Shape
<1>4. \A i \in DOMAIN sigs, k \in DOMAIN keys : sigs[i] # keys[k]
  BY Zenon DEF MultisigCall, SpendsMultisig
<1>5. Len(s) - 1 = N /\ Len(o) - 3 = K BY <1>2
<1>6. sigs = [i \in 1 .. N |-> s[i + 1].buf] BY <1>5, Zenon DEF InputSignatures
<1>7. keys = [i \in 1 .. K |-> o[i + 1].buf] BY <1>5, Zenon DEF MultisigKeys
<1>8. IsMultisigIn(s) BY Zenon DEF MultisigCall, SpendsMultisig
<1> HIDE DEF s, o, sigs, keys
<1>9. ASSUME NEW j \in 1 .. N PROVE sigs[j] \in Buffer
  <2>1. sigs[j] = s[j + 1].buf BY <1>6
  <2>2. j + 1 \in 1 .. Len(s) /\ j + 1 \in 2 .. Len(s) BY <1>2
  <2>3. s[j + 1] \in Chunk BY <2>2, <1>1, ElementOfSeq
  <2>4. HasBuf(s[j + 1]) BY <2>2, <1>8, Zenon DEF IsMultisigIn
  <2> QED BY <2>1, <2>3, <2>4, ChunkFields
<1>10. ASSUME NEW i \in 1 .. K + 3, NEW j \in 1 .. N
       PROVE  ChunkToBuffer(o[i]) # ToBuffer(<<PushChunk(sigs[j])>>)
  <2>1. o[i] \in Chunk BY <1>1, <1>2, ElementOfSeq
  <2>2. HasBuf(o[i]) => o[i].buf # sigs[j]
    <3> SUFFICES ASSUME HasBuf(o[i]) PROVE o[i].buf # sigs[j] OBVIOUS
    <3>1. i \notin {1, K + 2, K + 3} BY <1>3
    <3>2. i - 1 \in 1 .. K /\ (i - 1) + 1 = i BY <3>1, <1>2
    <3>3. i - 1 \in DOMAIN keys /\ keys[i - 1] = o[i].buf BY <3>2, <1>7
    <3>4. j \in DOMAIN sigs BY <1>6
    <3> QED BY <3>3, <3>4, <1>4
  <2>3. Opcode.OP_PUSHDATA4 = 78 BY OpcodeValues, Zenon
  <2>4. Readable(o[i]) /\ (HasBuf(o[i]) \/ o[i].op > Opcode.OP_PUSHDATA4) BY <2>3, <1>3
  <2> QED BY <2>1, <2>2, <2>4, <1>9, OtherBytes
<1>11. ASSUME NEW j \in 1 .. N PROVE FindAndDelete(o, <<PushChunk(sigs[j])>>) = o
  BY <1>1, <1>2, <1>10, FindsNothing
<1>12. Len(us) = N /\ \A j \in 1 .. N : us[j] = sigs[N + 1 - j]
  <2>1. Len(sigs) = Len(us) /\ \A j \in 1 .. Len(us) : us[j] = sigs[Len(us) + 1 - j]
    BY Zenon DEF Reversed, sigs, s
  <2>2. Len(us) = N
    <3>1. DOMAIN us = 1 .. N /\ Len(us) \in Nat /\ DOMAIN us = DOMAIN us OBVIOUS
    <3> DEFINE S == {s[i + 1].buf : i \in 1 .. N}
    <3>2. sigs \in [1 .. N -> S] BY <1>6
    <3> HIDE DEF S
    <3>3. Len(sigs) = N BY <3>2, <1>2, LenProperties
    <3> QED BY <3>3, <2>1
  <2> QED BY <2>1, <2>2
<1>13. \A j \in 1 .. N : FindAndDelete(o, <<PushChunk(us[j])>>) = o
  <2> TAKE j \in 1 .. N
  <2>1. N + 1 - j \in 1 .. N BY <1>2
  <2> QED BY <2>1, <1>11, <1>12
<1>14. N \in Nat BY <1>2
<1>15. DeletedAll(o, us) = o BY <1>12, <1>13, <1>14, DeletesNothing
<1> QED BY <1>15 DEF o

(* The signatures of the input and the keys of the output are in order. *)
Ordered(args) ==
  InOrder(InputSignatures(args.scriptSig), MultisigKeys(args.scriptPubkey), args.scriptPubkey)

(* The machine is at the OP_CHECKMULTISIG that ends the output's script. *)
AtCheck(m, args) ==
  LET K == Len(args.scriptPubkey) - 3
  IN  /\ Machine(m) /\ MultisigCall(args) /\ m.script = args.scriptPubkey
      /\ m.pbegincodehash = 0 /\ m.errstr = "" /\ m.vfExec = <<>>
      /\ m.stack = StackTo(args, K + 2)

(* A sequence of n elements in order is found by the loop, whichever end it begins at. *)
LEMMA OrderedFromTop ==
  ASSUME NEW args, NEW us, NEW ks, Reversed(us, InputSignatures(args.scriptSig)),
         Reversed(ks, MultisigKeys(args.scriptPubkey))
  PROVE  Ordered(args) <=> OrderFrom(us, ks, args.scriptPubkey, 1, 1)
<1> DEFINE sigs == InputSignatures(args.scriptSig)
           keys == MultisigKeys(args.scriptPubkey)
           o == args.scriptPubkey
<1>1. DOMAIN sigs = 1 .. Len(args.scriptSig) - 1 /\ DOMAIN keys = 1 .. Len(o) - 3
  BY DEF InputSignatures, MultisigKeys
<1>2. Reversed(sigs, us) /\ Reversed(keys, ks) BY ReversedBack
<1>3. /\ Reversed(us, sigs) /\ Reversed(ks, keys) OBVIOUS
<1>4. DOMAIN sigs = 1 .. Len(sigs) /\ DOMAIN keys = 1 .. Len(keys)
  BY <1>1, <1>2, SMTT(30) DEF Reversed
<1>5. Ordered(args) <=> InOrder(sigs, keys, o) BY Zenon DEF Ordered
<1> HIDE DEF sigs, keys
<1>6. InOrder(sigs, keys, o) <=> OrderFrom(sigs, keys, o, 1, 1)
  BY <1>4, Zenon DEF InOrder, OrderFrom
<1>7. OrderFrom(sigs, keys, o, 1, 1) <=> OrderFrom(us, ks, o, 1, 1)
  BY <1>2, <1>3, OrderReverses, Zenon
<1> QED BY <1>5, <1>6, <1>7, Zenon

(* How a step at OP_CHECKMULTISIG may end: refused; failed, and the signatures are *)
(* not in order; or with that as its result.                                   *)
Decided(m, args) ==
  \/ m.errstr \in Refusals
  \/ m.errstr # "" /\ ~Ordered(args)
  \/ m.errstr = "" /\ m.vfExec = <<>> /\ Has(m, 1) /\ Top(m, 1) = ToBool(Ordered(args))

LEMMA CheckMultisigDecides ==
  ASSUME NEW m, NEW args, AtCheck(m, args)
  PROVE  Decided(CheckMultisig(m, Opcode.OP_CHECKMULTISIG), args)
<1> DEFINE num == Opcode.OP_CHECKMULTISIG
           N == Len(args.scriptSig) - 1
           K == Len(args.scriptPubkey) - 3
           o == args.scriptPubkey
           counted == [m EXCEPT !.nOpCount = @ + K]
           n == 2 + K + N
           ks == Elements(m, 2, K)
           us == Elements(m, K + 3, N)
           script == DeletedAll(Subscript(m), us)
           matched == Matching(m, us, ks, script)
           end == CheckMultisig(m, num)
<1>1. /\ Machine(m) /\ MultisigCall(args) /\ m.script = o
      /\ m.pbegincodehash = 0 /\ m.errstr = "" /\ m.vfExec = <<>>
      /\ m.stack = StackTo(args, K + 2)
  BY Zenon DEF AtCheck
<1>2. Shape(args, N, K) /\ PushedAll(args, N, K) BY <1>1, MultisigShape, Zenon
<1>3. N \in 1 .. 16 /\ K \in 1 .. 16 BY <1>2, Zenon DEF Shape
<1>4. MultisigStack(m, args, N, K) BY <1>1, <1>2, MultisigTops
<1>5. o \in Seq(Chunk) BY <1>1, Zenon DEF MultisigCall
<1> HIDE DEF N, K, o
<1>6. N \in Nat /\ K \in Nat /\ n = N + K + 2 /\ n + 1 = N + K + 3 /\ n \in Nat /\ n + 1 \in Nat
      /\ N >= 1 /\ K >= 1
  BY <1>3
<1>7. Len(m.stack) = N + K + 3 /\ Top(m, 1) = <<K>> /\ Top(m, K + 2) = <<N>> /\ Top(m, n + 1) = <<>>
  <2>1. Len(m.stack) = N + K + 3 /\ Top(m, 1) = <<K>> /\ Top(m, K + 2) = <<N>>
        /\ Top(m, N + K + 3) = <<>>
    BY <1>4, Zenon DEF MultisigStack
  <2> QED BY <2>1, <1>6
<1> HIDE DEF n
<1>8. Has(m, 1) /\ Has(m, K + 2) /\ Has(m, n + 1) BY <1>6, <1>7 DEF Has
<1>9. Number(m, 1) = K /\ Number(m, K + 2) = N BY <1>3, <1>7, CountNumber DEF Number
<1>10. Numbers(m, {1}, NUMBER_SIZE) /\ Numbers(m, {K + 2}, NUMBER_SIZE)
  BY <1>3, <1>7, CountNumber, Zenon DEF Numbers
<1>11. /\ K \notin 0 .. MAX_KEYS => end = Fail(m, "PUBKEY_COUNT")
       /\ K \in 0 .. MAX_KEYS =>
            end = IF counted.nOpCount > MAX_OPS THEN Fail(counted, "OP_COUNT")
                  ELSE IF N \notin 0 .. K THEN Fail(counted, "SIG_COUNT")
                  ELSE IF matched \notin {"true", "false"} THEN Fail(counted, matched)
                  ELSE Replace(counted, n + 1, <<ToBool(matched = "true")>>)
  BY <1>7, <1>8, <1>9, <1>10, Zenon DEF CheckMultisig, DeletedAll, n
<1>12. /\ Machine(counted) /\ counted.stack = m.stack
       /\ counted.errstr = "" /\ counted.vfExec = <<>>
  <2>1. Machine(counted) /\ counted.stack = m.stack BY <1>1, <1>6, CountingKeys
  <2>2. m \in Machines(m.errstr, m.tx) BY <1>1 DEF Machine
  <2>3. counted.errstr = m.errstr /\ counted.vfExec = m.vfExec BY <2>2 DEF Machines
  <2> QED BY <2>1, <2>3, <1>1
<1> HIDE DEF counted, end
<1>13. \A e : Fail(counted, e).errstr = e /\ Fail(m, e).errstr = e
  BY <1>1, <1>12, FailsStop
<1>14. Reversed(ks, MultisigKeys(o)) /\ Reversed(us, InputSignatures(args.scriptSig))
  BY <1>2, <1>4, ElementsReversed, Zenon DEF o
<1>15. Len(us) = N /\ DOMAIN us = 1 .. N /\ Len(ks) = K
  <2>1. Taken(us, m, K + 3, N) /\ Taken(ks, m, 2, K) BY <1>6, ElementsAre
  <2> QED BY <2>1, Zenon DEF Taken
<1> HIDE DEF us, ks
<1>16. script = o
  <2>1. Subscript(m) = SubSeq(o, 1, Len(o))
    <3>1. m.pbegincodehash = 0 BY <1>1, Zenon
    <3>2. m.pbegincodehash + 1 = 1 BY <3>1
    <3> QED BY <3>2, <1>1, Zenon DEF Subscript
  <2>2. Subscript(m) = o BY <2>1, <1>5, SubSeqFull
  <2> HIDE DEF script
  <2>3. DeletedAll(o, us) = o BY <1>1, <1>2, <1>14, <1>15, NothingDeleted, Zenon DEF o
  <2> QED BY <2>2, <2>3, Zenon DEF script
<1> HIDE DEF script
<1>17. Ordered(args) <=> OrderFrom(us, ks, o, 1, 1) BY <1>14, OrderedFromTop, Zenon DEF o
<1>18. ASSUME ~(N <= K) PROVE ~Ordered(args)
  <2>1. Len(us) \in Nat /\ Len(ks) \in Nat /\ 1 \in 1 .. Len(us) /\ 1 \in 1 .. Len(ks) + 1
    BY <1>6, <1>15
  <2>2. ~(Len(us) - 1 <= Len(ks) - 1) BY <1>6, <1>15, <1>18
  <2>3. ~OrderFrom(us, ks, o, 1, 1) BY <2>1, <2>2, OrderNeedsKeys, Zenon
  <2> QED BY <2>3, <1>17
<1>19. ASSUME N <= K PROVE RightAt(matched, m, us, ks, o, 1, 1)
  <2>1. RightAt(Matching(m, us, ks, o), m, us, ks, o, 1, 1)
    BY <1>6, <1>15, <1>19, MatchingDecides, Zenon
  <2> QED BY <2>1, <1>16
<1> HIDE DEF matched
<1>20. {"PUBKEY_COUNT", "OP_COUNT"} \subseteq Refusals
       /\ Verdicts \ {"", "true", "false"} \subseteq Refusals
  BY DEF Refusals, Exceeded, Verdicts
<1>21. CASE end = Fail(m, "PUBKEY_COUNT") \/ end = Fail(counted, "OP_COUNT")
  <2>1. end.errstr \in Refusals BY <1>13, <1>20, <1>21
  <2> QED BY <2>1, Zenon DEF Decided, end
<1>22. CASE N \notin 0 .. K /\ end = Fail(counted, "SIG_COUNT")
  <2>1. ~(N <= K) BY <1>6, <1>22
  <2>2. end.errstr = "SIG_COUNT" /\ "SIG_COUNT" # "" BY <1>13, <1>22
  <2> QED BY <2>1, <2>2, <1>18, Zenon DEF Decided, end
<1>23. CASE N \in 0 .. K /\ matched \notin {"true", "false"} /\ end = Fail(counted, matched)
  <2>1. N <= K BY <1>6, <1>23
  <2>2. matched \in Verdicts \ {""} BY <2>1, <1>19, Zenon DEF RightAt
  <2>3. end.errstr \in Refusals BY <2>2, <1>13, <1>20, <1>23
  <2> QED BY <2>3, Zenon DEF Decided, end
<1>24. CASE /\ N \in 0 .. K /\ matched \in {"true", "false"}
            /\ end = Replace(counted, n + 1, <<ToBool(matched = "true")>>)
  <2>1. N <= K BY <1>6, <1>24
  <2>2. Ordered(args) <=> matched = "true"
    <3>1. "true" # "false" OBVIOUS
    <3> QED BY <2>1, <3>1, <1>17, <1>19, <1>24, Zenon DEF RightAt
  <2> DEFINE buf == ToBool(matched = "true")
  <2>3. buf = ToBool(Ordered(args)) BY <2>2 DEF ToBool
  <2>4. buf \in Buffer
    <3>1. <<1>> \in Buffer /\ <<>> \in Buffer BY DEF Buffer, Byte
    <3> QED BY <3>1, Zenon DEF ToBool, TRUEBUF, FALSEBUF
  <2>5. Has(counted, n + 1) BY <1>8, <1>12, Zenon DEF Has
  <2>6. end = Replace(counted, n + 1, <<buf>>) BY <1>24
  <2> HIDE DEF buf
  <2>7. /\ Has(Replace(counted, n + 1, <<buf>>), 1)
        /\ Top(Replace(counted, n + 1, <<buf>>), 1) = buf
        /\ Replace(counted, n + 1, <<buf>>).vfExec = counted.vfExec
    BY <1>6, <1>12, <2>4, <2>5, TopOfReplaced
  <2>8. Replace(counted, n + 1, <<buf>>).errstr = counted.errstr
    <3>1. OnlyReplaces(counted, n + 1, <<buf>>) BY <1>12, ReplaceKeeps
    <3> QED BY <3>1, Zenon DEF OnlyReplaces
  <2>9. /\ end.errstr = "" /\ end.vfExec = <<>> /\ Has(end, 1)
        /\ Top(end, 1) = ToBool(Ordered(args))
    BY <2>3, <2>6, <2>7, <2>8, <1>12, Zenon
  <2> QED BY <2>9, Zenon DEF Decided, end
<1>25. \/ end = Fail(m, "PUBKEY_COUNT") \/ end = Fail(counted, "OP_COUNT")
       \/ N \notin 0 .. K /\ end = Fail(counted, "SIG_COUNT")
       \/ N \in 0 .. K /\ matched \notin {"true", "false"} /\ end = Fail(counted, matched)
       \/ /\ N \in 0 .. K /\ matched \in {"true", "false"}
          /\ end = Replace(counted, n + 1, <<ToBool(matched = "true")>>)
  BY <1>11, Zenon
<1> QED BY <1>21, <1>22, <1>23, <1>24, <1>25, Zenon

(* The run of the two scripts, up to a place in them: what has been pushed, and *)
(* the decision behind the last chunk                                          *)
Plain(m) == m.errstr = "" /\ m.pbegincodehash = 0 /\ m.vfExec = <<>>
SigsRun(m, args) == SigRun(m, args) /\ Plain(m)
ChecksRun(m, args) ==
  /\ m.script = args.scriptPubkey /\ m.errstr = ""
  /\ m.pc < Len(m.script) => Plain(m) /\ m.stack = StackTo(args, m.pc)
  /\ m.pc = Len(m.script) => Decided(m, args)

(* The input of such a call only pushes. *)
LEMMA SignaturesArePushes ==
  ASSUME NEW args, MultisigCall(args)
  PROVE  IsPushOnly(args.scriptSig)
<1> DEFINE s == args.scriptSig
           N == Len(s) - 1
<1>1. s \in Seq(Chunk) BY Zenon DEF MultisigCall
<1>2. Shape(args, N, Len(args.scriptPubkey) - 3) BY MultisigShape, Zenon
<1>3. Len(s) = N + 1 /\ \A i \in 1 .. N + 1 : s[i].op <= 78 BY <1>2, ZenonT(60) DEF Shape
<1> HIDE DEF s
<1>4. DOMAIN s = 1 .. N + 1 BY <1>1, <1>3, LenProperties
<1>5. Opcode.OP_16 = 96 BY OpcodeValues, Zenon
<1>6. ASSUME NEW i \in DOMAIN s PROVE s[i].op <= Opcode.OP_16
  <2>1. s[i].op <= 78 BY <1>3, <1>4
  <2> DEFINE num == s[i].op
  <2>2. s[i] \in Chunk BY <1>1, ElementOfSeq, LenProperties
  <2>3. num \in Nat BY <2>2, ChunkFields
  <2>4. num <= 78 BY <2>1
  <2> HIDE DEF num
  <2>5. num <= 96 BY <2>3, <2>4
  <2> QED BY <2>5, <1>5 DEF num
<1> QED BY <1>6, Zenon DEF IsPushOnly, s

LEMMA SigsRunStep ==
  ASSUME DigestsAreBuffers, NEW m, Machine(m), NEW args, MultisigCall(args), SigsRun(m, args),
         m.pc < Len(m.script), NEW n, n = Step(m)
  PROVE  n.errstr \in Refusals \/ SigsRun(n, args)
<1> DEFINE s == args.scriptSig
           N == Len(s) - 1
           k == m.pc
<1>1. Shape(args, N, Len(args.scriptPubkey) - 3) BY MultisigShape, Zenon
<1>2. /\ N \in 1 .. 16 /\ Len(s) = N + 1
      /\ \A i \in 1 .. N + 1 : Readable(s[i]) /\ s[i].op <= 78
  BY <1>1, Zenon DEF Shape
<1>3. m.script = s /\ SigRun(m, args) /\ Plain(m) BY Zenon DEF SigsRun, SigRun
<1>4. n.script = m.script /\ n.pc = m.pc + 1 BY StepRuns
<1>5. k \in Nat /\ s \in Seq(Chunk) BY <1>3, MachineFields
<1>6. k < Len(s) BY <1>3
<1> HIDE DEF s, N, k
<1>7. k + 1 \in 1 .. N + 1 /\ k + 1 \in 1 .. Len(s) BY <1>2, <1>5, <1>6
<1>8. PushesNext(m)
  <2>1. Readable(s[k + 1]) /\ s[k + 1].op <= 78 BY <1>2, <1>7
  <2> DEFINE num == s[k + 1].op
  <2>2. s[k + 1] \in Chunk BY <1>5, <1>7, ElementOfSeq
  <2>3. num \in Nat BY <2>2, ChunkFields
  <2>4. num <= 78 BY <2>1
  <2>7. Opcode.OP_16 = 96 BY OpcodeValues, Zenon
  <2> HIDE DEF num
  <2>5. num <= 96 /\ num # 80 BY <2>3, <2>4
  <2>6. num <= Opcode.OP_16 BY <2>5, <2>7
  <2> QED BY <2>1, <2>5, <2>6, <1>3, Zenon DEF PushesNext, Plain, num, k
<1>9. CASE n.errstr \in Refusals BY <1>9
<1>10. CASE n.errstr = "" /\ n.pbegincodehash = m.pbegincodehash /\ n.vfExec = <<>>
  <2>1. Stepped(m, n) BY <1>4, <1>10, Zenon DEF Stepped
  <2>2. SigRun(n, args) BY <2>1, <1>3, SigRunStep, Zenon
  <2>3. Plain(n) BY <1>3, <1>10, Zenon DEF Plain
  <2> QED BY <2>2, <2>3, Zenon DEF SigsRun
<1> QED BY <1>8, <1>9, <1>10, PushStep, Zenon

(* A sequence with one more element *)
LEMMA Grown ==
  ASSUME NEW S, NEW f \in Seq(S), NEW g \in Seq(S), NEW k \in Nat, Len(f) = k, Len(g) = k + 1,
         \A i \in 1 .. k : f[i] = g[i]
  PROVE  Append(f, g[k + 1]) = g
<1> DEFINE b == g[k + 1]
<1>1. b \in S
  <2>1. k + 1 \in 1 .. Len(g) OBVIOUS
  <2> QED BY <2>1, ElementOfSeq
<1>2. b = g[k + 1] OBVIOUS
<1> HIDE DEF b
<1>3. /\ Append(f, b) \in Seq(S) /\ Len(Append(f, b)) = k + 1
      /\ Append(f, b)[k + 1] = b /\ \A i \in 1 .. k : Append(f, b)[i] = f[i]
  BY <1>1, AppendProperties
<1>4. \A i \in 1 .. k + 1 : Append(f, b)[i] = g[i]
  <2> TAKE i \in 1 .. k + 1
  <2>1. i \in 1 .. k \/ i = k + 1 OBVIOUS
  <2> QED BY <2>1, <1>2, <1>3
<1>5. Append(f, b) = g BY <1>3, <1>4, SeqEqual
<1> QED BY <1>5 DEF b

LEMMA StackToIs ==
  ASSUME NEW args, args.scriptSig \in Seq(Chunk), args.scriptPubkey \in Seq(Chunk),
         NEW pc \in 0 .. Len(args.scriptPubkey)
  PROVE  LET L == Len(args.scriptSig)
         IN  /\ L \in Nat /\ StackTo(args, pc) \in Seq(Buffer) /\ Len(StackTo(args, pc)) = L + pc
             /\ \A i \in 1 .. L + pc :
                  StackTo(args, pc)[i] = IF i <= L THEN Pushed(args.scriptSig[i])
                                         ELSE Pushed(args.scriptPubkey[i - L])
<1> DEFINE s == args.scriptSig
           o == args.scriptPubkey
           L == Len(s)
           T == L + pc
           e(i) == IF i <= L THEN Pushed(s[i]) ELSE Pushed(o[i - L])
           st == [i \in 1 .. T |-> e(i)]
<1>1. StackTo(args, pc) = st BY Zenon DEF StackTo
<1>2. s \in Seq(Chunk) /\ o \in Seq(Chunk) /\ pc \in 0 .. Len(o) OBVIOUS
<1> HIDE DEF s, o
<1>3. L \in Nat /\ Len(o) \in Nat /\ pc \in Nat /\ pc <= Len(o) /\ T \in Nat BY <1>2, LenProperties
<1> HIDE DEF L, T
<1>4. ASSUME NEW i \in 1 .. T PROVE e(i) \in Buffer
  <2>1. CASE i <= L
    <3>1. i \in 1 .. L BY <2>1
    <3>2. Pushed(s[i]) \in Buffer BY <3>1, <1>2, ElementOfSeq, PushedType DEF L
    <3> QED BY <2>1, <3>2
  <2>2. CASE ~(i <= L)
    <3>1. i - L \in 1 .. Len(o) BY <2>2, <1>3 DEF T
    <3>2. Pushed(o[i - L]) \in Buffer BY <3>1, <1>2, ElementOfSeq, PushedType
    <3> QED BY <2>2, <3>2
  <2> QED BY <2>1, <2>2
<1> HIDE DEF e
<1>5. st \in [1 .. T -> Buffer] /\ \A i \in 1 .. T : st[i] = e(i) BY <1>4
<1> HIDE DEF st
<1>6. st \in Seq(Buffer) /\ Len(st) = T BY <1>3, <1>5, LenProperties
<1> QED BY <1>1, <1>3, <1>5, <1>6, Zenon DEF e, T, L, s, o

(* One more chunk of the output's script pushed *)
LEMMA StackToGrows ==
  ASSUME NEW args, args.scriptSig \in Seq(Chunk), args.scriptPubkey \in Seq(Chunk),
         NEW pc \in Nat, pc < Len(args.scriptPubkey)
  PROVE  Append(StackTo(args, pc), Pushed(args.scriptPubkey[pc + 1])) = StackTo(args, pc + 1)
<1> DEFINE s == args.scriptSig
           o == args.scriptPubkey
           L == Len(s)
           f == StackTo(args, pc)
           g == StackTo(args, pc + 1)
<1>1. Len(o) \in Nat BY LenProperties
<1>2. pc \in 0 .. Len(o) /\ pc + 1 \in 0 .. Len(o) BY <1>1
<1>3. /\ L \in Nat /\ f \in Seq(Buffer) /\ Len(f) = L + pc
      /\ \A i \in 1 .. L + pc : f[i] = IF i <= L THEN Pushed(s[i]) ELSE Pushed(o[i - L])
  BY <1>2, StackToIs, Zenon
<1>4. /\ g \in Seq(Buffer) /\ Len(g) = L + (pc + 1)
      /\ \A i \in 1 .. L + (pc + 1) : g[i] = IF i <= L THEN Pushed(s[i]) ELSE Pushed(o[i - L])
  BY <1>2, StackToIs, Zenon
<1> HIDE DEF f, g, s, o, L
<1>10. L \in Nat BY <1>3, Zenon
<1> DEFINE k == L + pc
<1>5. k \in Nat /\ L + (pc + 1) = k + 1 /\ 1 .. k \subseteq 1 .. k + 1 BY <1>10
<1>6. k + 1 \in 1 .. L + (pc + 1) /\ ~(k + 1 <= L) /\ k + 1 - L = pc + 1 BY <1>10
<1> HIDE DEF k
<1>7. Len(f) = k /\ Len(g) = k + 1 /\ \A i \in 1 .. k : f[i] = g[i]
  <2>1. Len(f) = k /\ Len(g) = k + 1 BY <1>3, <1>4, <1>5 DEF k
  <2>2. ASSUME NEW i \in 1 .. k PROVE f[i] = g[i]
    <3>1. i \in 1 .. L + pc /\ i \in 1 .. L + (pc + 1) BY <1>5 DEF k
    <3> QED BY <3>1, <1>3, <1>4, Zenon
  <2> QED BY <2>1, <2>2
<1>8. g[k + 1] = Pushed(o[pc + 1])
  <2> DEFINE j == k + 1
  <2>1. j \in 1 .. L + (pc + 1) /\ ~(j <= L) /\ j - L = pc + 1 BY <1>10 DEF k
  <2> HIDE DEF j
  <2>2. g[j] = Pushed(o[j - L]) BY <1>4, <2>1, Zenon
  <2> QED BY <2>1, <2>2 DEF j
<1>9. Append(f, g[k + 1]) = g BY <1>3, <1>4, <1>5, <1>7, Grown
<1> QED BY <1>8, <1>9 DEF f, g, o

(* The stack that the input's script leaves *)
LEMMA StackToBegins ==
  ASSUME NEW args, args.scriptSig \in Seq(Chunk), args.scriptPubkey \in Seq(Chunk)
  PROVE  StackTo(args, 0) = [i \in 1 .. Len(args.scriptSig) |-> Pushed(args.scriptSig[i])]
<1> DEFINE s == args.scriptSig
           L == Len(s)
           e(i) == IF i <= L THEN Pushed(s[i]) ELSE Pushed(args.scriptPubkey[i - L])
<1>1. L \in Nat /\ L + 0 = L BY LenProperties
<1>2. StackTo(args, 0) = [i \in 1 .. L + 0 |-> e(i)] BY Zenon DEF StackTo
<1> HIDE DEF s, L
<1>3. \A i \in 1 .. L : e(i) = Pushed(s[i]) BY <1>1
<1> HIDE DEF e
<1>4. [i \in 1 .. L + 0 |-> e(i)] = [i \in 1 .. L |-> Pushed(s[i])] BY <1>1, <1>3
<1> QED BY <1>2, <1>4 DEF s, L

(* The last step of the output's script *)
LEMMA CheckStep ==
  ASSUME NEW m, Machine(m), NEW args, AtCheck(m, args), m.pc < Len(m.script),
         m.script[m.pc + 1].op = Opcode.OP_CHECKMULTISIG
  PROVE  Decided(Step(m), args)
<1> DEFINE num == Opcode.OP_CHECKMULTISIG
           chunk == m.script[m.pc + 1]
<1>1. Executing(m) BY NoneSkipped, Zenon DEF AtCheck
<1>2. PICK k : /\ OnlyCounts(k, m)
               /\ \/ Step(m).errstr \in {"PUSH_SIZE", "OP_COUNT"}
                  \/ chunk.op \in Disabled /\ Step(m).errstr = "DISABLED_OPCODE"
                  \/ Step(m) = IF chunk.op <= Opcode.OP_PUSHDATA4 THEN PushData(k, chunk)
                               ELSE Execute(k, chunk.op)
  BY <1>1, StepBranches, Zenon
<1>3. num = 174 /\ num \in Byte /\ ~(num <= Opcode.OP_PUSHDATA4) /\ num \notin Disabled
  <2>1. num = 174 /\ Opcode.OP_PUSHDATA4 = 78 BY OpcodeValues, Zenon
  <2>2. 174 \in Byte /\ ~(174 <= 78) BY DEF Byte
  <2>3. 174 \notin Disabled BY DEF Disabled, Opcode
  <2> QED BY <2>1, <2>2, <2>3
<1>4. Execute(k, num) = CheckMultisig(k, num) BY <1>3, Branches, Zenon
<1>5. AtCheck(k, args) BY <1>2, Zenon DEF AtCheck, OnlyCounts
<1>6. Decided(CheckMultisig(k, num), args) BY <1>5, CheckMultisigDecides
<1>7. {"PUSH_SIZE", "OP_COUNT"} \subseteq Refusals BY DEF Refusals, Exceeded
<1> HIDE DEF num
<1>8. chunk.op = num BY DEF num
<1> HIDE DEF chunk
<1>9. CASE Step(m).errstr \in {"PUSH_SIZE", "OP_COUNT"} BY <1>7, <1>9, Zenon DEF Decided
<1>10. CASE Step(m).errstr \notin {"PUSH_SIZE", "OP_COUNT"}
  <2>1. Step(m) = CheckMultisig(k, num) BY <1>2, <1>3, <1>4, <1>8, <1>10, Zenon
  <2> QED BY <2>1, <1>6
<1> QED BY <1>9, <1>10

LEMMA ChecksRunStep ==
  ASSUME DigestsAreBuffers, NEW m, Machine(m), NEW args, MultisigCall(args), ChecksRun(m, args),
         m.pc < Len(m.script), NEW n, n = Step(m)
  PROVE  IF n.errstr = "" THEN ChecksRun(n, args) ELSE Decided(n, args)
<1> DEFINE s == args.scriptSig
           o == args.scriptPubkey
           N == Len(s) - 1
           K == Len(o) - 3
           k == m.pc
<1>1. Shape(args, N, K) BY MultisigShape, Zenon
<1>2. /\ K \in 1 .. 16 /\ Len(o) = K + 3
      /\ \A i \in 1 .. K + 2 : o[i].op <= 96 /\ o[i].op # 80
      /\ \A i \in 1 .. K + 3 : Readable(o[i]) /\ (HasBuf(o[i]) \/ o[i].op > 78)
      /\ o[K + 3].op = 174
  BY <1>1, Zenon DEF Shape
<1>3. m.script = o /\ Plain(m) /\ m.stack = StackTo(args, k) /\ k < Len(o)
  BY Zenon DEF ChecksRun
<1>4. n.script = m.script /\ n.pc = m.pc + 1 BY StepRuns
<1>5. k \in Nat /\ s \in Seq(Chunk) /\ o \in Seq(Chunk)
  <2>1. s \in Seq(Chunk) /\ o \in Seq(Chunk) BY Zenon DEF MultisigCall
  <2>2. k \in Nat BY MachineFields
  <2> QED BY <2>1, <2>2
<1>6. Append(StackTo(args, k), Pushed(o[k + 1])) = StackTo(args, k + 1)
  BY <1>3, <1>5, StackToGrows
<1> HIDE DEF s, o, N, k
<1>7. CASE k = K + 2
  <2>1. m.script[m.pc + 1].op = Opcode.OP_CHECKMULTISIG
    <3>1. Opcode.OP_CHECKMULTISIG = 174 BY OpcodeValues, Zenon
    <3>2. k + 1 = K + 3 BY <1>2, <1>7
    <3> QED BY <3>1, <3>2, <1>2, <1>3 DEF k
  <2>2. AtCheck(m, args)
    <3>1. K = Len(args.scriptPubkey) - 3 BY DEF o
    <3>2. m.stack = StackTo(args, K + 2) BY <1>3, <1>7
    <3> HIDE DEF K
    <3> QED BY <3>1, <3>2, <1>3, Zenon DEF AtCheck, Plain, o
  <2>3. Decided(n, args) BY <2>1, <2>2, CheckStep
  <2>4. n.pc = Len(o) /\ n.script = o /\ ~(n.pc < Len(o))
    <3>1. n.pc = Len(o) BY <1>2, <1>4, <1>7 DEF k
    <3>2. Len(o) \in Nat BY <1>5, LenProperties
    <3>3. ~(Len(o) < Len(o)) BY <3>2
    <3> QED BY <3>1, <3>3, <1>3, <1>4
  <2>5. CASE n.errstr = "" BY <2>3, <2>4, <2>5, Zenon DEF ChecksRun, o
  <2>6. CASE n.errstr # "" BY <2>3, <2>6
  <2> QED BY <2>5, <2>6
<1>8. CASE k # K + 2
  <2> HIDE DEF K
  <2>1. k + 1 \in 1 .. K + 2 /\ k + 1 \in 1 .. K + 3
    <3>1. K \in 1 .. 16 /\ Len(o) = K + 3 BY <1>2, Zenon
    <3>2. k \in Nat /\ k < Len(o) BY <1>3, <1>5, Zenon DEF k
    <3> QED BY ONLY <3>1, <3>2, <1>8
  <2>2. Readable(o[k + 1]) /\ o[k + 1].op <= 96 /\ o[k + 1].op # 80 BY <1>2, <2>1
  <2>3. Opcode.OP_16 = 96 BY OpcodeValues, Zenon
  <2>4. PushesNext(m) BY <2>2, <2>3, <1>3, Zenon DEF PushesNext, Plain, k
  <2>5. CASE n.errstr \in Refusals
    <3>1. "" \notin Refusals BY DEF Refusals, Exceeded
    <3> QED BY <2>5, <3>1, Zenon DEF Decided
  <2>6. CASE /\ n.errstr = "" /\ n.pbegincodehash = m.pbegincodehash /\ n.vfExec = <<>>
             /\ n.stack = Append(m.stack, Pushed(m.script[m.pc + 1]))
    <3>1. n.stack = StackTo(args, k + 1) BY <2>6, <1>3, <1>6 DEF k
    <3>2. Plain(n) BY <2>6, <1>3, Zenon DEF Plain
    <3>3. n.pc = k + 1 /\ n.script = o BY <1>3, <1>4 DEF k
    <3>4. k + 1 # Len(o) BY <2>1, <1>2
    <3>5. ChecksRun(n, args) BY <3>1, <3>2, <3>3, <3>4, <2>6, Zenon DEF ChecksRun, o
    <3> QED BY <3>5, <2>6
  <2> QED BY <2>4, <2>5, <2>6, PushStep, Zenon
<1> QED BY <1>7, <1>8

(* The output's script is no pay to script hash, by its first byte. *)
LEMMA MultisigIsNoHash ==
  ASSUME NEW args, MultisigCall(args)
  PROVE  ~IsScriptHashOut(args.scriptPubkey)
<1> DEFINE o == args.scriptPubkey
           N == Len(args.scriptSig) - 1
           K == Len(o) - 3
           seqs == [i \in DOMAIN o |-> ChunkToBuffer(o[i])]
           all == FlattenSeq(seqs)
<1>1. o \in Seq(Chunk) BY Zenon DEF MultisigCall
<1>2. Shape(args, N, K) BY MultisigShape, Zenon
<1>3. /\ K \in 1 .. 16 /\ Len(o) = K + 3
      /\ \A i \in 1 .. K + 2 : o[i].op <= 96 /\ o[i].op # 80
      /\ \A i \in 1 .. K + 3 : Readable(o[i]) /\ (HasBuf(o[i]) \/ o[i].op > 78)
      /\ \A i \in {1, K + 2, K + 3} : ~HasBuf(o[i])
  BY <1>2, Zenon DEF Shape
<1>4. ToBuffer(o) = all BY DEF ToBuffer
<1> HIDE DEF o
<1>5. DOMAIN o = 1 .. Len(o) /\ Len(o) \in Nat /\ 1 \in 1 .. Len(o) /\ 1 \in 1 .. K + 2
  BY <1>1, <1>3, LenProperties
<1> DEFINE n == Len(o)
<1>6. \A i \in 1 .. n : o[i] \in Chunk /\ Readable(o[i]) BY <1>1, <1>3, ElementOfSeq
<1>7. \A i \in 1 .. n : ChunkToBuffer(o[i]) \in Seq(Byte) BY <1>6, ChunkBytes DEF Buffer
<1>8. seqs \in Seq(Seq(Byte)) /\ Len(seqs) = n /\ seqs[1] = ChunkToBuffer(o[1])
  <2>1. seqs \in [1 .. n -> Seq(Byte)] /\ seqs[1] = ChunkToBuffer(o[1]) BY <1>5, <1>7
  <2>2. n \in Nat BY <1>5
  <2> HIDE DEF n, seqs
  <2> QED BY <2>1, <2>2, LenProperties
<1> HIDE DEF n, seqs, all
<1>9. PICK at : Placed(seqs, at, all) BY <1>8, Flattened DEF all
<1>10. at[0] = 0 /\ \A i \in 1 .. n : LiesAt(all, at[i - 1], seqs[i])
  BY <1>8, <1>9, Zenon DEF Placed
<1>11. seqs[1] = <<o[1].op>>
  <2>1. ~HasBuf(o[1]) /\ Readable(o[1]) /\ o[1] \in Chunk BY <1>3, <1>5, <1>6 DEF n
  <2> QED BY <2>1, <1>8, ChunkBytes
<1>12. all[1] = o[1].op
  <2>1. LiesAt(all, 0, <<o[1].op>>)
    <3>1. 1 - 1 = 0 /\ 1 \in 1 .. n BY <1>5 DEF n
    <3>2. LiesAt(all, at[1 - 1], seqs[1]) BY <1>10, <3>1
    <3> QED BY <3>1, <3>2, <1>10, <1>11
  <2> DEFINE num == o[1].op
  <2> HIDE DEF num
  <2>2. LiesAt(all, 0, <<num>>) BY <2>1 DEF num
  <2>3. 1 \in 1 .. Len(<<num>>) /\ <<num>>[1] = num /\ 0 + 1 = 1 OBVIOUS
  <2>4. all[0 + 1] = <<num>>[1] BY <2>2, <2>3 DEF LiesAt
  <2> QED BY <2>3, <2>4 DEF num
<1>13. all[1] # 169
  <2> DEFINE num == o[1].op
  <2>1. num <= 96 BY <1>3, <1>5
  <2>2. num \in Nat
    <3>1. o[1] \in Chunk BY <1>5, <1>6 DEF n
    <3> QED BY <3>1, ChunkFields
  <2> HIDE DEF num
  <2>3. num # 169 BY <2>1, <2>2
  <2> QED BY <2>3, <1>12 DEF num
<1>14. Opcode.OP_HASH160 = 169 BY OpcodeValues, Zenon
<1> QED BY <1>4, <1>13, <1>14, Zenon DEF IsScriptHashOut, o

(* A call that spends a bare multisig output: what is known in each of its phases *)
MultisigInv ==
  calls = 1 /\ MultisigCall(call.args) =>
    /\ phase = "scriptSig" => SigsRun(interpreter, call.args)
    /\ phase = "scriptPubkey" => ChecksRun(interpreter, call.args)
    /\ phase \notin {"redeemScript", "threw"}
    /\ phase = "true" => Ordered(call.args)
    /\ phase = "false" => interpreter.errstr \in Refusals \/ ~Ordered(call.args)

(* A call that ends with an error has its reason. *)
LEMMA EndsRefused ==
  ASSUME phase' = "false", interpreter'.errstr \in Refusals \/ ~Ordered(call'.args)
  PROVE  MultisigInv'
<1>1. /\ phase' # "scriptSig" /\ phase' # "scriptPubkey" /\ phase' # "true"
      /\ phase' \notin {"redeemScript", "threw"}
  OBVIOUS
<1> QED BY <1>1, Zenon DEF MultisigInv

LEMMA CallVerifyMultisig == Inv /\ CallVerify => MultisigInv'
<1> SUFFICES ASSUME Inv, CallVerify, calls' = 1, MultisigCall(call'.args) PROVE MultisigInv'
  BY DEF MultisigInv
<1>0. PICK i \in DOMAIN Calls : \E args \in Calls[i] :
        LET m == [interpreter EXCEPT !.script = args.scriptSig, !.tx = args.tx,
                                     !.flags = args.flags, !.errstr = ""]
        IN  /\ call' = [args |-> args, stackCopy |-> <<>>]
            /\ IF "SIGPUSHONLY" \in args.flags /\ ~IsPushOnly(args.scriptSig)
                 THEN interpreter' = Fail(m, "SIG_PUSHONLY") /\ phase' = "false"
                 ELSE Enter(m, "scriptSig")
  BY Zenon DEF CallVerify
<1>1. PICK args \in Calls[i] :
        LET m == [interpreter EXCEPT !.script = args.scriptSig, !.tx = args.tx,
                                     !.flags = args.flags, !.errstr = ""]
        IN  /\ call' = [args |-> args, stackCopy |-> <<>>]
            /\ IF "SIGPUSHONLY" \in args.flags /\ ~IsPushOnly(args.scriptSig)
                 THEN interpreter' = Fail(m, "SIG_PUSHONLY") /\ phase' = "false"
                 ELSE Enter(m, "scriptSig")
  BY <1>0, Zenon
<1> DEFINE m == [interpreter EXCEPT !.script = args.scriptSig, !.tx = args.tx,
                                    !.flags = args.flags, !.errstr = ""]
<1>2. call'.args = args BY <1>1
<1>3. MultisigCall(args) /\ IsPushOnly(args.scriptSig) BY <1>2, SignaturesArePushes
<1>4. interpreter = Initialized
  <2>1. calls \in Nat /\ MaxCalls \in Nat /\ calls' = calls + 1
    BY LimitsAssumption DEF Inv, CallVerify
  <2>2. calls = 0 BY <2>1
  <2> QED BY <2>2 DEF Inv
<1>5. /\ m.script = args.scriptSig /\ m.pc = 0 /\ m.stack = <<>> /\ m.vfExec = <<>>
      /\ m.errstr = "" /\ m.pbegincodehash = 0 /\ Fail(m, "SCRIPT_SIZE").errstr = "SCRIPT_SIZE"
  BY <1>4 DEF Initialized, Fail
<1>6. \/ phase' = "false" /\ interpreter' = Fail(m, "SCRIPT_SIZE")
      \/ phase' = "scriptSig" /\ interpreter' = m
  BY <1>1, <1>3, Zenon DEF Enter
<1> HIDE DEF m
<1>7. SigsRun(m, args)
  <2>1. m.stack = [k \in 1 .. m.pc |-> Pushed(args.scriptSig[k])]
    <3>1. <<>> = [k \in 1 .. 0 |-> Pushed(args.scriptSig[k])] OBVIOUS
    <3> QED BY <3>1, <1>5
  <2> QED BY <2>1, <1>5, Zenon DEF SigsRun, SigRun, Plain
<1>8. CASE phase' = "false" /\ interpreter' = Fail(m, "SCRIPT_SIZE")
  <2>1. "SCRIPT_SIZE" \in Refusals BY DEF Refusals, Exceeded
  <2> QED BY <2>1, <1>5, <1>8, EndsRefused
<1>9. CASE phase' = "scriptSig" /\ interpreter' = m
  <2>1. SigsRun(interpreter', call'.args) BY <1>2, <1>7, <1>9
  <2>2. phase' \notin {"scriptPubkey", "redeemScript", "threw", "true", "false"} BY <1>9
  <2> QED BY <2>1, <2>2 DEF MultisigInv
<1> QED BY <1>6, <1>8, <1>9

LEMMA RunStepMultisig == DigestsAreBuffers /\ Inv /\ MultisigInv /\ RunStep => MultisigInv'
<1> SUFFICES ASSUME DigestsAreBuffers, Inv, MultisigInv, RunStep, calls' = 1,
                    MultisigCall(call'.args)
             PROVE  MultisigInv'
  BY DEF MultisigInv
<1> DEFINE m == interpreter
           n == interpreter'
           args == call.args
<1>1. Machine(m) /\ m.pc < Len(m.script) /\ phase \in Running /\ UNCHANGED <<call, calls>>
  BY DEF Inv, RunStep
<1>2. n = Step(m) BY DEF RunStep
<1>3. phase' = IF n.errstr = "" THEN phase ELSE "false" BY DEF RunStep
<1>4. calls = 1 /\ MultisigCall(args) /\ call' = call BY <1>1
<1>5. /\ phase \in {"scriptSig", "scriptPubkey"}
      /\ phase = "scriptSig" => SigsRun(m, args)
      /\ phase = "scriptPubkey" => ChecksRun(m, args)
  BY <1>1, <1>4 DEF MultisigInv, Running
<1>6. "" \notin Refusals BY DEF Refusals, Exceeded
<1> HIDE DEF m, n, args
<1>7. CASE phase = "scriptSig"
  <2>1. n.errstr \in Refusals \/ SigsRun(n, args) BY <1>1, <1>2, <1>4, <1>5, <1>7, SigsRunStep
  <2>2. CASE n.errstr \in Refusals
    <3>1. phase' = "false" BY <2>2, <1>3, <1>6, Zenon
    <3> QED BY <2>2, <3>1, EndsRefused DEF n
  <2>3. CASE SigsRun(n, args)
    <3>1. phase' = "scriptSig" BY <2>3, <1>3, <1>7 DEF SigsRun, Plain
    <3>2. phase' \notin {"scriptPubkey", "redeemScript", "threw", "true", "false"} BY <3>1
    <3> QED BY <2>3, <3>1, <3>2, <1>4 DEF MultisigInv, n, args
  <2> QED BY <2>1, <2>2, <2>3
<1>8. CASE phase = "scriptPubkey"
  <2>1. IF n.errstr = "" THEN ChecksRun(n, args) ELSE Decided(n, args)
    BY <1>1, <1>2, <1>4, <1>5, <1>8, ChecksRunStep
  <2>2. CASE n.errstr # ""
    <3>1. phase' = "false" BY <2>2, <1>3
    <3>2. n.errstr \in Refusals \/ ~Ordered(args) BY <2>1, <2>2, Zenon DEF Decided
    <3> QED BY <3>1, <3>2, <1>4, EndsRefused DEF n, args
  <2>3. CASE n.errstr = ""
    <3>1. phase' = "scriptPubkey" BY <2>3, <1>3, <1>8
    <3>2. ChecksRun(n, args) BY <2>1, <2>3
    <3>3. phase' \notin {"scriptSig", "redeemScript", "threw", "true", "false"} BY <3>1
    <3> QED BY <3>1, <3>2, <3>3, <1>4 DEF MultisigInv, n, args
  <2> QED BY <2>2, <2>3
<1> QED BY <1>5, <1>7, <1>8

LEMMA FinishScriptSigMultisig == Inv /\ MultisigInv /\ FinishScriptSig => MultisigInv'
<1> SUFFICES ASSUME Inv, MultisigInv, FinishScriptSig, calls' = 1, MultisigCall(call'.args)
             PROVE  MultisigInv'
  BY DEF MultisigInv
<1> DEFINE m == interpreter
           args == call.args
           n == Load(args.scriptPubkey, m.stack)
<1>1. calls = 1 /\ phase = "scriptSig" BY DEF FinishScriptSig, AtEnd
<1>2. call'.args = args
  <2>1. CASE call' = [call EXCEPT !.stackCopy =
                        IF "P2SH" \in call.args.flags THEN interpreter.stack ELSE <<>>]
    BY <2>1
  <2>2. CASE UNCHANGED call BY <2>2
  <2> QED BY <2>1, <2>2, Zenon DEF FinishScriptSig
<1>3. MultisigCall(args) BY <1>2
<1>4. SigsRun(m, args) BY <1>1, <1>3 DEF MultisigInv
<1>5. Machine(m) BY DEF Inv
<1>6. m.pc = Len(args.scriptSig)
  <2>1. m.pc = Len(m.script) BY <1>1, AtItsEnd DEF FinishScriptSig
  <2> QED BY <2>1, <1>4, Zenon DEF SigsRun, SigRun
<1>7. EndError(m) \in {"", "STACK_SIZE"}
  <2>1. m.vfExec = <<>> BY <1>4, Zenon DEF SigsRun, Plain
  <2> QED BY <2>1, Zenon DEF EndError
<1>8. \/ phase' = "false" /\ interpreter' = Fail(m, "STACK_SIZE")
      \/ phase' = "false" /\ interpreter' = Fail(n, "SCRIPT_SIZE")
      \/ phase' = "scriptPubkey" /\ interpreter' = n
  <2>1. CASE EndError(m) # ""
    <3>1. EndError(m) = "STACK_SIZE" BY <2>1, <1>7
    <3> QED BY <2>1, <3>1, Zenon DEF FinishScriptSig, Return
  <2>2. CASE EndError(m) = "" BY <2>2, Zenon DEF FinishScriptSig, Enter
  <2> QED BY <2>1, <2>2
<1> DEFINE script == args.scriptPubkey
           stack == m.stack
           b == Beginning(script, stack, args)
<1>9. n = b BY LoadIs
<1>10. b.pbegincodehash = 0 /\ Fail(b, "SCRIPT_SIZE").errstr = "SCRIPT_SIZE"
  <2> HIDE DEF script, stack, args
  <2> QED BY DEF Beginning, Initialized, Fail
<1>11. stack = StackTo(args, 0)
  <2>1. IsPushOnly(args.scriptSig) BY <1>3, SignaturesArePushes
  <2>2. stack = [i \in 1 .. m.pc |-> Pushed(args.scriptSig[i])]
    BY <2>1, <1>4, Zenon DEF SigsRun, SigRun
  <2>3. args.scriptSig \in Seq(Chunk) /\ args.scriptPubkey \in Seq(Chunk)
    BY <1>3, Zenon DEF MultisigCall
  <2> QED BY <2>2, <2>3, <1>6, StackToBegins
<1>12. Len(script) # 0 /\ script = args.scriptPubkey
  <2> DEFINE K == Len(args.scriptPubkey) - 3
  <2>1. Shape(args, Len(args.scriptSig) - 1, K) BY <1>3, MultisigShape, Zenon
  <2>2. K \in 1 .. 16 /\ Len(args.scriptPubkey) = K + 3 BY <2>1, Zenon DEF Shape
  <2> HIDE DEF K
  <2> QED BY <2>2
<1> HIDE DEF n, script, stack, args
<1>13. /\ b.script = script /\ b.stack = stack /\ b.pc = 0 /\ b.vfExec = <<>>
       /\ b.errstr = ""
  <2>1. b.script = script /\ b.stack = stack /\ b.pc = 0 /\ b.vfExec = <<>> /\ Unfailed(b)
    BY LoadFields
  <2> QED BY <2>1, Zenon DEF Unfailed
<1> HIDE DEF b
<1>14. ChecksRun(b, args) BY <1>10, <1>11, <1>12, <1>13, Zenon DEF ChecksRun, Plain
<1>15. CASE phase' = "false" /\ (\/ interpreter' = Fail(m, "STACK_SIZE")
                                \/ interpreter' = Fail(n, "SCRIPT_SIZE"))
  <2>1. "SCRIPT_SIZE" \in Refusals /\ "STACK_SIZE" \in Refusals BY DEF Refusals, Exceeded
  <2>2. Fail(m, "STACK_SIZE").errstr = "STACK_SIZE" BY <1>5, FailsStop
  <2>3. Fail(n, "SCRIPT_SIZE").errstr = "SCRIPT_SIZE" BY <1>9, <1>10
  <2>4. interpreter'.errstr \in Refusals BY <2>1, <2>2, <2>3, <1>15, Zenon
  <2> QED BY <2>4, <1>15, EndsRefused
<1>16. CASE phase' = "scriptPubkey" /\ interpreter' = n
  <2>1. ChecksRun(interpreter', call'.args) BY <1>2, <1>9, <1>14, <1>16
  <2>2. phase' \notin {"scriptSig", "redeemScript", "threw", "true", "false"} BY <1>16
  <2> QED BY <2>1, <2>2 DEF MultisigInv
<1> QED BY <1>8, <1>15, <1>16

LEMMA ResultIsTruth == \A b \in BOOLEAN : CastToBool(ToBool(b)) <=> b
BY DEF CastToBool, ToBool, FALSEBUF, TRUEBUF

LEMMA FinishScriptPubkeyMultisig == Inv /\ MultisigInv /\ FinishScriptPubkey => MultisigInv'
<1> SUFFICES ASSUME Inv, MultisigInv, FinishScriptPubkey, calls' = 1, MultisigCall(call'.args)
             PROVE  MultisigInv'
  BY DEF MultisigInv
<1> DEFINE m == interpreter
           args == call.args
<1>1. calls = 1 /\ phase = "scriptPubkey" /\ call' = call
  BY DEF FinishScriptPubkey, AtEnd
<1>2. MultisigCall(args) /\ Machine(m) BY <1>1 DEF Inv
<1>3. ChecksRun(m, args) BY <1>1, <1>2 DEF MultisigInv
<1>4. m.pc = Len(m.script) BY <1>1, AtItsEnd DEF FinishScriptPubkey
<1>5. m.errstr = "" /\ Decided(m, args) BY <1>3, <1>4, Zenon DEF ChecksRun
<1>6. "" \notin Refusals BY DEF Refusals, Exceeded
<1>7. m.vfExec = <<>> /\ Has(m, 1) /\ Top(m, 1) = ToBool(Ordered(args))
  BY <1>5, <1>6, Zenon DEF Decided
<1>8. EndError(m) \in {"", "STACK_SIZE"} BY <1>7, Zenon DEF EndError
<1>9. m.stack # <<>>
  <2>1. m.stack = <<>> => ~(Len(m.stack) >= 1) OBVIOUS
  <2> QED BY <2>1, <1>7, Zenon DEF Has
<1>10. EvalError(m) = IF Ordered(args) THEN "" ELSE "EVAL_FALSE_IN_STACK"
  <2>1. CastToBool(Top(m, 1)) <=> Ordered(args)
    <3>1. Ordered(args) \in BOOLEAN BY Zenon DEF Ordered, InOrder
    <3> QED BY <3>1, <1>7, ResultIsTruth
  <2> QED BY <2>1, <1>9, Zenon DEF EvalError
<1>11. ~IsScriptHashOut(args.scriptPubkey) BY <1>2, MultisigIsNoHash
<1> DEFINE error == IF EndError(m) # "" THEN EndError(m) ELSE EvalError(m)
<1>12. IF error # "" THEN phase' = "false" /\ interpreter' = Fail(m, error)
       ELSE phase' = "true"
  BY <1>11, Zenon DEF FinishScriptPubkey, Return
<1>13. error = "" => Ordered(args)
  <2>1. "EVAL_FALSE_IN_STACK" # "" OBVIOUS
  <2> QED BY <2>1, <1>10, Zenon
<1>14. error # "" => error \in Refusals \/ ~Ordered(args)
  <2>1. "STACK_SIZE" \in Refusals BY DEF Refusals, Exceeded
  <2> QED BY <2>1, <1>8, <1>10, Zenon
<1> HIDE DEF error
<1>15. CASE error # ""
  <2>1. Fail(m, error).errstr = error BY <1>2, FailsStop
  <2>2. interpreter'.errstr \in Refusals \/ ~Ordered(call'.args)
    BY <2>1, <1>1, <1>12, <1>14, <1>15
  <2> QED BY <2>2, <1>12, <1>15, EndsRefused
<1>16. CASE error = ""
  <2>1. phase' = "true" BY <1>12, <1>16
  <2>2. phase' \notin {"scriptSig", "scriptPubkey", "redeemScript", "threw", "false"} BY <2>1
  <2> QED BY <2>2, <1>1, <1>13, <1>16 DEF MultisigInv
<1> QED BY <1>15, <1>16

LEMMA MultisigStep == DigestsAreBuffers /\ Inv /\ MultisigInv /\ [Next]_vars => MultisigInv'
<1> SUFFICES ASSUME DigestsAreBuffers, Inv, MultisigInv, [Next]_vars PROVE MultisigInv'
  OBVIOUS
<1>1. CASE CallVerify BY <1>1, CallVerifyMultisig
<1>2. CASE RunStep BY <1>2, RunStepMultisig
<1>3. CASE FinishScriptSig BY <1>3, FinishScriptSigMultisig
<1>4. CASE FinishScriptPubkey BY <1>4, FinishScriptPubkeyMultisig
<1>5. CASE FinishRedeemScript
  <2>1. phase = "redeemScript" /\ UNCHANGED <<call, calls>>
    BY <1>5 DEF FinishRedeemScript, AtEnd
  <2>2. ~(calls = 1 /\ MultisigCall(call.args)) BY <2>1 DEF MultisigInv
  <2>3. ~(calls' = 1 /\ MultisigCall(call'.args)) BY <2>1, <2>2
  <2> QED BY <2>3 DEF MultisigInv
<1>6. CASE UNCHANGED vars BY <1>6 DEF vars, MultisigInv
<1> QED BY <1>1, <1>2, <1>3, <1>4, <1>5, <1>6 DEF Next

-----------------------------------------------------------------------------
(* The theorems                                                            *)

LEMMA AlwaysInv == DigestsAreBuffers /\ Spec => []Inv
<1> SUFFICES ASSUME DigestsAreBuffers PROVE Spec => []Inv OBVIOUS
<1>1. Init => Inv BY InitInv
<1>2. Inv /\ [Next]_vars => Inv' BY StepInv
<1> QED BY <1>1, <1>2, PTL DEF Spec

(* A script within the limits *)
WithinLimits(s) ==
  /\ OpsOf(s) <= MAX_OPS
  /\ \A i \in DOMAIN s : /\ HasBuf(s[i]) => Len(s[i].buf) <= MAX_SCRIPT_ELEMENT_SIZE
                        /\ s[i].op \notin Disabled

LEMMA PassedToTheEnd ==
  ASSUME NEW m, Machine(m), InScript(m), PassedWithinLimits(m), m.pc >= Len(m.script)
  PROVE  WithinLimits(m.script)
<1>1. m.script \in Seq(Chunk) /\ m.pc \in Nat /\ m.nOpCount \in Nat BY MachineFields
<1>2. Len(m.script) \in Nat /\ DOMAIN m.script = 1 .. Len(m.script) BY <1>1, LenProperties
<1>3. m.pc = Len(m.script) BY <1>1, <1>2 DEF InScript
<1>4. OpsOf(m.script) = Cardinality(OpsUpTo(m.script, m.pc))
  BY <1>2, <1>3 DEF OpsOf, OpsUpTo
<1>5. Cardinality(OpsUpTo(m.script, m.pc)) \in Nat BY <1>1, OneMoreOp
<1>6. MAX_OPS \in Nat BY LimitsAssumption
<1>7. OpsOf(m.script) <= MAX_OPS
  BY <1>1, <1>4, <1>5, <1>6 DEF PassedWithinLimits
<1> QED BY <1>2, <1>3, <1>7 DEF WithinLimits, PassedWithinLimits

(* The fields of the interpreter have their types, and the place it has       *)
(* reached lies in its script, for every script and every stack: each opcode's *)
(* branch in step() leaves buffers of bytes on the stacks, and the chunks of a *)
(* redeem script are read from any bytes whatever.                            *)
THEOREM InterpreterTyped ==
  ASSUME DigestsAreBuffers, MaxCalls = 1
  PROVE  Spec => []TypeOK
<1>1. Inv => TypeOK
  <2> SUFFICES ASSUME Inv PROVE TypeOK OBVIOUS
  <2>1. calls <= 1 BY MaxCalls = 1 DEF Inv
  <2>2. InScript(interpreter) BY <2>1 DEF Inv, Covered
  <2>3. call.args.flags \subseteq Flags BY DEF Inv, CallTyped
  <2>4. /\ interpreter.stack \in Stack /\ interpreter.altstack \in Stack
        /\ interpreter.vfExec \in Seq(BOOLEAN) /\ interpreter.flags \subseteq Flags
    BY MachineFields DEF Inv
  <2>5. \A i \in DOMAIN interpreter.vfExec : interpreter.vfExec[i] \in BOOLEAN
    BY <2>4, ElementOfSeq, LenProperties
  <2>6. ASSUME NEW stack \in Stack, NEW i \in DOMAIN stack, NEW j \in DOMAIN stack[i]
        PROVE  stack[i][j] \in Byte
    <3>1. stack[i] \in Seq(Byte) BY ElementOfSeq, LenProperties DEF Stack, Buffer
    <3> QED BY <3>1, ElementOfSeq, LenProperties
  <2> QED BY <2>2, <2>3, <2>4, <2>5, <2>6 DEF Inv, TypeOK, InScript
<1> QED BY <1>1, AlwaysInv, PTL

(* No script of a fresh interpreter runs to its end with more operations, a    *)
(* longer element or another opcode than step() allows, the branches it skips  *)
(* included: nOpCount is never less than the operations passed, and nothing    *)
(* lowers it while the script runs.                                           *)
THEOREM LimitsAreKept ==
  ASSUME DigestsAreBuffers, MaxCalls = 1
  PROVE  Spec => []LimitsHold
<1>1. Inv => LimitsHold
  <2> SUFFICES ASSUME Inv, NEW name \in Running, AtEnd(name) PROVE WithinLimits(interpreter.script)
    BY DEF LimitsHold, WithinLimits
  <2>1. calls <= 1 BY MaxCalls = 1 DEF Inv
  <2>2. InScript(interpreter) /\ PassedWithinLimits(interpreter)
    BY <2>1 DEF Inv, Covered, AtEnd
  <2> QED BY <2>2, PassedToTheEnd DEF Inv, AtEnd
<1> QED BY <1>1, AlwaysInv, PTL

OutputsWithinLimits ==
  \A name \in {"scriptPubkey", "redeemScript"} :
    AtEnd(name) => WithinLimits(interpreter.script)

(* However often verify() is called on one object, the script of the output    *)
(* and the redeem script are held to the limits: verify() initializes the      *)
(* object before each of them, only not before the script of the input.        *)
THEOREM OutputLimitsAreKept ==
  ASSUME DigestsAreBuffers
  PROVE  Spec => []OutputsWithinLimits
<1>1. Inv => OutputsWithinLimits
  <2> SUFFICES ASSUME Inv, NEW name \in {"scriptPubkey", "redeemScript"}, AtEnd(name)
               PROVE  WithinLimits(interpreter.script)
    BY DEF OutputsWithinLimits
  <2>1. Covered /\ phase \in Running BY DEF Covered, AtEnd, Running
  <2> QED BY <2>1, PassedToTheEnd DEF Inv, AtEnd
<1> QED BY <1>1, AlwaysInv, PTL

(* A call of verify() that spends a pay to script hash output under P2SH, and  *)
(* returns true, had an input script that only pushes; its last push is a      *)
(* script with the output's hash; and that script, run on the other pushes     *)
(* alone, fails nowhere and leaves a true top, although three scripts ran      *)
(* between them and the stack that the output's script left is thrown away.    *)
THEOREM RedeemScriptsAccept ==
  ASSUME DigestsAreBuffers, ScriptHashesAreRead
  PROVE  Spec => []RedeemScriptAccepts
<1>1. Init => HashInv
  <2>1. 0 # 1 OBVIOUS
  <2> QED BY <2>1, Zenon DEF Init, HashInv
<1>2. Inv /\ HashInv /\ [Next]_vars => HashInv' BY HashStep
<1>3. Inv /\ HashInv => RedeemScriptAccepts
  <2> SUFFICES ASSUME Inv, HashInv, phase = "true", calls = 1, SpendsHash(call.args)
               PROVE  LET args == call.args
                          redeem == Pushed(Last(args.scriptSig))
                          end == EvaluateOn(FromBuffer(redeem).chunks,
                                            StackOf(Front(args.scriptSig)), args)
                      IN  /\ IsPushOnly(args.scriptSig)
                          /\ Digest("hash160", redeem) = args.scriptPubkey[2].buf
                          /\ end.errstr = "" /\ end.vfExec = <<>> /\ end.stack # <<>>
                          /\ Truth(Last(end.stack))
    BY Zenon DEF RedeemScriptAccepts, SpendsHash
  <2>1. Redeemed(interpreter, call) BY DEF HashInv
  <2> DEFINE s == call.args.scriptSig
             copy == call.stackCopy
  <2>2. copy = StackOf(s) /\ copy # <<>> BY <2>1 DEF Redeemed, Redeems
  <2>3. s \in Seq(Chunk) /\ s # <<>>
    <3>1. s \in Seq(Chunk) BY DEF Inv, CallTyped
    <3>2. StackOf(<<>>) = <<>> BY DEF StackOf
    <3> QED BY <3>1, <3>2, <2>2, Zenon
  <2> HIDE DEF s, copy
  <2>4. Last(copy) = Pushed(Last(s)) /\ Front(copy) = StackOf(Front(s))
    BY <2>2, <2>3, StackOfFront, Zenon
  <2> DEFINE redeem == Pushed(Last(s))
             end == EvaluateOn(FromBuffer(redeem).chunks, StackOf(Front(s)), call.args)
  <2>5. IsPushOnly(s) /\ Digest("hash160", redeem) = call.args.scriptPubkey[2].buf
    BY <2>1, <2>4, Zenon DEF Redeemed, Redeems, HashedTop, s, copy
  <2>6. Accepts(end) /\ end = interpreter
    BY <2>1, <2>4, Zenon DEF Redeemed, RedeemScript, s, copy
  <2> HIDE DEF end, redeem
  <2>7. end.vfExec = <<>>
    <3>1. "STACK_SIZE" # "" /\ "UNBALANCED_CONDITIONAL" # "" OBVIOUS
    <3> QED BY <3>1, <2>6, Zenon DEF Accepts, EndError
  <2>8. end.stack # <<>> /\ CastToBool(Top(end, 1))
    <3>1. "EVAL_FALSE_NO_RESULT" # "" /\ "EVAL_FALSE_IN_STACK" # "" OBVIOUS
    <3> QED BY <3>1, <2>6, Zenon DEF Accepts, EvalError
  <2>9. end.errstr = "" BY <2>6, Zenon DEF Accepts
  <2>10. Truth(Last(end.stack))
    <3>1. end.stack \in Seq(Buffer) BY <2>6, MachineFields DEF Inv, Stack
    <3> DEFINE stack == end.stack
               buf == Top(end, 1)
    <3>2. Len(stack) \in 1 .. Len(stack) BY <3>1, <2>8, EmptySeq
    <3>3. buf = Last(stack)
      <4>1. Len(stack) + 1 - 1 = Len(stack) BY <3>2
      <4> QED BY <4>1 DEF Top, Last
    <3>4. Last(stack) \in Buffer BY <3>1, <3>2, ElementOfSeq DEF Last
    <3> QED BY <2>8, <3>3, <3>4, CastToBoolIsTruth, Zenon
  <2> QED BY <2>5, <2>7, <2>8, <2>9, <2>10, Zenon DEF end, redeem, s
<1> QED BY <1>1, <1>2, <1>3, AlwaysInv, PTL DEF Spec

(* A call of verify() under P2SH that returns true: the address that            *)
(* getAddressInfo gives for the script of the input names the same hash as the *)
(* one it gives for the script of the output, where it gives both.  The input  *)
(* may be of any form, also one whose pushes lie in a conditional, and the     *)
(* output pay to public key hash or pay to script hash.                        *)
THEOREM AddressesAreSpent ==
  ASSUME DigestsAreBuffers, ScriptHashesAreRead, PushesAreRead
  PROVE  Spec => []SpendsItsAddress
<1>1. Init => AddressInv
  <2>1. 0 # 1 OBVIOUS
  <2> QED BY <2>1, Zenon DEF Init, AddressInv
<1>2. Inv /\ AddressInv /\ [Next]_vars => AddressInv' BY AddressStep
<1>3. Inv /\ AddressInv /\ RedeemScriptAccepts => SpendsItsAddress
  <2> DEFINE s == call.args.scriptSig
             o == call.args.scriptPubkey
             from == AddressInfo(s, "input")
             to == AddressInfo(o, "output")
  <2> SUFFICES ASSUME Inv, AddressInv, RedeemScriptAccepts, phase = "true", calls = 1,
                      "P2SH" \in call.args.flags, from # NoAddress, to # NoAddress
               PROVE  from.hash = to.hash
    BY DEF SpendsItsAddress
  <2>1. from = InputAddressInfo(s) /\ to = OutputAddressInfo(o) BY DEF AddressInfo
  <2>2. PushesRead(call.args) BY DEF AddressInv
  <2>3. s \in Seq(Chunk) BY DEF Inv, CallTyped
  <2> HIDE DEF s, o, from, to
  <2>4. /\ EndsInBuffer(s) /\ s # <<>>
        /\ from.hash = Digest("hash160", Last(s).buf)
    <3>1. CASE IsPublicKeyHashIn(s)
      <4>1. from = PayToPublicKeyHash(Digest("hash160", s[2].buf))
        BY <2>1, <3>1 DEF InputAddressInfo
      <4>2. Len(s) = 2 /\ HasBuf(s[2]) BY <3>1 DEF IsPublicKeyHashIn
      <4>3. Last(s) = s[2] /\ s # <<>> BY <4>2, <2>3, EmptySeq DEF Last
      <4> QED BY <4>1, <4>2, <4>3 DEF PayToPublicKeyHash, EndsInBuffer
    <3>2. CASE ~IsPublicKeyHashIn(s)
      <4>1. IsScriptHashIn(s) /\ from = PayToScriptHash(Digest("hash160", Last(s).buf))
        BY <2>1, <3>2 DEF InputAddressInfo
      <4>2. EndsInBuffer(s) BY <4>1, Zenon DEF IsScriptHashIn
      <4>3. s # <<>> BY <4>2, <2>3, EmptySeq DEF EndsInBuffer
      <4> QED BY <4>1, <4>2, <4>3 DEF PayToScriptHash
    <3> QED BY <3>1, <3>2
  <2>5. CASE IsScriptHashOut(o)
    <3>1. to.hash = o[2].buf BY <2>1, <2>5 DEF OutputAddressInfo, PayToScriptHash
    <3>2. Digest("hash160", Pushed(Last(s))) = o[2].buf
      BY <2>5, Zenon DEF RedeemScriptAccepts, s, o
    <3>3. Last(s) \in Chunk /\ Last(s) = s[Len(s)] /\ Len(s) \in DOMAIN s
      <4>1. Len(s) \in 1 .. Len(s) /\ DOMAIN s = 1 .. Len(s) BY <2>3, <2>4, EmptySeq, LenProperties
      <4> QED BY <4>1, <2>3, ElementOfSeq DEF Last
    <3>4. Last(s).op <= Opcode.OP_PUSHDATA4
      BY <2>2, <2>4, <3>3 DEF PushesRead, EndsInBuffer, s
    <3>5. Last(s).op \in Nat BY <3>3, ChunkFields
    <3>6. Pushed(Last(s)) = Last(s).buf
      BY <2>4, <3>4, <3>5, PushIsSmall, Zenon DEF Pushed, EndsInBuffer
    <3> QED BY <2>4, <3>1, <3>2, <3>6
  <2>6. CASE ~IsScriptHashOut(o)
    <3>1. IsPublicKeyHashOut(o) /\ to = PayToPublicKeyHash(o[3].buf)
      BY <2>1, <2>6 DEF OutputAddressInfo
    <3>2. SpendsKeyHash(call.args) BY <2>4, <3>1 DEF SpendsKeyHash, EndsInBuffer, s, o
    <3>3. Digest("hash160", Last(s).buf) = o[3].buf
      BY <3>2 DEF AddressInv, SameHash, LastPush, s, o
    <3> QED BY <2>4, <3>1, <3>3 DEF PayToPublicKeyHash
  <2> QED BY <2>5, <2>6
<1> QED BY <1>1, <1>2, <1>3, AlwaysInv, RedeemScriptsAccept, PTL DEF Spec

(* A chunk of an input's script that is a whole push is let through by          *)
(* checkMinimalPush exactly when no other way to push its data is shorter: for *)
(* data of any length, and every opcode that pushes.                          *)
THEOREM MinimalPushesAreShortest ==
  ASSUME DigestsAreBuffers
  PROVE  Spec => []MinimalIsShortest
<1>1. Inv => MinimalIsShortest
  <2> DEFINE s == call.args.scriptSig
  <2> SUFFICES ASSUME Inv, phase # "idle", NEW i \in DOMAIN s, HasBuf(s[i]),
                      s[i] \in PushesOf(s[i].buf)
               PROVE  CheckMinimalPush(s[i]) <=>
                        \A c \in PushesOf(s[i].buf) : Len(ChunkToBuffer(s[i])) <= Len(ChunkToBuffer(c))
    BY DEF MinimalIsShortest
  <2>1. s \in Seq(Chunk) BY DEF Inv, CallTyped
  <2> DEFINE chunk == s[i]
  <2>2. chunk \in Chunk
    <3> HIDE DEF s
    <3> QED BY <2>1, ElementOfSeq, LenProperties
  <2> HIDE DEF s
  <2> HIDE DEF chunk
  <2>3. HasBuf(chunk) BY DEF chunk
  <2>4. chunk.buf \in Buffer BY <2>2, <2>3, ChunkFields
  <2>5. chunk \in PushesOf(chunk.buf) BY DEF chunk
  <2> QED BY <2>3, <2>4, <2>5, MinimalIsShort, Zenon DEF SizeOf, chunk
<1> QED BY <1>1, AlwaysInv, PTL

LocksHoldAtAll == LocksHoldAt(Int, Int, Int)

(* A call of verify() that returns true, for an output of the form <n> <lock>, *)
(* spends it in a transaction that no block below the height, before the time  *)
(* or within the age that n names can hold: for every height, time and age, and *)
(* with a mask of the sequence number that lies below its type flag.           *)
THEOREM LocksAreHeld ==
  ASSUME DigestsAreBuffers
  PROVE  Spec => [](LocksHoldAtAll /\ LocksHold)
<1>1. Init => LockInv
  <2>1. 0 # 1 OBVIOUS
  <2> QED BY <2>1, Zenon DEF Init, LockInv
<1>2. Inv /\ LockInv /\ [Next]_vars => LockInv' BY LockStep
<1>3. Inv /\ LockInv => LocksHoldAtAll
  <2> SUFFICES ASSUME Inv, LockInv, phase = "true", calls = 1
               PROVE  /\ \A height \in Int, time \in Int : HeldUntil(call.args, height, time)
                      /\ \A blocks, seconds \in Int : HeldForAge(call.args, blocks, seconds)
    BY DEF LocksHoldAtAll, LocksHoldAt
  <2> DEFINE args == call.args
             n == LockNumber(args)
  <2>1. ASSUME NEW num \in LockOps, LockedWith(args, num)
        PROVE  n \in Int /\ TimesTyped(args.tx) /\ Checks(args)
    <3>1. Locked(args) BY <2>1 DEF Locked
    <3>2. args.scriptPubkey \in Seq(Chunk) BY DEF Inv, CallTyped
    <3>3. args.scriptPubkey[1] \in Chunk
      <4>1. 1 \in 1 .. Len(args.scriptPubkey) BY <2>1 DEF LockedWith
      <4> QED BY <3>2, <4>1, ElementOfSeq
    <3>4. n \in Int BY <3>3, PushedType, FromScriptNumType DEF LockNumber
    <3> QED BY <3>1, <3>4 DEF LockInv
  <2>2. Opcode.OP_CHECKLOCKTIMEVERIFY \in LockOps /\ Opcode.OP_CHECKSEQUENCEVERIFY \in LockOps
    BY DEF LockOps
  <2>3. ASSUME NEW height \in Int, NEW time \in Int,
               LockedWith(args, Opcode.OP_CHECKLOCKTIMEVERIFY),
               "CHECKLOCKTIMEVERIFY" \in args.flags, FinalAt(args.tx, height, time)
        PROVE  n < (IF n < LOCKTIME_THRESHOLD THEN height ELSE time)
    <3> DEFINE tx == args.tx
    <3>1. CheckLockTime(tx, n) BY <2>1, <2>2, <2>3, Zenon DEF Checks
    <3>2. n \in Int /\ tx.nLockTime \in Nat BY <2>1, <2>2, <2>3 DEF TimesTyped
    <3>3. FinalAt(tx, height, time) BY <2>3
    <3> HIDE DEF tx, n
    <3> QED BY <3>1, <3>2, <3>3, LockTimeHolds
  <2>4. ASSUME NEW blocks \in Int, NEW seconds \in Int,
               LockedWith(args, Opcode.OP_CHECKSEQUENCEVERIFY),
               "CHECKSEQUENCEVERIFY" \in args.flags,
               ~HasFlag(n, SEQUENCE_LOCKTIME_DISABLE_FLAG),
               MatureAt(args.tx, blocks, seconds)
        PROVE  Reached(n, blocks, seconds)
    <3> DEFINE tx == args.tx
    <3>1. CheckSequence(tx, n) BY <2>1, <2>2, <2>4, Zenon DEF Checks
    <3>2. n \in Int /\ tx.sequence \in Nat /\ tx.version \in Int
      BY <2>1, <2>2, <2>4 DEF TimesTyped
    <3>3. MatureAt(tx, blocks, seconds) BY <2>4
    <3> HIDE DEF tx, n
    <3> QED BY <3>1, <3>2, <3>3, SequenceHolds
  <2> QED BY <2>3, <2>4, Zenon DEF HeldUntil, HeldForAge
<1>4. LocksHoldAtAll => LocksHold
  <2>1. Heights \subseteq Int /\ Times \subseteq Int /\ Ages \subseteq Int
    BY LocksAssumption DEF Heights, Times, Ages
  <2> QED BY <2>1, Zenon DEF LocksHoldAtAll, LocksHold, LocksHoldAt
<1> QED BY <1>1, <1>2, <1>3, <1>4, AlwaysInv, PTL DEF Spec

(* An interpreter's first call, for an output that asks for as many signatures as *)
(* the input pushes: unless it is refused for a limit or an encoding, it returns   *)
(* true exactly when the signatures are by different keys of the output, in the    *)
(* keys' order.  Neither the way the loop takes keys, from the last one on, nor    *)
(* the deletion of signatures from the script they cover changes that: for as many *)
(* keys as an opcode can name (sixteen), and data of any length.                   *)
THEOREM MultisigsInOrder ==
  ASSUME DigestsAreBuffers
  PROVE  Spec => []MultisigInOrder
<1>1. Init => MultisigInv
  <2>1. 0 # 1 OBVIOUS
  <2> QED BY <2>1, Zenon DEF Init, MultisigInv
<1>2. Inv /\ MultisigInv /\ [Next]_vars => MultisigInv' BY MultisigStep
<1>3. Inv /\ MultisigInv => MultisigInOrder
  <2> SUFFICES ASSUME Inv, MultisigInv, phase \in Ended, calls = 1, SpendsMultisig(call.args),
                      interpreter.errstr \notin Refusals
               PROVE  phase = "true" <=> Ordered(call.args)
    BY Zenon DEF MultisigInOrder, Ordered
  <2>1. MultisigCall(call.args) BY DEF Inv, CallTyped, MultisigCall
  <2>2. /\ phase # "threw" /\ (phase = "true" => Ordered(call.args))
        /\ phase = "false" => ~Ordered(call.args)
    BY <2>1 DEF MultisigInv
  <2>3. phase \in {"true", "false"} BY <2>2 DEF Ended
  <2>4. "true" # "false" OBVIOUS
  <2> QED BY <2>2, <2>3, <2>4, Zenon
<1> QED BY <1>1, <1>2, <1>3, AlwaysInv, PTL DEF Spec

(* Whatever calls of verify() are made, every script of a call whose chunks are *)
(* as they are read from a whole script is read back from its bytes (toBuffer, *)
(* fromBuffer) and, when each of them has a text, from its text (toString,     *)
(* fromString): for scripts, data and lengths of any size below 2^32.          *)
THEOREM ScriptsReadBack ==
  ASSUME DigestsAreBuffers
  PROVE  Spec => []ScriptRoundTrip
<1>1. Inv => ScriptRoundTrip
  <2> SUFFICES ASSUME Inv, NEW s \in Scripts2, \A i \in DOMAIN s : Readable(s[i])
               PROVE  /\ FromBuffer(ToBuffer(s)) = [ok |-> TRUE, chunks |-> s]
                      /\ (\A i \in DOMAIN s : Nameable(s[i])) =>
                           FromWords(ToWords(s, FALSE), FALSE) = [ok |-> TRUE, chunks |-> s]
    BY DEF ScriptRoundTrip
  <2>1. s \in Seq(Chunk) BY DEF Inv, CallTyped, Scripts2
  <2>2. FromBuffer(ToBuffer(s)) = [ok |-> TRUE, chunks |-> s] BY <2>1, BytesReadBack
  <2>3. ASSUME \A i \in DOMAIN s : Nameable(s[i])
        PROVE  FromWords(ToWords(s, FALSE), FALSE) = [ok |-> TRUE, chunks |-> s]
    BY <2>1, <2>3, WordsReadBack
  <2> QED BY <2>2, <2>3
<1> QED BY <1>1, AlwaysInv, PTL
=============================================================================

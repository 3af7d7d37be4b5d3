------------------------- MODULE VerificationProofs -------------------------
(***************************************************************************)
(* The safety of the asynchronous verifications, for any number of calls,  *)
(* any quorums and scores, any window of lists and any number of failed    *)
(* compilations: calls that overlap on the loader of the BLS module, on a  *)
(* moving store and on quorum entries they share.                          *)
(***************************************************************************)
EXTENDS Verification, SumsProofs

-----------------------------------------------------------------------------
(* The inductive invariant *)

\* The flag isLoading is up while a caller compiles, and stays up after a
\* failure; only then does anybody wait for the event.
LoaderInv ==
  /\ \A c, d \in Callers : promise[c] = "compile" /\ promise[d] = "compile" => c = d
  /\ \A c \in Callers : promise[c] \in {"compile", "event"} => isLoading
  /\ isLoading => ~instance
  /\ isLoading /\ failures = 0 => \E c \in Callers : promise[c] = "compile"

\* A call that has not started or has ended waits for nothing.
AwaitInv ==
  /\ \A c \in LockCalls : attempt[c].verdict # "pending" => promise[c] = "none"
  /\ \A c \in QuorumCalls : check[c] \notin {"members", "quorumSig"} => promise[c] = "none"

\* The window holds the lists that the offsets of verify() reach back over.
WindowInv == W!IsWindow(window) /\ Len(window) >= 2 * OFFSET

QuorumInv ==
  /\ \A c \in QuorumCalls : check[c] = "quorumSig" => "valid" \in Entry[c].members
  /\ VerifiedIsTrue

Inv == TypeOK /\ LoaderInv /\ AwaitInv /\ WindowInv /\ QuorumInv

-----------------------------------------------------------------------------
(* The window *)

\* Heights grow by one or more from one list to the next.
LEMMA HeightsGrow ==
  ASSUME NEW w, W!IsWindow(w), NEW i \in DOMAIN w
  PROVE  \A j \in DOMAIN w : i <= j => w[i].height + (j - i) <= w[j].height
<1> DEFINE Low == {j \in DOMAIN w : i <= j /\ ~(w[i].height + (j - i) <= w[j].height)}
<1>1. /\ w \in Seq(Lists) /\ DOMAIN w = 1 .. Len(w) /\ Len(w) \in Nat \ {0}
      /\ \A k \in 2 .. Len(w) : w[k - 1].height < w[k].height
  BY DEF W!IsWindow
<1>2. \A k \in DOMAIN w : w[k].height \in Nat
  BY <1>1, LocksAssumption DEF Lists, ListAt
<1> SUFFICES ASSUME Low # {} PROVE FALSE
  OBVIOUS
<1>3. PICK j \in Low : \A k \in Low : j <= k
  <2>1. Low \subseteq Nat BY <1>1
  <2> HIDE DEF Low
  <2> QED BY <2>1, LeastNat
<1>4. j # i
  BY <1>1, <1>2
<1>5. j - 1 \in DOMAIN w /\ j - 1 \notin Low /\ i <= j - 1
  BY <1>1, <1>3, <1>4
<1>6. w[j - 1].height < w[j].height
  BY <1>1, <1>4, <1>5
<1>7. w[i].height + ((j - 1) - i) <= w[j - 1].height
  BY <1>5
<1>8. /\ i \in Nat /\ j \in DOMAIN w /\ j \in Nat
      /\ w[i].height \in Nat /\ w[j - 1].height \in Nat /\ w[j].height \in Nat
  <2>1. j \in DOMAIN w BY <1>3
  <2>2. i \in Nat /\ j \in Nat BY <1>1, <2>1
  <2> QED BY <1>2, <1>5, <2>1, <2>2
<1>9. ~(w[i].height + (j - i) <= w[j].height)
  BY <1>3
<1> QED
  BY <1>6, <1>7, <1>8, <1>9

\* A new list goes to the end and the oldest may go: the window is one again, its
\* base does not fall, and it stays long enough.
LEMMA ExtendedWindow ==
  ASSUME WindowInv, NEW list \in Lists, list.height > Tip
  PROVE  LET now == W!Latest(Append(window, list))
         IN  /\ W!IsWindow(now) /\ Len(now) >= 2 * OFFSET
             /\ Base <= now[1].height
<1> DEFINE more == Append(window, list)
<1>1. /\ window \in Seq(Lists) /\ DOMAIN window = 1 .. Len(window)
      /\ Len(window) \in 1 .. Size
      /\ \A i \in 2 .. Len(window) : window[i - 1].height < window[i].height
  BY DEF WindowInv, W!IsWindow
<1>2. \A i \in DOMAIN window : window[i].height \in Nat
  BY <1>1, LocksAssumption DEF Lists, ListAt
<1>3. /\ more \in Seq(Lists) /\ Len(more) = Len(window) + 1 /\ more # <<>>
      /\ \A i \in 1 .. Len(window) : more[i] = window[i]
      /\ more[Len(window) + 1] = list
  BY <1>1
<1>4. \A i \in 2 .. Len(more) : more[i - 1].height < more[i].height
  <2> SUFFICES ASSUME NEW i \in 2 .. Len(more) PROVE more[i - 1].height < more[i].height
    OBVIOUS
  <2>1. CASE i = Len(more)
    BY <1>1, <1>3, <2>1 DEF Tip
  <2>2. CASE i # Len(more)
    <3>1. i \in 2 .. Len(window) /\ i - 1 \in 1 .. Len(window) BY <1>1, <1>3, <2>2
    <3> QED BY <1>1, <1>3, <3>1
  <2> QED BY <2>1, <2>2
<1>5. /\ Tail(more) \in Seq(Lists) /\ Len(Tail(more)) = Len(window)
      /\ \A i \in 1 .. Len(window) : Tail(more)[i] = more[i + 1]
  BY <1>1, <1>3
<1>6. OFFSET \in Nat \ {0} /\ Size \in Nat /\ Size >= 2 * OFFSET
  BY LocksAssumption
<1> HIDE DEF more
<1>7. CASE Len(more) > Size
  <2>1. W!Latest(more) = Tail(more) BY <1>7 DEF W!Latest
  <2>2. W!IsWindow(Tail(more))
    <3>1. Len(Tail(more)) \in 1 .. Size
      <4>1. Len(window) \in 1 .. Size BY <1>1
      <4> QED BY <4>1, <1>5
    <3>2. ASSUME NEW i \in 2 .. Len(Tail(more))
          PROVE  Tail(more)[i - 1].height < Tail(more)[i].height
      <4>1. i - 1 \in 1 .. Len(window) /\ i \in 1 .. Len(window) BY <1>1, <1>5
      <4>2. Tail(more)[i - 1] = more[i] /\ Tail(more)[i] = more[i + 1] BY <1>5, <4>1
      <4>3. i + 1 \in 2 .. Len(more) /\ (i + 1) - 1 = i BY <1>1, <1>3, <4>1
      <4> QED BY <1>4, <4>2, <4>3
    <3> QED BY <1>5, <3>1, <3>2 DEF W!IsWindow
  <2>3. Base <= Tail(more)[1].height
    <3>1. Tail(more)[1] = more[2] /\ more[1] = window[1] BY <1>1, <1>3, <1>5
    <3>2. more[1].height < more[2].height BY <1>1, <1>3, <1>4
    <3>3. window[1].height \in Nat BY <1>1, <1>2
    <3>4. more[2].height \in Nat
      <4>1. more[2] \in Lists BY <1>1, <1>3
      <4> QED BY <4>1, LocksAssumption DEF Lists, ListAt
    <3>5. Base = window[1].height BY DEF Base
    <3>6. Tail(more)[1].height = more[2].height /\ more[1].height = window[1].height BY <3>1
    <3>7. window[1].height < more[2].height BY <3>2, <3>6
    <3>8. window[1].height <= more[2].height BY <3>3, <3>4, <3>7
    <3> QED BY <3>5, <3>6, <3>8
  <2> QED BY <2>1, <2>2, <2>3, <1>5 DEF WindowInv, more
<1>8. CASE ~(Len(more) > Size)
  <2>1. W!Latest(more) = more BY <1>8 DEF W!Latest
  <2>2. W!IsWindow(more) BY <1>1, <1>3, <1>4, <1>6, <1>8 DEF W!IsWindow
  <2>3. Len(more) >= 2 * OFFSET BY <1>1, <1>3, <1>6 DEF WindowInv
  <2>4. Base <= more[1].height BY <1>1, <1>2, <1>3 DEF Base
  <2> QED BY <2>1, <2>2, <2>3, <2>4 DEF more
<1> QED
  BY <1>7, <1>8
-----------------------------------------------------------------------------
(* The selection of a quorum *)

\* There is a quorum with the lowest score.
LEMMA ScoredIsQuorum ==
  ASSUME NEW c \in LockCalls, NEW quorums \in SUBSET Quorums, quorums # {}
  PROVE  Scored(c, quorums) \in quorums
<1> DEFINE scores == {Score[c][q] : q \in quorums}
<1>1. \A q \in quorums : Score[c][q] \in Nat
  <2>1. Score \in [LockCalls -> [Quorums -> Nat]] BY LocksAssumption
  <2>2. Score[c] \in [Quorums -> Nat] BY <2>1
  <2> QED BY <2>2
<1>2. PICK s \in scores : \A t \in scores : s <= t
  <2>1. scores \subseteq Nat /\ scores # {} BY <1>1
  <2> HIDE DEF scores
  <2> QED BY <2>1, LeastNat
<1>3. PICK q \in quorums : Score[c][q] = s
  OBVIOUS
<1>4. \A r \in quorums : Score[c][q] <= Score[c][r]
  BY <1>2, <1>3
<1> QED
  BY <1>3, <1>4 DEF Scored

\* A finite set of naturals has an element of every rank below its size.
LEMMA RankExists ==
  ASSUME NEW S \in SUBSET Nat, IsFiniteSet(S), NEW k \in Nat, k < Cardinality(S)
  PROVE  \E q \in S : Cardinality({r \in S : r < q}) = k
<1> DEFINE Below(q) == {r \in S : r < q}
           Missing == {j \in Nat : j < Cardinality(S) /\ \A q \in S : Cardinality(Below(q)) # j}
<1>1. Cardinality(S) \in Nat
  BY FS_CardinalityType
<1>2. \A q \in S : IsFiniteSet(Below(q))
  BY FS_Subset
<1> SUFFICES ASSUME Missing # {} PROVE FALSE
  OBVIOUS
<1>3. PICK j \in Missing : \A i \in Missing : j <= i
  <2>1. Missing \subseteq Nat OBVIOUS
  <2> HIDE DEF Missing
  <2> QED BY <2>1, LeastNat
<1>4. j \in Nat /\ j < Cardinality(S) /\ \A q \in S : Cardinality(Below(q)) # j
  OBVIOUS
<1>5. j # 0
  <2>1. S # {} BY <1>1, <1>4, FS_EmptySet
  <2>2. PICK q \in S : \A r \in S : q <= r BY <2>1, LeastNat
  <2>3. \A r \in S : r \in Nat /\ ~(r < q)
    <3>1. \A r \in S : r \in Nat /\ q \in Nat /\ q <= r BY <2>2
    <3> QED BY <3>1
  <2>4. Below(q) = {} BY <2>3
  <2> QED BY <1>4, <2>4, FS_EmptySet
<1>6. PICK p \in S : Cardinality(Below(p)) = j - 1
  <2>1. j - 1 \in Nat /\ j - 1 < Cardinality(S) /\ ~(j <= j - 1) BY <1>1, <1>4, <1>5
  <2>2. j - 1 \notin Missing
    <3> HIDE DEF Missing
    <3> QED BY <1>3, <2>1
  <2> QED BY <2>1, <2>2
<1> DEFINE upTo == Below(p) \cup {p}
           above == S \ upTo
<1>7. IsFiniteSet(upTo) /\ Cardinality(upTo) = j
  <2>1. p \notin Below(p) OBVIOUS
  <2>2. IsFiniteSet(Below(p)) BY <1>2
  <2> HIDE DEF Below
  <2>3. IsFiniteSet(upTo) /\ Cardinality(upTo) = Cardinality(Below(p)) + 1
    BY <2>1, <2>2, FS_AddElement
  <2> QED BY <1>4, <1>6, <2>3
<1>8. above # {}
  <2> SUFFICES ASSUME above = {} PROVE FALSE
    OBVIOUS
  <2>1. S = upTo OBVIOUS
  <2> QED BY <1>4, <1>7, <2>1
<1>9. PICK q \in above : \A r \in above : q <= r
  <2>1. above \subseteq Nat OBVIOUS
  <2> HIDE DEF above
  <2> QED BY <1>8, <2>1, LeastNat
<1>10. Below(q) = upTo
  <2>1. q \in S /\ q \in Nat /\ p \in Nat /\ p < q OBVIOUS
  <2>2. ASSUME NEW r \in S PROVE r < q <=> r \in upTo
    <3>1. r \in Nat /\ (r \in upTo <=> r <= p) OBVIOUS
    <3>2. r \notin upTo => q <= r BY <1>9
    <3> QED BY <2>1, <3>1, <3>2
  <2> QED BY <2>2
<1> QED
  BY <1>4, <1>7, <1>9, <1>10

LEMMA Powers ==
  /\ 2 ^ 0 = 1 /\ 2 ^ 1 = 2 /\ 2 ^ 2 = 4 /\ 2 ^ 3 = 8 /\ 2 ^ 4 = 16
  /\ 2 ^ 5 = 32 /\ 2 ^ 6 = 64 /\ 2 ^ 7 = 128 /\ 2 ^ 8 = 256
  OBVIOUS

LEMMA PowersGrow ==
  \A n \in 0 .. 8 : /\ 2 ^ n \in Nat \ {0}
                    /\ \A m \in 0 .. n - 1 : 2 ^ m < 2 ^ n
<1> DEFINE P == [n \in 0 .. 8 |-> 2 ^ n]
<1>1. /\ P[0] = 1 /\ P[1] = 2 /\ P[2] = 4 /\ P[3] = 8 /\ P[4] = 16
      /\ P[5] = 32 /\ P[6] = 64 /\ P[7] = 128 /\ P[8] = 256
  BY Powers
<1>2. \A n \in 0 .. 8 : P[n] = 2 ^ n
  OBVIOUS
<1> HIDE DEF P
<1>3. \A n \in 0 .. 8 : P[n] \in Nat \ {0} /\ \A m \in 0 .. n - 1 : P[m] < P[n]
  BY <1>1
<1>4. \A n \in 0 .. 8 : \A m \in 0 .. n - 1 : m \in 0 .. 8
  OBVIOUS
<1> QED
  BY <1>2, <1>3, <1>4

\* The first bits of a byte name one of as many quorums as they can count.
LEMMA ByteIndex ==
  ASSUME NEW byte \in 0 .. 255, NEW n \in 1 .. 8
  PROVE  byte \div 2 ^ (8 - n) \in 0 .. 2 ^ n - 1
<1>1. CASE n = 1 BY <1>1, Powers
<1>2. CASE n = 2 BY <1>2, Powers
<1>3. CASE n = 3 BY <1>3, Powers
<1>4. CASE n = 4 BY <1>4, Powers
<1>5. CASE n = 5 BY <1>5, Powers
<1>6. CASE n = 6 BY <1>6, Powers
<1>7. CASE n = 7 BY <1>7, Powers
<1>8. CASE n = 8 BY <1>8, Powers
<1> QED
  BY <1>1, <1>2, <1>3, <1>4, <1>5, <1>6, <1>7, <1>8

\* With as many quorums as the bits count, the rotation selects one of them.
LEMMA RotatedIsQuorum ==
  ASSUME NEW c \in LockCalls, NEW quorums \in SUBSET Quorums,
         Cardinality(quorums) \in {2, 4, 8, 16, 32, 64, 128, 256}
  PROVE  Rotated(c, quorums) \in quorums
<1> DEFINE count == Cardinality(quorums)
           Counts(n) == 2 ^ n >= count /\ \A m \in 0 .. n - 1 : 2 ^ m < count
           bits == CHOOSE n \in 0 .. 8 : Counts(n)
           index == Lock[c].byte \div 2 ^ (8 - bits)
<1>1. PICK n \in 1 .. 8 : count = 2 ^ n
  BY Powers
<1>2. n \in 0 .. 8 /\ count \in Nat
  OBVIOUS
<1> HIDE DEF count
<1>3. Counts(n)
  <2>1. 2 ^ n \in Nat /\ \A m \in 0 .. n - 1 : 2 ^ m < 2 ^ n BY <1>2, PowersGrow
  <2> QED BY <1>1, <1>2, <2>1
<1>4. bits \in 0 .. 8 /\ Counts(bits)
  <2> HIDE DEF Counts
  <2> QED BY <1>2, <1>3
<1> HIDE DEF bits
<1>5. bits = n
  <2>1. CASE bits < n
    <3>1. bits \in 0 .. n - 1 BY <1>2, <1>4, <2>1
    <3>2. 2 ^ bits < count BY <1>3, <3>1
    <3>3. 2 ^ bits \in Nat BY <1>4, PowersGrow
    <3> QED BY <1>2, <1>4, <3>2, <3>3
  <2>2. CASE n < bits
    <3>1. n \in 0 .. bits - 1 BY <1>2, <1>4, <2>2
    <3>2. 2 ^ n < count BY <1>4, <3>1
    <3> QED BY <1>1, <1>2, <3>2
  <2> QED BY <1>2, <1>4, <2>1, <2>2
<1>6. index \in 0 .. count - 1
  <2>1. Lock[c].byte \in 0 .. 255 BY LocksAssumption
  <2>2. \A byte \in 0 .. 255 : byte \div 2 ^ (8 - n) \in 0 .. 2 ^ n - 1 BY ByteIndex
  <2>3. index = Lock[c].byte \div 2 ^ (8 - n) BY <1>5
  <2> DEFINE byte == Lock[c].byte
             Index(b) == b \div 2 ^ (8 - n)
  <2>4. Index(byte) \in 0 .. 2 ^ n - 1
    <3>1. \A b \in 0 .. 255 : Index(b) \in 0 .. 2 ^ n - 1 BY <2>2
    <3> HIDE DEF Index
    <3> QED BY <2>1, <3>1
  <2> QED BY <1>1, <2>3, <2>4
<1>7. Rotated(c, quorums) = IF count <= 1 \/ index >= count THEN Throws
        ELSE CHOOSE q \in quorums : Cardinality({r \in quorums : r < q}) = index
  BY DEF Rotated, count, bits
<1> HIDE DEF index
<1> DEFINE Ranked(q) == Cardinality({r \in quorums : r < q}) = index
<1>8. count > 1 /\ index \in Nat /\ index < count
  BY <1>2, <1>6 DEF count
<1>9. \E q \in quorums : Cardinality({r \in quorums : r < q}) = index
  <2>1. Quorums \subseteq Nat /\ IsFiniteSet(Quorums) BY LocksAssumption
  <2>2. IsFiniteSet(quorums) BY <2>1, FS_Subset
  <2> QED BY <1>8, <2>1, <2>2, RankExists DEF count
<1> QED
  <2>1. Rotated(c, quorums) = CHOOSE q \in quorums : Ranked(q)
    BY <1>2, <1>7, <1>8
  <2>2. \E q \in quorums : Ranked(q)
    BY <1>9
  <2> HIDE DEF Ranked
  <2> QED BY <2>1, <2>2

\* Where there are lists up to a height, the last of them is found.
LEMMA ListFound ==
  ASSUME W!IsWindow(window), NEW height, ListsUpTo(height) # {}
  PROVE  LET found == ListsUpTo(height)
             i     == CHOOSE k \in found : \A j \in found : j <= k
         IN  i \in found /\ window[i] \in Lists
<1> DEFINE found == ListsUpTo(height)
           back  == {Len(window) - j : j \in found}
<1>1. window \in Seq(Lists) /\ DOMAIN window = 1 .. Len(window) /\ Len(window) \in Nat
  BY DEF W!IsWindow
<1>2. found \subseteq 1 .. Len(window) /\ found # {}
  BY <1>1 DEF ListsUpTo
<1> HIDE DEF found
<1>3. PICK b \in back : \A d \in back : b <= d
  <2>0. \A j \in found : Len(window) - j \in Nat BY <1>1, <1>2
  <2>1. back \subseteq Nat /\ back # {} BY <1>2, <2>0
  <2> HIDE DEF back
  <2> QED BY <2>1, LeastNat
<1>4. PICK k \in found : b = Len(window) - k
  OBVIOUS
<1>5. \A j \in found : j <= k
  <2> SUFFICES ASSUME NEW j \in found PROVE j <= k
    OBVIOUS
  <2>1. b <= Len(window) - j BY <1>3
  <2> QED BY <1>1, <1>2, <1>4, <2>1
<1>6. \E m \in found : \A j \in found : j <= m
  BY <1>4, <1>5
<1>7. (CHOOSE m \in found : \A j \in found : j <= m) \in found
  BY <1>6
<1> QED
  BY <1>1, <1>2, <1>7 DEF found

\* What RejectsOnlyFor names
Reason(c) ==
  \/ Lock[c].kind = "ChainLock" /\ Unreachable(c)
  \/ Lock[c].kind = "InstantLock" /\ GapBehindBase
  \/ /\ Lock[c].kind = "InstantLock" /\ rotated
     /\ \E h \in DOMAIN QuorumsAt :
          Cardinality(QuorumsAt[h]["InstantLock"]) \notin {2, 4, 8, 16, 32, 64, 128, 256}

\* The selection throws for these reasons only: but for a gap behind the base the
\* window reaches back as far as an InstantLock looks, and of the right number of
\* quorums there is always one.
LEMMA ThrowsOnlyFor ==
  ASSUME WindowInv, NEW c \in LockCalls, NEW offset \in {OFFSET, 0, 2 * OFFSET},
         Candidate(c, offset) = Throws
  PROVE  Reason(c)
<1> DEFINE height == HeightFor(c, offset)
           found == ListsUpTo(height)
           list == window[CHOOSE i \in found : \A j \in found : j <= i]
           quorums == list.quorums[Lock[c].kind]
<1>1. /\ W!IsWindow(window) /\ Len(window) \in Nat /\ Len(window) >= 2 * OFFSET
      /\ DOMAIN window = 1 .. Len(window) /\ window \in Seq(Lists)
      /\ OFFSET \in Nat \ {0}
  <2>1. OFFSET \in Nat \ {0} BY LocksAssumption
  <2>2. W!IsWindow(window) /\ window \in Seq(Lists) /\ Len(window) >= 2 * OFFSET
    BY DEF WindowInv, W!IsWindow
  <2> QED BY <2>1, <2>2
<1>2. /\ Lock[c].kind \in {"InstantLock", "ChainLock"} /\ Lock[c].height \in Nat
      /\ offset \in Nat /\ offset <= 2 * OFFSET
  BY <1>1, LocksAssumption
<1>3. /\ 1 \in DOMAIN window /\ Len(window) \in DOMAIN window
      /\ Base \in Nat /\ Tip \in Nat
  <2>1. 1 \in DOMAIN window /\ Len(window) \in DOMAIN window BY <1>1
  <2>2. window[1] \in Lists /\ window[Len(window)] \in Lists BY <1>1, <2>1
  <2> QED BY <2>1, <2>2, LocksAssumption DEF Lists, ListAt, Base, Tip
<1>4. Candidate(c, offset) =
        IF found = {} THEN Throws
        ELSE IF rotated /\ Lock[c].kind = "InstantLock" THEN Rotated(c, quorums)
        ELSE Scored(c, quorums)
  BY DEF Candidate
<1>5. CASE found = {}
  <2>1. /\ 2 \in DOMAIN window /\ 2 <= Len(window)
        /\ window[2].height \in Nat /\ Base < window[2].height
    <3>1. 2 \in DOMAIN window /\ 2 <= Len(window) BY <1>1
    <3>2. window[2] \in Lists BY <1>1, <3>1
    <3>3. window[1].height < window[2].height BY <1>1, <3>1 DEF W!IsWindow
    <3> QED BY <3>1, <3>2, <3>3, LocksAssumption DEF Lists, ListAt, Base
  <2>2. height # Base /\ ~(window[2].height <= height)
    BY <1>3, <1>5, <2>1 DEF ListsUpTo, Base
  <2>3. CASE Lock[c].kind = "ChainLock"
    <3>1. height = Lock[c].height - offset BY <2>3 DEF HeightFor
    <3>2. Lock[c].height - offset < window[2].height
      BY <1>1, <1>2, <2>1, <2>2, <3>1
    <3>3. Unreachable(c) BY <2>2, <3>1, <3>2 DEF Unreachable
    <3> QED BY <2>3, <3>3 DEF Reason
  <2>4. CASE Lock[c].kind = "InstantLock"
    <3>1. height = Tip - offset + 1 BY <2>4 DEF HeightFor
    <3>2. /\ Base + (Len(window) - 1) <= Tip
          /\ window[2].height + (Len(window) - 2) <= Tip
      <4>1. \A i \in DOMAIN window : \A j \in DOMAIN window :
              i <= j => window[i].height + (j - i) <= window[j].height
        BY <1>1, HeightsGrow
      <4>2. 1 <= Len(window) /\ 1 \in DOMAIN window /\ Len(window) \in DOMAIN window
        BY <1>3, <2>1
      <4>3. window[1].height + (Len(window) - 1) <= window[Len(window)].height
        BY <4>1, <4>2
      <4>4. window[2].height + (Len(window) - 2) <= window[Len(window)].height
        BY <2>1, <4>1, <4>2
      <4> QED BY <4>3, <4>4 DEF Base, Tip
    <3> HIDE DEF height
    <3>3. /\ Len(window) = 2 * OFFSET
          /\ window[2].height + (Len(window) - 2) = Tip
          /\ height = Tip - 2 * OFFSET + 1
      <4> DEFINE second == window[2].height
      <4>1. second \in Nat /\ second + (Len(window) - 2) <= Tip /\ ~(second <= height)
        BY <2>1, <2>2, <3>2
      <4> HIDE DEF second
      <4>2. offset = 2 * OFFSET /\ Len(window) = 2 * OFFSET
        <5> DEFINE length == Len(window)
        <5>1. /\ length \in Nat /\ length >= 2 * OFFSET /\ OFFSET \in Nat /\ Tip \in Nat
              /\ offset \in Nat /\ offset <= 2 * OFFSET
          BY <1>1, <1>2, <1>3
        <5>2. second + (length - 2) <= Tip /\ ~(second <= Tip - offset + 1)
          BY <3>1, <4>1
        <5> HIDE DEF length
        <5>3. length - 1 < offset BY <4>1, <5>1, <5>2
        <5> QED BY <5>1, <5>3 DEF length
      <4>3. second + (Len(window) - 2) = Tip
        BY <1>1, <1>2, <1>3, <2>1, <3>1, <4>1, <4>2
      <4> QED BY <3>1, <4>2, <4>3 DEF second
    <3>4. Base + 1 < window[2].height
      BY <1>1, <1>3, <2>1, <2>2, <3>2, <3>3
    <3>5. GapBehindBase BY <3>3, <3>4 DEF GapBehindBase
    <3> QED BY <2>4, <3>5 DEF Reason
  <2> QED BY <1>2, <2>3, <2>4
<1>6. CASE found # {}
  <2> HIDE DEF height
  <2>1. list \in Lists
    BY <1>1, <1>6, ListFound
  <2> HIDE DEF list
  <2>2. PICK h \in DOMAIN QuorumsAt : list = ListAt(h)
    BY <2>1 DEF Lists
  <2>3. quorums = QuorumsAt[h][Lock[c].kind] /\ quorums \in SUBSET Quorums
    <3>1. list.quorums = QuorumsAt[h] BY <2>2 DEF ListAt
    <3>2. QuorumsAt[h] \in [{"InstantLock", "ChainLock"} -> SUBSET Quorums]
      BY LocksAssumption
    <3> QED BY <1>2, <3>1, <3>2
  <2>4. \A q \in quorums : q # Throws
    BY <2>3, LocksAssumption DEF Throws
  <2> HIDE DEF quorums, found
  <2>5. CASE rotated /\ Lock[c].kind = "InstantLock"
    <3>1. Rotated(c, quorums) \notin quorums BY <1>4, <1>6, <2>4, <2>5
    <3>2. Cardinality(quorums) \notin {2, 4, 8, 16, 32, 64, 128, 256}
      BY <2>3, <3>1, RotatedIsQuorum
    <3> QED BY <2>3, <2>5, <3>2 DEF Reason
  <2>6. CASE ~(rotated /\ Lock[c].kind = "InstantLock")
    <3>1. Scored(c, quorums) = Throws BY <1>4, <1>6, <2>6
    <3>2. quorums = {} => Scored(c, quorums) = NoQuorum BY DEF Scored
    <3>3. quorums # {} => Scored(c, quorums) \in quorums BY <2>3, ScoredIsQuorum
    <3> QED BY <2>4, <3>1, <3>2, <3>3 DEF Throws, NoQuorum
  <2> QED BY <2>5, <2>6
<1> QED
  BY <1>5, <1>6

-----------------------------------------------------------------------------
(* Steps *)

\* A call that waits for nothing asks for the module or is done with it.
LEMMA CallerKeeps ==
  ASSUME BLSTypeOK, LoaderInv, NEW c \in Callers, promise[c] \in {"none", "resolved"},
         GetInstance(c) \/ Finish(c)
  PROVE  /\ BLSTypeOK' /\ LoaderInv'
         /\ \A d \in Callers \ {c} : promise'[d] = promise[d]
         /\ Finish(c) => promise'[c] = "none"
<1>1. CASE Finish(c)
  <2>1. promise' = [promise EXCEPT ![c] = "none"] /\ UNCHANGED <<instance, isLoading, failures>>
    BY <1>1 DEF Finish
  <2> QED BY <2>1 DEF BLSTypeOK, LoaderInv
<1>2. CASE GetInstance(c) /\ ~Finish(c)
  <2> DEFINE now == IF instance THEN "resolved" ELSE IF isLoading THEN "event" ELSE "compile"
  <2>1. /\ promise' = [promise EXCEPT ![c] = now]
        /\ isLoading' = (isLoading \/ ~instance) /\ UNCHANGED <<instance, failures>>
    BY <1>2 DEF GetInstance
  <2>2. BLSTypeOK' /\ \A d \in Callers \ {c} : promise'[d] = promise[d]
    BY <2>1 DEF BLSTypeOK
  <2>3. promise'[c] = now
    BY <2>1 DEF BLSTypeOK
  <2>4. instance \in BOOLEAN /\ isLoading \in BOOLEAN
    BY DEF BLSTypeOK
  <2>5. LoaderInv'
    <3>1. CASE instance
      <4>1. promise'[c] = "resolved" /\ ~isLoading' /\ instance' /\ ~isLoading
        BY <2>1, <2>3, <3>1 DEF LoaderInv
      <4>2. \A d \in Callers \ {c} : promise'[d] \notin {"compile", "event"}
        BY <2>2, <4>1 DEF LoaderInv
      <4> QED BY <4>1, <4>2 DEF LoaderInv
    <3>2. CASE ~instance /\ isLoading
      <4>1. promise'[c] = "event" /\ isLoading' /\ ~instance' /\ failures' = failures
        BY <2>1, <2>3, <3>2
      <4>2. \A d \in Callers : promise'[d] = "compile" <=> promise[d] = "compile"
        BY <2>2, <4>1
      <4> QED BY <3>2, <4>1, <4>2 DEF LoaderInv
    <3>3. CASE ~instance /\ ~isLoading
      <4>1. promise'[c] = "compile" /\ isLoading' /\ ~instance' BY <2>1, <2>3, <3>3
      <4>2. \A d \in Callers \ {c} : promise'[d] \notin {"compile", "event"}
        BY <2>2, <3>3 DEF LoaderInv
      <4> QED BY <4>1, <4>2 DEF LoaderInv
    <3> QED BY <2>4, <3>1, <3>2, <3>3
  <2> QED BY <1>2, <2>2, <2>5
<1> QED
  BY <1>1, <1>2

\* How verify() of a lock goes on from an attempt
LEMMA AttemptCases ==
  ASSUME TypeOK, WindowInv, NEW c \in LockCalls, NEW n \in 1 .. 4, Attempt(c, n)
  PROVE  /\ attempt' \in [LockCalls ->
              [number : 0 .. 3, candidate : Quorums \cup {NoQuorum},
               verdict : {"none", "pending", "true", "false", "rejected"}]]
         /\ \A d \in LockCalls \ {c} : attempt'[d] = attempt[d]
         /\ \/ attempt'[c].verdict = "pending" /\ GetInstance(c)
            \/ attempt'[c].verdict = "false" /\ Finish(c)
            \/ attempt'[c].verdict = "rejected" /\ Finish(c) /\ Reason(c)
<1> DEFINE CandidateOf(k) == Candidate(c, Offsets[k])
           goes(k) == [number |-> k, candidate |-> CandidateOf(k), verdict |-> "pending"]
<1>1. attempt \in [LockCalls -> [number : 0 .. 3, candidate : Quorums \cup {NoQuorum},
                                 verdict : {"none", "pending", "true", "false", "rejected"}]]
  BY DEF TypeOK
<1>2. \/ Settle(c, "false")
      \/ \E k \in n .. 3 : CandidateOf(k) = Throws /\ Settle(c, "rejected")
      \/ \E k \in n .. 3 : /\ CandidateOf(k) \in Quorums
                           /\ attempt' = [attempt EXCEPT ![c] = goes(k)]
                           /\ GetInstance(c)
  <2> HIDE DEF CandidateOf
  <2> QED BY DEF Attempt, CandidateOf
<1>3. CASE Settle(c, "false")
  BY <1>1, <1>3 DEF Settle
<1>4. ASSUME NEW k \in n .. 3, CandidateOf(k) = Throws, Settle(c, "rejected")
      PROVE  /\ attempt' = [attempt EXCEPT ![c].verdict = "rejected"]
             /\ Finish(c) /\ Reason(c)
  <2>1. Offsets[k] \in {OFFSET, 0, 2 * OFFSET} BY DEF Offsets
  <2> QED BY <1>4, <2>1, ThrowsOnlyFor DEF Settle
<1>5. ASSUME NEW k \in n .. 3, CandidateOf(k) \in Quorums,
             attempt' = [attempt EXCEPT ![c] = goes(k)], GetInstance(c)
      PROVE  /\ goes(k) \in [number : 0 .. 3, candidate : Quorums \cup {NoQuorum},
                             verdict : {"none", "pending", "true", "false", "rejected"}]
             /\ goes(k).verdict = "pending"
  <2> HIDE DEF CandidateOf
  <2> QED BY <1>5
<1> HIDE DEF goes, CandidateOf
<1> QED
  BY <1>1, <1>2, <1>3, <1>4, <1>5

\* How a step of a lock's verification leaves it
LockContinued(c) ==
  /\ attempt' \in [LockCalls ->
       [number : 0 .. 3, candidate : Quorums \cup {NoQuorum},
        verdict : {"none", "pending", "true", "false", "rejected"}]]
  /\ \A d \in LockCalls \ {c} : attempt'[d] = attempt[d]
  /\ \/ attempt'[c].verdict = "pending" /\ GetInstance(c)
     \/ attempt'[c].verdict \in {"true", "false"} /\ Finish(c)
     \/ attempt'[c].verdict = "rejected" /\ Finish(c) /\ Reason(c)

LEMMA LockContinues ==
  ASSUME Inv, NEW c \in LockCalls, LockStep(c)
  PROVE  LockContinued(c)
<1>1. CASE Settle(c, "true")
  BY <1>1 DEF Settle, Inv, TypeOK, LockContinued
<1>2. ASSUME NEW n \in 1 .. 4, Attempt(c, n) PROVE LockContinued(c)
  BY <1>2, AttemptCases DEF Inv, LockContinued
<1>3. attempt[c].number + 1 \in 1 .. 4
  BY DEF Inv, TypeOK
<1> QED BY <1>1, <1>2, <1>3 DEF LockStep, Verify, CheckSignature

\* A step of a lock's verification
LEMMA LockKeeps ==
  ASSUME Inv, NEW c \in LockCalls, LockStep(c)
  PROVE  Inv'
<1>1. c \in Callers /\ c \notin QuorumCalls /\ QuorumCalls \subseteq Callers /\ LockCalls \subseteq Callers
  BY LocksAssumption, CallsAssumption, QuorumCallsAssumption
<1>2. UNCHANGED <<window, rotated, isVerified, check>>
  BY DEF LockStep, Verify, CheckSignature, quorumVars
<1>3. promise[c] \in {"none", "resolved"}
  BY DEF LockStep, Verify, CheckSignature, Inv, AwaitInv
<1>4. LockContinued(c)
  BY LockContinues
<1>5. /\ BLSTypeOK' /\ LoaderInv'
      /\ \A d \in Callers \ {c} : promise'[d] = promise[d]
      /\ Finish(c) => promise'[c] = "none"
  BY <1>1, <1>3, <1>4, CallerKeeps DEF Inv, TypeOK, LockContinued
<1>6. TypeOK'
  BY <1>2, <1>4, <1>5 DEF Inv, TypeOK, LockContinued
<1>7. AwaitInv'
  BY <1>1, <1>2, <1>4, <1>5 DEF Inv, AwaitInv, LockContinued
<1>8. WindowInv' /\ QuorumInv'
  BY <1>2 DEF Inv, WindowInv, QuorumInv, VerifiedIsTrue
<1> QED
  BY <1>5, <1>6, <1>7, <1>8 DEF Inv

\* A quorum's verification that ends with success has checked both signatures;
\* one that fails takes the mark away, which no other call's success depends on.
LEMMA EndsKeeps ==
  ASSUME Inv, NEW c \in QuorumCalls, check[c] \in {"members", "quorumSig"},
         NEW result \in BOOLEAN, Ends(c, result),
         result => "valid" \in Entry[c].members /\ Entry[c].quorumSig
  PROVE  /\ isVerified' \in [CheckedQuorums -> BOOLEAN]
         /\ check' \in [QuorumCalls -> {"none", "members", "quorumSig", "true", "false", "lost"}]
         /\ check'[c] \notin {"members", "quorumSig"}
         /\ \A d \in QuorumCalls \ {c} : check'[d] = check[d]
         /\ QuorumInv'
<1>1. /\ isVerified \in [CheckedQuorums -> BOOLEAN] /\ Entry[c].quorum \in CheckedQuorums
      /\ check \in [QuorumCalls -> {"none", "members", "quorumSig", "true", "false", "lost"}]
  BY DEF Inv, TypeOK, CheckedQuorums
<1>2. /\ isVerified' = [isVerified EXCEPT ![Entry[c].quorum] = result]
      /\ check' = [check EXCEPT ![c] = IF result THEN "true" ELSE "false"]
  BY DEF Ends, Goes
<1>3. /\ isVerified' \in [CheckedQuorums -> BOOLEAN]
      /\ check' \in [QuorumCalls -> {"none", "members", "quorumSig", "true", "false", "lost"}]
      /\ check'[c] = (IF result THEN "true" ELSE "false")
      /\ \A d \in QuorumCalls \ {c} : check'[d] = check[d]
  BY <1>1, <1>2
<1>4. \A q \in CheckedQuorums : isVerified'[q] =>
        isVerified[q] \/ (q = Entry[c].quorum /\ result)
  <2> SUFFICES ASSUME NEW q \in CheckedQuorums
               PROVE  isVerified'[q] => isVerified[q] \/ (q = Entry[c].quorum /\ result)
    OBVIOUS
  <2>1. CASE q = Entry[c].quorum
    <3>1. isVerified'[q] = result BY <1>1, <1>2, <2>1
    <3> QED BY <2>1, <3>1
  <2>2. CASE q # Entry[c].quorum
    <3>1. isVerified'[q] <=> isVerified[q] BY <1>1, <1>2, <2>2
    <3> QED BY <3>1
  <2> QED BY <2>1, <2>2
<1>5. VerifiedIsTrue'
  <2> SUFFICES ASSUME NEW q \in CheckedQuorums, isVerified'[q]
               PROVE  \E d \in QuorumCalls :
                        /\ Entry[d].quorum = q /\ check'[d] = "true"
                        /\ "valid" \in Entry[d].members /\ Entry[d].quorumSig
    BY DEF VerifiedIsTrue
  <2>1. CASE q = Entry[c].quorum /\ result
    BY <2>1, <1>3
  <2>2. CASE isVerified[q]
    <3>1. PICK d \in QuorumCalls : /\ Entry[d].quorum = q /\ check[d] = "true"
                                   /\ "valid" \in Entry[d].members /\ Entry[d].quorumSig
      BY <2>2 DEF Inv, QuorumInv, VerifiedIsTrue
    <3> QED BY <3>1, <1>3
  <2> QED BY <1>4, <2>1, <2>2
<1> QED
  BY <1>3, <1>5 DEF Inv, QuorumInv

\* Another step of a call that has not ended leaves the marks as they are.
LEMMA GoesKeeps ==
  ASSUME Inv, NEW c \in QuorumCalls, check[c] \in {"none", "members"},
         NEW where \in {"members", "quorumSig", "true", "lost"}, Goes(c, where),
         UNCHANGED isVerified,
         where = "quorumSig" => "valid" \in Entry[c].members
  PROVE  /\ check' \in [QuorumCalls -> {"none", "members", "quorumSig", "true", "false", "lost"}]
         /\ check'[c] = where
         /\ \A d \in QuorumCalls \ {c} : check'[d] = check[d]
         /\ QuorumInv'
<1>1. /\ check' \in [QuorumCalls -> {"none", "members", "quorumSig", "true", "false", "lost"}]
      /\ check'[c] = where
      /\ \A d \in QuorumCalls \ {c} : check'[d] = check[d]
  BY DEF Goes, Inv, TypeOK
<1>2. \A d \in QuorumCalls : check[d] = "true" => check'[d] = "true"
  BY <1>1
<1>3. VerifiedIsTrue'
  BY <1>2 DEF Inv, QuorumInv, VerifiedIsTrue
<1> QED
  BY <1>1, <1>3 DEF Inv, QuorumInv

\* A step of a quorum's verification
LEMMA QuorumKeeps ==
  ASSUME Inv, NEW c \in QuorumCalls, QuorumStep(c)
  PROVE  Inv'
<1>1. c \in Callers /\ c \notin LockCalls /\ QuorumCalls \subseteq Callers /\ LockCalls \subseteq Callers
  BY LocksAssumption, CallsAssumption, QuorumCallsAssumption
<1>2. UNCHANGED <<window, rotated, attempt>>
  BY DEF QuorumStep, lockVars
<1>3. promise[c] \in {"none", "resolved"}
  BY DEF QuorumStep, VerifyQuorum, CheckMembers, CheckQuorumSig, Inv, AwaitInv
<1> DEFINE Continued ==
             /\ isVerified' \in [CheckedQuorums -> BOOLEAN]
             /\ check' \in [QuorumCalls ->
                              {"none", "members", "quorumSig", "true", "false", "lost"}]
             /\ \A d \in QuorumCalls \ {c} : check'[d] = check[d]
             /\ QuorumInv'
             /\ \/ check'[c] \in {"members", "quorumSig"} /\ GetInstance(c)
                \/ check'[c] \notin {"members", "quorumSig"} /\ Finish(c)
                \/ check'[c] = "true" /\ promise[c] = "none" /\ UNCHANGED blsVars
<1>4. Continued
  <2>1. isVerified \in [CheckedQuorums -> BOOLEAN]
    BY DEF Inv, TypeOK
  <2>2. CASE VerifyQuorum(c)
    <3>1. promise[c] = "none" BY <2>2 DEF VerifyQuorum, Inv, AwaitInv
    <3>2. CASE Goes(c, "true") /\ UNCHANGED blsVars
      BY <2>1, <2>2, <3>1, <3>2, GoesKeeps DEF VerifyQuorum
    <3>3. CASE Goes(c, "members") /\ GetInstance(c)
      BY <2>1, <2>2, <3>3, GoesKeeps DEF VerifyQuorum
    <3> QED BY <2>2, <3>2, <3>3 DEF VerifyQuorum
  <2>3. CASE CheckMembers(c)
    <3>1. CASE "valid" \in Entry[c].members /\ Goes(c, "quorumSig") /\ GetInstance(c)
               /\ UNCHANGED isVerified
      BY <2>1, <2>3, <3>1, GoesKeeps DEF CheckMembers
    <3>2. CASE Ends(c, FALSE)
      BY <2>3, <3>2, EndsKeeps DEF CheckMembers, Ends
    <3>3. CASE Goes(c, "lost") /\ Finish(c) /\ UNCHANGED isVerified
      BY <2>1, <2>3, <3>3, GoesKeeps DEF CheckMembers
    <3> QED BY <2>3, <3>1, <3>2, <3>3 DEF CheckMembers
  <2>4. CASE CheckQuorumSig(c)
    <3>1. Entry[c].quorumSig \in BOOLEAN /\ "valid" \in Entry[c].members
      BY <2>4, QuorumCallsAssumption DEF CheckQuorumSig, Inv, QuorumInv
    <3> QED BY <2>4, <3>1, EndsKeeps DEF CheckQuorumSig, Ends
  <2> QED BY <2>2, <2>3, <2>4 DEF QuorumStep
<1>5. /\ BLSTypeOK' /\ LoaderInv'
      /\ \A d \in Callers \ {c} : promise'[d] = promise[d]
      /\ check'[c] \notin {"members", "quorumSig"} => promise'[c] = "none"
  <2>1. CASE UNCHANGED blsVars /\ promise[c] = "none"
    BY <2>1 DEF blsVars, Inv, TypeOK, BLSTypeOK, LoaderInv
  <2>2. CASE GetInstance(c) \/ Finish(c)
    BY <1>1, <1>3, <1>4, <2>1, <2>2, CallerKeeps DEF Inv, TypeOK
  <2> QED BY <1>4, <2>1, <2>2
<1>6. TypeOK'
  BY <1>2, <1>4, <1>5 DEF Inv, TypeOK
<1>7. AwaitInv'
  BY <1>1, <1>2, <1>4, <1>5 DEF Inv, AwaitInv
<1>8. WindowInv'
  BY <1>2 DEF Inv, WindowInv
<1> QED
  BY <1>4, <1>5, <1>6, <1>7, <1>8 DEF Inv

\* A compilation ends: it wakes all that wait, or it is lost with the flag up.
LEMMA LoaderKeeps ==
  ASSUME Inv, NEW c \in Callers, LoaderStep(c)
  PROVE  Inv'
<1>1. UNCHANGED <<window, rotated, attempt, isVerified, check>> /\ promise[c] = "compile"
  BY DEF LoaderStep, lockVars, quorumVars, Compiled, CompileFails
<1>2. LockCalls \subseteq Callers /\ QuorumCalls \subseteq Callers
  BY LocksAssumption, QuorumCallsAssumption
<1>3. BLSTypeOK' /\ LoaderInv' /\ \A d \in Callers : promise[d] = "none" => promise'[d] = "none"
  <2>1. CASE Compiled(c)
    <3>1. /\ instance' = TRUE /\ isLoading' = FALSE /\ failures' = failures
          /\ promise' = [d \in Callers |-> IF d = c \/ promise[d] = "event" THEN "resolved"
                                           ELSE promise[d]]
      BY <2>1 DEF Compiled
    <3>2. \A d \in Callers : promise'[d] \notin {"compile", "event"}
      BY <1>1, <3>1 DEF Inv, LoaderInv
    <3>3. BLSTypeOK'
      BY <3>1 DEF Inv, TypeOK, BLSTypeOK
    <3> QED BY <1>1, <3>1, <3>2, <3>3 DEF LoaderInv
  <2>2. CASE CompileFails(c)
    <3>1. /\ failures < MaxFailures /\ failures' = failures + 1
          /\ promise' = [promise EXCEPT ![c] = "lost"] /\ UNCHANGED <<instance, isLoading>>
      BY <2>2 DEF CompileFails
    <3>2. BLSTypeOK' /\ failures' # 0
      BY <3>1, FailuresAssumption DEF Inv, TypeOK, BLSTypeOK
    <3>3. /\ promise'[c] = "lost"
          /\ \A d \in Callers \ {c} : promise'[d] = promise[d]
      BY <3>1 DEF Inv, TypeOK, BLSTypeOK
    <3> QED BY <1>1, <3>1, <3>2, <3>3 DEF Inv, LoaderInv
  <2> QED BY <2>1, <2>2 DEF LoaderStep
<1>4. TypeOK'
  BY <1>1, <1>3 DEF Inv, TypeOK
<1>5. AwaitInv'
  BY <1>1, <1>2, <1>3 DEF Inv, AwaitInv
<1>6. WindowInv' /\ QuorumInv'
  BY <1>1 DEF Inv, WindowInv, QuorumInv, VerifiedIsTrue
<1> QED
  BY <1>3, <1>4, <1>5, <1>6 DEF Inv

\* A diff arrives: the base of the window does not fall, so that a rejection for an
\* old ChainLock stays one.
LEMMA StoreKeeps ==
  ASSUME Inv, StoreStep
  PROVE  Inv'
<1>1. PICK list \in Lists : AddDiff(list)
  BY DEF StoreStep
<1>2. UNCHANGED <<rotated, attempt, isVerified, check>> /\ UNCHANGED blsVars
  BY <1>1 DEF StoreStep, AddDiff, quorumVars
<1>3. list.height > Tip /\ window' = W!Latest(Append(window, list))
  BY <1>1 DEF AddDiff
<1>4. WindowInv' /\ Base <= Base'
  BY <1>3, ExtendedWindow DEF Inv, WindowInv, Base
<1>5. TypeOK' /\ LoaderInv' /\ AwaitInv' /\ QuorumInv'
  BY <1>2, <1>4 DEF Inv, TypeOK, BLSTypeOK, blsVars, LoaderInv, AwaitInv, WindowInv,
                    QuorumInv, VerifiedIsTrue
<1> QED
  BY <1>4, <1>5 DEF Inv

LEMMA InvHolds == Spec => []Inv
<1>1. Init => Inv
  <2> SUFFICES ASSUME Init PROVE Inv
    OBVIOUS
  <2>1. /\ window \in Openings /\ rotated \in BOOLEAN
        /\ attempt = [c \in LockCalls |-> [number |-> 0, candidate |-> NoQuorum, verdict |-> "none"]]
    BY LocksAssumption DEF Init, InitLocks
  <2>2. /\ isVerified = [q \in CheckedQuorums |-> FALSE]
        /\ check = [c \in QuorumCalls |-> "none"]
    BY DEF Init, InitQuorums
  <2>3. /\ instance = FALSE /\ isLoading = FALSE /\ failures = 0
        /\ promise = [c \in Callers |-> "none"]
    BY DEF Init, InitBLS
  <2>4. WindowInv
    BY <2>1, LocksAssumption DEF WindowInv
  <2>5. BLSTypeOK /\ LoaderInv
    <3>1. 0 \in 0 .. MaxFailures BY FailuresAssumption
    <3>2. \A c \in Callers : promise[c] = "none" BY <2>3
    <3> QED BY <2>3, <3>1, <3>2 DEF BLSTypeOK, LoaderInv
  <2>6. AwaitInv
    BY <2>1, <2>2, <2>3, LocksAssumption, QuorumCallsAssumption DEF AwaitInv
  <2>7. QuorumInv
    BY <2>2 DEF QuorumInv, VerifiedIsTrue
  <2>8. TypeOK
    BY <2>1, <2>2, <2>4, <2>5 DEF TypeOK, WindowInv
  <2> QED
    BY <2>4, <2>5, <2>6, <2>7, <2>8 DEF Inv
<1>2. Inv /\ [Next]_vars => Inv'
  <2> SUFFICES ASSUME Inv, [Next]_vars PROVE Inv'
    OBVIOUS
  <2>1. CASE UNCHANGED vars
    BY <2>1 DEF vars, blsVars, lockVars, quorumVars, Inv, TypeOK, BLSTypeOK, LoaderInv, AwaitInv,
                WindowInv, QuorumInv, VerifiedIsTrue
  <2> QED
    BY <2>1, LockKeeps, QuorumKeeps, LoaderKeeps, StoreKeeps DEF Next
<1> QED
  BY <1>1, <1>2, PTL DEF Spec

-----------------------------------------------------------------------------
(* What the calls can rely on *)

(* The loader, the calls and the window keep their types, whichever calls overlap
   (bls.js, InstantLock.js, ChainLock.js, QuorumEntry.js). *)
THEOREM VerificationTyped == Spec => []TypeOK
<1>1. Inv => TypeOK
  BY DEF Inv
<1> QED
  BY <1>1, InvHolds, PTL

(* No two callers compile the module at a time, nobody compiles it again, and who
   listens for its event listens to a compilation that goes on, unless one has
   failed (isLoading in bls.js). *)
THEOREM CompiledOnce == Spec => []OneCompilation
<1>1. Inv => OneCompilation
  <2> SUFFICES ASSUME Inv PROVE OneCompilation
    OBVIOUS
  <2> DEFINE compiling == {c \in Callers : promise[c] = "compile"}
  <2>1. Cardinality(compiling) <= 1
    <3>1. CASE compiling = {}
      BY <3>1, FS_EmptySet
    <3>2. CASE compiling # {}
      <4>1. PICK c \in compiling : compiling = {c}
        BY <3>2 DEF Inv, LoaderInv
      <4> QED BY <4>1, FS_Singleton
    <3> QED BY <3>1, <3>2
  <2>2. instance => compiling = {}
    BY DEF Inv, LoaderInv
  <2>3. failures = 0 /\ (\E c \in Callers : promise[c] = "event") => compiling # {}
    BY DEF Inv, LoaderInv
  <2> QED BY <2>1, <2>2, <2>3 DEF OneCompilation
<1> QED
  BY <1>1, InvHolds, PTL

(* verify() of a lock rejects only for a ChainLock that looks for a list before the
   store's diffs, for an InstantLock in a store of the smallest size with a gap behind
   its base, or for a number of rotated quorums that is no power of two, however many
   diffs arrive between its attempts (selectSignatoryQuorum, getSMLbyHeight,
   verifySignatureWithQuorumOffset). *)
THEOREM RejectionsHaveReasons == Spec => RejectsOnlyFor
<1> DEFINE Rejects(c) == attempt[c].verdict # "rejected" /\ attempt'[c].verdict = "rejected"
<1>1. ASSUME Inv, Next, NEW c \in LockCalls, Rejects(c) PROVE Reason(c)
  <2>1. CASE UNCHANGED lockVars
    BY <1>1, <2>1 DEF lockVars
  <2>2. CASE StoreStep
    BY <1>1, <2>2 DEF StoreStep, AddDiff
  <2>3. ASSUME NEW d \in LockCalls, LockStep(d) PROVE Reason(c)
    <3>1. LockContinued(d) BY <1>1, <2>3, LockContinues
    <3> QED BY <1>1, <3>1 DEF LockContinued
  <2> QED BY <1>1, <2>1, <2>2, <2>3 DEF Next, QuorumStep, LoaderStep
<1>2. ASSUME Inv, [Next]_vars
      PROVE  [\A c \in LockCalls : Rejects(c) =>
                \/ Lock[c].kind = "ChainLock" /\ Unreachable(c)
                \/ Lock[c].kind = "InstantLock" /\ GapBehindBase
                \/ /\ Lock[c].kind = "InstantLock" /\ rotated
                   /\ \E h \in DOMAIN QuorumsAt : Cardinality(QuorumsAt[h]["InstantLock"])
                                                   \notin {2, 4, 8, 16, 32, 64, 128, 256}]_vars
  BY <1>1, <1>2 DEF Reason
<1> QED
  BY <1>2, InvHolds, PTL DEF Spec, RejectsOnlyFor

(* Of quorums that count as verified both signatures have been checked, however
   the checks of an entry that several lists share overlap (QuorumEntry.verify). *)
THEOREM VerifiedQuorumsAreTrue == Spec => []VerifiedIsTrue
<1>1. Inv => VerifiedIsTrue
  BY DEF Inv, QuorumInv
<1> QED
  BY <1>1, InvHolds, PTL
=============================================================================

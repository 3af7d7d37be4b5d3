-------------------------- MODULE LockVerification --------------------------
(***************************************************************************)
(* verify() of InstantLock and ChainLock against a masternode list store.  *)
(* The quorum that signed is not known: it is looked for in the list of    *)
(* the usual height, then in the latest one, then in an earlier one.       *)
(* Before each look at the signature the call awaits the BLS module;       *)
(* meanwhile diffs arrive, and the next attempt reads the store as it is   *)
(* by then.                                                                *)
(*                                                                         *)
(* The store is what ListWindow promises of it: the true lists of the      *)
(* latest blocks.  Of a list the quorums of the type that signs matter;    *)
(* quorums are numbered in the order they have in a list.                  *)
(***************************************************************************)
EXTENDS BLS, Sequences, FiniteSets

CONSTANTS
  LockCalls,   \* the calls of verify()
  Lock,        \* by call: [kind, height, signer, byte], byte the last of the request id
  Score,       \* by call: the score of every quorum
  Quorums,     \* numbers
  QuorumsAt,   \* by height and kind: the quorums of a list that sign such locks
  Rotations,   \* which of BOOLEAN isLLMQTypeRotated may be of InstantSend quorums
  OFFSET,      \* LLMQ_SIGN_HEIGHT_OFFSET
  Size,        \* maxDiffs of the store
  Openings     \* the windows that the store may start with

VARIABLES
  window,      \* the lists in the store, oldest first
  rotated,     \* isLLMQTypeRotated of the InstantSend quorums
  attempt      \* by call: where verify() is

lockVars == <<window, rotated, attempt>>

ListAt(h) == [height |-> h, quorums |-> QuorumsAt[h]]
Lists == {ListAt(h) : h \in DOMAIN QuorumsAt}
W == INSTANCE ListWindow WITH None <- <<>>, saved <- <<>>

NoQuorum == 0       \* no quorum of the type
Throws == -1        \* the selection throws

\* The default of maxDiffs is 720; an option below 2 * OFFSET is not covered.
ASSUME LocksAssumption ==
  /\ OFFSET \in Nat \ {0} /\ Size \in Nat /\ Size >= 2 * OFFSET
  /\ Quorums \subseteq Nat \ {0} /\ IsFiniteSet(Quorums)
  /\ DOMAIN QuorumsAt \subseteq Nat
  /\ \A h \in DOMAIN QuorumsAt :
       QuorumsAt[h] \in [{"InstantLock", "ChainLock"} -> SUBSET Quorums]
  /\ LockCalls \subseteq Callers
  /\ Lock \in [LockCalls -> [kind : {"InstantLock", "ChainLock"}, height : Nat,
                             signer : Quorums, byte : 0 .. 255]]
  /\ Score \in [LockCalls -> [Quorums -> Nat]]
  /\ Rotations \subseteq BOOLEAN
  /\ \A w \in Openings : W!IsWindow(w) /\ Len(w) >= 2 * OFFSET

-----------------------------------------------------------------------------
(* Which quorum should have signed *)

Base == window[1].height
Tip == window[Len(window)].height

\* What getSMLbyHeight finds is the last of these.  The base list is found at its
\* own height only: for a block that was skipped right behind it there are no diffs.
ListsUpTo(height) ==
  {i \in DOMAIN window : window[i].height <= height /\ (i = 1 => height = Base)}

\* (fault) the attempts count from the tip
HeightForTip(c, offset) ==
  IF Lock[c].kind = "ChainLock" THEN Lock[c].height - offset ELSE Tip - offset

HeightFor(c, offset) ==
  IF Lock[c].kind = "ChainLock" THEN Lock[c].height - offset ELSE Tip - offset + 1

\* The quorum with the lowest score
Scored(c, quorums) ==
  IF quorums = {} THEN NoQuorum
  ELSE CHOOSE q \in quorums : \A r \in quorums : Score[c][q] <= Score[c][r]

\* readLastNBits with n = log2(count): the shift is rounded down, and the byte
\* has to be there.  An index past the last quorum gives undefined, on which
\* getSignHashForQuorumEntry throws.
Rotated(c, quorums) ==
  LET count == Cardinality(quorums)
      bits  == CHOOSE n \in 0 .. 8 : 2 ^ n >= count /\ \A m \in 0 .. n - 1 : 2 ^ m < count
      index == Lock[c].byte \div 2 ^ (8 - bits)
  IN  IF count <= 1 \/ index >= count THEN Throws
      ELSE CHOOSE q \in quorums : Cardinality({r \in quorums : r < q}) = index

\* selectSignatoryQuorum
Candidate(c, offset) ==
  LET found   == ListsUpTo(HeightFor(c, offset))
      list    == window[CHOOSE i \in found : \A j \in found : j <= i]
      quorums == list.quorums[Lock[c].kind]
  IN  IF found = {} THEN Throws
      ELSE IF rotated /\ Lock[c].kind = "InstantLock" THEN Rotated(c, quorums)
      ELSE Scored(c, quorums)

-----------------------------------------------------------------------------
(* verify() *)

InitLocks ==
  /\ window \in Openings
  /\ rotated \in Rotations
  /\ attempt = [c \in LockCalls |-> [number |-> 0, candidate |-> NoQuorum, verdict |-> "none"]]

\* (fault) the offset is doubled first
OffsetsEarlierFirst == <<OFFSET, 2 * OFFSET, 2 * OFFSET>>

\* The offsets, in the order in which they are tried
Offsets == <<OFFSET, 0, 2 * OFFSET>>

Settle(c, verdict) ==
  /\ attempt' = [attempt EXCEPT ![c].verdict = verdict]
  /\ Finish(c)

\* verifySignatureWithQuorumOffset from attempt n on, up to its next await:
\* attempts without a quorum of the type are passed over at once.
Attempt(c, n) ==
  LET CandidateOf(k) == Candidate(c, Offsets[k])
      skipped(k) == \A j \in n .. k - 1 : CandidateOf(j) = NoQuorum
  IN  \/ /\ \A k \in n .. 3 : CandidateOf(k) = NoQuorum
         /\ Settle(c, "false")
      \/ \E k \in n .. 3 :
           /\ skipped(k)
           /\ CandidateOf(k) = Throws
           /\ Settle(c, "rejected")
      \/ \E k \in n .. 3 :
           /\ skipped(k)
           /\ CandidateOf(k) \in Quorums
           /\ attempt' = [attempt EXCEPT ![c] =
                            [number |-> k, candidate |-> CandidateOf(k), verdict |-> "pending"]]
           /\ GetInstance(c)

Verify(c) ==
  /\ attempt[c].verdict = "none"
  /\ Attempt(c, 1)
  /\ UNCHANGED <<window, rotated>>

\* The call goes on when it has the module: bls.verifySignature, then the next
\* attempt if this one fails.
CheckSignature(c) ==
  /\ attempt[c].verdict = "pending"
  /\ promise[c] = "resolved"
  /\ \/ attempt[c].candidate = Lock[c].signer /\ Settle(c, "true")
     \/ attempt[c].candidate # Lock[c].signer /\ Attempt(c, attempt[c].number + 1)
  /\ UNCHANGED <<window, rotated>>

\* (fault) the oldest list is kept
AddDiffUnpruned(list) ==
  /\ list.height > Tip
  /\ window' = Append(window, list)
  /\ UNCHANGED <<rotated, attempt>>
  /\ UNCHANGED blsVars

\* addDiff() of the store, by the part of the program that follows the chain
AddDiff(list) ==
  /\ list.height > Tip
  /\ window' = W!Latest(Append(window, list))
  /\ UNCHANGED <<rotated, attempt>>
  /\ UNCHANGED blsVars
=============================================================================

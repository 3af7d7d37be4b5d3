-------------------------- MODULE MCVerification --------------------------
(* Six blocks, OFFSET = 2 instead of 8 and room for five lists.  The quorums *)
(* change at the third block and after; some lists have none for ChainLocks. *)
(* The store starts full, or with four lists, the fewest there may be, which *)
(* skip the block right behind its base.                                     *)
EXTENDS Verification

WithQuorums(instant, chain) ==
  [kind \in {"InstantLock", "ChainLock"} |-> IF kind = "InstantLock" THEN instant ELSE chain]

Chain == << WithQuorums({1, 2}, {}), WithQuorums({1, 2}, {}), WithQuorums({2, 3}, {4}),
            WithQuorums({1, 2, 3}, {4}), WithQuorums({2, 3}, {5}), WithQuorums({3, 4}, {}) >>

Window(heights) == [i \in DOMAIN heights |-> ListAt(heights[i])]
Windows == {Window(<<1, 3, 4, 5>>), Window(<<1, 2, 3, 4, 5>>)}

InstantLock(signer, byte) ==
  [kind |-> "InstantLock", height |-> 0, signer |-> signer, byte |-> byte]
ChainLock(height, signer) ==
  [kind |-> "ChainLock", height |-> height, signer |-> signer, byte |-> 0]

Calls == {"i1", "c1"}
Checks == {"v1", "v2", "v3"}
AllCallers == Calls \cup Checks
Locks == [c \in Calls |-> IF c = "i1" THEN InstantLock(4, 200) ELSE ChainLock(6, 5)]
Scores == [c \in Calls |-> [q \in 1 .. 5 |-> 10 - q]]
\* Two checks of one entry, the second with a list that is not right, and one of an
\* entry that is bad
Entries == [c \in Checks |-> [quorum |-> IF c = "v3" THEN "p" ELSE "q",
                              members |-> IF c = "v2" THEN {"invalid", "throws"} ELSE {"valid"},
                              quorumSig |-> c # "v3"]]
=============================================================================

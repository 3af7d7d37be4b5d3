--------------------------- MODULE MasternodeList ---------------------------
(***************************************************************************)
(* SimplifiedMNList of lib/deterministicmnlist: the masternodes and the    *)
(* quorums at one block, and what applying a diff to them does.  applyDiff *)
(* changes the list while it checks, so a diff that it refuses leaves a    *)
(* list that is changed in part; the operators return that list with the   *)
(* error.  Merkle roots are abstracted to what they commit to: the root of *)
(* the masternodes is the function from masternodes to their entries, the  *)
(* root of the quorums the bag of quorums.                                 *)
(***************************************************************************)
EXTENDS Integers, Sequences, FiniteSets

CONSTANTS
  Masternodes,     \* by proRegTxHash
  Entries,         \* what a masternode's record may say
  ValidEntries,    \* the entries with isValid
  Quorums,         \* [type, hash] records
  MaximumActive,   \* maximumActiveQuorumsCount, by quorum type
  NullHash,        \* constants.NULL_HASH
  Undefined        \* JavaScript's undefined

Types == {q.type : q \in Quorums}

\* A list of masternodes in which each occurs once, and a bag of quorums
MNLists == UNION {[S -> Entries] : S \in SUBSET Masternodes}
Bags == [Quorums -> Nat]

ASSUME ListAssumption ==
  /\ ValidEntries \subseteq Entries
  /\ Undefined \notin Bags
  /\ IsFiniteSet(Quorums)
  /\ Types \subseteq Int
  /\ MaximumActive \in [Types -> Nat]

NoQuorums == [q \in Quorums |-> 0]

CountOfType(quorums, type) ==
  Cardinality(UNION {{q} \X (1 .. quorums[q]) : q \in {p \in Quorums : p.type = type}})

EmptyList ==
  [baseBlockHash |-> NullHash, blockHash |-> NullHash, lastBlockHash |-> Undefined,
   height |-> Undefined, mnList |-> <<>>, validMNs |-> <<>>,
   quorumList |-> NoQuorums, merkleRootQuorums |-> Undefined]

Applied(list) == [list |-> list, error |-> "none"]
Refused(list, error) == [list |-> list, error |-> error]

\* (fault) a record that is in the list already is not replaced
UpdateMNsKeeping(mnList, diff) ==
  [m \in (DOMAIN mnList \ diff.deletedMNs) \cup DOMAIN diff.mnList |->
     IF m \in DOMAIN mnList THEN mnList[m] ELSE diff.mnList[m]]

\* deleteMNs, then addOrUpdateMNs
UpdateMNs(mnList, diff) ==
  [m \in (DOMAIN mnList \ diff.deletedMNs) \cup DOMAIN diff.mnList |->
     IF m \in DOMAIN diff.mnList THEN diff.mnList[m] ELSE mnList[m]]

ValidMNsOf(mnList) ==
  [m \in {n \in DOMAIN mnList : mnList[n] \in ValidEntries} |-> mnList[m]]

\* deleteQuorums removes the first match only.
DeleteQuorums(quorums, deleted) ==
  [q \in Quorums |-> IF q \in deleted /\ quorums[q] > 0
                     THEN quorums[q] - 1 ELSE quorums[q]]

\* The quorum types of which there would be too many
Overfull(quorums, added) ==
  {t \in Types : /\ CountOfType(added, t) > 0
                 /\ CountOfType(quorums, t) + CountOfType(added, t) > MaximumActive[t]}

\* addAndMaybeRemoveQuorums goes through the types in ascending order and
\* throws at the first overfull one; it never removes a quorum.
AddQuorums(quorums, added) ==
  LET overfull == Overfull(quorums, added)
  IN  [q \in Quorums |-> IF \E t \in overfull : t <= q.type
                         THEN quorums[q] ELSE quorums[q] + added[q]]

\* (fault) the root is believed
RootMatchesAnyway(mnList, diff) == TRUE

\* The check of the root of the masternodes
RootMatches(mnList, diff) == mnList = diff.merkleRootMNList

\* applyDiff.  With outdated, the quorums come from a Core before 0.16 that
\* leaves out what their hash needs; then the root is believed, and the list
\* returns before it notes which block the next diff has to start from.
ApplyDiff(list, diff, outdated) ==
  LET started  == [list EXCEPT !.baseBlockHash = IF @ = NullHash
                                                 THEN diff.baseBlockHash ELSE @,
                               !.blockHash = diff.blockHash]
      updated  == [started EXCEPT !.mnList = UpdateMNs(@, diff)]
      remained == DeleteQuorums(list.quorumList, diff.deletedQuorums)
      quorums  == AddQuorums(remained, diff.newQuorums)
      changed  == [updated EXCEPT !.height = diff.height,
                                  !.validMNs = ValidMNsOf(updated.mnList),
                                  !.quorumList = quorums]
      rooted   == [changed EXCEPT !.merkleRootQuorums =
                     IF outdated THEN diff.merkleRootQuorums ELSE quorums]
  IN  IF list.lastBlockHash \notin {Undefined, diff.baseBlockHash}
      THEN Refused(started, "NotLinked")
      ELSE IF ~RootMatches(updated.mnList, diff)
      THEN Refused(updated, "MerkleRootMNList")
      ELSE IF Overfull(remained, diff.newQuorums) # {}
      THEN Refused(changed, "TooManyQuorums")
      ELSE IF quorums = NoQuorums
      THEN Applied([changed EXCEPT !.lastBlockHash = diff.blockHash])
      ELSE IF outdated THEN Applied(rooted)
      ELSE IF quorums # diff.merkleRootQuorums
      THEN Refused(rooted, "MerkleRootQuorums")
      ELSE Applied([rooted EXCEPT !.lastBlockHash = diff.blockHash])

\* toSimplifiedMNListDiff: the whole list as a diff from nothing
ToDiff(list) ==
  [baseBlockHash |-> list.baseBlockHash, blockHash |-> list.blockHash,
   height |-> list.height, deletedMNs |-> {}, mnList |-> list.mnList,
   deletedQuorums |-> {}, newQuorums |-> list.quorumList,
   merkleRootMNList |-> list.mnList, merkleRootQuorums |-> list.merkleRootQuorums]

\* SimplifiedMNList.fromJSON reads back neither merkleRootQuorums nor
\* lastBlockHash.
FromJSON(list) == [list EXCEPT !.merkleRootQuorums = Undefined,
                               !.lastBlockHash = Undefined]
=============================================================================

--------------------------- MODULE SMLStoreProofs ---------------------------
(***************************************************************************)
(* The masternode list store for every chain, every node and every limit.  *)
(* First what holds of it always: its types, the bound on its window, and  *)
(* that a diff it accepts leaves a true list at the tip.  Then the store   *)
(* as a chain of lists: each diff it holds leads from one list to the      *)
(* next, from the base list to the current one.  From it: an honest node   *)
(* is never refused, and between its failures the store is the window of   *)
(* true lists that ListWindow describes.                                   *)
(***************************************************************************)
EXTENDS SMLStore, SumsProofs, FiniteSetTheorems

\* A list before its first diff has no height.
Lists0 ==
  [baseBlockHash : Hashes, blockHash : Hashes, lastBlockHash : Hashes \cup {Undefined},
   height : Nat \cup {Undefined}, mnList : MNLists, validMNs : MNLists,
   quorumList : Bags, merkleRootQuorums : Bags \cup {Undefined}]

LEMMA IsMNList ==
  ASSUME NEW S \in SUBSET Masternodes, NEW f \in [S -> Entries]
  PROVE  f \in MNLists
  BY DEF MNLists

\* Updating and filtering a list of masternodes gives such a list again.
LEMMA UpdateMNsType ==
  ASSUME NEW mns \in MNLists, NEW diff \in Diffs
  PROVE  UpdateMNs(mns, diff) \in MNLists
<1>1. PICK S \in SUBSET Masternodes : mns \in [S -> Entries]
  BY DEF MNLists
<1>2. PICK R \in SUBSET Masternodes : diff.mnList \in [R -> Entries]
  BY DEF MNLists, Diffs
<1> DEFINE U == (DOMAIN mns \ diff.deletedMNs) \cup DOMAIN diff.mnList
<1>3. U \in SUBSET Masternodes
  BY <1>1, <1>2
<1>4. UpdateMNs(mns, diff) \in [U -> Entries]
  BY <1>1, <1>2 DEF UpdateMNs
<1> QED
  BY <1>3, <1>4, IsMNList

LEMMA ValidMNsType ==
  ASSUME NEW mns \in MNLists
  PROVE  ValidMNsOf(mns) \in MNLists
<1>1. PICK S \in SUBSET Masternodes : mns \in [S -> Entries]
  BY DEF MNLists
<1> DEFINE U == {n \in DOMAIN mns : mns[n] \in ValidEntries}
<1>2. U \in SUBSET Masternodes /\ ValidMNsOf(mns) \in [U -> Entries]
  BY <1>1 DEF ValidMNsOf
<1> QED
  BY <1>2, IsMNList

LEMMA BagTypes ==
  ASSUME NEW quorums \in Bags, NEW diff \in Diffs
  PROVE  /\ NoQuorums \in Bags
         /\ DeleteQuorums(quorums, diff.deletedQuorums) \in Bags
         /\ AddQuorums(quorums, diff.newQuorums) \in Bags
<1>1. diff.newQuorums \in [Quorums -> Nat]
  BY DEF Diffs, Bags
<1>2. quorums \in [Quorums -> Nat]
  BY DEF Bags
<1>3. DeleteQuorums(quorums, diff.deletedQuorums) \in Bags
  BY <1>2 DEF DeleteQuorums, Bags
<1>4. AddQuorums(quorums, diff.newQuorums) \in Bags
  <2> DEFINE overfull == Overfull(quorums, diff.newQuorums)
  <2>1. AddQuorums(quorums, diff.newQuorums) =
          [q \in Quorums |-> IF \E t \in overfull : t <= q.type
                             THEN quorums[q] ELSE quorums[q] + diff.newQuorums[q]]
    BY DEF AddQuorums
  <2> HIDE DEF overfull
  <2> QED BY <1>1, <1>2, <2>1 DEF Bags
<1> QED
  BY <1>3, <1>4 DEF NoQuorums, Bags

-----------------------------------------------------------------------------
(* applyDiff *)

\* The ways in which applyDiff can end, each with the list it leaves
LEMMA ApplyDiffCases ==
  ASSUME NEW list \in Lists0, NEW diff \in Diffs, NEW late \in BOOLEAN
  PROVE  LET applied == ApplyDiff(list, diff, late)
             now == applied.list
         IN  /\ now \in Lists0
             /\ list.height \in Nat => now.height \in Nat
             /\ applied.error = "none" =>
                  /\ now.blockHash = diff.blockHash
                  /\ now.height = diff.height
                  /\ now.mnList = diff.merkleRootMNList
                  /\ now.validMNs = ValidMNsOf(now.mnList)
                  /\ late \/ now.quorumList \in {NoQuorums, diff.merkleRootQuorums}
<1> DEFINE mns      == UpdateMNs(list.mnList, diff)
           valid    == ValidMNsOf(mns)
           remained == DeleteQuorums(list.quorumList, diff.deletedQuorums)
           quorums  == AddQuorums(remained, diff.newQuorums)
           started  == [list EXCEPT !.baseBlockHash = IF @ = NullHash
                                                      THEN diff.baseBlockHash ELSE @,
                                    !.blockHash = diff.blockHash]
           updated  == [started EXCEPT !.mnList = UpdateMNs(@, diff)]
           changed  == [updated EXCEPT !.height = diff.height,
                                       !.validMNs = ValidMNsOf(updated.mnList),
                                       !.quorumList = quorums]
           rooted   == [changed EXCEPT !.merkleRootQuorums =
                          IF late THEN diff.merkleRootQuorums ELSE quorums]
           applied  == ApplyDiff(list, diff, late)
<1>1. mns \in MNLists /\ valid \in MNLists
  BY UpdateMNsType, ValidMNsType DEF Lists0
<1>2. remained \in Bags /\ quorums \in Bags
  <2>1. list.quorumList \in Bags BY DEF Lists0
  <2>2. remained \in Bags BY <2>1, BagTypes
  <2> HIDE DEF remained
  <2> QED BY <2>2, BagTypes
<1>3. /\ started \in Lists0
      /\ started.mnList = list.mnList /\ started.height = list.height
      /\ started.blockHash = diff.blockHash
  BY DEF Lists0, Diffs
<1>4. /\ updated \in Lists0
      /\ updated.mnList = mns /\ updated.height = list.height
      /\ updated.blockHash = diff.blockHash
  <2> HIDE DEF started
  <2>1. UpdateMNs(started.mnList, diff) = mns BY <1>3
  <2> HIDE DEF mns
  <2> QED BY <1>1, <1>3, <2>1 DEF Lists0
<1>5. /\ changed \in Lists0
      /\ changed.mnList = mns /\ changed.height = diff.height
      /\ changed.validMNs = ValidMNsOf(mns)
      /\ changed.quorumList = quorums
      /\ changed.blockHash = diff.blockHash
  <2>1. diff.height \in Nat BY DEF Diffs
  <2> HIDE DEF updated, quorums, mns
  <2> QED BY <1>1, <1>2, <1>4, <2>1 DEF Lists0
<1>6. /\ rooted \in Lists0
      /\ rooted.mnList = mns /\ rooted.height = diff.height
      /\ rooted.validMNs = ValidMNsOf(mns)
      /\ rooted.quorumList = quorums
      /\ rooted.blockHash = diff.blockHash
  <2>1. diff.merkleRootQuorums \in Bags \cup {Undefined} BY DEF Diffs
  <2> HIDE DEF changed, quorums, mns
  <2> QED BY <1>2, <1>5, <2>1 DEF Lists0
<1>7. ASSUME NEW done \in Lists0
      PROVE  LET noted == [done EXCEPT !.lastBlockHash = diff.blockHash]
             IN  /\ noted \in Lists0
                 /\ noted.mnList = done.mnList /\ noted.height = done.height
                 /\ noted.validMNs = done.validMNs
                 /\ noted.quorumList = done.quorumList
                 /\ noted.blockHash = done.blockHash
  BY DEF Lists0, Diffs
<1>8. applied =
        IF list.lastBlockHash \notin {Undefined, diff.baseBlockHash}
        THEN Refused(started, "NotLinked")
        ELSE IF updated.mnList # diff.merkleRootMNList
        THEN Refused(updated, "MerkleRootMNList")
        ELSE IF Overfull(remained, diff.newQuorums) # {}
        THEN Refused(changed, "TooManyQuorums")
        ELSE IF quorums = NoQuorums
        THEN Applied([changed EXCEPT !.lastBlockHash = diff.blockHash])
        ELSE IF late THEN Applied(rooted)
        ELSE IF quorums # diff.merkleRootQuorums
        THEN Refused(rooted, "MerkleRootQuorums")
        ELSE Applied([rooted EXCEPT !.lastBlockHash = diff.blockHash])
  BY DEF ApplyDiff, RootMatches
<1>9. diff.height \in Nat
  BY DEF Diffs
<1> HIDE DEF started, updated, changed, rooted, remained, quorums, mns, applied
<1>10. \/ applied = Refused(started, "NotLinked")
       \/ applied = Refused(updated, "MerkleRootMNList")
       \/ applied = Refused(changed, "TooManyQuorums")
       \/ applied = Refused(rooted, "MerkleRootQuorums")
       \/ /\ updated.mnList = diff.merkleRootMNList
          /\ \/ /\ applied = Applied([changed EXCEPT !.lastBlockHash = diff.blockHash])
                /\ quorums = NoQuorums
             \/ applied = Applied(rooted) /\ late
             \/ /\ applied = Applied([rooted EXCEPT !.lastBlockHash = diff.blockHash])
                /\ quorums = diff.merkleRootQuorums
  BY <1>8
<1>11. CASE applied = Refused(started, "NotLinked")
  BY <1>11, <1>3 DEF Refused, applied
<1>12. CASE applied = Refused(updated, "MerkleRootMNList")
  BY <1>12, <1>4 DEF Refused, applied
<1>13. CASE applied = Refused(changed, "TooManyQuorums")
  BY <1>13, <1>5, <1>9 DEF Refused, applied
<1>14. CASE applied = Refused(rooted, "MerkleRootQuorums")
  BY <1>14, <1>6, <1>9 DEF Refused, applied
<1>15. CASE /\ updated.mnList = diff.merkleRootMNList
            /\ applied = Applied([changed EXCEPT !.lastBlockHash = diff.blockHash])
            /\ quorums = NoQuorums
  <2> DEFINE noted == [changed EXCEPT !.lastBlockHash = diff.blockHash]
  <2>1. applied.list = noted BY <1>15 DEF Applied
  <2>2. /\ noted \in Lists0
        /\ noted.mnList = changed.mnList /\ noted.height = changed.height
        /\ noted.validMNs = changed.validMNs
        /\ noted.quorumList = changed.quorumList
        /\ noted.blockHash = changed.blockHash
    BY <1>5, <1>7
  <2>3. mns = diff.merkleRootMNList BY <1>4, <1>15
  <2> HIDE DEF noted
  <2>4. applied.list.quorumList = NoQuorums BY <2>1, <2>2, <1>5, <1>15
  <2>5. applied.list.validMNs = ValidMNsOf(applied.list.mnList)
    BY <2>1, <2>2, <1>5
  <2> QED BY <2>1, <2>2, <2>3, <2>4, <2>5, <1>5, <1>9 DEF applied
<1>16. CASE updated.mnList = diff.merkleRootMNList /\ applied = Applied(rooted) /\ late
  <2>1. applied.list = rooted BY <1>16 DEF Applied
  <2>2. mns = diff.merkleRootMNList BY <1>4, <1>16
  <2>3. applied.list.validMNs = ValidMNsOf(applied.list.mnList) BY <2>1, <1>6
  <2> QED BY <2>1, <2>2, <2>3, <1>6, <1>9, <1>16 DEF applied
<1>17. CASE /\ updated.mnList = diff.merkleRootMNList
            /\ applied = Applied([rooted EXCEPT !.lastBlockHash = diff.blockHash])
            /\ quorums = diff.merkleRootQuorums
  <2> DEFINE noted == [rooted EXCEPT !.lastBlockHash = diff.blockHash]
  <2>1. applied.list = noted BY <1>17 DEF Applied
  <2>2. /\ noted \in Lists0
        /\ noted.mnList = rooted.mnList /\ noted.height = rooted.height
        /\ noted.validMNs = rooted.validMNs
        /\ noted.quorumList = rooted.quorumList
        /\ noted.blockHash = rooted.blockHash
    BY <1>6, <1>7
  <2>3. mns = diff.merkleRootMNList BY <1>4, <1>17
  <2> HIDE DEF noted
  <2>4. applied.list.quorumList = diff.merkleRootQuorums BY <2>1, <2>2, <1>6, <1>17
  <2>5. applied.list.validMNs = ValidMNsOf(applied.list.mnList)
    BY <2>1, <2>2, <1>6
  <2> QED BY <2>1, <2>2, <2>3, <2>4, <2>5, <1>6, <1>9 DEF applied
<1> QED
  BY <1>10, <1>11, <1>12, <1>13, <1>14, <1>15, <1>16, <1>17

-----------------------------------------------------------------------------
(* The store *)

\* The diffs whose block exists and has the roots they state, and the stores
\* that hold no other diffs and are not too long
Rooted == {diff \in Diffs : TrueRoots(diff)}
Good == {s \in Stores : /\ Len(s.diffStore) <= MaxDiffs - 1
                        /\ s.diffStore \in Seq(Rooted)}

LEMMA EmptyListType == EmptyList \in Lists0
<1>1. <<>> \in MNLists
  <2>1. {} \in SUBSET Masternodes /\ <<>> \in [{} -> Entries]
    OBVIOUS
  <2> QED BY <2>1, IsMNList
<1>2. NoQuorums \in Bags
  BY DEF NoQuorums, Bags
<1> QED
  BY <1>1, <1>2 DEF EmptyList, Lists0, Hashes

LEMMA ListsAreLists0 ==
  /\ Lists \subseteq Lists0
  /\ \A list \in Lists : list.height \in Nat
  /\ \A list \in Lists0 : list.height \in Nat => list \in Lists
  BY DEF Lists, Lists0

\* Whatever list it is applied to, a diff that is accepted leaves a true list.
LEMMA AppliedIsTrue ==
  ASSUME NEW list \in Lists0, NEW diff \in Rooted, outdated \in BOOLEAN,
         ApplyDiff(list, diff, outdated).error = "none"
  PROVE  TrueList(ApplyDiff(list, diff, outdated).list)
<1> DEFINE now == ApplyDiff(list, diff, outdated).list
<1>1. diff \in Diffs /\ TrueRoots(diff)
  BY DEF Rooted
<1>2. /\ now \in Lists0
      /\ now.blockHash = diff.blockHash
      /\ now.height = diff.height
      /\ now.mnList = diff.merkleRootMNList
      /\ now.validMNs = ValidMNsOf(now.mnList)
      /\ outdated \/ now.quorumList \in {NoQuorums, diff.merkleRootQuorums}
  BY <1>1, ApplyDiffCases
<1>3. now.quorumList # Undefined
  BY <1>2, ListAssumption DEF Lists0
<1> HIDE DEF now
<1>4. TrueList(now)
  BY <1>1, <1>2, <1>3 DEF TrueRoots, TrueList
<1> QED
  BY <1>4 DEF now

\* applyDiff on a list of a store gives a list for a store, and so does the
\* first diff of a list, if it is accepted.
LEMMA ApplyDiffType ==
  ASSUME NEW diff \in Diffs, NEW late \in BOOLEAN
  PROVE  /\ \A list \in Lists : ApplyDiff(list, diff, late).list \in Lists
         /\ ApplyDiff(EmptyList, diff, late).error = "none" =>
              ApplyDiff(EmptyList, diff, late).list \in Lists
<1>1. diff.height \in Nat
  BY DEF Diffs
<1>2. \A list \in Lists : ApplyDiff(list, diff, late).list \in Lists
  BY ApplyDiffCases, ListsAreLists0
<1>3. ApplyDiff(EmptyList, diff, late).error = "none" =>
        /\ ApplyDiff(EmptyList, diff, late).list \in Lists0
        /\ ApplyDiff(EmptyList, diff, late).list.height = diff.height
  BY EmptyListType, ApplyDiffCases
<1> QED
  BY <1>1, <1>2, <1>3, ListsAreLists0

LEMMA NewStoreType ==
  ASSUME NEW first \in Diffs, outdated \in BOOLEAN, NewStore(first).error = "none"
  PROVE  NewStore(first).store \in Good
<1> DEFINE applied == ApplyDiff(EmptyList, first, outdated)
           s == [baseSimplifiedMNList |-> applied.list, currentSML |-> applied.list,
                 baseHeight |-> first.height, baseBlockHash |-> first.baseBlockHash,
                 diffStore |-> <<>>,
                 tipHeight |-> first.height, tipHash |-> first.blockHash]
<1>1. NewStore(first) = IF applied.error = "none" THEN Stored(s)
                        ELSE Threw(Undefined, applied.error)
  BY DEF NewStore
<1>2. applied.error = "none" => applied.list \in Lists
  BY ApplyDiffType
<1> HIDE DEF applied
<1>3. applied.error = "none" /\ NewStore(first).store = s
  BY <1>1 DEF Stored, Threw
<1>4. first.height \in Nat /\ first.baseBlockHash \in Hashes /\ first.blockHash \in Hashes
  BY DEF Diffs
<1>5. s \in Stores
  BY <1>2, <1>3, <1>4 DEF Stores
<1>6. Len(s.diffStore) <= MaxDiffs - 1
  BY StoreAssumption
<1>7. s.diffStore \in Seq(Rooted)
  OBVIOUS
<1> QED
  BY <1>3, <1>5, <1>6, <1>7 DEF Good

\* With room for it, a diff is stored, and if it is accepted its block is the tip.
LEMMA PushDiffType ==
  ASSUME NEW s \in Stores, NEW diff \in Rooted, outdated \in BOOLEAN,
         s.diffStore \in Seq(Rooted), Len(s.diffStore) + 1 <= MaxDiffs - 1
  PROVE  /\ PushDiff(s, diff).store \in Good
         /\ PushDiff(s, diff).error = "none" =>
              /\ ApplyDiff(s.currentSML, diff, outdated).error = "none"
              /\ PushDiff(s, diff).store.currentSML =
                   ApplyDiff(s.currentSML, diff, outdated).list
              /\ PushDiff(s, diff).store.tipHash = diff.blockHash
<1>0. diff \in Diffs
  BY DEF Rooted
<1> DEFINE applied == ApplyDiff(s.currentSML, diff, outdated)
           pushed  == [s EXCEPT !.diffStore = Append(@, diff),
                                !.currentSML = applied.list]
           tipped  == [pushed EXCEPT !.tipHeight = diff.height,
                                     !.tipHash = diff.blockHash]
<1>1. PushDiff(s, diff) = IF applied.error = "none" THEN Stored(tipped)
                          ELSE Threw(pushed, applied.error)
  BY DEF PushDiff
<1>2. applied.list \in Lists
  <2>1. s.currentSML \in Lists BY DEF Stores
  <2> QED BY <1>0, <2>1, ApplyDiffType
<1> HIDE DEF applied
<1>3. /\ Append(s.diffStore, diff) \in Seq(Diffs)
      /\ Append(s.diffStore, diff) \in Seq(Rooted)
      /\ Len(Append(s.diffStore, diff)) = Len(s.diffStore) + 1
  <2>1. s.diffStore \in Seq(Diffs) BY DEF Stores
  <2> QED BY <1>0, <2>1
<1>4. pushed \in Stores /\ pushed.diffStore = Append(s.diffStore, diff)
  BY <1>2, <1>3 DEF Stores
<1>5. pushed \in Good
  BY <1>3, <1>4 DEF Good
<1>6. /\ tipped \in Stores /\ tipped.diffStore = Append(s.diffStore, diff)
      /\ tipped.currentSML = applied.list /\ tipped.tipHash = diff.blockHash
  <2>1. diff.height \in Nat /\ diff.blockHash \in Hashes BY <1>0 DEF Diffs
  <2>2. pushed.currentSML = applied.list BY DEF Stores
  <2> HIDE DEF pushed
  <2> QED BY <1>4, <2>1, <2>2 DEF Stores
<1>7. tipped \in Good
  BY <1>3, <1>6 DEF Good
<1> HIDE DEF pushed, tipped
<1> QED
  BY <1>1, <1>5, <1>6, <1>7 DEF Stored, Threw, applied

\* addDiff keeps a store good, also when it throws; what it accepts was accepted
\* by the current list.
LEMMA AddedDiffType ==
  ASSUME NEW s \in Good, NEW diff \in Rooted, outdated \in BOOLEAN
  PROVE  /\ AddedDiff(s, diff).store \in Good
         /\ AddedDiff(s, diff).error = "none" =>
              /\ ApplyDiff(s.currentSML, diff, outdated).error = "none"
              /\ AddedDiff(s, diff).store.currentSML =
                   ApplyDiff(s.currentSML, diff, outdated).list
              /\ AddedDiff(s, diff).store.tipHash = diff.blockHash
<1> DEFINE oldest == Head(s.diffStore)
           pruned == ApplyDiff(s.baseSimplifiedMNList, oldest, outdated)
           shifted == [s EXCEPT !.baseSimplifiedMNList = pruned.list,
                                !.baseHeight = oldest.height,
                                !.diffStore = Tail(@)]
           rebased == [s EXCEPT !.baseSimplifiedMNList = pruned.list]
<1>1. AddedDiff(s, diff) =
        IF ~Full(s) THEN PushDiff(s, diff)
        ELSE IF s.diffStore = <<>> THEN Threw(s, "TypeError")
        ELSE IF pruned.error # "none" THEN Threw(rebased, pruned.error)
        ELSE PushDiff(shifted, diff)
  BY DEF AddedDiff
<1>2. /\ s \in Stores /\ s.diffStore \in Seq(Diffs) /\ s.diffStore \in Seq(Rooted)
      /\ Len(s.diffStore) \in Nat /\ Len(s.diffStore) <= MaxDiffs - 1
      /\ s.baseSimplifiedMNList \in Lists
      /\ MaxDiffs \in Nat
  BY StoreAssumption DEF Good, Stores
<1>3. CASE ~Full(s)
  <2>1. Len(s.diffStore) + 1 <= MaxDiffs - 1 BY <1>2, <1>3 DEF Full
  <2>2. AddedDiff(s, diff) = PushDiff(s, diff) BY <1>1, <1>3
  <2> QED BY <1>2, <2>1, <2>2, PushDiffType
<1>4. CASE Full(s) /\ s.diffStore = <<>>
  BY <1>1, <1>4 DEF Threw
<1>5. CASE Full(s) /\ s.diffStore # <<>>
  <2>1. oldest \in Diffs /\ oldest.height \in Nat
    <3>1. oldest \in Diffs BY <1>2, <1>5
    <3> QED BY <3>1 DEF Diffs
  <2>2. pruned.list \in Lists
    <3> HIDE DEF oldest
    <3> QED BY <1>2, <2>1, ApplyDiffType
  <2> HIDE DEF pruned, oldest
  <2>3. /\ Tail(s.diffStore) \in Seq(Diffs) /\ Tail(s.diffStore) \in Seq(Rooted)
        /\ Len(Tail(s.diffStore)) = Len(s.diffStore) - 1
    BY <1>2, <1>5
  <2>4. rebased \in Good
    <3>1. rebased \in Stores /\ rebased.diffStore = s.diffStore
      BY <1>2, <2>2 DEF Stores
    <3> QED BY <1>2, <3>1 DEF Good
  <2>5. /\ shifted \in Stores /\ shifted.currentSML = s.currentSML
        /\ shifted.diffStore = Tail(s.diffStore)
    BY <1>2, <2>1, <2>2, <2>3 DEF Stores
  <2>6. Len(shifted.diffStore) + 1 <= MaxDiffs - 1
    BY <1>2, <2>3, <2>5
  <2>9. shifted.diffStore \in Seq(Rooted)
    BY <2>3, <2>5
  <2> HIDE DEF shifted, rebased
  <2>7. CASE pruned.error # "none"
    BY <1>1, <1>5, <2>4, <2>7 DEF Threw
  <2>8. CASE pruned.error = "none"
    <3>1. AddedDiff(s, diff) = PushDiff(shifted, diff) BY <1>1, <1>5, <2>8
    <3> QED BY <2>5, <2>6, <2>9, <3>1, PushDiffType
  <2> QED BY <2>7, <2>8
<1> QED
  BY <1>3, <1>4, <1>5

\* The loop of the constructor has a result.  The proof of its existence extends
\* the results of the first diffs one by one.
LEMMA BuiltSteps ==
  ASSUME NEW diffs \in Seq(Diffs), Len(diffs) >= MinDiffs
  PROVE  \E built :
           /\ BuiltStore(diffs) = built[Len(diffs)]
           /\ built[1] = NewStore(diffs[1])
           /\ \A i \in 2 .. Len(diffs) :
                built[i] = IF built[i - 1].error # "none" THEN built[i - 1]
                           ELSE AddedDiff(built[i - 1].store, diffs[i])
<1> DEFINE n == Len(diffs)
           Step(before, i) == IF before.error # "none" THEN before
                              ELSE AddedDiff(before.store, diffs[i])
           Body(f, i) == IF i = 1 THEN NewStore(diffs[1]) ELSE Step(f[i - 1], i)
           Fix(f, m) == f = [i \in 1 .. m |-> Body(f, i)]
           Bad == {m \in 1 .. n : ~(\E f : Fix(f, m))}
<1>1. n \in Nat /\ n >= MinDiffs /\ n >= 1
  BY StoreAssumption
<1>2. Bad = {}
  <2> SUFFICES ASSUME Bad # {} PROVE FALSE
    OBVIOUS
  <2>1. PICK m \in Bad : \A k \in Bad : m <= k
    <3>1. Bad \subseteq Nat OBVIOUS
    <3> HIDE DEF Bad
    <3> QED BY <3>1, LeastNat
  <2>2. m \in 1 .. n
    OBVIOUS
  <2> DEFINE First == [i \in 1 .. 1 |-> NewStore(diffs[1])]
  <2>3. Fix(First, 1)
    OBVIOUS
  <2>4. m # 1
    BY <2>3
  <2>5. m - 1 \in 1 .. n /\ m - 1 < m
    BY <2>2, <2>4
  <2>6. m - 1 \notin Bad
    <3> HIDE DEF Bad
    <3> QED BY <2>1, <2>2, <2>5
  <2>7. PICK f : Fix(f, m - 1)
    BY <2>5, <2>6
  <2> DEFINE g == [i \in 1 .. m |-> IF i = m THEN Step(f[m - 1], m) ELSE f[i]]
  <2>8. \A i \in 1 .. m : g[i] = Body(g, i)
    <3> SUFFICES ASSUME NEW i \in 1 .. m PROVE g[i] = Body(g, i)
      OBVIOUS
    <3> HIDE DEF Step
    <3>1. CASE i = m
      BY <2>2, <2>4, <2>5, <3>1
    <3>2. CASE i # m
      <4>1. i \in 1 .. m - 1 /\ g[i] = f[i] BY <2>2, <3>2
      <4>2. f[i] = Body(f, i) BY <2>7, <4>1
      <4>3. i # 1 => i - 1 \in 1 .. m /\ i - 1 # m BY <2>2, <4>1
      <4>4. i # 1 => g[i - 1] = f[i - 1] BY <4>3
      <4> QED BY <4>1, <4>2, <4>4
    <3> QED BY <3>1, <3>2
  <2>9. Fix(g, m)
    <3> HIDE DEF Body
    <3> QED BY <2>8
  <2> QED
    BY <2>2, <2>9, <2>1
<1> DEFINE Rec(f) == [i \in 1 .. n |-> Body(f, i)]
           built == CHOOSE f : f = Rec(f)
<1>3. built = Rec(built)
  <2>1. \E f : f = Rec(f)
    <3> HIDE DEF Body
    <3>1. n \notin Bad BY <1>2
    <3> QED BY <1>1, <3>1
  <2> HIDE DEF Rec
  <2> QED BY <2>1
<1>4. BuiltStore(diffs) = built[n]
  <2>1. ~(Len(diffs) < MinDiffs) BY <1>1, StoreAssumption
  <2> QED BY <2>1 DEF BuiltStore
<1> HIDE DEF built
<1>5. \A i \in 1 .. n : built[i] = Body(built, i)
  <2> HIDE DEF Body
  <2> QED BY <1>3
<1>6. /\ built[1] = NewStore(diffs[1])
      /\ \A i \in 2 .. n : built[i] = Step(built[i - 1], i)
  <2> HIDE DEF Step
  <2> QED BY <1>1, <1>5
<1> QED
  BY <1>4, <1>6

\* It keeps the bound.
LEMMA BuiltStoreType ==
  ASSUME NEW diffs \in Seq(Diffs), \A i \in 2 .. Len(diffs) : diffs[i] \in Rooted,
         outdated \in BOOLEAN,
         BuiltStore(diffs).error = "none"
  PROVE  BuiltStore(diffs).store \in Good
<1> DEFINE n == Len(diffs)
           Step(before, i) == IF before.error # "none" THEN before
                              ELSE AddedDiff(before.store, diffs[i])
<1>1. n \in Nat /\ n >= MinDiffs /\ n >= 1
  BY StoreAssumption DEF BuiltStore, Threw
<1>3. PICK built : /\ BuiltStore(diffs) = built[n]
                   /\ built[1] = NewStore(diffs[1])
                   /\ \A i \in 2 .. n : built[i] = Step(built[i - 1], i)
  BY <1>1, BuiltSteps
<1> DEFINE Worse == {i \in 1 .. n : built[i].error = "none" /\ built[i].store \notin Good}
<1>6. Worse = {}
  <2> SUFFICES ASSUME Worse # {} PROVE FALSE
    OBVIOUS
  <2>1. PICK m \in Worse : \A k \in Worse : m <= k
    <3>1. Worse \subseteq Nat OBVIOUS
    <3> HIDE DEF Worse
    <3> QED BY <3>1, LeastNat
  <2>2. m \in 1 .. n /\ built[m].error = "none" /\ built[m].store \notin Good
    OBVIOUS
  <2>3. diffs[1] \in Diffs
    BY <1>1
  <2>4. m # 1
    BY <1>3, <2>2, <2>3, NewStoreType
  <2>5. built[m] = Step(built[m - 1], m)
    BY <1>3, <2>2, <2>4
  <2>6. built[m - 1].error = "none" /\ built[m] = AddedDiff(built[m - 1].store, diffs[m])
    BY <2>2, <2>5
  <2>7. m - 1 \in 1 .. n /\ m - 1 < m
    BY <2>2, <2>4
  <2>8. m - 1 \notin Worse
    <3> HIDE DEF Worse
    <3> QED BY <2>1, <2>2, <2>7
  <2>9. built[m - 1].store \in Good
    BY <2>6, <2>7, <2>8
  <2>10. diffs[m] \in Rooted
    BY <2>2, <2>4
  <2>11. built[m].store \in Good
    BY <2>6, <2>9, <2>10, AddedDiffType
  <2> QED BY <2>2, <2>11
<1> QED
  BY <1>1, <1>3, <1>6

\* The base list of a store as a diff
LEMMA ToDiffType ==
  ASSUME NEW list \in Lists
  PROVE  ToDiff(list) \in Diffs
  BY DEF ToDiff, Lists, Diffs

\* The replay of the diffs in range has a result, as the constructor has.
LEMMA ReplaySteps ==
  ASSUME NEW s \in Good, NEW height
  PROVE  \E replay :
           /\ Replayed(s, height) = replay[Len(s.diffStore)]
           /\ replay[0] = ApplyDiff(EmptyList, ToDiff(s.baseSimplifiedMNList), outdated)
           /\ \A i \in 1 .. Len(s.diffStore) :
                replay[i] =
                  IF replay[i - 1].error # "none" \/ ~InRange(s, s.diffStore[i], height)
                  THEN replay[i - 1]
                  ELSE ApplyDiff(replay[i - 1].list, s.diffStore[i], outdated)
<1> DEFINE n == Len(s.diffStore)
           First == ApplyDiff(EmptyList, ToDiff(s.baseSimplifiedMNList), outdated)
           Used(i) == InRange(s, s.diffStore[i], height)
           Step(before, i) == IF before.error # "none" \/ ~Used(i) THEN before
                              ELSE ApplyDiff(before.list, s.diffStore[i], outdated)
           Body(f, i) == IF i = 0 THEN First ELSE Step(f[i - 1], i)
           Fix(f, m) == f = [i \in 0 .. m |-> Body(f, i)]
           Bad == {m \in 0 .. n : ~(\E f : Fix(f, m))}
<1>1. /\ n \in Nat /\ DOMAIN s.diffStore = 1 .. n
      /\ \A i \in 1 .. n : s.diffStore[i] \in Rooted
      /\ s.baseSimplifiedMNList \in Lists
  BY DEF Good, Stores
<1>2. Bad = {}
  <2> SUFFICES ASSUME Bad # {} PROVE FALSE
    OBVIOUS
  <2>1. PICK m \in Bad : \A k \in Bad : m <= k
    <3>1. Bad \subseteq Nat BY <1>1
    <3> HIDE DEF Bad
    <3> QED BY <3>1, LeastNat
  <2>2. m \in 0 .. n
    OBVIOUS
  <2> DEFINE Start == [i \in 0 .. 0 |-> First]
  <2>3. Fix(Start, 0)
    <3> HIDE DEF First
    <3> QED OBVIOUS
  <2>4. m # 0
    BY <2>3
  <2>5. m - 1 \in 0 .. n /\ m - 1 < m
    BY <1>1, <2>2, <2>4
  <2>6. m - 1 \notin Bad
    <3> HIDE DEF Bad
    <3> QED BY <2>1, <2>2, <2>5
  <2>7. PICK f : Fix(f, m - 1)
    BY <2>5, <2>6
  <2> DEFINE g == [i \in 0 .. m |-> IF i = m THEN Step(f[m - 1], m) ELSE f[i]]
  <2>8. \A i \in 0 .. m : g[i] = Body(g, i)
    <3> SUFFICES ASSUME NEW i \in 0 .. m PROVE g[i] = Body(g, i)
      OBVIOUS
    <3> HIDE DEF Step, First
    <3>1. CASE i = m
      BY <2>2, <2>4, <2>5, <3>1
    <3>2. CASE i # m
      <4>1. i \in 0 .. m - 1 /\ g[i] = f[i] BY <1>1, <2>2, <3>2
      <4>2. f[i] = Body(f, i) BY <2>7, <4>1
      <4>3. i # 0 => i - 1 \in 0 .. m /\ i - 1 # m BY <2>2, <4>1
      <4>4. i # 0 => g[i - 1] = f[i - 1] BY <4>3
      <4> QED BY <4>1, <4>2, <4>4
    <3> QED BY <3>1, <3>2
  <2>9. Fix(g, m)
    <3> HIDE DEF Body
    <3> QED BY <2>8
  <2> QED
    BY <2>2, <2>9, <2>1
<1> DEFINE Rec(f) == [i \in 0 .. n |-> Body(f, i)]
           replay == CHOOSE f : f = Rec(f)
<1>3. replay = Rec(replay)
  <2>1. \E f : f = Rec(f)
    <3> HIDE DEF Body
    <3>1. n \notin Bad BY <1>2
    <3> QED BY <1>1, <3>1
  <2> HIDE DEF Rec
  <2> QED BY <2>1
<1>4. Replayed(s, height) = replay[n]
  BY DEF Replayed
<1> HIDE DEF replay
<1>5. \A i \in 0 .. n : replay[i] = Body(replay, i)
  <2> HIDE DEF Body
  <2> QED BY <1>3
<1>6. /\ replay[0] = First
      /\ \A i \in 1 .. n : replay[i] = Step(replay[i - 1], i)
  <2> HIDE DEF Step, First
  <2> QED BY <1>1, <1>5
<1> QED
  BY <1>4, <1>6

\* What it ends with is true of the last of them.
LEMMA ReplayIsTrue ==
  ASSUME NEW s \in Good, NEW height, outdated \in BOOLEAN,
         Replayed(s, height).error = "none",
         \E i \in DOMAIN s.diffStore : InRange(s, s.diffStore[i], height)
  PROVE  TrueList(Replayed(s, height).list)
<1> DEFINE n == Len(s.diffStore)
           First == ApplyDiff(EmptyList, ToDiff(s.baseSimplifiedMNList), outdated)
           Used(i) == InRange(s, s.diffStore[i], height)
           Step(before, i) == IF before.error # "none" \/ ~Used(i) THEN before
                              ELSE ApplyDiff(before.list, s.diffStore[i], outdated)
<1>1. /\ n \in Nat /\ DOMAIN s.diffStore = 1 .. n
      /\ \A i \in 1 .. n : s.diffStore[i] \in Rooted
      /\ s.baseSimplifiedMNList \in Lists
  BY DEF Good, Stores
<1>3. PICK replay : /\ Replayed(s, height) = replay[n]
                    /\ replay[0] = First
                    /\ \A i \in 1 .. n : replay[i] = Step(replay[i - 1], i)
  BY ReplaySteps
<1> DEFINE Fine(i) == /\ replay[i].error = "none" => replay[i].list \in Lists0
                      /\ replay[i].error = "none" /\ (\E j \in 1 .. i : Used(j))
                           => TrueList(replay[i].list)
           Worse == {i \in 0 .. n : ~Fine(i)}
<1>6. Worse = {}
  <2> SUFFICES ASSUME Worse # {} PROVE FALSE
    OBVIOUS
  <2>1. PICK m \in Worse : \A k \in Worse : m <= k
    <3>1. Worse \subseteq Nat BY <1>1
    <3> HIDE DEF Worse
    <3> QED BY <3>1, LeastNat
  <2>2. m \in 0 .. n /\ ~Fine(m)
    OBVIOUS
  <2>3. m # 0
    <3>1. First.list \in Lists0
      BY <1>1, EmptyListType, ToDiffType, ApplyDiffCases
    <3>2. replay[0] = First
      BY <1>3
    <3>3. Fine(0)
      <4> HIDE DEF First, Used
      <4> QED BY <3>1, <3>2
    <3> HIDE DEF Fine
    <3> QED BY <2>2, <3>3
  <2>4. m - 1 \in 0 .. n /\ m - 1 < m /\ m \in 1 .. n
    BY <1>1, <2>2, <2>3
  <2>5. Fine(m - 1)
    <3>1. m - 1 \notin Worse
      <4> HIDE DEF Worse
      <4> QED BY <2>1, <2>2, <2>4
    <3> HIDE DEF Fine
    <3> QED BY <2>4, <3>1
  <2>6. replay[m] = Step(replay[m - 1], m)
    BY <1>3, <2>2, <2>3, <2>4
  <2>7. s.diffStore[m] \in Rooted
    BY <1>1, <2>4
  <2>8. CASE replay[m - 1].error # "none"
    BY <2>2, <2>6, <2>8
  <2>9. CASE replay[m - 1].error = "none" /\ ~Used(m)
    <3>1. replay[m] = replay[m - 1] BY <2>6, <2>9
    <3>2. (\E j \in 1 .. m : Used(j)) => \E j \in 1 .. m - 1 : Used(j)
      <4> HIDE DEF Used
      <4> QED BY <2>4, <2>9
    <3> HIDE DEF Used
    <3> QED BY <2>2, <2>5, <2>9, <3>1, <3>2
  <2>10. CASE replay[m - 1].error = "none" /\ Used(m)
    <3> DEFINE now == ApplyDiff(replay[m - 1].list, s.diffStore[m], outdated)
    <3>1. replay[m] = now BY <2>6, <2>10
    <3>2. replay[m - 1].list \in Lists0 BY <2>5, <2>10
    <3>3. s.diffStore[m] \in Diffs BY <2>7 DEF Rooted
    <3>4. now.list \in Lists0 BY <3>2, <3>3, ApplyDiffCases
    <3>5. now.error = "none" => TrueList(now.list)
      BY <2>7, <3>2, AppliedIsTrue
    <3> HIDE DEF now
    <3>6. Fine(m) BY <3>1, <3>4, <3>5
    <3> HIDE DEF Fine
    <3> QED BY <2>2, <3>6
  <2> QED BY <2>8, <2>9, <2>10
<1>7. Fine(n)
  <2>1. n \in 0 .. n BY <1>1
  <2> HIDE DEF Fine
  <2> QED BY <1>6, <2>1
<1> HIDE DEF Step, First
<1> QED
  BY <1>1, <1>3, <1>7

-----------------------------------------------------------------------------
(* The specification *)

Inv == /\ store \in Good \cup {Undefined}
       /\ saved \in [store : Good, failed : BOOLEAN] \cup {Undefined}
       /\ failed \in BOOLEAN /\ outdated \in BOOLEAN

LEMMA BuildKeeps ==
  ASSUME Inv, NEW diffs \in Seq(Diffs), \A i \in 2 .. Len(diffs) : diffs[i] \in Rooted,
         Build(diffs)
  PROVE  Inv'
<1>1. store' \in Good \cup {Undefined}
  <2>1. CASE BuiltStore(diffs).error = "none"
    BY <2>1, BuiltStoreType DEF Build, Inv
  <2>2. CASE BuiltStore(diffs).error # "none"
    BY <2>2 DEF Build
  <2> QED BY <2>1, <2>2
<1> QED
  BY <1>1 DEF Build, Inv

\* The base list of a saved store, read back as a diff, and the diffs after it
LEMMA SavedDiffs ==
  ASSUME NEW s \in Good
  PROVE  LET diffs == <<ToDiff(FromJSON(s.baseSimplifiedMNList))>> \o s.diffStore
         IN  /\ diffs \in Seq(Diffs)
             /\ \A i \in 2 .. Len(diffs) : diffs[i] \in Rooted
<1> DEFINE base == s.baseSimplifiedMNList
<1>1. base \in Lists /\ s.diffStore \in Seq(Diffs) /\ s.diffStore \in Seq(Rooted)
  BY DEF Good, Stores
<1> HIDE DEF base
<1>2. FromJSON(base) \in Lists
  BY <1>1 DEF FromJSON, Lists
<1>3. ToDiff(FromJSON(base)) \in Diffs
  BY <1>2 DEF ToDiff, Lists, Diffs
<1> DEFINE first == ToDiff(FromJSON(base))
<1> HIDE DEF first
<1>4. /\ <<first>> \o s.diffStore \in Seq(Diffs)
      /\ \A i \in 2 .. Len(<<first>> \o s.diffStore) :
           (<<first>> \o s.diffStore)[i] \in Rooted
  BY <1>1, <1>3 DEF first
<1> QED
  BY <1>4 DEF base, first

LEMMA AddDiffKeeps ==
  ASSUME Inv, NEW diff \in Offers, AddDiff(diff)
  PROVE  Inv'
<1>1. diff \in Rooted /\ store \in Good /\ outdated \in BOOLEAN
  BY StoreAssumption, RootsAssumption DEF AddDiff, Inv, Rooted
<1>2. store' \in Good
  BY <1>1, AddedDiffType DEF AddDiff
<1>3. failed' \in BOOLEAN
  BY DEF AddDiff, Inv
<1> QED
  BY <1>2, <1>3 DEF AddDiff, Inv

LEMMA InvHolds == Spec => []Inv
<1>1. Init => Inv
  BY StoreAssumption DEF Init, Inv
<1>2. Inv /\ [Next]_vars => Inv'
  <2> SUFFICES ASSUME Inv, [Next]_vars PROVE Inv'
    OBVIOUS
  <2>1. ASSUME NEW diffs \in Openings, Construct(diffs) PROVE Inv'
    <3>1. diffs \in Seq(Diffs) /\ Build(diffs)
      BY <2>1, StoreAssumption DEF Construct
    <3>2. \A i \in 2 .. Len(diffs) : diffs[i] \in Rooted
      BY <3>1, RootsAssumption DEF Rooted
    <3> QED BY <3>1, <3>2, BuildKeeps
  <2>2. ASSUME NEW diff \in Offers, AddDiff(diff) PROVE Inv'
    BY <2>2, AddDiffKeeps
  <2>3. CASE SaveAndStop
    BY <2>3 DEF SaveAndStop, Lose, Inv
  <2>4. CASE Crash
    BY <2>4 DEF Crash, Lose, Inv
  <2>5. CASE Restore
    <3>1. saved.store \in Good
      BY <2>5 DEF Restore, Inv
    <3>2. PICK diffs \in Seq(Diffs) :
            Build(diffs) /\ \A i \in 2 .. Len(diffs) : diffs[i] \in Rooted
      BY <2>5, <3>1, SavedDiffs DEF Restore
    <3> QED BY <3>2, BuildKeeps
  <2>6. CASE UNCHANGED vars
    BY <2>6 DEF vars, Inv
  <2> QED
    BY <2>1, <2>2, <2>3, <2>4, <2>5, <2>6 DEF Next
<1> QED
  BY <1>1, <1>2, PTL DEF Spec

(* Every field of a store, and of a saved one, keeps the type it is built with,
   also after addDiff has thrown half way (addDiff, applyDiff, fromJSON). *)
THEOREM StoreTyped == Spec => []TypeOK
<1>1. Inv => TypeOK
  BY DEF Inv, Good, TypeOK
<1> QED
  BY <1>1, InvHolds, PTL

(* Whatever is added, refused, saved and restored, no store ever holds more than
   maxDiffs lists (the pruning in addDiff). *)
THEOREM WindowIsBounded == Spec => []WindowBounded
<1>1. Inv => WindowBounded
  BY DEF Inv, Good, WindowBounded
<1> QED
  BY <1>1, InvHolds, PTL

(* A list that getSMLbyHeight reconstructs for a height between those of the base
   and of the tip is true of its block, or the call throws, whichever diffs were
   refused and are stuck in the store (createListFromBaseAndDiffs). *)
THEOREM LookupsAreTrue == Spec => []LookupIsTrue
<1>1. Inv => LookupIsTrue
  <2> SUFFICES ASSUME Inv, store # Undefined,
                      NEW h \in Heights \ {store.baseHeight, store.tipHeight},
                      SMLbyHeight(store, h).error = "none"
               PROVE  TrueList(SMLbyHeight(store, h).list)
    BY DEF LookupIsTrue
  <2>1. store \in Good /\ outdated \in BOOLEAN
    BY DEF Inv
  <2>2. /\ SMLbyHeight(store, h) = Replayed(store, h)
        /\ \E i \in DOMAIN store.diffStore : InRange(store, store.diffStore[i], h)
    BY DEF SMLbyHeight, Refused
  <2> QED
    BY <2>1, <2>2, ReplayIsTrue
<1> QED
  BY <1>1, InvHolds, PTL

(* A diff that addDiff accepts leaves a tip list whose masternodes are those of
   the diff's block, for any history of accepted and refused diffs and any node
   that cannot forge the roots in a coinbase. *)
THEOREM AcceptedListsAreTrue == Spec => AcceptedIsTrue
<1> DEFINE True == \A diff \in Offers :
                     outcome' = "none" /\ AddDiff(diff) =>
                       /\ TrueList(store'.currentSML)
                       /\ store'.currentSML.blockHash = store'.tipHash
<1>1. Inv => True
  <2> SUFFICES ASSUME Inv, NEW diff \in Offers, outcome' = "none", AddDiff(diff)
               PROVE  /\ TrueList(store'.currentSML)
                      /\ store'.currentSML.blockHash = store'.tipHash
    OBVIOUS
  <2> DEFINE applied == ApplyDiff(store.currentSML, diff, outdated)
  <2>1. diff \in Diffs /\ diff \in Rooted /\ store \in Good /\ outdated \in BOOLEAN
    BY StoreAssumption, RootsAssumption DEF AddDiff, Inv, Rooted
  <2>2. /\ applied.error = "none"
        /\ store'.currentSML = applied.list
        /\ store'.tipHash = diff.blockHash
    BY <2>1, AddedDiffType DEF AddDiff
  <2>3. store.currentSML \in Lists0
    BY <2>1, ListsAreLists0 DEF Good, Stores
  <2>4. TrueList(applied.list)
    BY <2>1, <2>2, <2>3, AppliedIsTrue
  <2>5. applied.list.blockHash = diff.blockHash
    BY <2>1, <2>2, <2>3, ApplyDiffCases
  <2> HIDE DEF applied
  <2> QED
    BY <2>2, <2>4, <2>5
<1>2. Inv /\ [Next]_vars => [True]_vars
  BY <1>1
<1> QED
  BY <1>2, InvHolds, PTL DEF Spec, AcceptedIsTrue

-----------------------------------------------------------------------------
(* Counting the quorums of a type *)

QuorumsOf(type) == {p \in Quorums : p.type = type}
Copies(quorums, type) == UNION {{q} \X (1 .. quorums[q]) : q \in QuorumsOf(type)}

LEMMA CopiesFinite ==
  ASSUME NEW a \in Bags, NEW t
  PROVE  /\ CountOfType(a, t) = Cardinality(Copies(a, t))
         /\ IsFiniteSet(Copies(a, t))
         /\ \A x : x \in Copies(a, t) <=>
              \E q \in QuorumsOf(t) : \E i \in 1 .. a[q] : x = <<q, i>>
<1> DEFINE Q == QuorumsOf(t)
           copies == [q \in Q |-> {q} \X (1 .. a[q])]
           T == {{q} \X (1 .. a[q]) : q \in Q}
<1>1. IsFiniteSet(Q)
  BY FS_Subset, ListAssumption DEF QuorumsOf
<1>2. \A q \in Q : a[q] \in Nat
  BY DEF Bags, QuorumsOf
<1>3. IsFiniteSet(T)
  <2>1. copies \in Surjection(Q, T)
    BY DEF Surjection
  <2> HIDE DEF copies, T, Q
  <2> QED BY <1>1, <2>1, FS_Surjection
<1>4. \A s \in T : IsFiniteSet(s)
  <2> SUFFICES ASSUME NEW q \in Q PROVE IsFiniteSet({q} \X (1 .. a[q]))
    OBVIOUS
  <2>1. a[q] \in Int /\ 1 \in Int
    BY <1>2
  <2>2. IsFiniteSet(1 .. a[q])
    BY <2>1, FS_Interval
  <2>3. IsFiniteSet({q})
    BY FS_Singleton
  <2> QED BY <2>2, <2>3, FS_Product
<1>5. CountOfType(a, t) = Cardinality(Copies(a, t)) /\ Copies(a, t) = UNION T
  BY DEF CountOfType, Copies, QuorumsOf
<1>6. IsFiniteSet(Copies(a, t))
  <2> HIDE DEF T
  <2> QED BY <1>3, <1>4, <1>5, FS_UNION
<1>7. \A x : x \in Copies(a, t) <=>
        \E q \in QuorumsOf(t) : \E i \in 1 .. a[q] : x = <<q, i>>
  BY DEF Copies
<1> QED BY <1>5, <1>6, <1>7

LEMMA CountAdds ==
  ASSUME NEW a \in Bags, NEW b \in Bags, NEW c \in Bags, NEW t,
         \A q \in Quorums : c[q] = a[q] + b[q]
  PROVE  /\ CountOfType(c, t) = CountOfType(a, t) + CountOfType(b, t)
         /\ CountOfType(a, t) \in Nat /\ CountOfType(b, t) \in Nat
<1> DEFINE Upper == Copies(c, t) \ Copies(a, t)
           up == [x \in Copies(b, t) |-> <<x[1], a[x[1]] + x[2]>>]
<1>1. \A q \in QuorumsOf(t) : a[q] \in Nat /\ b[q] \in Nat /\ c[q] = a[q] + b[q]
  BY DEF Bags, QuorumsOf
<1>2. Copies(a, t) \subseteq Copies(c, t)
  <2> SUFFICES ASSUME NEW q \in QuorumsOf(t), NEW i \in 1 .. a[q]
               PROVE  <<q, i>> \in Copies(c, t)
    BY CopiesFinite
  <2>1. i \in 1 .. c[q] BY <1>1
  <2> QED BY <2>1, CopiesFinite
<1>3. up \in Bijection(Copies(b, t), Upper)
  <2>1. \A x \in Copies(b, t) :
          \E q \in QuorumsOf(t) : \E i \in 1 .. b[q] : x = <<q, i>> /\ up[x] = <<q, a[q] + i>>
    BY CopiesFinite
  <2>2. \A q \in QuorumsOf(t) : \A i \in 1 .. b[q] :
          <<q, i>> \in Copies(b, t) /\ up[<<q, i>>] = <<q, a[q] + i>>
    BY CopiesFinite
  <2>3. DOMAIN up = Copies(b, t) /\ up = [x \in Copies(b, t) |-> up[x]]
    OBVIOUS
  <2> HIDE DEF up
  <2>4. ASSUME NEW q \in QuorumsOf(t), NEW i \in 1 .. b[q]
        PROVE  <<q, a[q] + i>> \in Upper
    <3>1. a[q] + i \in 1 .. c[q] /\ a[q] + i \notin 1 .. a[q] BY <1>1
    <3>2. <<q, a[q] + i>> \in Copies(c, t) BY <3>1, CopiesFinite
    <3>3. <<q, a[q] + i>> \notin Copies(a, t) BY <3>1, CopiesFinite
    <3> QED BY <3>2, <3>3
  <2>5. ASSUME NEW y \in Upper PROVE \E x \in Copies(b, t) : up[x] = y
    <3>1. PICK q \in QuorumsOf(t) : \E j \in 1 .. c[q] : y = <<q, j>>
      BY CopiesFinite
    <3>4. PICK j \in 1 .. c[q] : y = <<q, j>>
      BY <3>1
    <3>2. j \notin 1 .. a[q] BY <3>4, CopiesFinite
    <3>3. j - a[q] \in 1 .. b[q] /\ a[q] + (j - a[q]) = j BY <1>1, <3>2
    <3> QED BY <2>2, <3>3, <3>4
  <2>6. \A x \in Copies(b, t) : up[x] \in Upper
    BY <2>1, <2>4
  <2>7. ASSUME NEW x \in Copies(b, t), NEW y \in Copies(b, t), up[x] = up[y]
        PROVE  x = y
    <3>5. PICK q \in QuorumsOf(t) : \E i \in 1 .. b[q] : x = <<q, i>> /\ up[x] = <<q, a[q] + i>>
      BY <2>1
    <3>1. PICK i \in 1 .. b[q] : x = <<q, i>> /\ up[x] = <<q, a[q] + i>>
      BY <3>5
    <3>6. PICK p \in QuorumsOf(t) : \E j \in 1 .. b[p] : y = <<p, j>> /\ up[y] = <<p, a[p] + j>>
      BY <2>1
    <3>2. PICK j \in 1 .. b[p] : y = <<p, j>> /\ up[y] = <<p, a[p] + j>>
      BY <3>6
    <3>3. q = p /\ a[q] + i = a[p] + j BY <2>7, <3>1, <3>2
    <3>4. i = j BY <1>1, <3>3
    <3> QED BY <3>1, <3>2, <3>3, <3>4
  <2>8. up \in [Copies(b, t) -> Upper]
    BY <2>3, <2>6
  <2> HIDE DEF Upper
  <2> QED BY <2>5, <2>7, <2>8 DEF Bijection, Injection, Surjection, IsInjective
<1>4. IsFiniteSet(Upper) /\ Cardinality(Upper) = Cardinality(Copies(b, t))
  <2>1. ExistsBijection(Copies(b, t), Upper)
    BY <1>3 DEF ExistsBijection
  <2> HIDE DEF Upper
  <2> QED BY <2>1, CopiesFinite, FS_Bijection
<1>5. /\ Copies(c, t) = Copies(a, t) \cup Upper
      /\ Copies(a, t) \cap Upper = {}
  BY <1>2
<1> HIDE DEF Upper
<1>6. Cardinality(Copies(c, t))
        = Cardinality(Copies(a, t)) + Cardinality(Upper) - Cardinality(Copies(a, t) \cap Upper)
  BY <1>4, <1>5, CopiesFinite, FS_Union
<1>7. Cardinality(Copies(a, t)) \in Nat /\ Cardinality(Copies(b, t)) \in Nat
  BY CopiesFinite, FS_CardinalityType
<1>8. Cardinality(Copies(a, t) \cap Upper) = 0
  BY <1>5, FS_EmptySet
<1>9. /\ CountOfType(a, t) = Cardinality(Copies(a, t))
      /\ CountOfType(b, t) = Cardinality(Copies(b, t))
      /\ CountOfType(c, t) = Cardinality(Copies(c, t))
  BY CopiesFinite
<1> QED BY <1>4, <1>6, <1>7, <1>8, <1>9

LEMMA CountNone ==
  ASSUME NEW t
  PROVE  NoQuorums \in Bags /\ CountOfType(NoQuorums, t) = 0
<1>1. NoQuorums \in Bags /\ \A q \in Quorums : NoQuorums[q] = 0
  BY DEF NoQuorums, Bags
<1>2. Copies(NoQuorums, t) = {}
  BY <1>1, CopiesFinite DEF QuorumsOf
<1> QED BY <1>1, <1>2, CopiesFinite, FS_EmptySet

-----------------------------------------------------------------------------
(* What applyDiff accepts *)

Remained(list, diff) == DeleteQuorums(list.quorumList, diff.deletedQuorums)
After(list, diff) == AddQuorums(Remained(list, diff), diff.newQuorums)

Accepts(list, diff) ==
  /\ list.lastBlockHash \in {Undefined, diff.baseBlockHash}
  /\ UpdateMNs(list.mnList, diff) = diff.merkleRootMNList
  /\ Overfull(Remained(list, diff), diff.newQuorums) = {}
  /\ After(list, diff) \in {NoQuorums, diff.merkleRootQuorums}

\* The list that an accepted diff leaves
Follows(next, list, diff) ==
  /\ next.blockHash = diff.blockHash
  /\ next.lastBlockHash = diff.blockHash
  /\ next.height = diff.height
  /\ next.mnList = diff.merkleRootMNList
  /\ next.validMNs = ValidMNsOf(diff.merkleRootMNList)
  /\ next.quorumList = After(list, diff)
  /\ next.quorumList = NoQuorums \/ next.merkleRootQuorums = next.quorumList

LEMMA ApplyDiffAccepts ==
  ASSUME NEW list \in Lists0, NEW diff \in Diffs
  PROVE  /\ ApplyDiff(list, diff, FALSE).error = "none" <=> Accepts(list, diff)
         /\ Accepts(list, diff) =>
              Follows(ApplyDiff(list, diff, FALSE).list, list, diff)
<1> DEFINE mns      == UpdateMNs(list.mnList, diff)
           remained == Remained(list, diff)
           quorums  == After(list, diff)
           started  == [list EXCEPT !.baseBlockHash = IF @ = NullHash
                                                      THEN diff.baseBlockHash ELSE @,
                                    !.blockHash = diff.blockHash]
           updated  == [started EXCEPT !.mnList = UpdateMNs(@, diff)]
           changed  == [updated EXCEPT !.height = diff.height,
                                       !.validMNs = ValidMNsOf(updated.mnList),
                                       !.quorumList = quorums]
           rooted   == [changed EXCEPT !.merkleRootQuorums = quorums]
           bare     == [changed EXCEPT !.lastBlockHash = diff.blockHash]
           noted    == [rooted EXCEPT !.lastBlockHash = diff.blockHash]
           applied  == ApplyDiff(list, diff, FALSE)
<1>1. applied =
        IF list.lastBlockHash \notin {Undefined, diff.baseBlockHash}
        THEN Refused(started, "NotLinked")
        ELSE IF updated.mnList # diff.merkleRootMNList
        THEN Refused(updated, "MerkleRootMNList")
        ELSE IF Overfull(remained, diff.newQuorums) # {}
        THEN Refused(changed, "TooManyQuorums")
        ELSE IF quorums = NoQuorums THEN Applied(bare)
        ELSE IF quorums # diff.merkleRootQuorums
        THEN Refused(rooted, "MerkleRootQuorums")
        ELSE Applied(noted)
  BY DEF ApplyDiff, RootMatches, Remained, After
<1>2. /\ started.mnList = list.mnList /\ started.blockHash = diff.blockHash
      /\ DOMAIN started = DOMAIN list
  BY DEF Lists0
<1>3. DOMAIN list = {"baseBlockHash", "blockHash", "lastBlockHash", "height", "mnList",
                     "validMNs", "quorumList", "merkleRootQuorums"}
  BY DEF Lists0
<1>4. /\ updated.mnList = mns /\ updated.blockHash = diff.blockHash
      /\ DOMAIN updated = DOMAIN list
  <2> HIDE DEF started
  <2> QED BY <1>2, <1>3
<1>5. /\ changed.mnList = mns /\ changed.blockHash = diff.blockHash
      /\ changed.height = diff.height /\ changed.validMNs = ValidMNsOf(mns)
      /\ changed.quorumList = quorums /\ DOMAIN changed = DOMAIN list
  <2> HIDE DEF updated, mns, quorums
  <2> QED BY <1>3, <1>4
<1>6. /\ rooted.mnList = mns /\ rooted.blockHash = diff.blockHash
      /\ rooted.height = diff.height /\ rooted.validMNs = ValidMNsOf(mns)
      /\ rooted.quorumList = quorums /\ DOMAIN rooted = DOMAIN list
      /\ rooted.merkleRootQuorums = quorums
  <2> HIDE DEF changed, mns, quorums
  <2> QED BY <1>3, <1>5
<1>7. /\ bare.mnList = mns /\ bare.blockHash = diff.blockHash
      /\ bare.height = diff.height /\ bare.validMNs = ValidMNsOf(mns)
      /\ bare.quorumList = quorums /\ bare.lastBlockHash = diff.blockHash
  <2> HIDE DEF changed, mns, quorums
  <2> QED BY <1>3, <1>5
<1>8. /\ noted.mnList = mns /\ noted.blockHash = diff.blockHash
      /\ noted.height = diff.height /\ noted.validMNs = ValidMNsOf(mns)
      /\ noted.quorumList = quorums /\ noted.lastBlockHash = diff.blockHash
      /\ noted.merkleRootQuorums = quorums
  <2> HIDE DEF rooted, mns, quorums
  <2> QED BY <1>3, <1>6
<1> HIDE DEF started, updated, changed, rooted, bare, noted
<1>9. /\ applied.error = "none" <=> Accepts(list, diff)
      /\ Accepts(list, diff) =>
           applied = IF quorums = NoQuorums THEN Applied(bare) ELSE Applied(noted)
  <2> HIDE DEF applied
  <2> QED BY <1>1, <1>4 DEF Accepts, Applied, Refused
<1> HIDE DEF applied
<1>10. ASSUME Accepts(list, diff) PROVE Follows(applied.list, list, diff)
  <2>1. mns = diff.merkleRootMNList
    BY <1>10 DEF Accepts
  <2>2. CASE quorums = NoQuorums
    BY <1>7, <1>9, <1>10, <2>1, <2>2 DEF Follows, Applied
  <2>3. CASE quorums # NoQuorums
    BY <1>8, <1>9, <1>10, <2>1, <2>3 DEF Follows, Applied
  <2> QED BY <2>2, <2>3
<1> QED BY <1>9, <1>10 DEF applied

LEMMA ApplyDiffStays ==
  ASSUME NEW list \in Lists0, NEW diff \in Diffs, Accepts(list, diff)
  PROVE  /\ ApplyDiff(list, diff, FALSE).error = "none"
         /\ ApplyDiff(list, diff, FALSE).list \in Lists0
<1>1. ApplyDiff(list, diff, FALSE).error = "none"
  BY ApplyDiffAccepts
<1>2. ApplyDiff(list, diff, FALSE).list \in Lists0
  <2>1. FALSE \in BOOLEAN
    OBVIOUS
  <2> QED BY <2>1, ApplyDiffCases
<1> QED BY <1>1, <1>2

\* What applyDiff reads of a list, and what the store answers with
Alike(a, b) ==
  /\ a.blockHash = b.blockHash /\ a.lastBlockHash = b.lastBlockHash
  /\ a.height = b.height /\ a.mnList = b.mnList /\ a.validMNs = b.validMNs
  /\ a.quorumList = b.quorumList

LEMMA ApplyAlike ==
  ASSUME NEW a \in Lists0, NEW b \in Lists0, NEW diff \in Diffs, Alike(a, b)
  PROVE  /\ Accepts(a, diff) <=> Accepts(b, diff)
         /\ Accepts(a, diff) => Alike(ApplyDiff(a, diff, FALSE).list,
                                      ApplyDiff(b, diff, FALSE).list)
<1>1. /\ Remained(a, diff) = Remained(b, diff)
      /\ After(a, diff) = After(b, diff)
  BY DEF Alike, Remained, After
<1>2. Accepts(a, diff) <=> Accepts(b, diff)
  BY <1>1 DEF Accepts, Alike
<1>3. ASSUME NEW x, NEW y, Follows(x, a, diff), Follows(y, b, diff) PROVE Alike(x, y)
  BY <1>1, <1>3 DEF Follows, Alike
<1> QED BY <1>2, <1>3, ApplyDiffAccepts

\* A list as an accepted diff leaves it, on the chain
Kept(list) ==
  /\ list.lastBlockHash = list.blockHash
  /\ list.blockHash \in DOMAIN Truth
  /\ list.height = Truth[list.blockHash].height
  /\ list.mnList = Truth[list.blockHash].mnList
  /\ list.validMNs = ValidMNsOf(list.mnList)
  /\ list.quorumList \in {NoQuorums, Truth[list.blockHash].quorumList}
  /\ list.quorumList = NoQuorums \/ list.merkleRootQuorums = list.quorumList

LEMMA AcceptedIsKept ==
  ASSUME NEW list \in Lists0, NEW diff \in Rooted, Accepts(list, diff)
  PROVE  Kept(ApplyDiff(list, diff, FALSE).list)
<1>1. diff \in Diffs /\ TrueRoots(diff)
  BY DEF Rooted
<1>2. Follows(ApplyDiff(list, diff, FALSE).list, list, diff)
  BY <1>1, ApplyDiffAccepts
<1>3. After(list, diff) \in {NoQuorums, Truth[diff.blockHash].quorumList}
  <2>1. After(list, diff) \in {NoQuorums, diff.merkleRootQuorums}
    BY DEF Accepts
  <2>2. After(list, diff) \in Bags
    <3>1. Remained(list, diff) \in Bags
      BY <1>1, BagTypes DEF Remained, Lists0
    <3> QED BY <1>1, <3>1, BagTypes DEF After
  <2> QED BY <1>1, <2>1, <2>2, ListAssumption DEF TrueRoots
<1> QED BY <1>1, <1>2, <1>3 DEF Follows, TrueRoots, Kept

\* A whole list as a diff, applied to nothing, gives its own contents.
LEMMA FromNothing ==
  ASSUME NEW list \in Lists
  PROVE  LET diff == ToDiff(list) IN
         /\ diff \in Diffs /\ EmptyList \in Lists0
         /\ EmptyList.lastBlockHash = Undefined
         /\ UpdateMNs(EmptyList.mnList, diff) = list.mnList
         /\ Remained(EmptyList, diff) = NoQuorums
         /\ Overfull(NoQuorums, list.quorumList) = {}
              => After(EmptyList, diff) = list.quorumList
<1> DEFINE diff == ToDiff(list)
<1>1. diff \in Diffs /\ EmptyList \in Lists0
  BY ToDiffType, EmptyListType
<1>2. /\ diff.mnList = list.mnList
      /\ diff.deletedMNs = {} /\ diff.deletedQuorums = {}
      /\ diff.newQuorums = list.quorumList
  BY DEF ToDiff
<1>3. /\ EmptyList.lastBlockHash = Undefined /\ EmptyList.mnList = <<>>
      /\ EmptyList.quorumList = NoQuorums
  BY DEF EmptyList
<1> HIDE DEF diff
<1>4. UpdateMNs(EmptyList.mnList, diff) = list.mnList
  <2>1. PICK S \in SUBSET Masternodes : list.mnList \in [S -> Entries]
    BY DEF Lists, MNLists
  <2>2. UpdateMNs(<<>>, diff) = [m \in DOMAIN list.mnList |-> list.mnList[m]]
    BY <1>2 DEF UpdateMNs
  <2> QED BY <1>3, <2>1, <2>2
<1>5. Remained(EmptyList, diff) = NoQuorums
  <2>1. NoQuorums = [q \in Quorums |-> NoQuorums[q]]
    BY DEF NoQuorums
  <2> QED BY <1>2, <1>3, <2>1 DEF Remained, DeleteQuorums
<1>6. ASSUME Overfull(NoQuorums, list.quorumList) = {}
      PROVE  After(EmptyList, diff) = list.quorumList
  <2>1. After(EmptyList, diff) = [q \in Quorums |-> NoQuorums[q] + list.quorumList[q]]
    BY <1>2, <1>5, <1>6 DEF After, AddQuorums
  <2>2. \A q \in Quorums : NoQuorums[q] = 0 /\ list.quorumList[q] \in Nat
    BY DEF NoQuorums, Lists, Bags
  <2>3. list.quorumList = [q \in Quorums |-> list.quorumList[q]]
    BY DEF Lists, Bags
  <2> QED BY <2>1, <2>2, <2>3
<1> QED BY <1>1, <1>3, <1>4, <1>5, <1>6 DEF diff

\* If it is accepted, the list that comes of it is the same.
LEMMA ComesBack ==
  ASSUME NEW list \in Lists, Accepts(EmptyList, ToDiff(list))
  PROVE  LET back == ApplyDiff(EmptyList, ToDiff(list), FALSE).list IN
         /\ back.blockHash = list.blockHash /\ back.lastBlockHash = list.blockHash
         /\ back.height = list.height /\ back.mnList = list.mnList
         /\ back.validMNs = ValidMNsOf(list.mnList)
         /\ back.quorumList = list.quorumList
         /\ back.quorumList = NoQuorums \/ back.merkleRootQuorums = back.quorumList
<1> DEFINE diff == ToDiff(list)
<1>1. /\ diff.blockHash = list.blockHash /\ diff.height = list.height
      /\ diff.merkleRootMNList = list.mnList /\ diff.newQuorums = list.quorumList
  BY DEF ToDiff
<1>2. /\ diff \in Diffs /\ EmptyList \in Lists0
      /\ Remained(EmptyList, diff) = NoQuorums
      /\ Overfull(NoQuorums, list.quorumList) = {}
           => After(EmptyList, diff) = list.quorumList
  BY FromNothing
<1> HIDE DEF diff
<1>3. Accepts(EmptyList, diff)
  BY DEF diff
<1>4. After(EmptyList, diff) = list.quorumList
  BY <1>1, <1>2, <1>3 DEF Accepts
<1>5. Follows(ApplyDiff(EmptyList, diff, FALSE).list, EmptyList, diff)
  BY <1>2, <1>3, ApplyDiffAccepts
<1> QED BY <1>1, <1>4, <1>5 DEF Follows, diff

\* A kept list is accepted, if its quorum root came along.
LEMMA KeptComesBack ==
  ASSUME NEW list \in Lists, Kept(list)
  PROVE  /\ Accepts(EmptyList, ToDiff(list))
         /\ Alike(ApplyDiff(EmptyList, ToDiff(list), FALSE).list, list)
<1> DEFINE diff == ToDiff(list)
<1>1. /\ diff.merkleRootMNList = list.mnList /\ diff.newQuorums = list.quorumList
      /\ diff.merkleRootQuorums = list.merkleRootQuorums
  BY DEF ToDiff
<1>2. /\ EmptyList.lastBlockHash = Undefined
      /\ UpdateMNs(EmptyList.mnList, diff) = list.mnList
      /\ Remained(EmptyList, diff) = NoQuorums
      /\ Overfull(NoQuorums, list.quorumList) = {}
           => After(EmptyList, diff) = list.quorumList
  BY FromNothing
<1> HIDE DEF diff
<1>3. list.quorumList \in Bags /\ NoQuorums \in Bags
  BY CountNone DEF Lists
<1>4. Overfull(NoQuorums, list.quorumList) = {}
  <2> SUFFICES ASSUME NEW t \in Types,
                      CountOfType(NoQuorums, t) + CountOfType(list.quorumList, t)
                        > MaximumActive[t]
               PROVE  FALSE
    BY DEF Overfull
  <2>1. CountOfType(NoQuorums, t) = 0 /\ MaximumActive[t] \in Nat
    BY CountNone, ListAssumption
  <2>2. CountOfType(list.quorumList, t) <= MaximumActive[t]
    BY <2>1, TruthAssumption DEF Kept
  <2>3. CountOfType(list.quorumList, t) \in Nat
    BY <1>3, CopiesFinite, FS_CardinalityType
  <2> QED BY <2>1, <2>2, <2>3
<1>5. Accepts(EmptyList, diff)
  BY <1>1, <1>2, <1>4 DEF Accepts, Kept
<1> QED BY <1>5, ComesBack DEF diff, Alike, Kept

\* A true diff from a kept list on is accepted: every masternode it leaves out
\* has stayed as it was, and the quorums of the new block are not too many.
LEMMA TrueDiffFits ==
  ASSUME NEW list \in Lists, NEW diff \in Diffs, Kept(list), TrueDiff(diff),
         diff.baseBlockHash = list.blockHash,
         list.quorumList = Truth[list.blockHash].quorumList
  PROVE  Accepts(list, diff)
<1> DEFINE from == Truth[diff.baseBlockHash]
           to   == Truth[diff.blockHash]
           left == Remained(list, diff)
           added == diff.newQuorums
<1>1. /\ list.mnList = from.mnList /\ list.quorumList = from.quorumList
      /\ list.lastBlockHash = diff.baseBlockHash
  BY DEF Kept
<1>2. /\ diff.blockHash \in DOMAIN Truth
      /\ to.mnList = diff.merkleRootMNList
      /\ to.quorumList = diff.merkleRootQuorums
      /\ diff.deletedMNs = DOMAIN from.mnList \ DOMAIN to.mnList
      /\ DOMAIN diff.mnList \subseteq DOMAIN to.mnList
      /\ \A m \in DOMAIN to.mnList :
           \/ m \in DOMAIN diff.mnList /\ diff.mnList[m] = to.mnList[m]
           \/ m \notin DOMAIN diff.mnList /\ m \in DOMAIN from.mnList
              /\ from.mnList[m] = to.mnList[m]
      /\ \A q \in diff.deletedQuorums : from.quorumList[q] > 0
      /\ \A q \in Quorums :
           to.quorumList[q] = from.quorumList[q] + diff.newQuorums[q]
                              - (IF q \in diff.deletedQuorums THEN 1 ELSE 0)
  BY DEF TrueDiff
<1>3. /\ to.mnList \in MNLists /\ to.quorumList \in Bags
      /\ \A t \in Types : CountOfType(to.quorumList, t) <= MaximumActive[t]
  BY <1>2, TruthAssumption
<1>4. added \in Bags /\ list.quorumList \in Bags
  BY DEF Diffs, Lists
<1>5. left \in Bags
  BY <1>4, BagTypes DEF Remained
<1> HIDE DEF to, from
<1>6. UpdateMNs(list.mnList, diff) = diff.merkleRootMNList
  <2>1. PICK S \in SUBSET Masternodes : to.mnList \in [S -> Entries]
    BY <1>3 DEF MNLists
  <2>2. (DOMAIN list.mnList \ diff.deletedMNs) \cup DOMAIN diff.mnList = DOMAIN to.mnList
    BY <1>1, <1>2
  <2>3. UpdateMNs(list.mnList, diff)
          = [m \in DOMAIN to.mnList |-> IF m \in DOMAIN diff.mnList
                                        THEN diff.mnList[m] ELSE list.mnList[m]]
    BY <2>2 DEF UpdateMNs
  <2>4. \A m \in DOMAIN to.mnList :
          (IF m \in DOMAIN diff.mnList THEN diff.mnList[m] ELSE list.mnList[m]) = to.mnList[m]
    BY <1>1, <1>2
  <2>5. UpdateMNs(list.mnList, diff) = [m \in DOMAIN to.mnList |-> to.mnList[m]]
    BY <2>3, <2>4
  <2> QED BY <1>2, <2>1, <2>5
<1>7. \A q \in Quorums : to.quorumList[q] = left[q] + added[q]
  <2> SUFFICES ASSUME NEW q \in Quorums PROVE to.quorumList[q] = left[q] + added[q]
    OBVIOUS
  <2>1. left[q] = IF q \in diff.deletedQuorums /\ list.quorumList[q] > 0
                  THEN list.quorumList[q] - 1 ELSE list.quorumList[q]
    BY DEF Remained, DeleteQuorums
  <2>2. list.quorumList[q] \in Nat /\ added[q] \in Nat
    BY <1>4 DEF Bags
  <2> QED BY <1>1, <1>2, <2>1, <2>2
<1> HIDE DEF left, added
<1>8. Overfull(left, added) = {}
  <2> SUFFICES ASSUME NEW t \in Types,
                      CountOfType(left, t) + CountOfType(added, t) > MaximumActive[t]
               PROVE  FALSE
    BY DEF Overfull
  <2> DEFINE whole == to.quorumList
  <2>4. whole \in Bags /\ \A q \in Quorums : whole[q] = left[q] + added[q]
    BY <1>3, <1>7
  <2> HIDE DEF whole
  <2>5. /\ CountOfType(whole, t) = CountOfType(left, t) + CountOfType(added, t)
        /\ CountOfType(left, t) \in Nat /\ CountOfType(added, t) \in Nat
    BY <1>4, <1>5, <2>4, CountAdds
  <2>1. CountOfType(to.quorumList, t) = CountOfType(left, t) + CountOfType(added, t)
    BY <2>5 DEF whole
  <2>2. CountOfType(to.quorumList, t) <= MaximumActive[t] /\ MaximumActive[t] \in Nat
    BY <1>3, ListAssumption
  <2> QED BY <2>1, <2>2, <2>5
<1>9. After(list, diff) = to.quorumList
  <2>1. After(list, diff) = [q \in Quorums |-> left[q] + added[q]]
    BY <1>8 DEF After, AddQuorums, left, added
  <2>2. to.quorumList = [q \in Quorums |-> to.quorumList[q]]
    BY <1>3 DEF Bags
  <2> QED BY <1>7, <2>1, <2>2
<1> QED BY <1>1, <1>2, <1>6, <1>8, <1>9 DEF Accepts, left, added

-----------------------------------------------------------------------------
(* The chain of lists in a store that has refused nothing *)

Chain(s, L) ==
  /\ L \in [0 .. Len(s.diffStore) -> Lists]
  /\ L[0] = s.baseSimplifiedMNList /\ L[0].height = s.baseHeight
  /\ L[Len(s.diffStore)] = s.currentSML
  /\ s.currentSML.height = s.tipHeight /\ s.currentSML.blockHash = s.tipHash
  /\ \A i \in 0 .. Len(s.diffStore) : L[i].lastBlockHash = L[i].blockHash
  /\ \A i \in 1 .. Len(s.diffStore) :
       /\ Accepts(L[i - 1], s.diffStore[i])
       /\ L[i] = ApplyDiff(L[i - 1], s.diffStore[i], FALSE).list

LEMMA NewChain ==
  ASSUME outdated = FALSE, NEW first \in Diffs, NewStore(first).error = "none"
  PROVE  LET s == NewStore(first).store IN
         /\ s \in Good /\ s.diffStore = <<>>
         /\ Accepts(EmptyList, first)
         /\ s.baseSimplifiedMNList = ApplyDiff(EmptyList, first, FALSE).list
         /\ \E L : Chain(s, L)
<1> DEFINE applied == ApplyDiff(EmptyList, first, FALSE)
           s == [baseSimplifiedMNList |-> applied.list, currentSML |-> applied.list,
                 baseHeight |-> first.height, baseBlockHash |-> first.baseBlockHash,
                 diffStore |-> <<>>,
                 tipHeight |-> first.height, tipHash |-> first.blockHash]
           L == [i \in {0} |-> applied.list]
<1>1. NewStore(first) = IF applied.error = "none" THEN Stored(s)
                        ELSE Threw(Undefined, applied.error)
  BY DEF NewStore
<1>2. applied.error = "none" => applied.list \in Lists
  BY ApplyDiffType
<1>3. applied.error = "none" <=> Accepts(EmptyList, first)
  BY EmptyListType, ApplyDiffAccepts
<1>4. Accepts(EmptyList, first) => Follows(applied.list, EmptyList, first)
  BY EmptyListType, ApplyDiffAccepts
<1> HIDE DEF applied
<1>5. applied.error = "none" /\ NewStore(first).store = s
  BY <1>1 DEF Stored, Threw
<1>6. Chain(s, L)
  <2>1. Len(s.diffStore) = 0 /\ 0 .. 0 = {0} /\ 1 .. 0 = {}
    OBVIOUS
  <2>2. L \in [0 .. Len(s.diffStore) -> Lists]
    BY <1>2, <1>5, <2>1
  <2>3. L[0] = applied.list
    OBVIOUS
  <2>4. /\ s.baseSimplifiedMNList = applied.list /\ s.currentSML = applied.list
        /\ s.baseHeight = first.height /\ s.tipHeight = first.height
        /\ s.tipHash = first.blockHash
    OBVIOUS
  <2> HIDE DEF s, L
  <2> QED BY <1>3, <1>4, <1>5, <2>1, <2>2, <2>3, <2>4 DEF Chain, Follows
<1>7. s \in Good
  BY <1>5, NewStoreType
<1>8. s.diffStore = <<>> /\ s.baseSimplifiedMNList = applied.list
  OBVIOUS
<1> HIDE DEF s, L
<1> QED BY <1>3, <1>5, <1>6, <1>7, <1>8 DEF applied

\* What addDiff does to a store with a chain: the new list goes to its end, and
\* the oldest leaves if the store is full.
LEMMA AddedStore ==
  ASSUME outdated = FALSE, NEW s \in Good, NEW L, Chain(s, L),
         s.diffStore # <<>> \/ ~Full(s), NEW diff \in Rooted
  PROVE  LET n == Len(s.diffStore)
             t == AddedDiff(s, diff).store
         IN  /\ AddedDiff(s, diff).error = "none" <=> Accepts(L[n], diff)
             /\ AddedDiff(s, diff).error = "none" =>
                  /\ t.currentSML = ApplyDiff(L[n], diff, FALSE).list
                  /\ t.tipHash = diff.blockHash /\ t.tipHeight = diff.height
                  /\ ~Full(s) => /\ t.diffStore = Append(s.diffStore, diff)
                                 /\ t.baseSimplifiedMNList = L[0]
                                 /\ t.baseHeight = s.baseHeight
                  /\ Full(s) => /\ t.diffStore = Append(Tail(s.diffStore), diff)
                                /\ t.baseSimplifiedMNList = L[1]
                                /\ t.baseHeight = s.diffStore[1].height
             /\ AddedDiff(s, diff).error # "none" =>
                  t.baseSimplifiedMNList = IF Full(s) THEN L[1] ELSE L[0]
<1> DEFINE n == Len(s.diffStore)
           now == ApplyDiff(L[n], diff, FALSE)
           Pushed(r) == [r EXCEPT !.diffStore = Append(@, diff), !.currentSML = now.list]
           Tipped(r) == [Pushed(r) EXCEPT !.tipHeight = diff.height, !.tipHash = diff.blockHash]
           shifted == [s EXCEPT !.baseSimplifiedMNList = L[1],
                                !.baseHeight = s.diffStore[1].height,
                                !.diffStore = Tail(@)]
<1>1. /\ s \in Stores /\ s.diffStore \in Seq(Diffs) /\ n \in Nat
      /\ 0 \in 0 .. n /\ n \in 0 .. n
  BY DEF Good, Stores
<1>2. /\ L[0] = s.baseSimplifiedMNList /\ L[n] = s.currentSML
      /\ L[0] \in Lists /\ L[n] \in Lists
  BY <1>1 DEF Chain
<1>3. now.error = "none" <=> Accepts(L[n], diff)
  BY <1>2, ListsAreLists0, ApplyDiffAccepts DEF Rooted
<1>4. ASSUME Full(s)
      PROVE  /\ Head(s.diffStore) = s.diffStore[1]
             /\ ApplyDiff(L[0], s.diffStore[1], FALSE).error = "none"
             /\ L[1] = ApplyDiff(L[0], s.diffStore[1], FALSE).list
  <2>1. 1 \in 1 .. n /\ s.diffStore[1] \in Diffs /\ Head(s.diffStore) = s.diffStore[1]
    BY <1>1, <1>4
  <2>2. /\ Accepts(L[0], s.diffStore[1])
        /\ L[1] = ApplyDiff(L[0], s.diffStore[1], FALSE).list
    <3>1. \A i \in 1 .. n : /\ Accepts(L[i - 1], s.diffStore[i])
                            /\ L[i] = ApplyDiff(L[i - 1], s.diffStore[i], FALSE).list
      BY DEF Chain
    <3>2. 1 - 1 = 0
      OBVIOUS
    <3> QED BY <2>1, <3>1, <3>2
  <2>3. L[0] \in Lists0
    BY <1>2, ListsAreLists0
  <2> QED BY <2>1, <2>2, <2>3, ApplyDiffAccepts
<1> HIDE DEF now
<1>5. ASSUME NEW r \in {s, shifted}
      PROVE  PushDiff(r, diff) = IF now.error = "none" THEN Stored(Tipped(r))
                                 ELSE Threw(Pushed(r), now.error)
  <2>1. shifted.currentSML = s.currentSML
    BY <1>1 DEF Stores
  <2>2. ApplyDiff(r.currentSML, diff, outdated) = now
    BY <1>2, <2>1 DEF now
  <2> HIDE DEF shifted
  <2> QED BY <2>2 DEF PushDiff
<1>6. AddedDiff(s, diff) = IF Full(s) THEN PushDiff(shifted, diff) ELSE PushDiff(s, diff)
  <2>1. CASE ~Full(s)
    BY <2>1 DEF AddedDiff
  <2>2. CASE Full(s)
    <3> DEFINE pruned == ApplyDiff(s.baseSimplifiedMNList, Head(s.diffStore), outdated)
    <3>1. /\ Head(s.diffStore) = s.diffStore[1]
          /\ pruned.error = "none" /\ pruned.list = L[1]
      BY <1>2, <1>4, <2>2
    <3>2. AddedDiff(s, diff) =
            IF ~Full(s) THEN PushDiff(s, diff)
            ELSE IF s.diffStore = <<>> THEN Threw(s, "TypeError")
            ELSE IF pruned.error # "none"
            THEN Threw([s EXCEPT !.baseSimplifiedMNList = pruned.list], pruned.error)
            ELSE PushDiff([s EXCEPT !.baseSimplifiedMNList = pruned.list,
                                    !.baseHeight = Head(s.diffStore).height,
                                    !.diffStore = Tail(@)], diff)
      BY DEF AddedDiff
    <3> HIDE DEF pruned
    <3> QED BY <2>2, <3>1, <3>2
  <2> QED BY <2>1, <2>2
<1>7. DOMAIN s = {"baseSimplifiedMNList", "currentSML", "baseHeight", "baseBlockHash",
                  "diffStore", "tipHeight", "tipHash"}
  BY <1>1 DEF Stores
<1>8. /\ shifted.baseSimplifiedMNList = L[1] /\ shifted.baseHeight = s.diffStore[1].height
      /\ shifted.diffStore = Tail(s.diffStore) /\ DOMAIN shifted = DOMAIN s
  BY <1>7
<1> HIDE DEF shifted
<1>9. ASSUME NEW r, DOMAIN r = DOMAIN s
      PROVE  /\ Pushed(r).baseSimplifiedMNList = r.baseSimplifiedMNList
             /\ Pushed(r).baseHeight = r.baseHeight
             /\ Pushed(r).diffStore = Append(r.diffStore, diff)
             /\ Pushed(r).currentSML = now.list
             /\ DOMAIN Pushed(r) = DOMAIN s
  BY <1>7, <1>9
<1> HIDE DEF Pushed
<1>10. ASSUME NEW r, DOMAIN r = DOMAIN s
       PROVE  /\ Tipped(r).baseSimplifiedMNList = r.baseSimplifiedMNList
              /\ Tipped(r).baseHeight = r.baseHeight
              /\ Tipped(r).diffStore = Append(r.diffStore, diff)
              /\ Tipped(r).currentSML = now.list
              /\ Tipped(r).tipHash = diff.blockHash
              /\ Tipped(r).tipHeight = diff.height
  BY <1>7, <1>9, <1>10
<1> HIDE DEF Tipped, n
<1>11. CASE ~Full(s)
  <2>1. AddedDiff(s, diff) = IF now.error = "none" THEN Stored(Tipped(s))
                             ELSE Threw(Pushed(s), now.error)
    BY <1>5, <1>6, <1>11
  <2>2. CASE now.error = "none"
    <3>1. AddedDiff(s, diff).store = Tipped(s) /\ AddedDiff(s, diff).error = "none"
      BY <2>1, <2>2 DEF Stored
    <3> QED BY <1>2, <1>3, <1>10, <1>11, <2>2, <3>1 DEF now, n
  <2>3. CASE now.error # "none"
    <3>1. AddedDiff(s, diff).store = Pushed(s) /\ AddedDiff(s, diff).error # "none"
      BY <2>1, <2>3 DEF Threw
    <3> QED BY <1>2, <1>3, <1>9, <1>11, <2>3, <3>1 DEF now, n
  <2> QED BY <2>2, <2>3
<1>12. CASE Full(s)
  <2>1. AddedDiff(s, diff) = IF now.error = "none" THEN Stored(Tipped(shifted))
                             ELSE Threw(Pushed(shifted), now.error)
    BY <1>5, <1>6, <1>12
  <2>2. CASE now.error = "none"
    <3>1. AddedDiff(s, diff).store = Tipped(shifted) /\ AddedDiff(s, diff).error = "none"
      BY <2>1, <2>2 DEF Stored
    <3> QED BY <1>3, <1>8, <1>10, <1>12, <2>2, <3>1 DEF now, n
  <2>3. CASE now.error # "none"
    <3>1. AddedDiff(s, diff).store = Pushed(shifted) /\ AddedDiff(s, diff).error # "none"
      BY <2>1, <2>3 DEF Threw
    <3> QED BY <1>3, <1>8, <1>9, <1>12, <2>3, <3>1 DEF now, n
  <2> QED BY <2>2, <2>3
<1> QED BY <1>11, <1>12

\* The lists that leave when one is added
Leaving(s) == IF Full(s) THEN 1 ELSE 0

\* The store t has the diffs of s but those that leave, and a new one; so it has
\* the lists.
AddedTo(t, s, L, diff) ==
  LET n == Len(s.diffStore)
      k == Leaving(s)
  IN  /\ t \in Good /\ Len(t.diffStore) = n + 1 - k /\ n - k >= 0
      /\ \A i \in 1 .. n - k : t.diffStore[i] = s.diffStore[i + k]
      /\ t.diffStore[n + 1 - k] = diff
      /\ t.baseSimplifiedMNList = L[k]
      /\ Kept(t.currentSML)
      /\ \E M : Chain(t, M) /\ \A i \in 0 .. n - k : M[i] = L[i + k]

LEMMA AddedChain ==
  ASSUME outdated = FALSE, NEW s \in Good, NEW L, Chain(s, L),
         s.diffStore # <<>> \/ ~Full(s), NEW diff \in Rooted,
         AddedDiff(s, diff).error = "none"
  PROVE  AddedTo(AddedDiff(s, diff).store, s, L, diff)
<1> DEFINE n == Len(s.diffStore)
           k == Leaving(s)
           t == AddedDiff(s, diff).store
           new == ApplyDiff(L[n], diff, FALSE).list
           M == [i \in 0 .. n + 1 - k |-> IF i = n + 1 - k THEN new ELSE L[i + k]]
<1>1. /\ n \in Nat /\ k \in {0, 1} /\ n - k \in Nat
      /\ s.diffStore \in Seq(Diffs) /\ s.diffStore \in Seq(Rooted)
      /\ diff \in Diffs
  <2>1. n \in Nat /\ s.diffStore \in Seq(Diffs) /\ s.diffStore \in Seq(Rooted)
    BY DEF Good, Stores
  <2>2. s.diffStore # <<>> => n # 0
    BY <2>1
  <2> QED BY <2>1, <2>2 DEF Rooted, Leaving
<1>2. /\ Accepts(L[n], diff)
      /\ t.currentSML = new
      /\ t.tipHash = diff.blockHash /\ t.tipHeight = diff.height
      /\ t.diffStore = IF Full(s) THEN Append(Tail(s.diffStore), diff)
                       ELSE Append(s.diffStore, diff)
      /\ t.baseSimplifiedMNList = L[k]
      /\ t.baseHeight = IF Full(s) THEN s.diffStore[1].height ELSE s.baseHeight
  <2> HIDE DEF t
  <2> QED BY AddedStore DEF t, Leaving
<1>3. t \in Good
  BY AddedDiffType
<1>4. /\ L \in [0 .. n -> Lists]
      /\ \A i \in 0 .. n : L[i].lastBlockHash = L[i].blockHash
      /\ \A i \in 1 .. n : /\ Accepts(L[i - 1], s.diffStore[i])
                           /\ L[i] = ApplyDiff(L[i - 1], s.diffStore[i], FALSE).list
      /\ L[0].height = s.baseHeight
  BY DEF Chain
<1>5. L[n] \in Lists
  BY <1>1, <1>4
<1>6. new \in Lists /\ Follows(new, L[n], diff) /\ Kept(new)
  <2>1. L[n] \in Lists0
    BY <1>5, ListsAreLists0
  <2>2. new \in Lists
    BY <1>1, <1>5, ApplyDiffType
  <2>3. Follows(new, L[n], diff)
    BY <1>1, <1>2, <2>1, ApplyDiffAccepts
  <2> QED BY <1>2, <2>1, <2>2, <2>3, AcceptedIsKept
<1>7. /\ Len(t.diffStore) = n + 1 - k
      /\ \A i \in 1 .. n - k : t.diffStore[i] = s.diffStore[i + k]
      /\ t.diffStore[n + 1 - k] = diff
  <2> HIDE DEF t
  <2>3. k = IF Full(s) THEN 1 ELSE 0
    BY DEF Leaving
  <2> HIDE DEF k
  <2>1. CASE Full(s)
    <3> DEFINE rest == Tail(s.diffStore)
    <3>1. rest \in Seq(Diffs) /\ Len(rest) = n - 1 /\ \A i \in 1 .. n - 1 : rest[i] = s.diffStore[i + 1]
      BY <1>1, <2>1
    <3> HIDE DEF rest
    <3>2. t.diffStore = Append(rest, diff)
      BY <1>2, <2>1 DEF rest
    <3> QED BY <1>1, <2>1, <2>3, <3>1, <3>2
  <2>2. CASE ~Full(s)
    BY <1>1, <1>2, <2>2, <2>3
  <2> QED BY <2>1, <2>2
<1>8. Full(s) => L[1].height = s.diffStore[1].height
  <2> SUFFICES ASSUME Full(s) PROVE L[1].height = s.diffStore[1].height
    OBVIOUS
  <2>1. 1 \in 1 .. n /\ 0 \in 0 .. n /\ 1 - 1 = 0
    BY <1>1
  <2>2. Accepts(L[0], s.diffStore[1]) /\ L[1] = ApplyDiff(L[0], s.diffStore[1], FALSE).list
    BY <1>4, <2>1
  <2>3. L[0] \in Lists0 /\ s.diffStore[1] \in Diffs
    BY <1>1, <1>4, <2>1, ListsAreLists0
  <2>4. Follows(L[1], L[0], s.diffStore[1])
    BY <2>2, <2>3, ApplyDiffAccepts
  <2> QED BY <2>4 DEF Follows
<1>11. k = 1 => Full(s)
  BY DEF Leaving
<1>12. k = 0 => ~Full(s)
  BY DEF Leaving
<1> HIDE DEF t, new, k, n
<1>13. /\ 0 .. n - k = (0 .. n + 1 - k) \ {n + 1 - k}
       /\ n + 1 - k \in 0 .. n + 1 - k
       /\ \A i \in 0 .. n - k : i + k \in 0 .. n
  BY <1>1
<1>9. /\ M \in [0 .. n + 1 - k -> Lists]
      /\ \A i \in 0 .. n - k : M[i] = L[i + k]
      /\ M[n + 1 - k] = new
  BY <1>1, <1>4, <1>6, <1>13
<1>14. L[k].height = t.baseHeight
  BY <1>1, <1>2, <1>4, <1>8, <1>11, <1>12
<1> HIDE DEF M
<1>10. Chain(t, M)
  <2>1. M[0] = L[k] /\ L[k].height = t.baseHeight
    <3>1. 0 \in 0 .. n - k /\ 0 + k = k
      BY <1>1
    <3> QED BY <1>9, <1>14, <3>1
  <2>2. new.height = diff.height /\ new.blockHash = diff.blockHash
        /\ new.lastBlockHash = new.blockHash
    BY <1>6 DEF Follows
  <2>3. \A i \in 0 .. n + 1 - k : M[i].lastBlockHash = M[i].blockHash
    BY <1>4, <1>9, <1>13, <2>2
  <2>4. ASSUME NEW i \in 1 .. n + 1 - k
        PROVE  /\ Accepts(M[i - 1], t.diffStore[i])
               /\ M[i] = ApplyDiff(M[i - 1], t.diffStore[i], FALSE).list
    <3>1. CASE i = n + 1 - k
      <4>1. M[i - 1] = L[n]
        <5>1. i - 1 \in 0 .. n - k /\ (i - 1) + k = n
          BY <1>1, <3>1
        <5> QED BY <1>9, <5>1
      <4> QED BY <1>2, <1>7, <1>9, <3>1, <4>1 DEF new
    <3>2. CASE i # n + 1 - k
      <4>1. /\ i \in 1 .. n - k /\ i - 1 \in 0 .. n - k /\ i \in 0 .. n - k
            /\ i + k \in 1 .. n /\ (i - 1) + k = (i + k) - 1
        BY <1>1, <3>2
      <4>2. M[i] = L[i + k] /\ M[i - 1] = L[(i + k) - 1] /\ t.diffStore[i] = s.diffStore[i + k]
        BY <1>7, <1>9, <4>1
      <4> QED BY <1>4, <4>1, <4>2
    <3> QED BY <3>1, <3>2
  <2>5. t.baseSimplifiedMNList = M[0]
    BY <1>2, <2>1
  <2> QED BY <1>2, <1>7, <1>9, <2>1, <2>2, <2>3, <2>4 DEF Chain
<1>15. /\ t \in Good /\ Len(t.diffStore) = n + 1 - k /\ n - k >= 0
       /\ \A i \in 1 .. n - k : t.diffStore[i] = s.diffStore[i + k]
       /\ t.diffStore[n + 1 - k] = diff
       /\ t.baseSimplifiedMNList = L[k]
       /\ Kept(t.currentSML)
       /\ \E N : Chain(t, N) /\ \A i \in 0 .. n - k : N[i] = L[i + k]
  BY <1>1, <1>2, <1>3, <1>6, <1>7, <1>9, <1>10
<1> QED BY Zenon, <1>15 DEF AddedTo, t, k, n

\* Every list after the base list is one that was accepted.
LEMMA ChainKept ==
  ASSUME NEW s \in Good, NEW L, Chain(s, L)
  PROVE  \A i \in 1 .. Len(s.diffStore) :
           /\ Kept(L[i]) /\ L[i - 1] \in Lists /\ L[i] \in Lists
           /\ s.diffStore[i] \in Rooted /\ s.diffStore[i] \in Diffs
           /\ Accepts(L[i - 1], s.diffStore[i])
           /\ L[i] = ApplyDiff(L[i - 1], s.diffStore[i], FALSE).list
           /\ L[i].height = s.diffStore[i].height
<1> SUFFICES ASSUME NEW i \in 1 .. Len(s.diffStore)
             PROVE  /\ Kept(L[i]) /\ L[i - 1] \in Lists /\ L[i] \in Lists
                    /\ s.diffStore[i] \in Rooted /\ s.diffStore[i] \in Diffs
                    /\ Accepts(L[i - 1], s.diffStore[i])
                    /\ L[i] = ApplyDiff(L[i - 1], s.diffStore[i], FALSE).list
                    /\ L[i].height = s.diffStore[i].height
  OBVIOUS
<1>1. s.diffStore[i] \in Rooted /\ s.diffStore[i] \in Diffs
  BY DEF Good, Stores
<1>2. L[i - 1] \in Lists /\ L[i] \in Lists
  BY DEF Chain
<1>3. Accepts(L[i - 1], s.diffStore[i]) /\ L[i] = ApplyDiff(L[i - 1], s.diffStore[i], FALSE).list
  BY DEF Chain
<1>4. Kept(L[i]) /\ Follows(L[i], L[i - 1], s.diffStore[i])
  BY <1>1, <1>2, <1>3, ListsAreLists0, AcceptedIsKept, ApplyDiffAccepts
<1> QED BY <1>1, <1>2, <1>3, <1>4 DEF Follows

\* A store as the constructor and addDiff leave it when nothing was refused
Linked(s) ==
  /\ s \in Good /\ s.diffStore # <<>>
  /\ Kept(s.currentSML)
  /\ \E L : Chain(s, L)

\* The store of the first i diffs
BuiltOf(s, first, diffs, i) ==
  /\ s \in Good
  /\ IF i = 1 THEN s = first /\ \E L : Chain(s, L) ELSE Linked(s)
  /\ \A j \in 1 .. Len(s.diffStore) : \E h \in 2 .. Len(diffs) : s.diffStore[j] = diffs[h]
  /\ Kept(first.baseSimplifiedMNList) => Kept(s.baseSimplifiedMNList)
  /\ i <= MaxDiffs =>
       /\ s.baseSimplifiedMNList = first.baseSimplifiedMNList
       /\ Len(s.diffStore) = i - 1
       /\ \A j \in 1 .. i - 1 : s.diffStore[j] = diffs[j + 1]

LEMMA BuiltNext ==
  ASSUME outdated = FALSE, NEW first, NEW diffs \in Seq(Diffs), NEW i \in 2 .. Len(diffs),
         diffs[i] \in Rooted, NEW s, BuiltOf(s, first, diffs, i - 1),
         first.diffStore = <<>>, AddedDiff(s, diffs[i]).error = "none"
  PROVE  BuiltOf(AddedDiff(s, diffs[i]).store, first, diffs, i)
<1> DEFINE n == Len(s.diffStore)
           k == Leaving(s)
           t == AddedDiff(s, diffs[i]).store
<1>1. PICK L : Chain(s, L)
  BY DEF BuiltOf, Linked
<1>2. s \in Good /\ n \in Nat /\ MaxDiffs \in Nat
  BY StoreAssumption DEF BuiltOf, Good, Stores
<1>3. s.diffStore # <<>> \/ ~Full(s)
  BY DEF AddedDiff, Threw
<1> DEFINE diff == diffs[i]
<1>13. diff \in Rooted /\ AddedDiff(s, diff).error = "none" /\ outdated = FALSE
  OBVIOUS
<1> HIDE DEF diff
<1>14. t = AddedDiff(s, diff).store
  BY DEF diff
<1> HIDE DEF t
<1>4. /\ t \in Good /\ Len(t.diffStore) = n + 1 - k /\ n - k >= 0
      /\ \A j \in 1 .. n - k : t.diffStore[j] = s.diffStore[j + k]
      /\ t.diffStore[n + 1 - k] = diff
      /\ t.baseSimplifiedMNList = L[k]
      /\ Kept(t.currentSML)
      /\ \E M : Chain(t, M) /\ \A j \in 0 .. n - k : M[j] = L[j + k]
  <2>1. AddedTo(t, s, L, diff)
    BY <1>1, <1>2, <1>3, <1>13, <1>14, AddedChain
  <2> QED BY <2>1 DEF AddedTo
<1>5. L[0] = s.baseSimplifiedMNList
  BY <1>1 DEF Chain
<1>6. /\ k \in {0, 1}
      /\ k = 1 <=> Full(s)
      /\ Full(s) <=> n >= MaxDiffs - 1
  BY DEF Full, Leaving
<1>15. t.diffStore[n + 1 - k] = diffs[i]
  BY <1>4 DEF diff
<1> HIDE DEF k, n
<1>7. Linked(t)
  <2>1. t.diffStore # <<>>
    BY <1>2, <1>4, <1>6
  <2> QED BY <1>4, <2>1 DEF Linked
<1>8. \A j \in 1 .. Len(t.diffStore) : \E h \in 2 .. Len(diffs) : t.diffStore[j] = diffs[h]
  <2> SUFFICES ASSUME NEW j \in 1 .. Len(t.diffStore)
               PROVE  \E h \in 2 .. Len(diffs) : t.diffStore[j] = diffs[h]
    OBVIOUS
  <2>1. j = n + 1 - k \/ (j \in 1 .. n - k /\ j + k \in 1 .. n)
    BY <1>2, <1>4, <1>6
  <2> QED BY <1>4, <1>15, <2>1 DEF BuiltOf, n
<1>9. Kept(first.baseSimplifiedMNList) => Kept(t.baseSimplifiedMNList)
  <2>1. k = 1 => Kept(L[1])
    <3>1. k = 1 => 1 \in 1 .. n
      BY <1>2, <1>4
    <3> QED BY <1>1, <1>2, <3>1, ChainKept DEF n
  <2> QED BY <1>4, <1>5, <1>6, <2>1 DEF BuiltOf
<1>10. ASSUME i <= MaxDiffs
       PROVE  /\ t.baseSimplifiedMNList = first.baseSimplifiedMNList
              /\ Len(t.diffStore) = i - 1
              /\ \A j \in 1 .. i - 1 : t.diffStore[j] = diffs[j + 1]
  <2>1. /\ s.baseSimplifiedMNList = first.baseSimplifiedMNList
        /\ n = i - 2
        /\ \A j \in 1 .. i - 2 : s.diffStore[j] = diffs[j + 1]
    BY <1>2, <1>10 DEF BuiltOf, n
  <2>2. k = 0
    BY <1>2, <1>6, <1>10, <2>1
  <2>3. ASSUME NEW j \in 1 .. i - 1 PROVE t.diffStore[j] = diffs[j + 1]
    <3>1. CASE j = i - 1
      BY <1>15, <2>1, <2>2, <3>1
    <3>2. CASE j # i - 1
      <4>1. j \in 1 .. n - k /\ j + k = j /\ j \in 1 .. i - 2
        BY <2>1, <2>2, <3>2
      <4> QED BY <1>4, <2>1, <4>1
    <3> QED BY <3>1, <3>2
  <2> QED BY <1>4, <1>5, <2>1, <2>2, <2>3
<1>11. i # 1
  OBVIOUS
<1>12. BuiltOf(t, first, diffs, i)
  BY <1>4, <1>7, <1>8, <1>9, <1>10, <1>11 DEF BuiltOf
<1> QED BY <1>12 DEF t

\* The constructor builds a store with a chain, from the list of the first diff on.
LEMMA BuiltChain ==
  ASSUME outdated = FALSE, NEW diffs \in Seq(Diffs),
         \A i \in 2 .. Len(diffs) : diffs[i] \in Rooted,
         BuiltStore(diffs).error = "none"
  PROVE  LET first == NewStore(diffs[1]) IN
         /\ first.error = "none" /\ Len(diffs) >= 2
         /\ AddedDiff(first.store, diffs[2]).error = "none"
         /\ BuiltOf(BuiltStore(diffs).store, first.store, diffs, Len(diffs))
<1> DEFINE n == Len(diffs)
           first == NewStore(diffs[1])
           Step(before, i) == IF before.error # "none" THEN before
                              ELSE AddedDiff(before.store, diffs[i])
<1>1. n \in Nat /\ n >= MinDiffs /\ n >= 2 /\ diffs[1] \in Diffs /\ MaxDiffs \in Nat \ {0}
  BY StoreAssumption DEF BuiltStore, Threw
<1>2. PICK built : /\ BuiltStore(diffs) = built[n]
                   /\ built[1] = first
                   /\ \A i \in 2 .. n : built[i] = Step(built[i - 1], i)
  BY <1>1, BuiltSteps
<1>3. first.error = "none" =>
        first.store.diffStore = <<>> /\ BuiltOf(first.store, first.store, diffs, 1)
  <2> SUFFICES ASSUME first.error = "none"
               PROVE  first.store.diffStore = <<>> /\ BuiltOf(first.store, first.store, diffs, 1)
    OBVIOUS
  <2> HIDE DEF first
  <2>1. /\ first.store \in Good /\ first.store.diffStore = <<>>
        /\ \E L : Chain(first.store, L)
    BY <1>1, NewChain DEF first
  <2>2. Len(first.store.diffStore) = 0
    BY <2>1
  <2> QED BY <2>1, <2>2 DEF BuiltOf
<1> HIDE DEF first
<1> DEFINE Fine(i) == built[i].error = "none" =>
                        /\ first.error = "none"
                        /\ AddedDiff(first.store, diffs[2]).error = "none" \/ i = 1
                        /\ BuiltOf(built[i].store, first.store, diffs, i)
           Worse == {i \in 1 .. n : ~Fine(i)}
<1>4. Worse = {}
  <2> SUFFICES ASSUME Worse # {} PROVE FALSE
    OBVIOUS
  <2>1. PICK m \in Worse : \A k \in Worse : m <= k
    <3>1. Worse \subseteq Nat OBVIOUS
    <3> HIDE DEF Worse
    <3> QED BY <3>1, LeastNat
  <2>2. m \in 1 .. n /\ ~Fine(m)
    OBVIOUS
  <2>3. m # 1
    BY <1>2, <1>3, <2>2
  <2>4. m - 1 \in 1 .. n /\ m - 1 < m /\ m \in 2 .. n
    BY <1>1, <2>2, <2>3
  <2>5. Fine(m - 1)
    <3>1. m - 1 \notin Worse
      <4> HIDE DEF Worse
      <4> QED BY <2>1, <2>2, <2>4
    <3> HIDE DEF Fine
    <3> QED BY <2>4, <3>1
  <2>6. built[m] = Step(built[m - 1], m)
    BY <1>2, <2>4
  <2>7. CASE built[m - 1].error # "none"
    BY <2>2, <2>6, <2>7
  <2>8. CASE built[m - 1].error = "none"
    <3>1. /\ built[m] = AddedDiff(built[m - 1].store, diffs[m])
          /\ first.error = "none"
          /\ AddedDiff(first.store, diffs[2]).error = "none" \/ m - 1 = 1
          /\ BuiltOf(built[m - 1].store, first.store, diffs, m - 1)
      BY <2>5, <2>6, <2>8
    <3>2. ASSUME built[m].error = "none"
          PROVE  /\ AddedDiff(first.store, diffs[2]).error = "none"
                 /\ BuiltOf(built[m].store, first.store, diffs, m)
      <4>1. m - 1 = 1 => m = 2 /\ built[m - 1].store = first.store
        BY <1>2, <2>4
      <4>2. AddedDiff(first.store, diffs[2]).error = "none"
        BY <3>1, <3>2, <4>1
      <4>3. diffs[m] \in Rooted /\ first.store.diffStore = <<>>
        BY <1>3, <2>4, <3>1
      <4> QED BY <2>4, <3>1, <3>2, <4>2, <4>3, BuiltNext
    <3> QED BY <2>2, <3>1, <3>2
  <2> QED BY <2>7, <2>8
<1>5. Fine(n) /\ n # 1
  <2>1. n \in 1 .. n /\ n # 1 BY <1>1
  <2> HIDE DEF Fine
  <2> QED BY <1>4, <2>1
<1> QED BY <1>1, <1>2, <1>5 DEF first

-----------------------------------------------------------------------------
(* An honest node is not refused *)

\* Between failures the store has its chain, and so has what was saved of it.
LinkInv ==
  /\ Inv
  /\ ~outdated /\ store # Undefined /\ ~failed => Linked(store)
  /\ ~outdated /\ saved # Undefined /\ ~saved.failed => Linked(saved.store)

LEMMA BuildLinks ==
  ASSUME Inv, NEW diffs \in Seq(Diffs), \A i \in 2 .. Len(diffs) : diffs[i] \in Rooted,
         Build(diffs)
  PROVE  LinkInv'
<1>1. Inv'
  BY BuildKeeps
<1>2. /\ saved' = Undefined /\ outdated' = outdated /\ outdated \in BOOLEAN
      /\ store' = IF BuiltStore(diffs).error = "none" THEN BuiltStore(diffs).store
                  ELSE Undefined
  BY DEF Build, Inv
<1>3. ASSUME outdated = FALSE, BuiltStore(diffs).error = "none"
      PROVE  Linked(BuiltStore(diffs).store)
  <2>1. /\ Len(diffs) >= 2
        /\ BuiltOf(BuiltStore(diffs).store, NewStore(diffs[1]).store, diffs, Len(diffs))
    BY <1>3, BuiltChain
  <2>2. Len(diffs) # 1
    BY <2>1
  <2> QED BY <2>1, <2>2 DEF BuiltOf
<1> QED BY <1>1, <1>2, <1>3 DEF LinkInv

\* Every diff of a step has true roots; Restore builds from the base list.
LEMMA StepDiffs ==
  ASSUME Inv
  PROVE  /\ \A diff \in Offers : diff \in Rooted
         /\ \A diffs \in Openings :
              diffs \in Seq(Diffs) /\ \A i \in 1 .. Len(diffs) : diffs[i] \in Rooted
         /\ saved # Undefined =>
              LET diffs == <<ToDiff(FromJSON(saved.store.baseSimplifiedMNList))>>
                             \o saved.store.diffStore
              IN  /\ saved.store \in Good
                  /\ diffs \in Seq(Diffs)
                  /\ \A i \in 2 .. Len(diffs) : diffs[i] \in Rooted
<1>1. \A diff \in Offers : diff \in Rooted
  BY StoreAssumption, RootsAssumption DEF Rooted
<1>2. \A diffs \in Openings :
        diffs \in Seq(Diffs) /\ \A i \in 1 .. Len(diffs) : diffs[i] \in Rooted
  BY StoreAssumption, RootsAssumption DEF Rooted
<1>3. saved # Undefined => saved.store \in Good
  BY DEF Inv
<1> QED BY <1>1, <1>2, <1>3, SavedDiffs

LEMMA LinkStep ==
  ASSUME LinkInv, [Next]_vars
  PROVE  LinkInv'
<1>0. Inv
  BY DEF LinkInv
<1>1. ASSUME NEW diffs \in Openings, Construct(diffs) PROVE LinkInv'
  <2>1. \A i \in 2 .. Len(diffs) : i \in 1 .. Len(diffs)
    OBVIOUS
  <2>2. diffs \in Seq(Diffs) /\ \A i \in 2 .. Len(diffs) : diffs[i] \in Rooted
    BY <1>0, <2>1, StepDiffs
  <2>3. Build(diffs)
    BY <1>1 DEF Construct
  <2> QED BY <1>0, <2>2, <2>3, BuildLinks
<1>2. ASSUME NEW diff \in Offers, AddDiff(diff) PROVE LinkInv'
  <2>1. Inv' /\ diff \in Rooted
    BY <1>0, <1>2, AddDiffKeeps, StepDiffs
  <2>2. /\ store' = AddedDiff(store, diff).store
        /\ failed' = (failed \/ AddedDiff(store, diff).error # "none")
        /\ saved' = saved /\ outdated' = outdated /\ store # Undefined
    BY <1>2 DEF AddDiff
  <2>3. ASSUME outdated = FALSE, ~failed, AddedDiff(store, diff).error = "none"
        PROVE  Linked(AddedDiff(store, diff).store)
    <3>1. Linked(store) BY <2>2, <2>3 DEF LinkInv
    <3>2. PICK L : Chain(store, L) BY <3>1 DEF Linked
    <3>3. AddedTo(AddedDiff(store, diff).store, store, L, diff)
      BY <2>1, <2>3, <3>1, <3>2, AddedChain DEF Linked
    <3> DEFINE t == AddedDiff(store, diff).store
               n == Len(store.diffStore)
               k == Leaving(store)
    <3>4. /\ t \in Good /\ Len(t.diffStore) = n + 1 - k /\ n - k >= 0
          /\ Kept(t.currentSML) /\ \E M : Chain(t, M)
      BY <3>3 DEF AddedTo
    <3>5. n \in Nat /\ k \in Nat
      BY <3>1 DEF Linked, Good, Stores, Leaving
    <3> HIDE DEF t, n, k
    <3>6. t.diffStore # <<>>
      BY <3>4, <3>5
    <3> QED BY <3>4, <3>6 DEF Linked, t
  <2>4. outdated \in BOOLEAN /\ failed \in BOOLEAN
    BY <1>0 DEF Inv
  <2> QED BY <2>1, <2>2, <2>3, <2>4 DEF LinkInv
<1>3. CASE SaveAndStop
  <2>1. Inv'
    BY <1>0, <1>3 DEF SaveAndStop, Lose, Inv
  <2> QED BY <1>3, <2>1 DEF SaveAndStop, Lose, LinkInv
<1>4. CASE Crash
  <2>1. Inv'
    BY <1>0, <1>4 DEF Crash, Lose, Inv
  <2> QED BY <1>4, <2>1 DEF Crash, Lose, LinkInv
<1>5. CASE Restore
  <2>1. PICK diffs \in Seq(Diffs) :
          Build(diffs) /\ \A i \in 2 .. Len(diffs) : diffs[i] \in Rooted
    BY <1>0, <1>5, StepDiffs DEF Restore
  <2> QED BY <1>0, <2>1, BuildLinks
<1>6. CASE UNCHANGED vars
  BY <1>6 DEF vars, Inv, LinkInv
<1> QED
  BY <1>1, <1>2, <1>3, <1>4, <1>5, <1>6 DEF Next

LEMMA LinkHolds == Spec => []LinkInv
<1>1. Init => LinkInv
  BY StoreAssumption DEF Init, Inv, LinkInv
<1> QED
  BY <1>1, LinkStep, PTL DEF Spec

(* A diff that is true of the chain and starts at the tip is never refused by a
   store that has refused nothing since it was built, for any chain whose blocks
   keep to the limits of active quorums: the oldest diff folds into the base list,
   every masternode and every quorum is as the new roots say, and the block it has
   to start from is noted (addDiff, applyDiff). *)
THEOREM TrueDiffsAreAccepted == Spec => TrueDiffsAccepted
<1> DEFINE Accepted == \A diff \in Offers :
                         /\ store # Undefined /\ ~failed /\ ~outdated
                         /\ diff.baseBlockHash = store.tipHash /\ TrueDiff(diff)
                         /\ store.currentSML.quorumList = Truth[store.tipHash].quorumList
                         /\ AddDiff(diff)
                         => outcome' = "none"
<1>1. LinkInv => Accepted
  <2> SUFFICES ASSUME LinkInv, NEW diff \in Offers,
                      store # Undefined, ~failed, ~outdated,
                      diff.baseBlockHash = store.tipHash, TrueDiff(diff),
                      store.currentSML.quorumList = Truth[store.tipHash].quorumList,
                      AddDiff(diff)
               PROVE  outcome' = "none"
    OBVIOUS
  <2>1. Linked(store) /\ Inv /\ outdated = FALSE
    BY DEF LinkInv, Inv
  <2>2. PICK L : Chain(store, L)
    BY <2>1 DEF Linked
  <2> DEFINE n == Len(store.diffStore)
             current == store.currentSML
  <2>3. /\ store \in Good /\ store.diffStore # <<>> /\ Kept(current)
        /\ current \in Lists /\ n \in Nat
    BY <2>1 DEF Linked, Good, Stores
  <2>4. L[n] = current /\ current.blockHash = store.tipHash
    BY <2>2 DEF Chain
  <2>5. diff \in Rooted /\ diff \in Diffs
    BY <2>1, StepDiffs DEF Rooted
  <2> HIDE DEF current
  <2>6. Accepts(current, diff)
    <3>1. current.quorumList = Truth[current.blockHash].quorumList
      BY <2>4 DEF current
    <3> QED BY <2>3, <2>4, <2>5, <3>1, TrueDiffFits
  <2>7. AddedDiff(store, diff).error = "none"
    BY <2>1, <2>2, <2>3, <2>4, <2>5, <2>6, AddedStore
  <2> QED BY <2>7 DEF AddDiff
<1>2. LinkInv /\ [Next]_vars => [Accepted]_vars
  BY <1>1
<1> QED
  BY <1>2, LinkHolds, PTL DEF Spec, TrueDiffsAccepted

-----------------------------------------------------------------------------
(* What a refused diff leaves of the base list *)

\* The oldest diff has been applied to the base list half way, and is still there.
HalfPruned(s) == s.baseSimplifiedMNList.blockHash = s.diffStore[1].blockHash

\* What every store keeps, whether or not it has refused a diff
Sound(s) ==
  /\ s \in Good /\ s.diffStore # <<>>
  /\ \A i \in DOMAIN s.diffStore : Climbs(s.diffStore[i])
  /\ Kept(s.baseSimplifiedMNList) \/ HalfPruned(s)

LEMMA BlockIsNoted ==
  ASSUME NEW list \in Lists0, NEW diff \in Diffs
  PROVE  ApplyDiff(list, diff, FALSE).list.blockHash = diff.blockHash
<1> DEFINE quorums  == After(list, diff)
           started  == [list EXCEPT !.baseBlockHash = IF @ = NullHash
                                                      THEN diff.baseBlockHash ELSE @,
                                    !.blockHash = diff.blockHash]
           updated  == [started EXCEPT !.mnList = UpdateMNs(@, diff)]
           changed  == [updated EXCEPT !.height = diff.height,
                                       !.validMNs = ValidMNsOf(updated.mnList),
                                       !.quorumList = quorums]
           rooted   == [changed EXCEPT !.merkleRootQuorums = quorums]
           applied  == ApplyDiff(list, diff, FALSE)
<1>1. \/ applied = Refused(started, "NotLinked")
      \/ applied = Refused(updated, "MerkleRootMNList")
      \/ applied = Refused(changed, "TooManyQuorums")
      \/ applied = Refused(rooted, "MerkleRootQuorums")
      \/ applied.error = "none"
  <2>1. applied =
          IF list.lastBlockHash \notin {Undefined, diff.baseBlockHash}
          THEN Refused(started, "NotLinked")
          ELSE IF updated.mnList # diff.merkleRootMNList
          THEN Refused(updated, "MerkleRootMNList")
          ELSE IF Overfull(Remained(list, diff), diff.newQuorums) # {}
          THEN Refused(changed, "TooManyQuorums")
          ELSE IF quorums = NoQuorums
          THEN Applied([changed EXCEPT !.lastBlockHash = diff.blockHash])
          ELSE IF quorums # diff.merkleRootQuorums
          THEN Refused(rooted, "MerkleRootQuorums")
          ELSE Applied([rooted EXCEPT !.lastBlockHash = diff.blockHash])
    BY DEF ApplyDiff, RootMatches, Remained, After
  <2> HIDE DEF started, updated, changed, rooted, quorums, applied
  <2> QED BY <2>1 DEF Applied
<1>2. started.blockHash = diff.blockHash /\ DOMAIN started = DOMAIN list
  BY DEF Lists0
<1>3. "blockHash" \in DOMAIN list
  BY DEF Lists0
<1>4. updated.blockHash = diff.blockHash /\ DOMAIN updated = DOMAIN list
  <2> HIDE DEF started
  <2> QED BY <1>2, <1>3
<1>5. changed.blockHash = diff.blockHash /\ DOMAIN changed = DOMAIN list
  <2> HIDE DEF updated, quorums
  <2> QED BY <1>3, <1>4
<1>6. rooted.blockHash = diff.blockHash
  <2> HIDE DEF changed, quorums
  <2> QED BY <1>3, <1>5
<1>7. applied.error = "none" => applied.list.blockHash = diff.blockHash
  BY ApplyDiffAccepts DEF Follows
<1> HIDE DEF started, updated, changed, rooted, applied
<1>8. applied.list.blockHash = diff.blockHash
  BY <1>1, <1>2, <1>4, <1>5, <1>6, <1>7 DEF Refused
<1> QED BY <1>8 DEF applied

\* addDiff leaves its store sound, also when it throws.
LEMMA AddedSound ==
  ASSUME outdated = FALSE, NEW s, Sound(s), NEW diff \in Rooted, Climbs(diff)
  PROVE  Sound(AddedDiff(s, diff).store)
<1> DEFINE t == AddedDiff(s, diff).store
           oldest == Head(s.diffStore)
           pruned == ApplyDiff(s.baseSimplifiedMNList, oldest, FALSE)
           shifted == [s EXCEPT !.baseSimplifiedMNList = pruned.list,
                                !.baseHeight = oldest.height,
                                !.diffStore = Tail(@)]
           rebased == [s EXCEPT !.baseSimplifiedMNList = pruned.list]
<1>1. AddedDiff(s, diff) =
        IF ~Full(s) THEN PushDiff(s, diff)
        ELSE IF pruned.error # "none" THEN Threw(rebased, pruned.error)
        ELSE PushDiff(shifted, diff)
  BY DEF AddedDiff, Sound
<1>2. /\ s \in Stores /\ s.diffStore \in Seq(Diffs) /\ s.diffStore \in Seq(Rooted)
      /\ s.diffStore # <<>>
      /\ oldest = s.diffStore[1] /\ oldest \in Diffs /\ oldest \in Rooted
      /\ s.baseSimplifiedMNList \in Lists /\ s.baseSimplifiedMNList \in Lists0
      /\ diff \in Diffs
  <2>1. /\ s \in Stores /\ s.diffStore \in Seq(Diffs) /\ s.diffStore \in Seq(Rooted)
        /\ s.baseSimplifiedMNList \in Lists
    BY DEF Sound, Good, Stores
  <2>2. s.diffStore # <<>>
    BY DEF Sound
  <2> QED BY <2>1, <2>2, ListsAreLists0 DEF Rooted
<1>3. DOMAIN s = {"baseSimplifiedMNList", "currentSML", "baseHeight", "baseBlockHash",
                  "diffStore", "tipHeight", "tipHash"}
  BY <1>2 DEF Stores
<1>4. t \in Good
  BY AddedDiffType DEF Sound
<1>5. pruned.list.blockHash = oldest.blockHash
  <2> HIDE DEF oldest
  <2> QED BY <1>2, BlockIsNoted
<1>6. pruned.error = "none" => Kept(pruned.list)
  <2> HIDE DEF oldest
  <2> QED BY <1>2, ApplyDiffAccepts, AcceptedIsKept
<1> HIDE DEF pruned, oldest
<1>7. /\ shifted.baseSimplifiedMNList = pruned.list
      /\ shifted.diffStore = Tail(s.diffStore)
      /\ rebased.baseSimplifiedMNList = pruned.list
      /\ rebased.diffStore = s.diffStore
      /\ DOMAIN shifted = DOMAIN s
  BY <1>3
<1> HIDE DEF shifted, rebased
<1>8. ASSUME NEW r, DOMAIN r = DOMAIN s
      PROVE  /\ PushDiff(r, diff).store.baseSimplifiedMNList = r.baseSimplifiedMNList
             /\ PushDiff(r, diff).store.diffStore = Append(r.diffStore, diff)
  <2> DEFINE applied == ApplyDiff(r.currentSML, diff, outdated)
             pushed  == [r EXCEPT !.diffStore = Append(@, diff), !.currentSML = applied.list]
             tipped  == [pushed EXCEPT !.tipHeight = diff.height, !.tipHash = diff.blockHash]
  <2>1. PushDiff(r, diff) = IF applied.error = "none" THEN Stored(tipped)
                            ELSE Threw(pushed, applied.error)
    BY DEF PushDiff
  <2> HIDE DEF applied
  <2>2. /\ pushed.baseSimplifiedMNList = r.baseSimplifiedMNList
        /\ pushed.diffStore = Append(r.diffStore, diff)
        /\ DOMAIN pushed = DOMAIN s
    BY <1>3, <1>8
  <2> HIDE DEF pushed
  <2>3. /\ tipped.baseSimplifiedMNList = r.baseSimplifiedMNList
        /\ tipped.diffStore = Append(r.diffStore, diff)
    BY <1>3, <2>2
  <2> HIDE DEF tipped
  <2> QED BY <2>1, <2>2, <2>3 DEF Stored, Threw
<1>9. \A i \in 1 .. Len(s.diffStore) : Climbs(s.diffStore[i])
  BY DEF Sound
<1>10. CASE ~Full(s)
  <2>1. /\ t.baseSimplifiedMNList = s.baseSimplifiedMNList
        /\ t.diffStore = Append(s.diffStore, diff)
    BY <1>1, <1>8, <1>10
  <2> HIDE DEF t
  <2>2. /\ t.diffStore # <<>> /\ t.diffStore[1] = s.diffStore[1]
        /\ \A i \in DOMAIN t.diffStore : Climbs(t.diffStore[i])
    BY <1>2, <1>9, <2>1
  <2>3. Sound(t)
    BY <1>4, <2>1, <2>2 DEF Sound, HalfPruned
  <2> QED BY <2>3 DEF t
<1>11. CASE Full(s) /\ pruned.error # "none"
  <2>1. t = rebased
    BY <1>1, <1>11 DEF Threw
  <2> HIDE DEF t
  <2>2. \A i \in DOMAIN t.diffStore : Climbs(t.diffStore[i])
    BY <1>2, <1>7, <1>9, <2>1
  <2>3. Sound(t)
    BY <1>2, <1>4, <1>5, <1>7, <2>1, <2>2 DEF Sound, HalfPruned
  <2> QED BY <2>3 DEF t
<1>12. CASE Full(s) /\ pruned.error = "none"
  <2>1. /\ t.baseSimplifiedMNList = pruned.list
        /\ t.diffStore = Append(Tail(s.diffStore), diff)
    BY <1>1, <1>7, <1>8, <1>12
  <2> DEFINE rest == Tail(s.diffStore)
  <2>2. /\ rest \in Seq(Diffs) /\ Len(rest) = Len(s.diffStore) - 1
        /\ \A i \in 1 .. Len(rest) : rest[i] = s.diffStore[i + 1] /\ i + 1 \in 1 .. Len(s.diffStore)
    BY <1>2
  <2> HIDE DEF t, rest
  <2>3. t.diffStore = Append(rest, diff)
    BY <2>1 DEF rest
  <2>4. t.diffStore # <<>> /\ \A i \in DOMAIN t.diffStore : Climbs(t.diffStore[i])
    BY <1>2, <1>9, <2>2, <2>3
  <2>5. Sound(t)
    BY <1>4, <1>6, <1>12, <2>1, <2>4 DEF Sound
  <2> QED BY <2>5 DEF t
<1> QED BY <1>10, <1>11, <1>12

-----------------------------------------------------------------------------
(* What the store answers is what its chain says *)

\* A chain that begins with a kept list and whose diffs climb
Rising(s, L) ==
  /\ s \in Good /\ Chain(s, L) /\ Kept(L[0])
  /\ \A i \in DOMAIN s.diffStore : Climbs(s.diffStore[i])

LEMMA ChainRises ==
  ASSUME NEW s, NEW L, Rising(s, L)
  PROVE  LET n == Len(s.diffStore) IN
         /\ n \in Nat /\ n <= MaxDiffs - 1
         /\ \A i \in 0 .. n : L[i] \in Lists /\ Kept(L[i]) /\ L[i].height \in Nat
         /\ \A i, j \in 0 .. n : i < j => L[i].height < L[j].height
<1> DEFINE n == Len(s.diffStore)
<1>1. /\ n \in Nat /\ n <= MaxDiffs - 1 /\ DOMAIN s.diffStore = 1 .. n
      /\ s \in Good /\ Chain(s, L)
  BY DEF Rising, Good, Stores
<1>2. \A i \in 0 .. n : L[i] \in Lists /\ Kept(L[i])
  <2> SUFFICES ASSUME NEW i \in 0 .. n PROVE L[i] \in Lists /\ Kept(L[i])
    OBVIOUS
  <2>1. L[i] \in Lists
    BY <1>1 DEF Chain
  <2>2. i = 0 \/ i \in 1 .. n
    BY <1>1
  <2> QED BY <1>1, <2>1, <2>2, ChainKept DEF Rising
<1>3. \A i \in 0 .. n : L[i].height \in Nat
  BY <1>2, ListsAreLists0
<1>4. \A i \in 1 .. n : L[i - 1].height < L[i].height
  <2> SUFFICES ASSUME NEW i \in 1 .. n PROVE L[i - 1].height < L[i].height
    OBVIOUS
  <2> DEFINE diff == s.diffStore[i]
  <2>1. /\ L[i - 1] \in Lists /\ Accepts(L[i - 1], diff) /\ diff \in Rooted /\ diff \in Diffs
        /\ L[i] = ApplyDiff(L[i - 1], diff, FALSE).list
    BY <1>1, ChainKept
  <2>2. Kept(L[i - 1])
    BY <1>1, <1>2
  <2>3. Climbs(diff) /\ TrueRoots(diff)
    BY <1>1, <2>1 DEF Rising, Rooted
  <2>4. L[i].height = diff.height
    BY <1>1, ChainKept
  <2> HIDE DEF diff
  <2>5. L[i - 1].lastBlockHash \in DOMAIN Truth /\ L[i - 1].lastBlockHash # Undefined
    BY <2>2, TruthAssumption DEF Kept, Hashes
  <2>6. diff.baseBlockHash = L[i - 1].blockHash
    BY <2>1, <2>2, <2>5 DEF Accepts, Kept
  <2> QED BY <2>2, <2>3, <2>4, <2>6 DEF Climbs, Kept, TrueRoots
<1>5. \A i, j \in 0 .. n : i < j => L[i].height < L[j].height
  <2> SUFFICES ASSUME NEW i \in 0 .. n PROVE \A j \in 0 .. n : i < j => L[i].height < L[j].height
    OBVIOUS
  <2> DEFINE Low == {j \in 0 .. n : i < j /\ ~(L[i].height < L[j].height)}
  <2>1. Low = {}
    <3> SUFFICES ASSUME Low # {} PROVE FALSE
      OBVIOUS
    <3>1. PICK m \in Low : \A k \in Low : m <= k
      <4>1. Low \subseteq Nat BY <1>1
      <4> HIDE DEF Low
      <4> QED BY <4>1, LeastNat
    <3>2. m \in 1 .. n /\ m - 1 \in 0 .. n /\ i < m /\ ~(L[i].height < L[m].height)
      BY <1>1
    <3>3. L[m - 1].height < L[m].height
      BY <1>4, <3>2
    <3>4. i = m - 1 \/ L[i].height < L[m - 1].height
      <4>1. m - 1 \notin Low
        <5>1. m - 1 < m BY <3>2
        <5> HIDE DEF Low
        <5> QED BY <1>1, <3>1, <3>2, <5>1
      <4> QED BY <1>1, <3>2, <4>1
    <3> QED BY <1>3, <3>2, <3>3, <3>4
  <2> QED BY <2>1
<1> QED BY <1>1, <1>2, <1>3, <1>5

\* The replay up to the m-th diff gives the m-th list, but for what nobody reads.
LEMMA ReplayFollows ==
  ASSUME outdated = FALSE, NEW s, NEW L, Rising(s, L), NEW m \in 1 .. Len(s.diffStore)
  PROVE  Alike(Replayed(s, L[m].height).list, L[m])
<1> DEFINE n == Len(s.diffStore)
           height == L[m].height
           base == s.baseSimplifiedMNList
           Used(i) == InRange(s, s.diffStore[i], height)
           Step(before, i) == IF before.error # "none" \/ ~Used(i) THEN before
                              ELSE ApplyDiff(before.list, s.diffStore[i], FALSE)
           Until(i) == IF i <= m THEN i ELSE m
<1>1. /\ n \in Nat /\ m \in 1 .. n /\ m \in 0 .. n /\ s \in Good /\ Chain(s, L)
      /\ \A i \in 0 .. n : L[i] \in Lists /\ Kept(L[i]) /\ L[i].height \in Nat
      /\ \A i, j \in 0 .. n : i < j => L[i].height < L[j].height
  <2>1. s \in Good /\ Chain(s, L)
    BY DEF Rising
  <2>2. /\ n \in Nat
        /\ \A i \in 0 .. n : L[i] \in Lists /\ Kept(L[i]) /\ L[i].height \in Nat
        /\ \A i, j \in 0 .. n : i < j => L[i].height < L[j].height
    BY ChainRises
  <2>3. m \in 1 .. n /\ m \in 0 .. n
    BY <2>2
  <2> QED BY <2>1, <2>2, <2>3
<1>2. L[0] = base /\ L[0].height = s.baseHeight /\ 0 \in 0 .. n
  BY <1>1 DEF Chain
<1>3. PICK replay :
        /\ Replayed(s, height) = replay[n]
        /\ replay[0] = ApplyDiff(EmptyList, ToDiff(base), FALSE)
        /\ \A i \in 1 .. n :
             replay[i] = IF replay[i - 1].error # "none" \/ ~InRange(s, s.diffStore[i], height)
                         THEN replay[i - 1]
                         ELSE ApplyDiff(replay[i - 1].list, s.diffStore[i], FALSE)
  <2> HIDE DEF height
  <2>1. \E replay :
          /\ Replayed(s, height) = replay[n]
          /\ replay[0] = ApplyDiff(EmptyList, ToDiff(base), outdated)
          /\ \A i \in 1 .. n :
               replay[i] = IF replay[i - 1].error # "none" \/ ~InRange(s, s.diffStore[i], height)
                           THEN replay[i - 1]
                           ELSE ApplyDiff(replay[i - 1].list, s.diffStore[i], outdated)
    BY Zenon, <1>1, ReplaySteps
  <2> QED BY <2>1
<1>4. \A i \in 1 .. n :
        /\ L[i - 1] \in Lists /\ s.diffStore[i] \in Diffs
        /\ Accepts(L[i - 1], s.diffStore[i])
        /\ L[i] = ApplyDiff(L[i - 1], s.diffStore[i], FALSE).list
        /\ L[i].height = s.diffStore[i].height
  BY <1>1, ChainKept
<1>5. \A i \in 1 .. n : Used(i) <=> i <= m
  <2> SUFFICES ASSUME NEW i \in 1 .. n PROVE Used(i) <=> i <= m
    OBVIOUS
  <2>1. i \in 0 .. n /\ 0 < i
    OBVIOUS
  <2>2. L[0].height < L[i].height
    BY <1>1, <1>2, <2>1
  <2>3. i < m => L[i].height < L[m].height
    BY <1>1, <2>1
  <2>4. m < i => L[m].height < L[i].height
    BY <1>1, <2>1
  <2>5. L[i].height \in Nat /\ L[m].height \in Nat /\ L[0].height \in Nat
    BY <1>1, <1>2, <2>1
  <2>6. Used(i) <=> L[i].height >= L[0].height /\ L[i].height <= L[m].height
    BY <1>2, <1>4 DEF InRange
  <2> HIDE DEF Used
  <2> QED BY <1>1, <2>2, <2>3, <2>4, <2>5, <2>6
<1> DEFINE Fine(i) == /\ replay[i].error = "none" /\ replay[i].list \in Lists0
                      /\ Alike(replay[i].list, L[Until(i)])
           Worse == {i \in 0 .. n : ~Fine(i)}
<1>6. Worse = {}
  <2> SUFFICES ASSUME Worse # {} PROVE FALSE
    OBVIOUS
  <2>1. PICK i \in Worse : \A k \in Worse : i <= k
    <3>1. Worse \subseteq Nat BY <1>1
    <3> HIDE DEF Worse
    <3> QED BY <3>1, LeastNat
  <2>2. i \in 0 .. n /\ ~Fine(i)
    OBVIOUS
  <2>3. i # 0
    <3>1. L[0] \in Lists /\ Kept(L[0])
      BY <1>1, <1>2
    <3>2. ToDiff(base) \in Diffs /\ EmptyList \in Lists0
      BY <1>2, <3>1, ToDiffType, EmptyListType
    <3>3. Accepts(EmptyList, ToDiff(base)) /\ Alike(replay[0].list, L[0])
      BY <1>2, <1>3, <3>1, KeptComesBack
    <3>4. replay[0].error = "none" /\ replay[0].list \in Lists0
      BY Zenon, <1>3, <3>2, <3>3, ApplyDiffStays
    <3>5. Until(0) = 0
      BY <1>1
    <3> HIDE DEF Until
    <3>6. Fine(0)
      BY <3>3, <3>4, <3>5
    <3> HIDE DEF Fine
    <3> QED BY <2>2, <3>6
  <2>4. i - 1 \in 0 .. n /\ i - 1 < i /\ i \in 1 .. n
    BY <1>1, <2>2, <2>3
  <2>5. Fine(i - 1)
    <3>1. i - 1 \notin Worse
      <4> HIDE DEF Worse
      <4> QED BY <2>1, <2>2, <2>4
    <3> HIDE DEF Fine
    <3> QED BY <2>4, <3>1
  <2>6. replay[i] = Step(replay[i - 1], i) /\ (Used(i) <=> i <= m)
    BY <1>3, <1>5, <2>4
  <2> HIDE DEF Used
  <2>7. CASE m < i
    <3>1. Until(i) = m /\ Until(i - 1) = m
      BY <1>1, <2>4, <2>7
    <3>2. replay[i] = replay[i - 1]
      <4>1. ~Used(i)
        BY <1>1, <2>4, <2>6, <2>7
      <4> QED BY <2>6, <4>1
    <3> HIDE DEF Until
    <3> QED BY <2>2, <2>5, <3>1, <3>2
  <2>8. CASE i <= m
    <3>1. Until(i) = i /\ Until(i - 1) = i - 1
      BY <1>1, <2>4, <2>8
    <3> HIDE DEF Until
    <3> DEFINE before == replay[i - 1].list
               diff == s.diffStore[i]
    <3>2. replay[i] = ApplyDiff(before, diff, FALSE)
      BY <2>5, <2>6, <2>8
    <3>3. before \in Lists0 /\ Alike(before, L[i - 1])
      BY <2>5, <3>1
    <3>4. /\ L[i - 1] \in Lists0 /\ diff \in Diffs /\ Accepts(L[i - 1], diff)
          /\ L[i] = ApplyDiff(L[i - 1], diff, FALSE).list
      BY <1>4, <2>4, ListsAreLists0
    <3> HIDE DEF before, diff
    <3>5. Accepts(before, diff) /\ Alike(replay[i].list, L[i])
      BY <3>2, <3>3, <3>4, ApplyAlike
    <3>6. replay[i].error = "none" /\ replay[i].list \in Lists0
      BY <3>2, <3>3, <3>4, <3>5, ApplyDiffStays
    <3> QED BY <2>2, <3>1, <3>5, <3>6
  <2> QED BY <1>1, <2>4, <2>7, <2>8
<1>7. Fine(n) /\ Until(n) = m
  <2>1. n \in 0 .. n /\ Until(n) = m
    BY <1>1
  <2> HIDE DEF Fine
  <2> QED BY <1>6, <2>1
<1> HIDE DEF Until, n
<1> QED BY <1>3, <1>7

LEMMA OneBefore ==
  ASSUME NEW S, NEW e \in S, NEW rest \in Seq(S)
  PROVE  /\ <<e>> \o rest \in Seq(S) /\ Len(<<e>> \o rest) = Len(rest) + 1
         /\ (<<e>> \o rest)[1] = e
         /\ \A i \in 1 .. Len(rest) : (<<e>> \o rest)[i + 1] = rest[i]
<1>1. <<e>> \in Seq(S) /\ Len(<<e>>) = 1 /\ <<e>>[1] = e /\ Len(rest) \in Nat
  OBVIOUS
<1>2. <<e>> \o rest \in Seq(S) /\ Len(<<e>> \o rest) = Len(rest) + 1
  BY <1>1
<1>3. (<<e>> \o rest)[1] = e
  BY <1>1
<1>4. ASSUME NEW i \in 1 .. Len(rest) PROVE (<<e>> \o rest)[i + 1] = rest[i]
  BY <1>1
<1> QED BY <1>2, <1>3, <1>4

\* A list as the store shows it
View(list) ==
  [height |-> list.height, blockHash |-> list.blockHash, mnList |-> list.mnList,
   validMNs |-> list.validMNs,
   quorums |-> IF list.quorumList = NoQuorums THEN Undefined ELSE list.quorumList]

Views(L, n) == [i \in 1 .. n + 1 |-> View(L[i - 1])]

LEMMA WindowIsViews ==
  ASSUME outdated = FALSE, NEW s, NEW L, Rising(s, L)
  PROVE  WindowOf(s) = Views(L, Len(s.diffStore))
<1> DEFINE n == Len(s.diffStore)
           later == [i \in DOMAIN s.diffStore |-> Answer(s, s.diffStore[i].height)]
<1>1. /\ n \in Nat /\ s \in Good /\ Chain(s, L) /\ DOMAIN s.diffStore = 1 .. n
      /\ \A i \in 0 .. n : L[i] \in Lists /\ Kept(L[i]) /\ L[i].height \in Nat
      /\ \A i, j \in 0 .. n : i < j => L[i].height < L[j].height
  BY ChainRises DEF Rising, Good, Stores
<1>2. /\ L[0] = s.baseSimplifiedMNList /\ L[0].height = s.baseHeight
      /\ L[n] = s.currentSML /\ s.currentSML.height = s.tipHeight
  BY <1>1 DEF Chain
<1>3. Answer(s, s.baseHeight) = View(L[0])
  BY <1>2 DEF Answer, SMLbyHeight, Applied, View
<1>4. \A i \in 1 .. n : Answer(s, s.diffStore[i].height) = View(L[i])
  <2> SUFFICES ASSUME NEW i \in 1 .. n PROVE Answer(s, s.diffStore[i].height) = View(L[i])
    OBVIOUS
  <2> DEFINE height == s.diffStore[i].height
             found == SMLbyHeight(s, height).list
  <2>1. height = L[i].height /\ i \in 0 .. n /\ 0 \in 0 .. n /\ n \in 0 .. n /\ 0 < i
    <3>1. i \in 0 .. n /\ 0 \in 0 .. n /\ n \in 0 .. n /\ 0 < i
      BY <1>1
    <3>2. L[i].height = s.diffStore[i].height
      BY <1>1, ChainKept
    <3> QED BY <3>1, <3>2
  <2>2. height # s.baseHeight
    BY <1>1, <1>2, <2>1
  <2>3. InRange(s, s.diffStore[i], height)
    <3>1. L[0].height < L[i].height /\ L[0].height \in Nat /\ L[i].height \in Nat
      BY <1>1, <2>1
    <3> QED BY <1>2, <2>1, <3>1 DEF InRange
  <2>4. height = s.tipHeight => i = n
    <3>1. L[i].height \in Nat /\ L[n].height \in Nat /\ (i < n => L[i].height < L[n].height)
      BY <1>1, <2>1
    <3> QED BY <1>1, <1>2, <2>1, <3>1
  <2>5. Alike(found, L[i])
    <3>1. CASE height = s.tipHeight
      <4>1. found = L[n]
        BY <1>2, <2>2, <3>1 DEF SMLbyHeight, Applied
      <4> QED BY <2>4, <3>1, <4>1 DEF Alike
    <3>2. CASE height # s.tipHeight
      <4>1. found = Replayed(s, L[i].height).list
        BY <1>1, <2>1, <2>2, <2>3, <3>2 DEF SMLbyHeight
      <4> QED BY <4>1, ReplayFollows
    <3> QED BY <3>1, <3>2
  <2>6. Answer(s, height)
          = [height |-> height, blockHash |-> found.blockHash, mnList |-> found.mnList,
             validMNs |-> found.validMNs,
             quorums |-> IF found.quorumList = NoQuorums THEN Undefined ELSE found.quorumList]
    BY DEF Answer
  <2> HIDE DEF height, found
  <2> QED BY <2>1, <2>5, <2>6 DEF Alike, View, height
<1>5. WindowOf(s) = <<View(L[0])>> \o later
  BY <1>3 DEF WindowOf
<1>6. later = [i \in 1 .. n |-> View(L[i])]
  BY <1>1, <1>4
<1> HIDE DEF later
<1>7. <<View(L[0])>> \o later = Views(L, n)
  <2> DEFINE S == {View(L[i]) : i \in 0 .. n}
             first == <<View(L[0])>>
  <2>1. later \in Seq(S) /\ Len(later) = n /\ \A i \in 1 .. n : later[i] = View(L[i])
    BY <1>1, <1>6
  <2>2. first \in Seq(S) /\ Len(first) = 1 /\ first[1] = View(L[0])
    BY <1>1
  <2> HIDE DEF S, first
  <2>3. /\ first \o later \in Seq(S) /\ Len(first \o later) = n + 1
        /\ \A i \in 1 .. n + 1 : (first \o later)[i] = IF i <= 1 THEN first[i] ELSE later[i - 1]
    <3> HIDE DEF n
    <3> DEFINE oldest == View(L[0])
    <3>6. oldest \in S /\ first = <<oldest>>
      BY <1>1 DEF S, first
    <3> HIDE DEF oldest
    <3>7. /\ <<oldest>> \o later \in Seq(S) /\ Len(<<oldest>> \o later) = n + 1
          /\ (<<oldest>> \o later)[1] = oldest
          /\ \A i \in 1 .. n : (<<oldest>> \o later)[i + 1] = later[i]
      BY <2>1, <3>6, OneBefore
    <3>1. first \o later \in Seq(S) /\ Len(first \o later) = n + 1
      BY <3>6, <3>7
    <3>2. (first \o later)[1] = first[1]
      BY <3>6, <3>7
    <3>3. ASSUME NEW i \in 1 .. n PROVE (first \o later)[i + 1] = later[i]
      BY <3>6, <3>7
    <3>4. ASSUME NEW i \in 1 .. n + 1, ~(i <= 1) PROVE (first \o later)[i] = later[i - 1]
      <4>1. i - 1 \in 1 .. n /\ (i - 1) + 1 = i
        BY <1>1, <3>4
      <4> QED BY <3>3, <4>1
    <3>5. ASSUME NEW i \in 1 .. n + 1, i <= 1 PROVE (first \o later)[i] = first[i]
      <4>1. i = 1
        BY <1>1, <3>5
      <4> QED BY <3>2, <4>1
    <3> QED BY <3>1, <3>4, <3>5
  <2>4. \A i \in 1 .. n + 1 : (first \o later)[i] = View(L[i - 1])
    <3> SUFFICES ASSUME NEW i \in 1 .. n + 1 PROVE (first \o later)[i] = View(L[i - 1])
      OBVIOUS
    <3>1. CASE i = 1
      BY <2>2, <2>3, <3>1
    <3>2. CASE i # 1
      <4>1. i - 1 \in 1 .. n /\ ~(i <= 1) BY <1>1, <3>2
      <4> QED BY <2>1, <2>3, <4>1
    <3> QED BY <3>1, <3>2
  <2>5. first \o later = [i \in 1 .. n + 1 |-> (first \o later)[i]]
    <3> DEFINE whole == first \o later
    <3>1. whole \in Seq(S) /\ Len(whole) = n + 1
      BY <2>3
    <3> HIDE DEF whole, n
    <3>2. whole = [i \in 1 .. n + 1 |-> whole[i]]
      BY <3>1
    <3> QED BY <3>2 DEF whole
  <2> QED BY <2>4, <2>5 DEF Views, first
<1> QED BY <1>5, <1>7

LEMMA ViewIsTrue ==
  ASSUME NEW list \in Lists, Kept(list)
  PROVE  View(list) \in TrueLists /\ View(list).height = list.height
<1> DEFINE verified == list.quorumList # NoQuorums
           b == list.blockHash
           shown == [height |-> Truth[b].height, blockHash |-> b, mnList |-> Truth[b].mnList,
                     validMNs |-> ValidMNsOf(Truth[b].mnList),
                     quorums |-> IF verified THEN Truth[b].quorumList ELSE Undefined]
<1>1. b \in DOMAIN Truth /\ verified \in BOOLEAN
  BY DEF Kept
<1>2. shown \in TrueLists
  <2> HIDE DEF verified, b
  <2> QED BY <1>1 DEF TrueLists
<1>3. View(list) = shown
  BY DEF View, Kept
<1> HIDE DEF shown
<1> QED BY <1>2, <1>3 DEF View

LEMMA ViewsAreWindow ==
  ASSUME NEW s, NEW L, Rising(s, L)
  PROVE  LET w == Views(L, Len(s.diffStore)) IN
         /\ w \in Seq(TrueLists) /\ Len(w) = Len(s.diffStore) + 1
         /\ W!IsWindow(w)
<1> DEFINE n == Len(s.diffStore)
           w == Views(L, n)
<1>1. /\ n \in Nat /\ n <= MaxDiffs - 1 /\ MaxDiffs \in Nat
      /\ \A i \in 0 .. n : L[i] \in Lists /\ Kept(L[i])
      /\ \A i, j \in 0 .. n : i < j => L[i].height < L[j].height
  BY ChainRises, StoreAssumption
<1>2. w = [i \in 1 .. n + 1 |-> View(L[i - 1])]
  BY DEF Views
<1> HIDE DEF n, w
<1>3. \A i \in 1 .. n + 1 : i - 1 \in 0 .. n
  BY <1>1
<1>4. \A i \in 1 .. n + 1 : w[i] \in TrueLists /\ w[i].height = L[i - 1].height
  BY <1>1, <1>2, <1>3, ViewIsTrue
<1>5. w \in Seq(TrueLists) /\ Len(w) = n + 1
  <2>1. w \in [1 .. n + 1 -> TrueLists] /\ n + 1 \in Nat
    BY <1>1, <1>2, <1>4
  <2> QED BY <2>1
<1>6. ASSUME NEW i \in 2 .. n + 1 PROVE w[i - 1].height < w[i].height
  <2>1. /\ i \in 1 .. n + 1 /\ i - 1 \in 1 .. n + 1
        /\ (i - 1) - 1 \in 0 .. n /\ i - 1 \in 0 .. n /\ (i - 1) - 1 < i - 1
    BY <1>1
  <2>2. L[(i - 1) - 1].height < L[i - 1].height
    BY <1>1, <2>1
  <2> QED BY <1>4, <2>1, <2>2
<1>7. Len(w) \in 1 .. MaxDiffs
  BY <1>1, <1>5
<1> QED BY <1>5, <1>6, <1>7 DEF W!IsWindow, w, n

\* One more at the end, and the oldest leaves when there is no room.
LEMMA LatestOf ==
  ASSUME NEW S, NEW a \in Seq(S), NEW b \in Seq(S), NEW size \in Nat, NEW k \in {0, 1},
         Len(a) >= 1, Len(b) = Len(a) + 1 - k,
         \A i \in 1 .. Len(a) - k : b[i] = a[i + k],
         k = 1 <=> Len(a) + 1 > size
  PROVE  LET all == Append(a, b[Len(b)])
         IN  b = IF Len(all) > size THEN Tail(all) ELSE all
<1> DEFINE m == Len(a)
           last == b[Len(b)]
           all == Append(a, last)
<1>1. m \in Nat /\ last \in S
  BY DEF m
<1>2. /\ all \in Seq(S) /\ Len(all) = m + 1 /\ all[m + 1] = last
      /\ \A i \in 1 .. m : all[i] = a[i]
  <2> HIDE DEF last
  <2> QED BY <1>1
<1>3. b[m + 1 - k] = last
  OBVIOUS
<1> HIDE DEF all, last
<1>4. CASE k = 0
  <2>1. \A i \in 1 .. m + 1 : b[i] = all[i]
    <3> SUFFICES ASSUME NEW i \in 1 .. m + 1 PROVE b[i] = all[i]
      OBVIOUS
    <3>1. CASE i = m + 1
      BY <1>2, <1>3, <1>4, <3>1
    <3>2. CASE i # m + 1
      <4>1. i \in 1 .. m - k /\ i + k = i /\ i \in 1 .. m
        BY <1>1, <1>4, <3>2
      <4> QED BY <1>2, <4>1
    <3> QED BY <3>1, <3>2
  <2>2. b = all
    BY <1>1, <1>2, <1>4, <2>1
  <2>3. ~(Len(all) > size)
    BY <1>1, <1>2, <1>4
  <2> QED BY <2>2, <2>3 DEF all, last
<1>5. CASE k = 1
  <2> DEFINE rest == Tail(all)
  <2>1. /\ rest \in Seq(S) /\ Len(rest) = m
        /\ \A i \in 1 .. m : rest[i] = all[i + 1]
    BY <1>1, <1>2
  <2> HIDE DEF rest
  <2>2. \A i \in 1 .. m : b[i] = rest[i]
    <3> SUFFICES ASSUME NEW i \in 1 .. m PROVE b[i] = rest[i]
      OBVIOUS
    <3>1. CASE i = m
      BY <1>2, <1>3, <1>5, <2>1, <3>1
    <3>2. CASE i # m
      <4>1. i \in 1 .. m - k /\ i + k = i + 1 /\ i + 1 \in 1 .. m
        BY <1>1, <1>5, <3>2
      <4> QED BY <1>2, <1>5, <2>1, <4>1
    <3> QED BY <3>1, <3>2
  <2>3. b = rest
    BY <1>1, <1>5, <2>1, <2>2
  <2>4. Len(all) > size
    BY <1>1, <1>2, <1>5
  <2> QED BY <2>3, <2>4 DEF all, last, rest
<1> QED BY <1>4, <1>5

-----------------------------------------------------------------------------
(* The store as a window *)

\* A store that has refused nothing, built from diffs that climb
Whole(s) == Sound(s) /\ Kept(s.baseSimplifiedMNList) /\ Linked(s)

LEMMA WholeRises ==
  ASSUME NEW s, Whole(s)
  PROVE  /\ \E L : Rising(s, L)
         /\ \A L : Chain(s, L) => Rising(s, L)
<1>1. PICK L : Chain(s, L)
  BY DEF Whole, Linked
<1>2. ASSUME NEW M, Chain(s, M) PROVE Rising(s, M)
  BY <1>2 DEF Whole, Linked, Sound, Chain, Rising
<1> QED BY <1>1, <1>2

\* addDiff moves the window on by one.
LEMMA WindowExtends ==
  ASSUME outdated = FALSE, NEW s, Whole(s), NEW diff \in Rooted, Climbs(diff),
         AddedDiff(s, diff).error = "none"
  PROVE  LET t == AddedDiff(s, diff).store IN
         /\ Whole(t)
         /\ \E L, M : /\ Rising(s, L) /\ Rising(t, M)
                      /\ LET v == Views(L, Len(s.diffStore))
                             w == Views(M, Len(t.diffStore))
                         IN  w = W!Latest(Append(v, w[Len(w)]))
<1> DEFINE t == AddedDiff(s, diff).store
           n == Len(s.diffStore)
           k == Leaving(s)
<1>1. PICK L : Rising(s, L)
  BY WholeRises
<1>2. s \in Good /\ Chain(s, L) /\ s.diffStore # <<>>
  BY <1>1 DEF Rising, Whole, Linked
<1>3. AddedTo(t, s, L, diff)
  BY <1>2, AddedChain
<1>4. /\ t \in Good /\ Len(t.diffStore) = n + 1 - k /\ n - k >= 0
      /\ t.diffStore[n + 1 - k] = diff
      /\ t.baseSimplifiedMNList = L[k]
      /\ Kept(t.currentSML)
  BY <1>3 DEF AddedTo
<1>5. PICK M : Chain(t, M) /\ \A i \in 0 .. n - k : M[i] = L[i + k]
  BY <1>3 DEF AddedTo
<1>6. /\ n \in Nat /\ n <= MaxDiffs - 1 /\ MaxDiffs \in Nat /\ k \in {0, 1}
      /\ k = 1 <=> n >= MaxDiffs - 1
      /\ \A i \in 0 .. n : Kept(L[i])
  BY <1>1, <1>2, ChainRises, StoreAssumption DEF Leaving, Full, Good, Stores
<1>7. Sound(t)
  BY AddedSound DEF Whole
<1> HIDE DEF t, k, n
<1>8. Kept(t.baseSimplifiedMNList)
  BY <1>4, <1>6
<1>9. Linked(t)
  <2>1. t.diffStore # <<>>
    BY <1>4, <1>6
  <2> QED BY <1>4, <1>5, <2>1 DEF Linked
<1>10. Whole(t) /\ Rising(t, M)
  <2>1. Whole(t)
    BY <1>7, <1>8, <1>9 DEF Whole
  <2> QED BY <1>5, <2>1, WholeRises
<1> DEFINE v == Views(L, n)
           w == Views(M, n + 1 - k)
<1>11. /\ v \in Seq(TrueLists) /\ Len(v) = n + 1
       /\ w \in Seq(TrueLists) /\ Len(w) = n + 2 - k
  <2>1. v \in Seq(TrueLists) /\ Len(v) = n + 1
    BY <1>1, ViewsAreWindow DEF n
  <2>2. w \in Seq(TrueLists) /\ Len(w) = Len(t.diffStore) + 1
    BY <1>4, <1>10, ViewsAreWindow
  <2> HIDE DEF v, w
  <2> QED BY <1>4, <1>6, <2>1, <2>2
<1>12. \A i \in 1 .. (n + 1) - k : w[i] = v[i + k]
  <2> SUFFICES ASSUME NEW i \in 1 .. (n + 1) - k PROVE w[i] = v[i + k]
    OBVIOUS
  <2>1. /\ i \in 1 .. (n + 1 - k) + 1 /\ i + k \in 1 .. n + 1
        /\ i - 1 \in 0 .. n - k /\ (i - 1) + k = (i + k) - 1
    BY <1>4, <1>6
  <2>2. w[i] = View(M[i - 1]) /\ v[i + k] = View(L[(i + k) - 1])
    BY <2>1 DEF Views
  <2> QED BY <1>5, <2>1, <2>2
<1> HIDE DEF v, w
<1>13. w = IF Len(Append(v, w[Len(w)])) > MaxDiffs THEN Tail(Append(v, w[Len(w)]))
           ELSE Append(v, w[Len(w)])
  <2>1. k = 1 <=> Len(v) + 1 > MaxDiffs
    BY <1>6, <1>11
  <2>2. /\ Len(v) >= 1 /\ Len(w) = Len(v) + 1 - k
        /\ \A i \in 1 .. Len(v) - k : w[i] = v[i + k]
    BY <1>6, <1>11, <1>12
  <2> QED BY <1>6, <1>11, <2>1, <2>2, LatestOf
<1>14. w = W!Latest(Append(v, w[Len(w)]))
  BY <1>13 DEF W!Latest
<1> QED BY <1>1, <1>4, <1>10, <1>14 DEF v, w, t, n

\* The same diffs after an alike base list give alike lists.
LEMMA SameViews ==
  ASSUME NEW s \in Good, NEW t \in Good, NEW L, NEW M, Chain(s, L), Chain(t, M),
         s.diffStore = t.diffStore, Alike(L[0], M[0])
  PROVE  Views(L, Len(s.diffStore)) = Views(M, Len(t.diffStore))
<1> DEFINE n == Len(s.diffStore)
           Worse == {i \in 0 .. n : ~Alike(L[i], M[i])}
<1>1. n \in Nat
  BY DEF Good, Stores
<1>2. \A i \in 1 .. n :
        /\ L[i - 1] \in Lists0 /\ M[i - 1] \in Lists0 /\ s.diffStore[i] \in Diffs
        /\ Accepts(L[i - 1], s.diffStore[i])
        /\ L[i] = ApplyDiff(L[i - 1], s.diffStore[i], FALSE).list
        /\ M[i] = ApplyDiff(M[i - 1], s.diffStore[i], FALSE).list
  <2>1. \A i \in 1 .. n :
          /\ L[i - 1] \in Lists /\ s.diffStore[i] \in Diffs
          /\ Accepts(L[i - 1], s.diffStore[i])
          /\ L[i] = ApplyDiff(L[i - 1], s.diffStore[i], FALSE).list
    BY ChainKept
  <2>2. \A i \in 1 .. n : /\ M[i - 1] \in Lists
                          /\ M[i] = ApplyDiff(M[i - 1], s.diffStore[i], FALSE).list
    <3>1. \A i \in 1 .. Len(t.diffStore) :
            /\ M[i - 1] \in Lists
            /\ M[i] = ApplyDiff(M[i - 1], t.diffStore[i], FALSE).list
      BY ChainKept
    <3> QED BY <3>1
  <2> HIDE DEF n
  <2> QED BY <2>1, <2>2, ListsAreLists0
<1>3. Worse = {}
  <2> SUFFICES ASSUME Worse # {} PROVE FALSE
    OBVIOUS
  <2>1. PICK i \in Worse : \A j \in Worse : i <= j
    <3>1. Worse \subseteq Nat BY <1>1
    <3> HIDE DEF Worse
    <3> QED BY <3>1, LeastNat
  <2>2. i \in 0 .. n /\ i # 0 /\ ~Alike(L[i], M[i])
    OBVIOUS
  <2>3. i - 1 \in 0 .. n /\ i - 1 < i /\ i \in 1 .. n
    BY <1>1, <2>2
  <2>4. Alike(L[i - 1], M[i - 1])
    <3>1. i - 1 \notin Worse
      <4> HIDE DEF Worse
      <4> QED BY <2>1, <2>2, <2>3
    <3> QED BY <2>3, <3>1
  <2> DEFINE diff == s.diffStore[i]
  <2>5. /\ L[i - 1] \in Lists0 /\ M[i - 1] \in Lists0 /\ diff \in Diffs
        /\ Accepts(L[i - 1], diff)
        /\ L[i] = ApplyDiff(L[i - 1], diff, FALSE).list
        /\ M[i] = ApplyDiff(M[i - 1], diff, FALSE).list
    BY <1>2, <2>3
  <2> HIDE DEF diff
  <2>6. Alike(ApplyDiff(L[i - 1], diff, FALSE).list, ApplyDiff(M[i - 1], diff, FALSE).list)
    BY <2>4, <2>5, ApplyAlike
  <2> QED BY <2>2, <2>5, <2>6
<1>4. \A i \in 1 .. n + 1 : View(L[i - 1]) = View(M[i - 1])
  <2> SUFFICES ASSUME NEW i \in 1 .. n + 1 PROVE View(L[i - 1]) = View(M[i - 1])
    OBVIOUS
  <2>1. i - 1 \in 0 .. n
    BY <1>1
  <2>2. Alike(L[i - 1], M[i - 1])
    BY <1>3, <2>1
  <2> QED BY <2>2 DEF Alike, View
<1> QED BY <1>4 DEF Views

\* The constructor leaves a whole store, if the first list is on the chain.
LEMMA BuiltWhole ==
  ASSUME outdated = FALSE, NEW diffs \in Seq(Diffs),
         \A i \in 2 .. Len(diffs) : diffs[i] \in Rooted /\ Climbs(diffs[i]),
         BuiltStore(diffs).error = "none",
         Kept(NewStore(diffs[1]).store.baseSimplifiedMNList)
  PROVE  Whole(BuiltStore(diffs).store)
<1> DEFINE s == BuiltStore(diffs).store
           first == NewStore(diffs[1]).store
<1>1. Len(diffs) >= 2 /\ BuiltOf(s, first, diffs, Len(diffs))
  BY BuiltChain
<1> HIDE DEF s, first
<1>2. Len(diffs) # 1
  BY <1>1
<1>3. Linked(s)
  BY <1>1, <1>2 DEF BuiltOf
<1>4. Kept(s.baseSimplifiedMNList)
  BY <1>1 DEF BuiltOf, first
<1>5. \A j \in DOMAIN s.diffStore : Climbs(s.diffStore[j])
  <2>1. DOMAIN s.diffStore = 1 .. Len(s.diffStore)
    BY <1>3 DEF Linked, Good, Stores
  <2>2. \A j \in 1 .. Len(s.diffStore) : \E h \in 2 .. Len(diffs) : s.diffStore[j] = diffs[h]
    BY <1>1 DEF BuiltOf
  <2> QED BY <2>1, <2>2
<1>6. Sound(s)
  BY <1>3, <1>4, <1>5 DEF Sound, Linked
<1> QED BY <1>3, <1>4, <1>6 DEF Whole, s

\* A store read back is whole, whatever the saved one had refused: a base list
\* that was left half way is refused with the first diff after it.  If the saved
\* store was whole, it comes back as it was.
LEMMA RestoredWhole ==
  ASSUME outdated = FALSE, NEW s, Sound(s), NEW diffs,
         diffs = <<ToDiff(FromJSON(s.baseSimplifiedMNList))>> \o s.diffStore,
         BuiltStore(diffs).error = "none"
  PROVE  LET t == BuiltStore(diffs).store IN
         /\ Whole(t)
         /\ Whole(s) => \E L, M : /\ Rising(s, L) /\ Rising(t, M)
                                  /\ Views(M, Len(t.diffStore)) = Views(L, Len(s.diffStore))
<1> DEFINE base == s.baseSimplifiedMNList
           read == FromJSON(base)
           whole == ToDiff(read)
           n == Len(s.diffStore)
           t == BuiltStore(diffs).store
           first == NewStore(whole).store
<1>1. /\ s \in Good /\ base \in Lists /\ n \in Nat /\ n <= MaxDiffs - 1
      /\ s.diffStore \in Seq(Diffs) /\ s.diffStore # <<>> /\ DOMAIN s.diffStore = 1 .. n
      /\ \A i \in 1 .. n : s.diffStore[i] \in Rooted /\ Climbs(s.diffStore[i])
      /\ Kept(base) \/ HalfPruned(s)
  BY DEF Sound, Good, Stores
<1>2. /\ read \in Lists
      /\ read.blockHash = base.blockHash /\ read.height = base.height
      /\ read.mnList = base.mnList /\ read.quorumList = base.quorumList
  <2> HIDE DEF base
  <2> QED BY <1>1 DEF FromJSON, Lists
<1> HIDE DEF read
<1>3. whole \in Diffs
  BY <1>2, ToDiffType
<1> HIDE DEF whole, n
<1>4. diffs = <<whole>> \o s.diffStore
  BY DEF whole, read
<1>5. /\ diffs \in Seq(Diffs) /\ Len(diffs) = n + 1 /\ diffs[1] = whole
      /\ \A i \in 1 .. n : diffs[i + 1] = s.diffStore[i]
  BY <1>1, <1>3, <1>4, OneBefore DEF n
<1>6. \A i \in 2 .. Len(diffs) : diffs[i] \in Rooted /\ Climbs(diffs[i])
  <2> SUFFICES ASSUME NEW i \in 2 .. Len(diffs) PROVE diffs[i] \in Rooted /\ Climbs(diffs[i])
    OBVIOUS
  <2>1. i - 1 \in 1 .. n /\ (i - 1) + 1 = i
    BY <1>1, <1>5
  <2>2. diffs[i] = s.diffStore[i - 1]
    BY <1>5, <2>1
  <2> QED BY <1>1, <2>1, <2>2
<1>7. /\ NewStore(whole).error = "none"
      /\ AddedDiff(first, diffs[2]).error = "none"
      /\ BuiltOf(t, first, diffs, n + 1)
  BY <1>5, <1>6, BuiltChain
<1>8. /\ first \in Good /\ first.diffStore = <<>>
      /\ Accepts(EmptyList, whole)
      /\ first.baseSimplifiedMNList = ApplyDiff(EmptyList, whole, FALSE).list
      /\ \E F : Chain(first, F)
  BY <1>3, <1>7, NewChain
<1> DEFINE back == first.baseSimplifiedMNList
<1>9. /\ back.blockHash = base.blockHash /\ back.lastBlockHash = base.blockHash
      /\ back.height = base.height /\ back.mnList = base.mnList
      /\ back.validMNs = ValidMNsOf(base.mnList)
      /\ back.quorumList = base.quorumList
      /\ back.quorumList = NoQuorums \/ back.merkleRootQuorums = back.quorumList
  <2> HIDE DEF back, base, first
  <2> QED BY <1>2, <1>8, ComesBack DEF whole, back
<1> HIDE DEF first, t
<1>10. Kept(base)
  <2> SUFFICES ASSUME HalfPruned(s) PROVE FALSE
    BY <1>1
  <2> DEFINE oldest == s.diffStore[1]
  <2>1. 1 \in 1 .. n
    BY <1>1 DEF n
  <2>2. oldest \in Rooted /\ Climbs(oldest) /\ diffs[2] = oldest
    <3>1. 1 + 1 = 2
      OBVIOUS
    <3> QED BY <1>1, <1>5, <2>1, <3>1
  <2>3. PICK F : Chain(first, F)
    BY <1>8
  <2>4. first.diffStore # <<>> \/ ~Full(first)
    BY <1>7 DEF AddedDiff, Threw
  <2>5. Len(first.diffStore) = 0
    BY <1>8
  <2> HIDE DEF oldest
  <2>6. Accepts(F[0], oldest)
    <3>1. AddedDiff(first, oldest).error = "none"
            <=> Accepts(F[Len(first.diffStore)], oldest)
      BY <1>8, <2>2, <2>3, <2>4, AddedStore
    <3> QED BY <1>7, <2>2, <2>5, <3>1
  <2>7. F[0].lastBlockHash = base.blockHash
    BY <1>9, <2>3 DEF Chain
  <2>8. base.blockHash = oldest.blockHash /\ oldest.blockHash \in DOMAIN Truth
    BY <2>2 DEF HalfPruned, Rooted, TrueRoots, oldest
  <2>9. oldest.blockHash # Undefined
    BY <2>8, TruthAssumption DEF Hashes
  <2>10. oldest.baseBlockHash = oldest.blockHash
    BY <2>6, <2>7, <2>8, <2>9 DEF Accepts
  <2>11. Truth[oldest.blockHash].height \in Nat
    BY <2>8, TruthAssumption
  <2> QED BY <2>2, <2>8, <2>10, <2>11 DEF Climbs
<1>11. Kept(back)
  <2> HIDE DEF back
  <2> QED BY <1>9, <1>10 DEF Kept
<1>12. Whole(t)
  BY <1>5, <1>6, <1>11, BuiltWhole DEF first, t
<1>13. ASSUME Whole(s)
       PROVE  \E L, M : /\ Rising(s, L) /\ Rising(t, M)
                        /\ Views(M, Len(t.diffStore)) = Views(L, Len(s.diffStore))
  <2>1. PICK L : Rising(s, L)
    BY <1>13, WholeRises
  <2>2. PICK M : Rising(t, M)
    BY <1>12, WholeRises
  <2>3. /\ Chain(s, L) /\ Chain(t, M) /\ t \in Good /\ L[0] = base
        /\ M[0] = t.baseSimplifiedMNList
    BY <2>1, <2>2 DEF Rising, Chain
  <2>4. n + 1 <= MaxDiffs /\ MaxDiffs \in Nat
    BY <1>1, StoreAssumption
  <2>5. /\ t.baseSimplifiedMNList = back
        /\ Len(t.diffStore) = n
        /\ \A j \in 1 .. n : t.diffStore[j] = diffs[j + 1]
    <3>1. (n + 1) - 1 = n
      BY <1>1
    <3> QED BY <1>7, <2>4, <3>1 DEF BuiltOf
  <2>6. t.diffStore = s.diffStore
    <3>1. t.diffStore \in Seq(Diffs)
      BY <2>3 DEF Good, Stores
    <3>2. Len(s.diffStore) = n /\ \A j \in 1 .. n : t.diffStore[j] = s.diffStore[j]
      BY <1>5, <2>5 DEF n
    <3>3. \A a, b \in Seq(Diffs) :
            Len(a) = Len(b) /\ (\A j \in 1 .. Len(b) : a[j] = b[j]) => a = b
      OBVIOUS
    <3> QED BY <1>1, <2>5, <3>1, <3>2, <3>3
  <2>7. Alike(L[0], M[0])
    <3> HIDE DEF back, base
    <3> QED BY <1>9, <1>10, <2>3, <2>5 DEF Alike, Kept
  <2> QED BY <1>1, <2>1, <2>2, <2>3, <2>6, <2>7, SameViews
<1> QED BY <1>12, <1>13 DEF t

\* Whether or not a diff was refused, the base list can be read back or will be
\* refused; and what was saved is forgotten once a store is opened.
SoundInv ==
  /\ LinkInv
  /\ store # Undefined => saved = Undefined
  /\ ~outdated => /\ store # Undefined => Sound(store)
                  /\ store # Undefined => (failed \/ Whole(store))
                  /\ saved # Undefined => Sound(saved.store)
                  /\ saved # Undefined => (saved.failed \/ Whole(saved.store))

LEMMA OpeningWhole ==
  ASSUME Climbing, outdated = FALSE, NEW diffs \in Openings,
         BuiltStore(diffs).error = "none"
  PROVE  Whole(BuiltStore(diffs).store)
<1> DEFINE first == diffs[1]
<1>1. /\ diffs \in Seq(Diffs)
      /\ \A i \in 1 .. Len(diffs) : diffs[i] \in Rooted /\ Climbs(diffs[i])
  <2>1. diffs \in Seq(Diffs) /\ DOMAIN diffs = 1 .. Len(diffs)
    BY StoreAssumption
  <2> QED BY <2>1, RootsAssumption DEF Climbing, Rooted
<1>2. \A i \in 2 .. Len(diffs) : diffs[i] \in Rooted /\ Climbs(diffs[i])
  BY <1>1
<1>3. Len(diffs) >= 2 /\ NewStore(first).error = "none"
  BY <1>1, <1>2, BuiltChain
<1>4. first \in Rooted /\ first \in Diffs
  BY <1>1, <1>3 DEF Rooted
<1> HIDE DEF first
<1>5. /\ Accepts(EmptyList, first)
      /\ NewStore(first).store.baseSimplifiedMNList = ApplyDiff(EmptyList, first, FALSE).list
  BY <1>3, <1>4, NewChain
<1>6. Kept(NewStore(first).store.baseSimplifiedMNList)
  BY <1>4, <1>5, EmptyListType, AcceptedIsKept
<1> QED BY <1>1, <1>2, <1>6, BuiltWhole DEF first

LEMMA BuildSound ==
  ASSUME SoundInv, NEW diffs \in Seq(Diffs), \A i \in 2 .. Len(diffs) : diffs[i] \in Rooted,
         Build(diffs),
         outdated = FALSE /\ BuiltStore(diffs).error = "none"
           => Whole(BuiltStore(diffs).store)
  PROVE  SoundInv'
<1>1. LinkInv'
  BY BuildLinks DEF SoundInv, LinkInv
<1>2. /\ saved' = Undefined /\ outdated' = outdated /\ outdated \in BOOLEAN
      /\ store' = IF BuiltStore(diffs).error = "none" THEN BuiltStore(diffs).store
                  ELSE Undefined
  BY DEF Build, SoundInv, LinkInv, Inv
<1> QED BY <1>1, <1>2 DEF SoundInv, Whole

LEMMA SoundStep ==
  ASSUME Climbing, SoundInv, [Next]_vars
  PROVE  SoundInv'
<1>1. Inv /\ LinkInv /\ outdated \in BOOLEAN
  BY DEF SoundInv, LinkInv, Inv
<1>2. ASSUME NEW diffs \in Openings, Construct(diffs) PROVE SoundInv'
  <2>1. \A i \in 2 .. Len(diffs) : i \in 1 .. Len(diffs)
    OBVIOUS
  <2>2. diffs \in Seq(Diffs) /\ \A i \in 2 .. Len(diffs) : diffs[i] \in Rooted
    BY <1>1, <2>1, StepDiffs
  <2>3. Build(diffs)
    BY <1>2 DEF Construct
  <2> QED BY <2>2, <2>3, OpeningWhole, BuildSound
<1>3. ASSUME NEW diff \in Offers, AddDiff(diff) PROVE SoundInv'
  <2> DEFINE added == AddedDiff(store, diff)
  <2>1. diff \in Rooted /\ Climbs(diff)
    BY <1>1, StepDiffs DEF Climbing
  <2>2. /\ store' = added.store /\ store # Undefined
        /\ failed' = (failed \/ added.error # "none")
        /\ saved' = saved /\ outdated' = outdated
    BY <1>3 DEF AddDiff
  <2>3. outdated = FALSE => Sound(added.store)
    BY <2>1, <2>2, AddedSound DEF SoundInv
  <2>4. outdated = FALSE /\ ~failed /\ added.error = "none" => Whole(added.store)
    BY <2>1, <2>2, WindowExtends DEF SoundInv
  <2>5. LinkInv'
    BY <1>1, <1>3, LinkStep DEF Next
  <2>6. failed \in BOOLEAN
    BY <1>1 DEF Inv
  <2> HIDE DEF added
  <2> QED BY <1>1, <2>2, <2>3, <2>4, <2>5, <2>6 DEF SoundInv
<1>4. CASE SaveAndStop
  <2>1. LinkInv'
    BY <1>1, <1>4, LinkStep DEF Next
  <2> QED BY <1>4, <2>1 DEF SaveAndStop, Lose, SoundInv
<1>5. CASE Crash
  <2>1. LinkInv'
    BY <1>1, <1>5, LinkStep DEF Next
  <2> QED BY <1>5, <2>1 DEF Crash, Lose, SoundInv
<1>6. CASE Restore
  <2> DEFINE diffs == <<ToDiff(FromJSON(saved.store.baseSimplifiedMNList))>>
                        \o saved.store.diffStore
  <2>1. saved # Undefined /\ Build(diffs)
    BY <1>6 DEF Restore
  <2>2. diffs \in Seq(Diffs) /\ \A i \in 2 .. Len(diffs) : diffs[i] \in Rooted
    BY <1>1, <2>1, StepDiffs
  <2>3. outdated = FALSE /\ BuiltStore(diffs).error = "none"
          => Whole(BuiltStore(diffs).store)
    BY <2>1, RestoredWhole DEF SoundInv
  <2> HIDE DEF diffs
  <2> QED BY <2>1, <2>2, <2>3, BuildSound
<1>7. CASE UNCHANGED vars
  <2>1. LinkInv'
    BY <1>1, <1>7, LinkStep
  <2> QED BY <1>7, <2>1 DEF vars, SoundInv
<1> QED BY <1>2, <1>3, <1>4, <1>5, <1>6, <1>7 DEF Next

\* The windows that ListWindow sees are the views of the chains.
ViewInv ==
  ~outdated =>
    /\ store # Undefined =>
         \A L : Rising(store, L) => WindowOf(store) = Views(L, Len(store.diffStore))
    /\ saved # Undefined =>
         \A L : Rising(saved.store, L) =>
           WindowOf(saved.store) = Views(L, Len(saved.store.diffStore))

LEMMA ViewsHold == SoundInv => ViewInv
<1> SUFFICES ASSUME SoundInv PROVE ViewInv
  OBVIOUS
<1>1. outdated \in BOOLEAN
  BY DEF SoundInv, LinkInv, Inv
<1> QED BY <1>1, WindowIsViews DEF ViewInv

Window == IF store = Undefined \/ failed \/ outdated THEN Undefined ELSE WindowOf(store)
SavedWindow == IF saved = Undefined THEN Undefined
               ELSE IF saved.failed \/ outdated THEN Undefined ELSE WindowOf(saved.store)

LEMMA WindowStep ==
  ASSUME Climbing, SoundInv, ViewInv, SoundInv', ViewInv', [Next]_vars
  PROVE  [W!Next]_<<Window, SavedWindow>>
<1>1. /\ outdated \in BOOLEAN /\ failed \in BOOLEAN /\ outdated' = outdated
      /\ Inv
  BY DEF SoundInv, LinkInv, Inv, Next, vars, Construct, Build, AddDiff, SaveAndStop,
         Crash, Lose, Restore
<1>2. ASSUME store # Undefined, ~failed, ~outdated, NEW L, Rising(store, L)
      PROVE  Window = Views(L, Len(store.diffStore))
  BY <1>2 DEF ViewInv, Window
<1>3. ASSUME store' # Undefined, ~failed', ~outdated', NEW L, Rising(store', L)
      PROVE  Window' = Views(L, Len(store'.diffStore))
  BY <1>3 DEF ViewInv, Window
<1>4. ASSUME saved # Undefined, ~saved.failed, ~outdated, NEW L, Rising(saved.store, L)
      PROVE  SavedWindow = Views(L, Len(saved.store.diffStore))
  BY <1>4 DEF ViewInv, SavedWindow
<1>5. ASSUME saved' # Undefined, ~saved'.failed, ~outdated', NEW L, Rising(saved'.store, L)
      PROVE  SavedWindow' = Views(L, Len(saved'.store.diffStore))
  BY <1>5 DEF ViewInv, SavedWindow
<1>6. Window # Undefined => store # Undefined /\ ~failed /\ ~outdated /\ Whole(store)
  BY DEF Window, SoundInv
<1>7. Window' # Undefined => store' # Undefined /\ ~failed' /\ ~outdated' /\ Whole(store')
  BY DEF Window, SoundInv
<1>8. SavedWindow # Undefined =>
        saved # Undefined /\ ~saved.failed /\ ~outdated /\ Whole(saved.store)
  BY DEF SavedWindow, SoundInv
<1>9. SavedWindow' # Undefined =>
        saved' # Undefined /\ ~saved'.failed /\ ~outdated' /\ Whole(saved'.store)
  BY DEF SavedWindow, SoundInv
<1>10. store = Undefined => Window = Undefined
  BY DEF Window
<1>11. saved' = Undefined => SavedWindow' = Undefined
  BY DEF SavedWindow
<1>12. Window' # Undefined => W!IsWindow(Window')
  <2> SUFFICES ASSUME Window' # Undefined PROVE W!IsWindow(Window')
    OBVIOUS
  <2>1. PICK L : Rising(store', L)
    BY <1>7, WholeRises
  <2>2. W!IsWindow(Views(L, Len(store'.diffStore)))
    BY <2>1, ViewsAreWindow
  <2> QED BY <1>3, <1>7, <2>1, <2>2
<1> HIDE DEF Window, SavedWindow
<1> DEFINE Goal == W!Next \/ UNCHANGED <<Window, SavedWindow>>
<1>13. ASSUME Window' = Undefined, SavedWindow' = Undefined PROVE Goal
  <2>1. Window # Undefined => SavedWindow = Undefined
    BY <1>6 DEF SoundInv, SavedWindow
  <2>2. CASE Window # Undefined
    BY <1>13, <2>1, <2>2 DEF W!Next, W!Lose, Window, SavedWindow
  <2>3. CASE SavedWindow # Undefined
    BY <1>13, <2>1, <2>3 DEF W!Next, W!Discard, Window, SavedWindow
  <2> QED BY <1>13, <2>2, <2>3
<1>14. ASSUME Window = Undefined, SavedWindow = Undefined,
              Window' # Undefined, SavedWindow' = Undefined
       PROVE  Goal
  BY <1>12, <1>14 DEF W!Next, W!Open, Window, SavedWindow
<1>15. ASSUME NEW diffs \in Openings, Construct(diffs) PROVE Goal
  <2>1. Window = Undefined /\ SavedWindow = Undefined /\ SavedWindow' = Undefined
    BY <1>10, <1>11, <1>15 DEF Construct, Build, SavedWindow
  <2> QED BY <1>13, <1>14, <2>1
<1>16. ASSUME NEW diff \in Offers, AddDiff(diff) PROVE Goal
  <2> DEFINE added == AddedDiff(store, diff)
  <2>1. /\ store' = added.store /\ store # Undefined
        /\ failed' = (failed \/ added.error # "none") /\ saved' = saved
    BY <1>16 DEF AddDiff
  <2>2. saved = Undefined /\ SavedWindow = Undefined /\ SavedWindow' = Undefined
    BY <2>1 DEF SoundInv, SavedWindow
  <2>3. CASE Window # Undefined /\ Window' # Undefined
    <3>1. Whole(store) /\ ~failed /\ outdated = FALSE /\ added.error = "none" /\ ~outdated'
      BY <1>1, <1>6, <1>7, <2>1, <2>3
    <3>2. diff \in Rooted /\ Climbs(diff)
      BY <1>1, StepDiffs DEF Climbing
    <3>3. PICK L, M :
            /\ Rising(store, L) /\ Rising(added.store, M)
            /\ LET v == Views(L, Len(store.diffStore))
                   w == Views(M, Len(added.store.diffStore))
               IN  w = W!Latest(Append(v, w[Len(w)]))
      BY <3>1, <3>2, WindowExtends
    <3> HIDE DEF added
    <3>4. /\ Window = Views(L, Len(store.diffStore))
          /\ Window' = Views(M, Len(added.store.diffStore))
      BY <1>2, <1>3, <1>7, <2>1, <2>3, <3>1, <3>3
    <3>5. Window' = W!Latest(Append(Window, Window'[Len(Window')]))
      BY <3>3, <3>4
    <3>6. W!Extend
      BY <1>12, <2>2, <2>3, <3>5 DEF W!Extend, Window, SavedWindow
    <3> QED BY <3>6 DEF W!Next
  <2> QED BY <1>13, <1>14, <2>2, <2>3
<1>17. CASE SaveAndStop
  <2>1. /\ store # Undefined /\ store' = Undefined
        /\ saved' = [store |-> store, failed |-> failed]
    BY <1>17 DEF SaveAndStop, Lose
  <2>2. Window' = Undefined
    BY <2>1 DEF Window
  <2>3. CASE SavedWindow' # Undefined
    <3>1. saved'.store = store /\ saved'.failed = failed
      BY <2>1
    <3>2. ~failed /\ ~outdated /\ Whole(store) /\ saved' # Undefined
      BY <1>1, <1>9, <2>3, <3>1
    <3>3. PICK L : Rising(store, L)
      BY <3>2, WholeRises
    <3>4. SavedWindow' = Window
      BY <1>1, <1>2, <1>5, <2>1, <3>1, <3>2, <3>3
    <3>5. W!Close
      BY <2>2, <2>3, <3>4 DEF W!Close, Window, SavedWindow
    <3> QED BY <3>5 DEF W!Next
  <2> QED BY <1>13, <2>2, <2>3
<1>18. CASE Crash
  <2>1. Window' = Undefined /\ SavedWindow' = Undefined
    BY <1>11, <1>18 DEF Crash, Lose, SoundInv, Window
  <2> QED BY <1>13, <2>1
<1>19. CASE Restore
  <2> DEFINE diffs == <<ToDiff(FromJSON(saved.store.baseSimplifiedMNList))>>
                        \o saved.store.diffStore
  <2>1. /\ store = Undefined /\ saved # Undefined /\ saved' = Undefined
        /\ store' = IF BuiltStore(diffs).error = "none" THEN BuiltStore(diffs).store
                    ELSE Undefined
    BY <1>19 DEF Restore, Build
  <2>2. Window = Undefined /\ SavedWindow' = Undefined
    BY <1>10, <1>11, <2>1
  <2>3. CASE Window' # Undefined /\ SavedWindow # Undefined
    <3>1. /\ BuiltStore(diffs).error = "none" /\ store' = BuiltStore(diffs).store
          /\ outdated = FALSE /\ ~outdated' /\ ~failed' /\ store' # Undefined
          /\ ~saved.failed /\ Whole(saved.store)
      BY <1>1, <1>7, <1>8, <2>1, <2>3
    <3>2. PICK L, M : /\ Rising(saved.store, L) /\ Rising(BuiltStore(diffs).store, M)
                      /\ Views(M, Len(BuiltStore(diffs).store.diffStore))
                           = Views(L, Len(saved.store.diffStore))
      BY <3>1, RestoredWhole DEF Whole
    <3> HIDE DEF diffs
    <3>3. Window' = SavedWindow
      BY <1>3, <1>4, <2>1, <3>1, <3>2
    <3>4. W!Restore
      BY <2>2, <2>3, <3>3 DEF W!Restore, Window, SavedWindow
    <3> QED BY <3>4 DEF W!Next
  <2> QED BY <1>13, <1>14, <2>2, <2>3
<1>20. CASE UNCHANGED vars
  <2>1. store' = store /\ failed' = failed /\ saved' = saved
    BY <1>20 DEF vars
  <2>2. Window' = Window
    <3>1. CASE store = Undefined \/ failed \/ outdated
      BY <1>1, <2>1, <3>1 DEF Window
    <3>2. CASE ~(store = Undefined \/ failed \/ outdated)
      <4>1. Whole(store)
        BY <3>2 DEF SoundInv
      <4>2. PICK L : Rising(store, L)
        BY <4>1, WholeRises
      <4> QED BY <1>1, <1>2, <1>3, <2>1, <3>2, <4>2
    <3> QED BY <3>1, <3>2
  <2>3. SavedWindow' = SavedWindow
    <3>1. CASE saved = Undefined
      BY <2>1, <3>1 DEF SavedWindow
    <3>2. CASE saved # Undefined /\ (saved.failed \/ outdated)
      BY <1>1, <2>1, <3>2 DEF SavedWindow
    <3>3. CASE saved # Undefined /\ ~(saved.failed \/ outdated)
      <4>1. Whole(saved.store)
        BY <3>3 DEF SoundInv
      <4>2. PICK L : Rising(saved.store, L)
        BY <4>1, WholeRises
      <4> QED BY <1>1, <1>4, <1>5, <2>1, <3>3, <4>2
    <3> QED BY <3>1, <3>2, <3>3
  <2> QED BY <2>2, <2>3
<1>21. Goal => [W!Next]_<<Window, SavedWindow>>
  OBVIOUS
<1> HIDE DEF Goal
<1> QED BY <1>15, <1>16, <1>17, <1>18, <1>19, <1>20, <1>21 DEF Next

(* If every diff leads to a later block than it starts from, which the code does
   not check, the store is the window of ListWindow: until it refuses a diff the
   list it answers with for each height it holds is true of its block and does not
   change while diffs are added and the oldest are pruned, and a saved store that
   fromJSON restores answers about the same heights what it answered when it was
   saved (addDiff, getSMLbyHeight, fromJSON). *)
THEOREM StoreKeepsWindow ==
  ASSUME Climbing
  PROVE  Spec => KeepsWindow
<1>1. Init => SoundInv /\ W!Init
  BY StoreAssumption DEF Init, Inv, LinkInv, SoundInv, W!Init
<1>2. SoundInv /\ [Next]_vars => SoundInv'
  BY SoundStep
<1>3. SoundInv => ViewInv
  BY ViewsHold
<1>4. SoundInv /\ ViewInv /\ SoundInv' /\ ViewInv' /\ [Next]_vars
        => [W!Next]_<<Window, SavedWindow>>
  BY WindowStep
<1> QED
  BY <1>1, <1>2, <1>3, <1>4, PTL DEF Spec, KeepsWindow, W!Spec, Window, SavedWindow
=============================================================================

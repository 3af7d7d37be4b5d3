------------------------------ MODULE SMLStore ------------------------------
(***************************************************************************)
(* SimplifiedMNListStore of lib/deterministicmnlist: the list at an oldest *)
(* block, the diffs from there on, and the list at the tip.  The quorums   *)
(* that InstantLock and ChainLock signatures are verified with come from   *)
(* the lists this store reconstructs.                                      *)
(*                                                                         *)
(* A client builds the store from a first run of diffs, adds what its node *)
(* sends it, saves the store as JSON and restores it after a restart.  The *)
(* node is not trusted with the contents of a diff, which may be damaged,  *)
(* nor with the order; the roots in the coinbase transaction are true, as  *)
(* for a client that checks the coinbase against its header chain.  An     *)
(* operator marked (fault) is the one after it with a mistake in it.       *)
(***************************************************************************)
EXTENDS MasternodeList

CONSTANTS
  Truth,      \* by block hash: its height, masternodes and quorums
  Offers,     \* the diffs a node may send
  Openings,   \* the sequences of diffs a client may build a store from
  MinDiffs,   \* LLMQ_SIGN_HEIGHT_OFFSET * 2
  MaxDiffs,   \* maxDiffs, from options.maxListsLimit or SMLSTORE_MAX_DIFFS
  OutdatedRPC \* which of BOOLEAN outdated may be

VARIABLES
  store,      \* the SimplifiedMNListStore, or Undefined
  saved,      \* the JSON of a store, or Undefined
  failed,     \* whether addDiff has thrown on this store
  outcome,    \* how the last call ended
  outdated    \* whether the node's quorum entries are isOutdatedRPC

vars == <<store, saved, failed, outcome, outdated>>

Hashes == {NullHash} \cup DOMAIN Truth
Heights == {Truth[b].height : b \in DOMAIN Truth}

Diffs ==
  [baseBlockHash : Hashes, blockHash : Hashes, height : Nat,
   deletedMNs : SUBSET Masternodes, mnList : MNLists,
   deletedQuorums : SUBSET Quorums, newQuorums : Bags,
   merkleRootMNList : MNLists, merkleRootQuorums : Bags \cup {Undefined}]

ASSUME StoreAssumption ==
  /\ Offers \subseteq Diffs /\ Openings \subseteq Seq(Diffs)
  /\ MinDiffs \in Nat /\ MinDiffs >= 2 /\ MaxDiffs \in Nat \ {0}
  /\ OutdatedRPC \subseteq BOOLEAN

\* On the chain no block has more quorums of a type than may be active.
ASSUME TruthAssumption ==
  /\ Undefined \notin Hashes
  /\ \A b \in DOMAIN Truth :
       /\ Truth[b].height \in Nat
       /\ Truth[b].mnList \in MNLists
       /\ Truth[b].quorumList \in Bags
       /\ \A t \in Types : CountOfType(Truth[b].quorumList, t) <= MaximumActive[t]

\* What the coinbase of a block says about it is true.
TrueRoots(diff) ==
  /\ diff.blockHash \in DOMAIN Truth
  /\ diff.height = Truth[diff.blockHash].height
  /\ diff.merkleRootMNList = Truth[diff.blockHash].mnList
  /\ diff.merkleRootQuorums \in {Truth[diff.blockHash].quorumList, Undefined}

ASSUME RootsAssumption ==
  /\ \A diff \in Offers : TrueRoots(diff)
  /\ \A diffs \in Openings : \A i \in DOMAIN diffs : TrueRoots(diffs[i])

-----------------------------------------------------------------------------
(* The store *)

Stored(s) == [store |-> s, error |-> "none"]
Threw(s, error) == [store |-> s, error |-> error]

\* The constructor, up to its loop over the other diffs
NewStore(first) ==
  LET applied == ApplyDiff(EmptyList, first, outdated)
      s == [baseSimplifiedMNList |-> applied.list, currentSML |-> applied.list,
            baseHeight |-> first.height, baseBlockHash |-> first.baseBlockHash,
            diffStore |-> <<>>,
            tipHeight |-> first.height, tipHash |-> first.blockHash]
  IN  IF applied.error = "none" THEN Stored(s) ELSE Threw(Undefined, applied.error)

\* addDiff, once there is room: the diff is stored before it is applied.
PushDiff(s, diff) ==
  LET applied == ApplyDiff(s.currentSML, diff, outdated)
      pushed  == [s EXCEPT !.diffStore = Append(@, diff), !.currentSML = applied.list]
  IN  IF applied.error = "none"
      THEN Stored([pushed EXCEPT !.tipHeight = diff.height, !.tipHash = diff.blockHash])
      ELSE Threw(pushed, applied.error)

\* (fault) one diff too many is kept
FullOneLater(s) == Len(s.diffStore) > MaxDiffs - 1

Full(s) == Len(s.diffStore) >= MaxDiffs - 1

\* (fault) the height of the base list stays behind
AddedDiffKeepingHeight(s, diff) ==
  LET pruned == ApplyDiff(s.baseSimplifiedMNList, Head(s.diffStore), outdated)
  IN  IF ~Full(s) THEN PushDiff(s, diff)
      ELSE IF pruned.error # "none"
      THEN Threw([s EXCEPT !.baseSimplifiedMNList = pruned.list], pruned.error)
      ELSE PushDiff([s EXCEPT !.baseSimplifiedMNList = pruned.list,
                              !.diffStore = Tail(@)], diff)

\* (fault) a coinbase in hex is not parsed
AddedDiffRawCoinbase(s, diff) ==
  LET pruned == ApplyDiff(s.baseSimplifiedMNList, Head(s.diffStore), outdated)
  IN  IF ~Full(s) THEN PushDiff(s, diff)
      ELSE IF pruned.error # "none"
      THEN Threw([s EXCEPT !.baseSimplifiedMNList = pruned.list], pruned.error)
      ELSE PushDiff([s EXCEPT !.baseSimplifiedMNList = pruned.list,
                              !.baseHeight = Undefined, !.diffStore = Tail(@)], diff)

\* addDiff: the oldest diff goes into the base list, for good or half way, and
\* leaves the store, before the new diff is looked at.
AddedDiff(s, diff) ==
  LET pruned == ApplyDiff(s.baseSimplifiedMNList, Head(s.diffStore), outdated)
      shifted == [s EXCEPT !.baseSimplifiedMNList = pruned.list,
                           !.baseHeight = Head(s.diffStore).height,
                           !.diffStore = Tail(@)]
  IN  IF ~Full(s) THEN PushDiff(s, diff)
      ELSE IF s.diffStore = <<>> THEN Threw(s, "TypeError")
      ELSE IF pruned.error # "none"
      THEN Threw([s EXCEPT !.baseSimplifiedMNList = pruned.list], pruned.error)
      ELSE PushDiff(shifted, diff)

\* new SimplifiedMNListStore(diffs): what addDiff throws, the constructor throws.
BuiltStore(diffs) ==
  LET built[i \in 1 .. Len(diffs)] ==
        IF i = 1 THEN NewStore(diffs[1])
        ELSE LET before == built[i - 1]
             IN  IF before.error # "none" THEN before
                 ELSE AddedDiff(before.store, diffs[i])
  IN  IF Len(diffs) < MinDiffs THEN Threw(Undefined, "TooFewDiffs")
      ELSE built[Len(diffs)]

\* getSMLDiffbyHeightRange(baseHeight, height)
InRange(s, diff, height) == diff.height >= s.baseHeight /\ diff.height <= height

\* (fault) a diff that cannot be applied is passed over
ReplayedSkipping(s, height) ==
  LET replay[i \in 0 .. Len(s.diffStore)] ==
        IF i = 0 THEN ApplyDiff(EmptyList, ToDiff(s.baseSimplifiedMNList), outdated)
        ELSE LET before == replay[i - 1]
                 diff   == s.diffStore[i]
             IN  IF ~InRange(s, diff, height) THEN before
                 ELSE Applied(ApplyDiff(before.list, diff, outdated).list)
  IN  replay[Len(s.diffStore)]

\* createListFromBaseAndDiffs of the diffs in range
Replayed(s, height) ==
  LET replay[i \in 0 .. Len(s.diffStore)] ==
        IF i = 0 THEN ApplyDiff(EmptyList, ToDiff(s.baseSimplifiedMNList), outdated)
        ELSE LET before == replay[i - 1]
                 diff   == s.diffStore[i]
             IN  IF before.error # "none" \/ ~InRange(s, diff, height) THEN before
                 ELSE ApplyDiff(before.list, diff, outdated)
  IN  replay[Len(s.diffStore)]

\* getSMLbyHeight
SMLbyHeight(s, height) ==
  IF height = s.baseHeight THEN Applied(s.baseSimplifiedMNList)
  ELSE IF height = s.tipHeight THEN Applied(s.currentSML)
  ELSE IF \A i \in DOMAIN s.diffStore : ~InRange(s, s.diffStore[i], height)
  THEN Refused(EmptyList, "Unable to reconstruct")
  ELSE Replayed(s, height)

-----------------------------------------------------------------------------
(* The client *)

Init == /\ store = Undefined
        /\ saved = Undefined
        /\ failed = FALSE
        /\ outcome = "none"
        /\ outdated \in OutdatedRPC

\* The call of the constructor or of fromJSON, which calls it.  A saved store is
\* read once: what reading it again would give is the same.
Build(diffs) ==
  LET built == BuiltStore(diffs)
  IN  /\ store' = IF built.error = "none" THEN built.store ELSE Undefined
      /\ failed' = FALSE
      /\ outcome' = built.error
      /\ saved' = Undefined
      /\ UNCHANGED outdated

\* A client that has saved a store tries to restore it first.
Construct(diffs) == store = Undefined /\ saved = Undefined /\ Build(diffs)

AddDiff(diff) ==
  /\ store # Undefined
  /\ LET added == AddedDiff(store, diff)
     IN  /\ store' = added.store
         /\ failed' = (failed \/ added.error # "none")
         /\ outcome' = added.error
  /\ UNCHANGED <<saved, outdated>>

Lose == /\ store # Undefined
        /\ store' = Undefined
        /\ failed' = FALSE
        /\ outcome' = "none"
        /\ UNCHANGED outdated

\* JSON.stringify(store), and the end of the process
SaveAndStop == Lose /\ saved' = [store |-> store, failed |-> failed]

Crash == Lose /\ UNCHANGED saved

\* (fault) the last diff is not read back
RestoreWithoutLast ==
  /\ store = Undefined
  /\ saved # Undefined
  /\ Build(<<ToDiff(FromJSON(saved.store.baseSimplifiedMNList))>>
             \o SubSeq(saved.store.diffStore, 1, Len(saved.store.diffStore) - 1))

\* fromJSON: the store is built anew from the base list, as a diff, and the
\* diffs after it.
Restore ==
  /\ store = Undefined
  /\ saved # Undefined
  /\ Build(<<ToDiff(FromJSON(saved.store.baseSimplifiedMNList))>>
             \o saved.store.diffStore)

Next == \/ \E diffs \in Openings : Construct(diffs)
        \/ \E diff \in Offers : AddDiff(diff)
        \/ SaveAndStop \/ Crash \/ Restore

Spec == Init /\ [][Next]_vars

-----------------------------------------------------------------------------
(* Properties *)

Lists ==
  [baseBlockHash : Hashes, blockHash : Hashes, lastBlockHash : Hashes \cup {Undefined},
   height : Nat, mnList : MNLists, validMNs : MNLists,
   quorumList : Bags, merkleRootQuorums : Bags \cup {Undefined}]
Stores ==
  [baseSimplifiedMNList : Lists, currentSML : Lists, baseHeight : Nat,
   baseBlockHash : Hashes, diffStore : Seq(Diffs), tipHeight : Nat, tipHash : Hashes]

\* The store and the JSON of it have the shape that the constructor gives them.
TypeOK ==
  /\ store \in Stores \cup {Undefined}
  /\ saved \in [store : Stores, failed : BOOLEAN] \cup {Undefined}
  /\ failed \in BOOLEAN /\ outdated \in BOOLEAN

\* A list says of its block what is true of it.  The quorums of an outdated
\* node cannot be checked, and a list without quorums is not.
TrueList(list) ==
  /\ list.blockHash \in DOMAIN Truth
  /\ list.height = Truth[list.blockHash].height
  /\ list.mnList = Truth[list.blockHash].mnList
  /\ list.validMNs = ValidMNsOf(list.mnList)
  /\ outdated \/ list.quorumList \in {NoQuorums, Truth[list.blockHash].quorumList}

(* Memory: the window holds at most maxDiffs lists, however many diffs are added
   and refused (the comment on addDiff, lines 71-72). *)
WindowBounded == store # Undefined => Len(store.diffStore) <= MaxDiffs - 1

(* Whatever addDiff accepts leaves a true list at the tip, also in a store that
   has refused, and half applied, other diffs before. *)
AcceptedIsTrue ==
  [][\A diff \in Offers :
       outcome' = "none" /\ AddDiff(diff) =>
         /\ TrueList(store'.currentSML)
         /\ store'.currentSML.blockHash = store'.tipHash]_vars

(* A list that getSMLbyHeight reconstructs is true of its block, or the call
   throws, also when refused diffs are stuck in the store. *)
LookupIsTrue ==
  store # Undefined =>
    \A h \in Heights \ {store.baseHeight, store.tipHeight} :
      LET found == SMLbyHeight(store, h)
      IN  found.error = "none" => TrueList(found.list)

\* A diff that describes truly how one block differs from another
TrueDiff(diff) ==
  /\ diff.blockHash \in DOMAIN Truth
  /\ diff.baseBlockHash \in DOMAIN Truth
  /\ LET from == Truth[diff.baseBlockHash]
         to   == Truth[diff.blockHash]
     IN  /\ diff.height = to.height
         /\ to.mnList = diff.merkleRootMNList
         /\ to.quorumList = diff.merkleRootQuorums
         /\ diff.deletedMNs = DOMAIN from.mnList \ DOMAIN to.mnList
         /\ DOMAIN diff.mnList \subseteq DOMAIN to.mnList
         /\ \A m \in DOMAIN to.mnList :
              \/ m \in DOMAIN diff.mnList /\ diff.mnList[m] = to.mnList[m]
              \/ m \notin DOMAIN diff.mnList /\ m \in DOMAIN from.mnList
                 /\ from.mnList[m] = to.mnList[m]
         /\ \A q \in diff.deletedQuorums : from.quorumList[q] > 0
         /\ \A q \in Quorums :
              to.quorumList[q] = from.quorumList[q] + diff.newQuorums[q]
                                 - (IF q \in diff.deletedQuorums THEN 1 ELSE 0)

(* An honest node is never refused: a true diff from the tip on is accepted by a
   store that has refused nothing, though the oldest diff has to be folded into
   the base list for it.  (Without the quorums of the tip, which the code lets a
   damaged diff take away, the next quorum root cannot match.  An outdated node is
   left out: applyDiff returns before it notes the block, line 107.) *)
TrueDiffsAccepted ==
  [][\A diff \in Offers :
       /\ store # Undefined /\ ~failed /\ ~outdated
       /\ diff.baseBlockHash = store.tipHash /\ TrueDiff(diff)
       /\ store.currentSML.quorumList = Truth[store.tipHash].quorumList
       /\ AddDiff(diff)
       => outcome' = "none"]_vars

\* The diff leads to a later block than it starts from.  The code takes the word
\* of its node for it.
Climbs(diff) ==
  diff.baseBlockHash \in DOMAIN Truth =>
    Truth[diff.baseBlockHash].height < Truth[diff.blockHash].height

Climbing ==
  /\ \A diff \in Offers : Climbs(diff)
  /\ \A diffs \in Openings : \A i \in DOMAIN diffs : Climbs(diffs[i])

(* Until it refuses a diff the store is a window of true lists: what it answers
   about each height it holds is true and does not change, whatever is added and
   pruned; and a saved store that fromJSON restores answers about the same heights
   what it answered when it was saved.  The window is lost in no other way than by
   a crash or a refusal, which is what the mapping of window says.  An outdated
   node's diffs are not even checked for their order. *)
TrueLists ==
  {[height |-> Truth[b].height, blockHash |-> b, mnList |-> Truth[b].mnList,
    validMNs |-> ValidMNsOf(Truth[b].mnList),
    quorums |-> IF verified THEN Truth[b].quorumList ELSE Undefined] :
     b \in DOMAIN Truth, verified \in BOOLEAN}

\* What the store answers about a height
Answer(s, height) ==
  LET list == SMLbyHeight(s, height).list
  IN  [height |-> height, blockHash |-> list.blockHash, mnList |-> list.mnList,
       validMNs |-> list.validMNs,
       quorums |-> IF list.quorumList = NoQuorums THEN Undefined ELSE list.quorumList]

WindowOf(s) ==
  <<Answer(s, s.baseHeight)>>
    \o [i \in DOMAIN s.diffStore |-> Answer(s, s.diffStore[i].height)]

W == INSTANCE ListWindow WITH
       Lists <- TrueLists, Size <- MaxDiffs, None <- Undefined,
       window <- IF store = Undefined \/ failed \/ outdated THEN Undefined ELSE WindowOf(store),
       saved <- IF saved = Undefined THEN Undefined
                ELSE IF saved.failed \/ outdated THEN Undefined ELSE WindowOf(saved.store)
KeepsWindow == W!Spec

-----------------------------------------------------------------------------
(* What the comments and tests of the code say and the code does not do *)

(* "the current SML of the most recent block" (SimplifiedMNListStore.js:18):
   the current list is the list of the block at the tip. *)
CurrentIsTip ==
  store # Undefined => store.currentSML.blockHash = store.tipHash

(* 'should restore an SML store from JSON'
   (test/deterministicmnlist/SimplifiedMNListStore.js:127): a store that has
   refused nothing comes back. *)
RestoreWorks == [][Restore /\ ~saved.failed => outcome' = "none"]_vars
=============================================================================

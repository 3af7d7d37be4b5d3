---------------------------- MODULE Verification ----------------------------
(***************************************************************************)
(* The asynchronous part of the library: calls that verify InstantLocks,   *)
(* ChainLocks and quorums go on side by side, share the loader of the BLS  *)
(* module, and read a store to which diffs are added meanwhile.            *)
(***************************************************************************)
EXTENDS LockVerification, QuorumVerification

\* Every call is an async function of its own.
ASSUME CallsAssumption == LockCalls \cap QuorumCalls = {}

vars == <<blsVars, lockVars, quorumVars>>

Init == InitBLS /\ InitLocks /\ InitQuorums

LockStep(c) == (Verify(c) \/ CheckSignature(c)) /\ UNCHANGED quorumVars

QuorumStep(c) ==
  (VerifyQuorum(c) \/ CheckMembers(c) \/ CheckQuorumSig(c)) /\ UNCHANGED lockVars

LoaderStep(c) == (Compiled(c) \/ CompileFails(c)) /\ UNCHANGED <<lockVars, quorumVars>>

StoreStep == \E list \in Lists : AddDiff(list) /\ UNCHANGED quorumVars

Next == \/ \E c \in LockCalls : LockStep(c)
        \/ \E c \in QuorumCalls : QuorumStep(c)
        \/ \E c \in Callers : LoaderStep(c)
        \/ StoreStep

\* An async function that has what it awaits
Continue == \/ \E c \in LockCalls : CheckSignature(c) /\ UNCHANGED quorumVars
            \/ \E c \in QuorumCalls : (CheckMembers(c) \/ CheckQuorumSig(c)) /\ UNCHANGED lockVars

\* What was started goes on: the event loop does not idle while a continuation
\* is ready, and a compilation ends in some way.  Nobody has to call anything.
Fairness == WF_vars(Continue) /\ WF_vars(\E c \in Callers : LoaderStep(c))

Spec == Init /\ [][Next]_vars /\ Fairness

-----------------------------------------------------------------------------
(* Properties *)

\* The variables of the loader, the calls and the store have their types.
TypeOK ==
  /\ BLSTypeOK
  /\ W!IsWindow(window) /\ rotated \in BOOLEAN
  /\ attempt \in [LockCalls ->
       [number : 0 .. 3, candidate : Quorums \cup {NoQuorum},
        verdict : {"none", "pending", "true", "false", "rejected"}]]
  /\ isVerified \in [CheckedQuorums -> BOOLEAN]
  /\ check \in [QuorumCalls -> {"none", "members", "quorumSig", "true", "false", "lost"}]

(* The module is compiled at most once at a time, never again when it is there,
   and who waits for the event waits for a compilation that goes on, unless it
   has failed (bls.js: isLoading). *)
OneCompilation ==
  LET compiling == {c \in Callers : promise[c] = "compile"}
  IN  /\ Cardinality(compiling) <= 1
      /\ instance => compiling = {}
      /\ failures = 0 /\ (\E c \in Callers : promise[c] = "event") => compiling # {}

\* One of the heights that the call tries is older than the store, or a block that
\* was skipped right behind its base.
Unreachable(c) ==
  \E offset \in {OFFSET, 0, 2 * OFFSET} :
    LET height == Lock[c].height - offset
    IN  height < window[2].height /\ height # Base

\* The store has no more lists than its constructor insists on, and the only block
\* that they skip comes right behind the base.
GapBehindBase ==
  /\ Len(window) = 2 * OFFSET
  /\ Base + 1 < window[2].height
  /\ window[2].height + (Len(window) - 2) = Tip

(* verify() rejects for the store as it is at an attempt, and for three reasons
   only.  A ChainLock: a list it looks for lies before the diffs of the store.  An
   InstantLock, whose heights follow the tip: only in a store of the smallest size
   with a gap behind its base, as the 2 * OFFSET lists that the constructor insists
   on reach back far enough otherwise, whatever is added and pruned between the
   attempts; or if rotated quorums number no power of two (selectSignatoryQuorum,
   getSMLbyHeight). *)
RejectsOnlyFor ==
  [][\A c \in LockCalls :
       attempt[c].verdict # "rejected" /\ attempt'[c].verdict = "rejected" =>
         \/ Lock[c].kind = "ChainLock" /\ Unreachable(c)
         \/ Lock[c].kind = "InstantLock" /\ GapBehindBase
         \/ /\ Lock[c].kind = "InstantLock" /\ rotated
            /\ \E h \in DOMAIN QuorumsAt :
                 Cardinality(QuorumsAt[h]["InstantLock"]) \notin {2, 4, 8, 16, 32, 64, 128, 256}
    ]_vars

\* What Dash Core selects to sign: of the quorums in the latest list, the one
\* with the lowest score.
TipSelects(c) ==
  /\ ~rotated
  /\ LET quorums == window[Len(window)].quorums["InstantLock"]
     IN  /\ Lock[c].signer \in quorums
         /\ \A q \in quorums : Score[c][Lock[c].signer] <= Score[c][q]

(* An InstantLock of the quorum that the latest list selects is accepted, however
   many diffs arrive during its verification, as long as they do not change that
   (the second attempt of verifySignatureWithQuorumOffset). *)
LatestQuorumAccepted ==
  \A c \in {d \in LockCalls : Lock[d].kind = "InstantLock"} :
    []((attempt[c].verdict = "pending" /\ attempt[c].number = 1 /\ []TipSelects(c))
         => <>(attempt[c].verdict = "true" \/ failures > 0))

(* A quorum counts as verified only if both its signatures are good, however
   the checks of entries that lists share overlap (QuorumEntry.verify). *)
VerifiedIsTrue ==
  \A q \in CheckedQuorums : isVerified[q] =>
    \E c \in QuorumCalls : /\ Entry[c].quorum = q /\ check[c] = "true"
                           /\ "valid" \in Entry[c].members /\ Entry[c].quorumSig

(* Every verification that is started comes to an end, unless the module cannot
   be compiled or the check of a quorum's members throws (getInstance in bls.js
   and all that await it). *)
Settles ==
  /\ \A c \in LockCalls :
       attempt[c].verdict = "pending" ~>
         attempt[c].verdict \in {"true", "false", "rejected"} \/ failures > 0
  /\ \A c \in QuorumCalls :
       check[c] \in {"members", "quorumSig"} ~>
         \/ check[c] \in {"true", "false"} \/ failures > 0
         \/ check[c] = "lost" /\ "throws" \in Entry[c].members

-----------------------------------------------------------------------------
(* What a comment of the code says and the code does not do *)

(* "Compiles BlsSignature instance if it wasn't compiled yet and returns module
   instance" (bls.js:23-24): who comes while the module is compiled gets it,
   also when that compilation fails. *)
WaiterGetsInstance ==
  \A c \in Callers : promise[c] = "event" ~> promise[c] = "resolved"
=============================================================================

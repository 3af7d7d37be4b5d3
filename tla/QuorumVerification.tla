------------------------- MODULE QuorumVerification -------------------------
(***************************************************************************)
(* verify() of QuorumEntry: the aggregated signature of the members, who   *)
(* are calculated from the masternode list at the quorum's block, then the *)
(* signature of the quorum itself.  Entries are shared by the lists of a   *)
(* store, and so is their isVerified.  A call with the wrong list or for   *)
(* an outdated entry rejects at once, changes nothing, and is left out.    *)
(***************************************************************************)
EXTENDS BLS

CONSTANTS
  QuorumCalls,    \* the calls of verify()
  Entry           \* by call: [quorum, members, quorumSig]; members: in which of the ways
                  \* "valid", "invalid" and "throws" the check of the members may end
                  \* with the list given; quorumSig: whether this signature is good

VARIABLES
  isVerified,     \* by quorum
  check           \* by call: "none", "members", "quorumSig", or how it ended

quorumVars == <<isVerified, check>>

CheckedQuorums == {Entry[c].quorum : c \in QuorumCalls}

ASSUME QuorumCallsAssumption ==
  /\ QuorumCalls \subseteq Callers
  /\ \A c \in QuorumCalls : Entry[c].members \subseteq {"valid", "invalid", "throws"}
                            /\ Entry[c].quorumSig \in BOOLEAN

InitQuorums == /\ isVerified = [q \in CheckedQuorums |-> FALSE]
               /\ check = [c \in QuorumCalls |-> "none"]

Goes(c, where) == check' = [check EXCEPT ![c] = where]

Ends(c, result) ==
  /\ isVerified' = [isVerified EXCEPT ![Entry[c].quorum] = result]
  /\ Goes(c, IF result THEN "true" ELSE "false")
  /\ Finish(c)

VerifyQuorum(c) ==
  /\ check[c] = "none"
  /\ UNCHANGED isVerified
  /\ \/ isVerified[Entry[c].quorum] /\ Goes(c, "true") /\ UNCHANGED blsVars
     \/ ~isVerified[Entry[c].quorum] /\ Goes(c, "members") /\ GetInstance(c)

\* (fault) the quorum counts as verified before its own signature is checked
CheckMembersOnly(c) ==
  /\ check[c] = "members"
  /\ promise[c] = "resolved"
  /\ "valid" \in Entry[c].members
  /\ Goes(c, "quorumSig")
  /\ GetInstance(c)
  /\ isVerified' = [isVerified EXCEPT ![Entry[c].quorum] = TRUE]

\* isValidMemberSig goes on.  What it throws nobody handles, and the promise of
\* verify() stays pending ("lost").
CheckMembers(c) ==
  /\ check[c] = "members"
  /\ promise[c] = "resolved"
  /\ \/ "valid" \in Entry[c].members /\ Goes(c, "quorumSig") /\ GetInstance(c)
        /\ UNCHANGED isVerified
     \/ "invalid" \in Entry[c].members /\ Ends(c, FALSE)
     \/ "throws" \in Entry[c].members /\ Goes(c, "lost") /\ Finish(c)
        /\ UNCHANGED isVerified

\* isValidQuorumSig goes on.
CheckQuorumSig(c) ==
  /\ check[c] = "quorumSig"
  /\ promise[c] = "resolved"
  /\ Ends(c, Entry[c].quorumSig)
=============================================================================

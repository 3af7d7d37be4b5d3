----------------------------- MODULE MCSMLStore -----------------------------
(* Five blocks and a fork of one: masternodes register, are banned, change and *)
(* leave; quorums of two types come and go.                                    *)
EXTENDS SMLStore, TLC

Quorum(type, hash) == [type |-> type, hash |-> hash]
q1 == Quorum(1, "q1")
q2 == Quorum(1, "q2")
q3 == Quorum(1, "q3")
r1 == Quorum(2, "r1")
TheQuorums == {q1, q2, q3, r1}
AtMost == 1 :> 2 @@ 2 :> 1

Bag(S) == [q \in TheQuorums |-> IF q \in S THEN 1 ELSE 0]
Block(h, mns, quorums) == [height |-> h, mnList |-> mns, quorumList |-> Bag(quorums)]

TheTruth ==
     "b1" :> Block(1, "m1" :> "up" @@ "m2" :> "up", {})
  @@ "b2" :> Block(2, "m1" :> "up" @@ "m2" :> "banned", {q1})
  @@ "b3" :> Block(3, "m1" :> "up" @@ "m2" :> "banned", {q1, q2, r1})
  @@ "b4" :> Block(4, "m2" :> "moved", {q2, q3, r1})
  @@ "b5" :> Block(5, "m1" :> "up" @@ "m2" :> "moved", {q3})
  @@ "f3" :> Block(3, "m1" :> "moved" @@ "m2" :> "banned", {q1, q2})

\* What a node answers to getmnlistdiff(from, to)
Difference(from, to) ==
  LET a == IF from = NullHash THEN Block(0, <<>>, {}) ELSE TheTruth[from]
      b == TheTruth[to]
  IN  [baseBlockHash |-> from, blockHash |-> to, height |-> b.height,
       deletedMNs |-> DOMAIN a.mnList \ DOMAIN b.mnList,
       mnList |-> [m \in {n \in DOMAIN b.mnList : n \notin DOMAIN a.mnList
                                                  \/ a.mnList[n] # b.mnList[n]}
                     |-> b.mnList[m]],
       deletedQuorums |-> {q \in TheQuorums : a.quorumList[q] > b.quorumList[q]},
       newQuorums |-> Bag({q \in TheQuorums : b.quorumList[q] > a.quorumList[q]}),
       merkleRootMNList |-> b.mnList, merkleRootQuorums |-> b.quorumList]

\* The chain, a fork, and in their order: a quorum too many, a masternode that
\* was not deleted, all quorums deleted
Honest == {Difference("b1", "b2"), Difference("b2", "b3"), Difference("b3", "b4"),
           Difference("b4", "b5"), Difference("b2", "f3")}
Damaged ==
  {[Difference("b2", "b3") EXCEPT !.newQuorums = Bag({q1, q2, q3})],
   [Difference("b3", "b4") EXCEPT !.deletedMNs = {}],
   [Difference("b2", "b3") EXCEPT !.deletedQuorums = {q1}, !.newQuorums = Bag({})]}
AllOffers == Honest \cup Damaged

Beginnings == {<<Difference(NullHash, "b1"), Difference("b1", "b2")>>,
               <<Difference(NullHash, "b2"), Difference("b2", "b3")>>,
               <<Difference(NullHash, "b1"), Difference("b2", "b3")>>}

ASSUME ClimbingAssumption == Climbing
=============================================================================

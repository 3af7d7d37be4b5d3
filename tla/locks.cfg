SPECIFICATION Spec
CONSTANTS
  Callers <- AllCallers
  MaxFailures = 1
  LockCalls <- Calls
  Lock <- Locks
  Score <- Scores
  Quorums = {1, 2, 3, 4, 5}
  QuorumsAt <- Chain
  Rotations = {TRUE, FALSE}
  OFFSET = 2
  Size = 5
  Openings <- Windows
  QuorumCalls <- Checks
  Entry <- Entries
INVARIANTS TypeOK OneCompilation VerifiedIsTrue
PROPERTIES RejectsOnlyFor LatestQuorumAccepted Settles

CHECK_DEADLOCK FALSE

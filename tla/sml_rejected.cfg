SPECIFICATION Spec
CONSTANTS
  Undefined = Undefined
  NullHash = "0"
  Masternodes = {"m1", "m2"}
  Entries = {"up", "moved", "banned"}
  ValidEntries = {"up", "moved"}
  Quorums <- TheQuorums
  MaximumActive <- AtMost
  Truth <- TheTruth
  Offers <- AllOffers
  Openings <- Beginnings
  MinDiffs = 2
  MaxDiffs = 3
  OutdatedRPC = {FALSE}
INVARIANT CurrentIsTip

SPECIFICATION Spec
CONSTANTS
  Calls <- SmallCalls
  MaxCalls = 1
  Expansions <- SmallExpansions
  HASH160_SIZE = 3
  COMPRESSED_SIZE = 2
  UNCOMPRESSED_SIZE = 3
  OP_RETURN_STANDARD_SIZE = 4
  Digest <- SmallDigest
  IsTxDER <- SmallDER
  IsPublicKey <- SmallPublicKey
  MAX_SCRIPT_ELEMENT_SIZE = 14
  MAX_SCRIPT_SIZE = 40
  MAX_OPS = 7
  MAX_STACK = 8
  MAX_KEYS = 3
  NUMBER_SIZE = 2
  LOCK_SIZE = 3
  LOCKTIME_THRESHOLD = 3
  MAX_SEQUENCE = 15
  SEQUENCE_LOCKTIME_DISABLE_FLAG = 8
  SEQUENCE_LOCKTIME_TYPE_FLAG = 4
  SEQUENCE_LOCKTIME_MASK = 3
  IsLowS <- SmallLowS
  IsDefinedHashtype <- SmallHashtype
  Signs <- SmallSigns
INVARIANTS TypeOK Conditionals Abbreviations MultisigInOrder LocksHold LimitsHold RedeemScriptAccepts SpendsItsAddress ScriptRoundTrip MinimalIsShortest
CHECK_DEADLOCK FALSE

\* Three clients with the coins and the methods of their own
SPECIFICATION Spec
CONSTANTS
  Undefined = Undefined
  Utxos <- AllCoins
  Payments <- TwoPayments
  ChangeScripts = {"change"}
  Fees = {1}
  FeeRates = {}
  LockTimes = {3}
  SigTypes <- AllTypes
  SerializeOpts = {{}}
  PrivateKeys = {"k1", "k2", "k3"}
  OutputSize <- Sizes
  DataScripts = {"data"}
  Clients <- ThreeClients
  Calls <- AllCalls
  MaxInputs = 2
  MaxOutputs = 2
  FEE_PER_KB = 1
  BYTES_PER_KB = 200
  CHANGE_OUTPUT_MAX_SIZE = 62
  MAXIMUM_EXTRA_SIZE = 26
  FEE_SECURITY_MARGIN = 15
  DUST_AMOUNT = 2
  INSTANTSEND_FEE_PER_INPUT = 2
  NLOCKTIME_BLOCKHEIGHT_LIMIT = 5
INVARIANTS ReliedOn MultiSigNotOverfull
PROPERTIES PaymentsFollowRequests SignatureScope LockKept

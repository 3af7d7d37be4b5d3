SPECIFICATION Spec
CONSTANTS
  Undefined = Undefined
  Utxos <- TwoCoins
  Payments <- TwoPayments
  ChangeScripts = {"change"}
  Fees = {}
  FeeRates = {}
  LockTimes = {}
  SigTypes <- JustAll
  SerializeOpts = {{}}
  PrivateKeys = {"k1"}
  OutputSize <- Sizes
  DataScripts = {"data"}
  Clients <- AnyClient
  Calls = {"from", "addOutput", "change", "sign", "serialize"}
  MaxInputs = 2
  MaxOutputs = 2
  FEE_PER_KB = 1
  BYTES_PER_KB = 200
  CHANGE_OUTPUT_MAX_SIZE = 62
  MAXIMUM_EXTRA_SIZE = 26
  FEE_SECURITY_MARGIN = 15
  DUST_AMOUNT = 2
  INSTANTSEND_FEE_PER_INPUT = 2
  NLOCKTIME_BLOCKHEIGHT_LIMIT = 5
INVARIANT SerializedIsFullySigned

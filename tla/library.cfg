\* Everything that computes: wire forms, objects, proofs, keys, signatures, phrases.
SPECIFICATION Spec
CONSTANTS
  BYTE = 8
  BITS = 3
  SHA256_HASH_SIZE = 2
  PUBKEY_ID_SIZE = 3
  BLS_PUBLIC_KEY_SIZE = 2
  BLS_SIGNATURE_SIZE = 3
  PLATFORM_NODE_ID_SIZE = 2
  IPV4_SIZE = 2
  MAX_SAFE_INTEGER = 10000000
  MAX_MONEY = 1000000
  MAX_BLOCK_SIZE = 200
  COINBASE_SCRIPT_SIZES = {1, 2, 3}
  OP_RETURN = 6
  START_OF_BLOCK = 8
  ISLOCK_REQUESTID_PREFIX <- MCMagic
  CLSIG_REQUESTID_PREFIX <- MCMagic
  LivenetData <- MCLivenetData
  TestnetData <- MCTestnetData
  CustomData <- MCCustomData
  TestnetPort = 97
  RegtestPort = 96
  MaxCreated = 4
  FIELD = 43
  ORDER = 31
  GENERATOR <- MCGenerator
  KEY_SIZE = 2
  CHECKSUM_SIZE = 2
  Digest <- MCDigest
  VERSION_SIZE = 2
  FINGERPRINT_SIZE = 2
  CHAIN_SIZE = 2
  INDEX_SIZE = 2
  LONG_INDEX_SIZE = 3
  MINIMUM_ENTROPY = 2
  MAXIMUM_ENTROPY = 4
  BITCOIN_SEED <- MCMagic
  WORD_BITS = 2
  CHECKSUM_RATIO = 3
  MINIMUM_STRENGTH = 6
  Words <- MCWords
  ENGLISH = 2
  JAPANESE = 3
  HASH_LENGTH = 3
  ITERATIONS = 2
  MNEMONIC_SALT <- MCMagic
  MAGIC_BYTES <- MCMagic
  SIGHASH_ALL = 1
  SIGHASH_SINGLE = 3
  SIGHASH_ANYONECANPAY = 128
  MAX_URL = 255
  MAX_NAME = 40
  SUPERBLOCK_CYCLE = 24
  TEST_SUPERBLOCK_CYCLE = 12
  UNITS <- MCUnits
  MAX_TXID = 2
  Wire <- MCWire
  Forms <- MCForms
  MaxTransactions = 6
  Numbers <- MCNumbers
  Seeds <- MCSeeds
  Indexes <- MCIndexes
  Hashes <- MCHashes
  Ks = {0, 1, 2, 17}
  Counts = {1, 2, 3, 4, 5}
  Entropies <- MCEntropies
INVARIANTS ReadsWhatItWrites ThroughObjects MerkleProofs NetworksFound KeysReadBack DerivationCommutes SignaturesRecover PhrasesAreEntropy
CHECK_DEADLOCK FALSE

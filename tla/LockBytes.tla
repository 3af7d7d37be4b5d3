------------------------------ MODULE LockBytes ------------------------------
(***************************************************************************)
(* InstantLocks and ChainLocks as bytes and as objects:                    *)
(* lib/instantlock/instantlock.js and validation.js, chainlock/            *)
(* chainlock.js, zmqMessages/ChainLockSigMessage.js.  An InstantLock of    *)
(* version 17 of Dash Core has no version and no cycle hash; nothing in    *)
(* its bytes says so, and the parser tries the other form first.           *)
(***************************************************************************)
EXTENDS Blocks

CONSTANTS ISLOCK_REQUESTID_PREFIX, CLSIG_REQUESTID_PREFIX   \* as bytes

-----------------------------------------------------------------------------
(* InstantLock *)

IsVersioned(lock) == "version" \in DOMAIN lock /\ lock.version >= 1
Outpoint == << <<"outpointHash", Reversed(SHA256_HASH_SIZE)>>, <<"outpointIndex", SInt(4)>> >>

\* Only the first input is looked at.
ValidV17(lock) ==
  /\ lock.inputs # <<>> /\ OfSize(lock.inputs[1], "outpointHash", SHA256_HASH_SIZE)
  /\ OfSize(lock, "txid", SHA256_HASH_SIZE) /\ OfSize(lock, "signature", BLS_SIGNATURE_SIZE)
ValidV18(lock) ==
  /\ ValidV17(lock)
  /\ "version" \in DOMAIN lock /\ OfSize(lock, "cyclehash", SHA256_HASH_SIZE)
InstantLockValid(lock) == IF IsVersioned(lock) THEN ValidV18(lock) ELSE ValidV17(lock)

TakeInputs(r) == TakeItems(r, "inputs", LAMBDA s : Take(s, Outpoint))
ReadV17(r) ==
  Take(TakeInputs(r), << <<"txid", Reversed(SHA256_HASH_SIZE)>>, <<"signature", Raw(BLS_SIGNATURE_SIZE)>> >>)
ReadV18(r) ==
  Take(TakeInputs(Take(r, << <<"version", UInt(1)>> >>)),
       << <<"txid", Reversed(SHA256_HASH_SIZE)>>, <<"cyclehash", Reversed(SHA256_HASH_SIZE)>>,
          <<"signature", Raw(BLS_SIGNATURE_SIZE)>> >>)

LockRead(r) == IF r.at = 0 THEN ThrownObject ELSE Checked(r.o, InstantLockValid(r.o))

\* (fault) the older form is tried first
InstantLockReadOldFirst(buf) ==
  LET OrV18(v17) == IF v17.at # 0 /\ ValidV17(v17.o) THEN v17 ELSE ReadV18(Open(buf))
  IN  LockRead(OrV18(ReadV17(Open(buf))))

\* _fromBufferReader, and the constructor's validate: what is left in the buffer is
\* not looked at, nor is a version 0, which the constructor takes for the older form.
InstantLockRead(buf) ==
  LET OrV17(v18) == IF v18.at # 0 /\ ValidV18(v18.o) THEN v18 ELSE ReadV17(Open(buf))
  IN  LockRead(OrV17(ReadV18(Open(buf))))

\* _toBufferWriterV17 and V18, which are alike but for the version and the cycle hash
InstantLockBytes(lock) ==
  IF ~InstantLockValid(lock) THEN <<Thrown>>
  ELSE (IF IsVersioned(lock) THEN Put(lock, << <<"version", UInt(1)>> >>) ELSE <<>>)
       \o PutAll(lock.inputs, LAMBDA input : Put(input, Outpoint))
       \o Put(lock, << <<"txid", Reversed(SHA256_HASH_SIZE)>> >>)
       \o (IF IsVersioned(lock) THEN Put(lock, << <<"cyclehash", Reversed(SHA256_HASH_SIZE)>> >>) ELSE <<>>)
       \o Put(lock, << <<"signature", Raw(BLS_SIGNATURE_SIZE)>> >>)

InstantLockFields(lock) ==
  {"inputs", "txid", "signature"} \cup (IF IsVersioned(lock) THEN {"version", "cyclehash"} ELSE {})
InstantLockToObject(lock) == Checked(Pick(lock, InstantLockFields(lock)), InstantLockValid(lock))
InstantLockFromObject(obj) ==
  LET lock == Pick(obj, InstantLockFields(obj)) IN Checked(lock, InstantLockValid(lock))

\* What getRequestId hashes: an index is written unsigned here, so the upper half
\* of the indexes, which reading makes negative, throws.
InstantLockRequest(lock) ==
  Encode(Sized, ISLOCK_REQUESTID_PREFIX)
  \o PutAll(lock.inputs, LAMBDA input : Put(input, [Outpoint EXCEPT ![2][2] = UInt(4)]))

-----------------------------------------------------------------------------
(* ChainLock *)

ChainLockFields ==
  << <<"height", SInt(4)>>, <<"blockHash", Reversed(SHA256_HASH_SIZE)>>,
     <<"signature", Raw(BLS_SIGNATURE_SIZE)>> >>
ChainLockRead(buf) ==
  LET Lock(r) == IF r.at = 0 THEN ThrownObject ELSE r.o IN Lock(Take(Open(buf), ChainLockFields))
ChainLockBytes(lock) == Put(lock, ChainLockFields)
ChainLockValid(lock) ==
  /\ IsUnsigned(lock, "height") /\ OfSize(lock, "blockHash", SHA256_HASH_SIZE)
  /\ OfSize(lock, "signature", BLS_SIGNATURE_SIZE)
ChainLockToObject(lock) == Pick(lock, {"height", "blockHash", "signature"})
ChainLockFromObject(obj) == Pick(obj, {"height", "blockHash", "signature"})
ChainLockRequest(lock) == Encode(Sized, CLSIG_REQUESTID_PREFIX) \o Put(lock, << <<"height", UInt(4)>> >>)

\* What is signed, of the lock's block hash or transaction: getSignHashForQuorumEntry
SignedMessage(entry, requestId, hash) ==
  Put(entry, << <<"llmqType", UInt(1)>>, <<"quorumHash", Reversed(SHA256_HASH_SIZE)>> >>)
  \o Reverse(requestId) \o Reverse(hash)

\* ChainLockSigMessage: a block and then its lock, where the block written again ends.
LockBehind(buf, block) ==
  [block |-> block, chainLock |-> ChainLockRead(SubSeq(buf, Len(BlockBytes(block)) + 1, Len(buf)))]
ChainLockSigMessage(buf) ==
  LET block == BlockRead(Open(buf)) IN IF block.at = 0 THEN ThrownObject ELSE LockBehind(buf, block.o)
=============================================================================

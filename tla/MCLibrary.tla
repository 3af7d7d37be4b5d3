------------------------------ MODULE MCLibrary -------------------------------
(***************************************************************************)
(* The objects of Library for TLC.  A byte has 3 bits, so that an index of *)
(* two bytes has 64 values and a number of eight bytes fits TLC's; hashes  *)
(* have two bytes, keys and signatures of quorums two and three.  The      *)
(* curve has 31 points over the field of 43 elements, more than the order: *)
(* some signatures have an x past it.  Samples are sequences, of objects   *)
(* that are valid and have the fields of their version and type: with and  *)
(* without each optional part, and on either side of each bound past which *)
(* one is not written, read or shown.  They are different in every field   *)
(* that could be taken for another.                                        *)
(***************************************************************************)
EXTENDS Library

\* A hash of bytes: a number taken from all of them, and digits of it
MCDigest(bytes, size) ==
  LET h == FoldLeft(LAMBDA acc, b : (acc * ((acc % 64) + 61) + 37 * b + 17) % 32749, 7, bytes)
  IN  [i \in 1..size |-> (((h * (12 * i + 5) + 401 * i) % 32749) \div 64) % 8]

-----------------------------------------------------------------------------
(* Networks *)

MCLivenetData ==
  [name |-> "livenet", alias |-> {"mainnet"}, dnsSeeds |-> {"seed.live"}, port |-> 99,
   pubkeyhash |-> 1, privatekey |-> 2, scripthash |-> 3, xpubkey |-> 20, xprivkey |-> 21,
   xpubkey256bit |-> 22, xprivkey256bit |-> 23]
\* Testnet gets its seeds after it was added.
MCTestnetData ==
  [name |-> "testnet", alias |-> {"regtest", "local"}, dnsSeeds |-> {},
   pubkeyhash |-> 4, privatekey |-> 5, scripthash |-> 6, xpubkey |-> 30, xprivkey |-> 31,
   xpubkey256bit |-> 32, xprivkey256bit |-> 33]
\* One network shares livenet's versions of keys and addresses, the other nothing.
MCCustomData ==
  {[name |-> "custom", alias |-> {"mainnet"}, dnsSeeds |-> {}, port |-> 99,
    pubkeyhash |-> 1, privatekey |-> 2, scripthash |-> 7, xpubkey |-> 20, xprivkey |-> 21,
    xpubkey256bit |-> 22, xprivkey256bit |-> 23],
   [name |-> "other", alias |-> {"mine"}, dnsSeeds |-> {"seed.other"}, port |-> 98,
    pubkeyhash |-> 0, privatekey |-> 7, scripthash |-> 5, xpubkey |-> 40, xprivkey |-> 41,
    xpubkey256bit |-> 42, xprivkey256bit |-> 43]}

-----------------------------------------------------------------------------
(* Objects on the wire *)

H(n) == <<n, 7 - n>>
Sig(n) == <<n, 0, 5>>
Addr == [ip |-> <<1, 2>>, port |-> 11]
HP == [platformNodeID |-> <<3, 4>>, platformP2PPort |-> 12, platformHTTPPort |-> 63]

ProRegSample ==
  [version |-> 1, type |-> 0, mode |-> 0, collateralHash |-> H(1), collateralIndex |-> 9, service |-> Addr,
   keyIDOwner |-> <<1, 2, 3>>, pubKeyOperator |-> <<5, 6>>, keyIDVoting |-> <<3, 2, 1>>,
   operatorReward |-> 62, scriptPayout |-> <<1, 4, 5, 6>>, inputsHash |-> H(2)]
Half(n) == BYTE^n \div 2
MCProReg ==
  <<ProRegSample, [collateralIndex |-> Half(4) - 1] @@ ProRegSample, [collateralIndex |-> Half(4)] @@ ProRegSample,
    [scriptPayout |-> <<>>] @@ ProRegSample,
    [payloadSig |-> Sig(1)] @@ ProRegSample,
    [version |-> 2] @@ ProRegSample,
    [version |-> 2, type |-> 1, mode |-> 0] @@ HP @@ ProRegSample,
    [version |-> 2, type |-> 1, service |-> ZeroService, scriptPayout |-> <<2, 4, 5, 6>>,
     payloadSig |-> Sig(2)] @@ HP @@ ProRegSample>>
ProUpServSample ==
  [version |-> 1, proTxHash |-> H(3), service |-> Addr, scriptOperatorPayout |-> <<2, 7, 6, 5>>,
   inputsHash |-> H(2), payloadSig |-> Sig(3)]
Unsigned(payload) == Without(payload, {"payloadSig"})
MCProUpServ ==
  <<ProUpServSample, Unsigned(ProUpServSample), [payloadSig |-> <<1, 2, 3, 4>>] @@ ProUpServSample,
    [scriptOperatorPayout |-> <<>>] @@ ProUpServSample,
    [version |-> 2, type |-> 0] @@ ProUpServSample,
    [version |-> 2, type |-> 1] @@ HP @@ ProUpServSample,
    [version |-> 2, type |-> 1, service |-> ZeroService] @@ HP @@ ProUpServSample>>
ProUpRegSample ==
  [version |-> 1, proTxHash |-> H(4), mode |-> 0, pubKeyOperator |-> <<5, 6>>, keyIDVoting |-> <<3, 2, 1>>,
   scriptPayout |-> <<1, 4, 5, 6>>, inputsHash |-> H(2)]
MCProUpReg == <<ProUpRegSample, [payloadSig |-> Sig(4)] @@ ProUpRegSample, [scriptPayout |-> <<>>] @@ ProUpRegSample>>
ProUpRevSample == [version |-> 1, proTxHash |-> H(5), reason |-> 2, inputsHash |-> H(2), payloadSig |-> Sig(5)]
MCProUpRev == <<ProUpRevSample, Unsigned(ProUpRevSample)>>
CoinbaseSample == [version |-> 1, height |-> 3000, merkleRootMNList |-> H(1)]
CoinbaseQuorums == [version |-> 2, merkleRootQuorums |-> H(2)] @@ CoinbaseSample
CoinbaseLock(behind, amount) ==
  [version |-> 3, bestCLHeight |-> behind, bestCLSignature |-> Sig(6), assetLockedAmount |-> amount] @@ CoinbaseQuorums
\* Each width of a compact size, and the numbers on either side of its bounds
MCCoinbase ==
  <<CoinbaseSample, CoinbaseQuorums, CoinbaseLock(4, 0), CoinbaseLock(5, MAX_SAFE_INTEGER), CoinbaseLock(63, 1),
    CoinbaseLock(64, 2), CoinbaseLock(4095, 3), CoinbaseLock(4096, 3)>>

\* A quorum of 25 members has nine bytes of signers.
Signers == <<0, 1, 7, 4, 0, 0, 3, 2, 1>>
CommitmentSample ==
  [version |-> 1, height |-> 2000, qfcVersion |-> 1, llmqtype |-> 6, quorumHash |-> H(6),
   signersSize |-> 25, signers |-> Signers, validMembersSize |-> 25, validMembers |-> Reverse(Signers),
   quorumPublicKey |-> <<6, 5>>, quorumVvecHash |-> H(2), quorumSig |-> Sig(2), sig |-> Sig(1)]
MCCommitment ==
  <<CommitmentSample, [qfcVersion |-> 2, quorumIndex |-> 3] @@ CommitmentSample,
    [qfcVersion |-> 3] @@ CommitmentSample, [qfcVersion |-> 4, quorumIndex |-> 0] @@ CommitmentSample,
    [qfcVersion |-> 4, quorumIndex |-> Half(2)] @@ CommitmentSample, [height |-> Half(4) - 1] @@ CommitmentSample,
    [height |-> Half(4)] @@ CommitmentSample, [llmqtype |-> 7] @@ CommitmentSample,
    [signers |-> Append(Signers, 1)] @@ CommitmentSample>>
QuorumSample ==
  [version |-> 1, llmqType |-> 6, quorumHash |-> H(6), quorumIndex |-> 0, signersCount |-> 9, signers |-> Signers,
   validMembersCount |-> 9, validMembers |-> Reverse(Signers), quorumPublicKey |-> <<6, 5>>,
   quorumVvecHash |-> H(2), quorumSig |-> Sig(2), membersSig |-> Sig(1)]
OutdatedQuorum ==
  [version |-> 1, llmqType |-> 1, quorumHash |-> H(6), quorumIndex |-> 0, signersCount |-> 4,
   validMembersCount |-> 9, quorumPublicKey |-> <<6, 5>>]
MCQuorumEntry ==
  <<QuorumSample, [signersCount |-> 18, signers |-> <<7, 7, 7, 7, 0, 7, 5, 1, 0>>] @@ QuorumSample,
    [version |-> 2, quorumIndex |-> Half(2) - 1] @@ QuorumSample, [version |-> 3] @@ QuorumSample, OutdatedQuorum,
    [version |-> 2, quorumIndex |-> Half(2)] @@ QuorumSample, [version |-> 2, quorumIndex |-> 5] @@ OutdatedQuorum,
    [llmqType |-> 7] @@ QuorumSample, [validMembers |-> Append(Signers, 1)] @@ QuorumSample>>
EntrySample ==
  [proRegTxHash |-> H(1), confirmedHash |-> H(2), service |-> Addr, pubKeyOperator |-> <<5, 6>>,
   votingAddress |-> <<1, 2, 3>>, isValid |-> 1, nVersion |-> 2, nType |-> 0]
HPEntry ==
  [nType |-> 1, isValid |-> 0, platformHTTPPort |-> 63, platformNodeID |-> <<3, 4>>] @@ EntrySample
OldEntry == [nVersion |-> 1] @@ EntrySample
MCEntry ==
  <<EntrySample, HPEntry, [service |-> ZeroService] @@ HPEntry, [platformHTTPPort |-> 0] @@ HPEntry, OldEntry,
    Without(EntrySample, {"nVersion"}), [payoutAddress |-> <<4, 5>>] @@ EntrySample>>

In(n) == [prevTxId |-> H(n), outputIndex |-> n, script |-> <<1, 2>>, sequenceNumber |-> 4095]
Out(n) == [satoshis |-> 64 * n, script |-> <<n>>]
Plain == [version |-> 2, type |-> 0, inputs |-> <<In(1), In(2)>>, outputs |-> <<Out(1)>>, nLockTime |-> 0]
Special(type, payload) == [Plain EXCEPT !.version = 3, !.type = type] @@ [extraPayload |-> payload]
MCAssetLock == <<[version |-> 1, creditOutputs |-> <<[satoshis |-> 5, script |-> <<1, 2>>],
                                                   [satoshis |-> 8^5, script |-> <<1, 3>>]>>]>>
MCAssetUnlock == <<[version |-> 1, index |-> 8^6, fee |-> 70, requestHeight |-> 9, quorumHash |-> H(3),
                    quorumSig |-> Sig(3)]>>
MCMnHfSignal == <<[version |-> 1, versionBit |-> 7, quorumHash |-> H(3), sig |-> Sig(3)]>>
MCTransactions ==
  <<Plain, [Plain EXCEPT !.version = 3, !.nLockTime = 4095, !.inputs = <<>>],
    [Plain EXCEPT !.outputs = [i \in 1..5 |-> Out(i)]],
    Special(1, Last(MCProReg)), Special(5, MCCoinbase[4]), Special(8, MCAssetLock[1]), Special(6, MCCommitment[2]),
    Special(2, ProUpServSample), Special(2, Unsigned(ProUpServSample)), Special(4, Unsigned(ProUpRevSample))>>
MCLock == [inputs |-> <<[outpointHash |-> H(1), outpointIndex |-> 2], [outpointHash |-> H(2), outpointIndex |-> 300]>>,
           txid |-> H(3), signature |-> Sig(1)]
\* Without a version: the last byte of the first hash is above, at and below the
\* number of the inputs.
MCInstantLock ==
  <<[version |-> 1, cyclehash |-> H(4)] @@ MCLock, [MCLock EXCEPT !.inputs[2].outpointIndex = Half(4) - 1],
    [MCLock EXCEPT !.inputs[2].outpointIndex = Half(4)], [MCLock EXCEPT !.inputs[1].outpointHash = H(5)],
    [MCLock EXCEPT !.inputs[1].outpointHash = H(6)], [MCLock EXCEPT !.inputs[1].outpointHash = H(7)]>>
MCChainLock == <<[height |-> Half(4), blockHash |-> H(5), signature |-> Sig(1)],
                 [height |-> Half(4) - 1, blockHash |-> H(5), signature |-> Sig(4)],
                 [height |-> 5, blockHash |-> H(6), signature |-> Sig(2)]>>
Header == [version |-> -5, prevHash |-> H(1), merkleRoot |-> H(2), time |-> 4095, bits |-> 2000, nonce |-> 17]
MCBlock == <<[header |-> Header, transactions |-> <<>>],
             [header |-> Header, transactions |-> <<MCTransactions[1], MCTransactions[4]>>],
             [header |-> Header, transactions |-> <<Special(2, Unsigned(ProUpServSample))>>]>>
MCMerkleBlock == <<[header |-> Header, numTransactions |-> 6, hashes |-> <<H(1), H(2), H(3)>>, flags |-> <<5, 2>>]>>
MCTree == <<[totalTransactions |-> 6, merkleHashes |-> <<H(1), H(2), H(3)>>, merkleFlags |-> <<5, 2>>]>>
DiffSample ==
  [baseBlockHash |-> H(0), blockHash |-> H(1), cbTxMerkleTree |-> MCTree[1], cbTx |-> Special(5, MCCoinbase[2]),
   nVersion |-> 2, deletedMNs |-> <<H(2), H(3)>>, mnList |-> <<HPEntry, EntrySample>>,
   deletedQuorums |-> <<[llmqType |-> 6, quorumHash |-> H(4)]>>,
   newQuorums |-> <<MCQuorumEntry[1], MCQuorumEntry[2]>>]

MCWire ==
  "ProReg" :> MCProReg @@ "ProUpServ" :> MCProUpServ @@ "ProUpReg" :> MCProUpReg @@ "ProUpRev" :> MCProUpRev
  @@ "Coinbase" :> MCCoinbase @@ "Commitment" :> MCCommitment @@ "AssetLock" :> MCAssetLock
  @@ "AssetUnlock" :> MCAssetUnlock @@ "MnHfSignal" :> MCMnHfSignal @@ "QuorumEntry" :> MCQuorumEntry
  @@ "SimplifiedMNListEntry" :> MCEntry
  @@ "SimplifiedMNListDiff" :> 
       <<DiffSample, [DiffSample EXCEPT !.mnList = <<>>, !.newQuorums = <<>>],
         [DiffSample EXCEPT !.nVersion = 1, !.mnList = <<OldEntry, OldEntry>>],
         [DiffSample EXCEPT !.mnList = <<EntrySample, OldEntry>>],
         [DiffSample EXCEPT !.newQuorums = <<OutdatedQuorum>>],
         [DiffSample EXCEPT !.newQuorums = <<QuorumSample, [version |-> 2] @@ OutdatedQuorum>>]>>
  @@ "Transaction" :> MCTransactions @@ "InstantLock" :> MCInstantLock @@ "ChainLock" :> MCChainLock
  @@ "ChainLockSigMessage" :> <<[block |-> MCBlock[2], chainLock |-> MCChainLock[2]]>>
  @@ "BlockHeader" :> <<Header, [Header EXCEPT !.version = 2047, !.bits = 3]>> @@ "Block" :> MCBlock
  @@ "MerkleBlock" :> MCMerkleBlock @@ "PartialMerkleTree" :> MCTree
  @@ "BloomFilter" :> <<[vData |-> <<1, 2, 3, 4, 5>>, nHashFuncs |-> 10, nTweak |-> 4095, nFlags |-> 1]>>

-----------------------------------------------------------------------------
(* Objects that are shown *)

Null == [In(1) EXCEPT !.prevTxId = <<0, 0>>, !.outputIndex = 4095]
AddressText == <<1, 1, 2, 3>> \o MCDigest(<<1, 1, 2, 3>>, 2)    \* on livenet, of a public key
Num1(n) == <<"number", n>>
Str(s) == <<"string", s>>
ProposalSample ==
  [end_epoch |-> Num1(9), name |-> Str([length |-> 40, plain |-> TRUE]), payment_address |-> Str(AddressText),
   payment_amount |-> Num1(5), start_epoch |-> Num1(3), type |-> Num1(1),
   url |-> Str([scheme |-> "https", length |-> 255, plain |-> TRUE])]
TriggerSample ==
  [event_block_height |-> Num1(48), payment_addresses |-> Str(<<"a", "b">>), payment_amounts |-> Str(<<5, 3>>),
   proposal_hashes |-> Str(<<"h", "g">>), type |-> Num1(2)]
URISample == [address |-> AddressText]
OutputSample == [txid |-> <<1>>, vout |-> 1, scriptPubKey |-> <<2>>, satoshis |-> 150]
MCForms ==
  "governance" :>
    <<ProposalSample, TriggerSample, ("extra" :> Str("x")) @@ ProposalSample,
      [ProposalSample EXCEPT !.end_epoch = Num1(2)],
      [ProposalSample EXCEPT !.name = Str([length |-> 41, plain |-> TRUE])],
      [ProposalSample EXCEPT !.url = Num1(1)], [TriggerSample EXCEPT !.event_block_height = Num1(25)],
      [TriggerSample EXCEPT !.proposal_hashes = Str(<<"h">>)], [TriggerSample EXCEPT !.type = Num1(1)],
      [TriggerSample EXCEPT !.type = Num1(3)]>>
  @@ "uri" :>
    <<URISample, [amount |-> 0] @@ URISample, [amount |-> 150, message |-> "m"] @@ URISample,
      [message |-> "m", label |-> "l"] @@ URISample, ("req-known" :> "x") @@ URISample,
      ("req-other" :> "x") @@ URISample, [address |-> <<1, 1>>]>>
  @@ "unit" :> <<[satoshis |-> 0], [satoshis |-> 1], [satoshis |-> 99], [satoshis |-> 12345]>>
  @@ "output" :>
    <<OutputSample, [address |-> AddressText] @@ OutputSample, [txid |-> <<1, 2, 3>>] @@ OutputSample,
      ("amount" :> <<5, 4>>) @@ ("txId" :> <<2>>) @@ OutputSample>>
  @@ "Transaction" :>
    <<Plain, [Plain EXCEPT !.outputs[1].satoshis = 10000001], [Plain EXCEPT !.inputs = <<In(1), In(1)>>],
      [Plain EXCEPT !.inputs = <<Null>>], [Plain EXCEPT !.inputs = <<[Null EXCEPT !.script = <<>>]>>],
      [Plain EXCEPT !.inputs = <<In(1), Null>>], [Plain EXCEPT !.inputs = [i \in 1..30 |-> In(i)]]>>
MCUnits == "BTC" :> 4 @@ "mBTC" :> 3 @@ "bits" :> 2 @@ "satoshis" :> 0

-----------------------------------------------------------------------------
(* Keys, hashes and phrases *)

MCGenerator == <<2, 12>>
MCNumbers == {1, 2, 30}
MCSeeds == {<<a, b>> : a \in 0..7, b \in 0..7}
MCIndexes == {0, 5, 6, 7, 30, 31, 32, 33, 63, 64, 65, 511}
MCHashes == {<<0, 0>>, <<0, 1>>, <<3, 7>>, <<7, 7>>}
MCWords == <<<<3, 4, 9, 10>>, <<1, 2, 3, 4>>, <<5, 6, 7, 8>>>>
MCEntropies == UNION {[1..n -> 0..7] : n \in 1..2}
MCMagic == <<1, 2>>
=============================================================================

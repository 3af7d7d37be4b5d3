-------------------------------- MODULE Blocks --------------------------------
(***************************************************************************)
(* Blocks, their headers and merkle trees: lib/block/blockheader.js,       *)
(* block.js, merkleblock.js and PartialMerkleTree.js, util/merkletree.js.  *)
(*                                                                         *)
(* On the wire a hash is its bytes.  In a tree a hash is symbolic: what it *)
(* is the hash of, and whether its bytes are in the order they are shown   *)
(* in, which is the reverse of the order they are hashed in.               *)
(***************************************************************************)
EXTENDS TransactionBytes

CONSTANT START_OF_BLOCK

-----------------------------------------------------------------------------
(* BlockHeader *)

HeaderFields ==
  << <<"version", SInt(4)>>, <<"prevHash", Raw(SHA256_HASH_SIZE)>>,
     <<"merkleRoot", Raw(SHA256_HASH_SIZE)>>, <<"time", UInt(4)>>, <<"bits", UInt(4)>>,
     <<"nonce", UInt(4)>> >>
HeaderRead(r) == Take(r, HeaderFields)
HeaderBytes(header) == Put(header, HeaderFields)

\* In an object the hashes are reversed; the object's own hash stands for its bytes.
Shown(header) == [header EXCEPT !.prevHash = Reverse(@), !.merkleRoot = Reverse(@)]
HeaderToJSON(header) == [hash |-> HeaderBytes(header)] @@ Shown(header)
HeaderFromObject(obj) ==
  LET Of(header) == Checked(header, "hash" \in DOMAIN obj => obj.hash = HeaderBytes(header))
  IN  Of(Shown(Without(obj, {"hash"})))

-----------------------------------------------------------------------------
(* Block *)

BlockBytes(block) == HeaderBytes(block.header) \o PutAll(block.transactions, TxBytes)
BlockRead(r) ==
  IF Finished(r) THEN Stop(r)
  ELSE TakeItems(Edited(HeaderRead(r), LAMBDA header : [header |-> header]), "transactions", TxRead)
BlockFromRaw(buf) == BlockRead(Reader(buf, START_OF_BLOCK + 1))
BlockToJSON(block) ==
  [header |-> HeaderToJSON(block.header),
   transactions |-> [i \in DOMAIN block.transactions |-> TxToObject(block.transactions[i])]]
BlockFromObject(obj) ==
  LET Of(header, txs) ==
        Checked([header |-> header, transactions |-> txs],
                header # ThrownObject /\ \A i \in DOMAIN txs : txs[i] # ThrownObject)
  IN  Of(HeaderFromObject(obj.header), [i \in DOMAIN obj.transactions |-> TxFromObject(obj.transactions[i])])

-----------------------------------------------------------------------------
(* Hashes of trees *)

Hash(content) == [shown |-> FALSE, of |-> content]
ReverseHash(hash) == [hash EXCEPT !.shown = ~@]
TxHash(i) == Hash(<<i>>)
NULL_HASH == Hash(<<>>)
\* sha256sha256 of two hashes, one behind the other
DoubleSha256(left, right) ==
  LET part(hash) == <<IF hash.shown THEN -1 ELSE 0, Len(hash.of)>> \o hash.of
  IN  Hash(part(left) \o part(right))

\* Block.getMerkleTree and util's getMerkleTree: row after row, in one sequence.
\* An odd hash at the end of a row is its own neighbour.
Row(row) ==
  [i \in 1 .. (Len(row) + 1) \div 2 |->
    DoubleSha256(row[2 * i - 1], row[IF 2 * i > Len(row) THEN 2 * i - 1 ELSE 2 * i])]
RECURSIVE MerkleTreeOf(_)
MerkleTreeOf(hashes) == IF Len(hashes) <= 1 THEN hashes ELSE hashes \o MerkleTreeOf(Row(hashes))
BlockMerkleTree(hashes) == IF hashes = <<>> THEN <<NULL_HASH>> ELSE MerkleTreeOf(hashes)
MerkleRoot(tree) == IF tree = <<>> THEN <<>> ELSE <<Last(tree)>>
ValidMerkleRoot(hashes, root) == Last(BlockMerkleTree(hashes)) = root

-----------------------------------------------------------------------------
(* PartialMerkleTree: the hashes that prove the matches of a filter, and the   *)
(* flags that say how the tree is walked.                                     *)

TreeWidth(n, height) == (n + 2^height - 1) \div 2^height
TreeHeight(n) == CHOOSE h \in 0..n : TreeWidth(n, h) <= 1 /\ \A lower \in 0 .. h - 1 : TreeWidth(n, lower) > 1

\* calculateHashAtHeight, of hashes as they are shown; positions count from 0.
RECURSIVE HashAtHeight(_, _, _)
HashAtHeight(height, position, hashes) ==
  LET left == HashAtHeight(height - 1, 2 * position, hashes)
      right == IF 2 * position + 1 < TreeWidth(Len(hashes), height - 1)
                 THEN HashAtHeight(height - 1, 2 * position + 1, hashes) ELSE left
  IN  IF height = 0 THEN hashes[position + 1]
      ELSE ReverseHash(DoubleSha256(ReverseHash(left), ReverseHash(right)))

\* traverseAndBuildPartialTree
RECURSIVE PartialTree(_, _, _, _)
PartialTree(height, position, hashes, matches) ==
  LET below == position * 2^height + 1 .. (position + 1) * 2^height
      isParent == \E p \in below \cap DOMAIN hashes : matches[p]
      left == PartialTree(height - 1, 2 * position, hashes, matches)
      right == IF 2 * position + 1 < TreeWidth(Len(hashes), height - 1)
                 THEN PartialTree(height - 1, 2 * position + 1, hashes, matches)
                 ELSE [flags |-> <<>>, hashes |-> <<>>]
  IN  IF height = 0 \/ ~isParent
        THEN [flags |-> <<IF isParent THEN 1 ELSE 0>>,
              hashes |-> <<HashAtHeight(height, position, hashes)>>]
        ELSE [flags |-> <<1>> \o left.flags \o right.flags, hashes |-> left.hashes \o right.hashes]

PartialMerkleTree(hashes, matches) ==
  LET tree == PartialTree(TreeHeight(Len(hashes)), 0, hashes, matches)
  IN  [totalTransactions |-> Len(hashes), merkleHashes |-> tree.hashes,
       merkleFlags |-> ConvertBitArrayToUint8Array(tree.flags, TRUE)]

FlagBytes(flags) == PutAll(flags, LAMBDA flag : LittleEndian(flag, 1))
TakeFlags(r, name) ==
  TakeItems(r, name, LAMBDA s : Edited(Take(s, << <<"flag", UInt(1)>> >>), LAMBDA o : o.flag))
TakeHashes(r, name, type) ==
  TakeItems(r, name, LAMBDA s : Edited(Take(s, << <<"hash", type>> >>), LAMBDA o : o.hash))
TreeBytes(tree) ==
  Put(tree, << <<"totalTransactions", UInt(4)>> >>) \o PutAll(tree.merkleHashes, Reverse)
  \o FlagBytes(tree.merkleFlags)
TreeRead(r) ==
  TakeFlags(TakeHashes(Take(r, << <<"totalTransactions", UInt(4)>> >>), "merkleHashes",
                       Reversed(SHA256_HASH_SIZE)), "merkleFlags")

-----------------------------------------------------------------------------
(* MerkleBlock *)

\* build: the hashes stay as PartialMerkleTree shows them.
BuildMerkleBlock(header, hashes, matches) ==
  LET tree == PartialMerkleTree(hashes, matches)
  IN  [header |-> header, numTransactions |-> tree.totalTransactions,
       hashes |-> tree.merkleHashes, flags |-> tree.merkleFlags]

\* Neither the hashes nor the header's are reversed on the wire.
MerkleBlockBytes(block) ==
  HeaderBytes(block.header) \o Put(block, << <<"numTransactions", UInt(4)>> >>)
  \o PutAll(block.hashes, LAMBDA hash : hash) \o FlagBytes(block.flags)
MerkleBlockRead(r) ==
  LET header == Edited(HeaderRead(r), LAMBDA h : [header |-> h])
  IN  IF Finished(r) THEN Stop(r)
      ELSE TakeFlags(TakeHashes(Take(header, << <<"numTransactions", UInt(4)>> >>), "hashes",
                                Raw(SHA256_HASH_SIZE)), "flags")
MerkleBlockToJSON(block) == [block EXCEPT !.header = HeaderToJSON(@)]
MerkleBlockFromObject(obj) ==
  LET header == HeaderFromObject(obj.header)
  IN  Checked([obj EXCEPT !.header = header], header # ThrownObject)

\* _traverseMerkleTree.  A walk counts the flag bits and hashes it has used, and
\* has the hash it returns: none where there is no flag or no hash left, which
\* throws where two are put together.  One bit more than there are flags is
\* looked for, and read as 0.
Walk(hash, bits, used, txs) == [hash |-> hash, bits |-> bits, used |-> used, txs |-> txs]
Halted == Walk(<<>>, -1, -1, <<>>)
RECURSIVE Traverse(_, _, _, _, _, _)
Traverse(block, depth, pos, bits, used, txs) ==
  LET flag == IF bits \div BITS < Len(block.flags)
                THEN (block.flags[bits \div BITS + 1] \div 2^(bits % BITS)) % 2 ELSE 0
      left == Traverse(block, depth - 1, 2 * pos, bits + 1, used, txs)
      right == IF 2 * pos + 1 < TreeWidth(block.numTransactions, depth - 1)
                 THEN Traverse(block, depth - 1, 2 * pos + 1, left.bits, left.used, left.txs)
                 ELSE left
  IN  IF bits > Len(block.flags) * BITS THEN Walk(<<>>, bits, used, txs)
      ELSE IF depth = 0 \/ flag = 0
        THEN IF used >= Len(block.hashes) THEN Walk(<<>>, bits + 1, used, txs)
             ELSE Walk(<<block.hashes[used + 1]>>, bits + 1, used + 1,
                       IF depth = 0 /\ flag = 1 THEN Append(txs, block.hashes[used + 1]) ELSE txs)
      ELSE IF left = Halted \/ right = Halted \/ left.hash = <<>> \/ right.hash = <<>> THEN Halted
      ELSE Walk(<<DoubleSha256(left.hash[1], right.hash[1])>>, right.bits, right.used, right.txs)
TraverseMerkleTree(block) == Traverse(block, TreeHeight(block.numTransactions), 0, 0, 0, <<>>)

\* (fault) the hashes that are left over are not counted
ValidMerkleTreeLeftOver(block, root) ==
  LET walk == TraverseMerkleTree(block)
  IN  IF Len(block.hashes) > block.numTransactions \/ Len(block.flags) * BITS < Len(block.hashes)
        THEN "invalid"
      ELSE IF walk = Halted THEN "throws"
      ELSE IF walk.hash = <<>> THEN "throws"
      ELSE IF walk.hash = <<root>> THEN "valid" ELSE "invalid"

ValidMerkleTree(block, root) ==
  LET walk == TraverseMerkleTree(block)
  IN  IF Len(block.hashes) > block.numTransactions \/ Len(block.flags) * BITS < Len(block.hashes)
        THEN "invalid"
      ELSE IF walk = Halted THEN "throws"
      ELSE IF walk.used # Len(block.hashes) THEN "invalid"
      ELSE IF walk.hash = <<>> THEN "throws"
      ELSE IF walk.hash = <<root>> THEN "valid" ELSE "invalid"

MatchedTransactionHashes(block) == TraverseMerkleTree(block).txs
HasTransaction(block, hash) == Contains(MatchedTransactionHashes(block), hash)

-----------------------------------------------------------------------------
(* SimplifiedMNListDiff: a proof of a coinbase transaction, and what has changed *)

DiffBytes(d) ==
  Put(d, << <<"baseBlockHash", Reversed(SHA256_HASH_SIZE)>>, <<"blockHash", Reversed(SHA256_HASH_SIZE)>> >>)
  \o TreeBytes(d.cbTxMerkleTree) \o TxBytes(d.cbTx) \o Put(d, << <<"nVersion", SInt(2)>> >>)
  \o PutAll(d.deletedMNs, Reverse)
  \o PutAll(d.mnList, SMLEntryBytes)
  \o PutAll(d.deletedQuorums, LAMBDA q : Put(q, QuorumId))
  \o PutAll(d.newQuorums, LAMBDA q : Encode(Sized, QuorumEntryBytes(q)))

DiffRead(r) ==
  DiffQuorums(DiffEntries(TakeItems(Take(
    TakePart(TakePart(Take(r, << <<"baseBlockHash", Reversed(SHA256_HASH_SIZE)>>,
                                 <<"blockHash", Reversed(SHA256_HASH_SIZE)>> >>),
                      "cbTxMerkleTree", TreeRead), "cbTx", TxRead),
    << <<"nVersion", UInt(2)>> >>), "deletedMNs", HashRead)))

-----------------------------------------------------------------------------
(* BloomFilter *)

FilterData == <<"vData", VarBytes>>
FilterFields == <<<<"nHashFuncs", UInt(4)>>, <<"nTweak", UInt(4)>>, <<"nFlags", UInt(1)>>>>
\* fromBuffer and toBuffer; the filter itself is the bloom-filter package's.
BloomFilterRead(r) == Take(r, <<FilterData>> \o FilterFields)
BloomFilterBytes(filter) == Put(filter, <<FilterData>> \o FilterFields)
=============================================================================

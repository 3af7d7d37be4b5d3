# A verification project for dashcore-lib

dashcore-lib is a JavaScript library for Dash wallets and light clients: it builds,
signs and serializes transactions, follows the deterministic masternode list of the
chain, and verifies InstantLocks and ChainLocks against it. This directory holds TLA+
modules of the parts of the library that keep state, run scripts, or write, read, derive
and prove; the TLC configurations that check them on small instances; and theorems that
TLAPS has proved about the builder, its clients, the store, the verification, the
interpreter and the networks.

Contents: 1 the system, 2 what is modelled and how, 3 the runs, 4 the proofs, 5 what
only TLC checks and what is not modelled, 6 where code and documentation differ,
7 the plan.

## 1. The system

All paths are relative to `src/lib`. The library is single threaded; concurrency comes
from its few async functions. It keeps no files: what survives a restart is what the
client saves as JSON, hex or bytes.

| component | state | operations | hard because |
|---|---|---|---|
| Transaction builder, `transaction/transaction.js`, `sighash.js` | inputs, outputs, `_changeScript`, `_changeIndex`, `_fee`, `_feePerKb`, cached `_inputAmount` and `_outputAmount`, `nLockTime` | from, addInput, to, addData, change, fee, feePerKb, removeInput, removeOutput, clearOutputs, sort\*, lockUntil\*, sign, getSignatures, applySignature, getFee, serialize, toObject/fromObject, toBuffer/fromBuffer | a mutable object under any sequence of calls, several of which throw half way; caches; an index into a list that is rebuilt and sorted; the fee depends on the size and the size on the fee |
| Inputs, `transaction/input/*` | the signatures of an input by key | getSignatures, addSignature, clearSignatures, isFullySigned | several signers, signatures that travel, counting by equality |
| Masternode list store, `deterministicmnlist/SimplifiedMNListStore.js` | base list, current list, diffs in between, tip | constructor, addDiff, getSMLbyHeight, fromJSON | untrusted diffs, pruning at a limit, a failed step leaves the object changed |
| Masternode list, `SimplifiedMNList.js`, `SimplifiedMNListDiff.js` | masternodes, quorums, roots, block hashes | applyDiff, toSimplifiedMNListDiff, fromJSON | applies first and checks afterwards |
| Quorum entries, `QuorumEntry.js` | `isVerified` | verify | async; entries are shared by lists |
| InstantLocks and ChainLocks, `instantlock`, `chainlock` | none of their own | verify(store) | async: three attempts at quorums of different heights, with awaits in between |
| BLS loader, `crypto/bls.js` | `instance`, `isLoading`, listeners | getInstance | async, shared by all verifications; may fail |
| Script and interpreter, `script/*`, `opcode.js` | two stacks, conditionals, counters, error | verify, evaluate, step; parsing, writing, building and classifying scripts | a stack machine with limits, flags, nested conditionals, three scripts on one stack |
| Blocks and merkle trees, `block/*`, `util/merkletree.js` | none | headers and blocks as bytes and objects; roots, partial trees, traversal | three programs that walk one tree, with a last branch that has no sibling; byte orders |
| Networks, `networks.js` | a global list and map | get, add, remove, enableRegtest | global state, changed by lookups, while keys hold its objects |
| Payloads, `transaction/payload/*` | the fields of special transactions | validate, toBuffer, fromBuffer, toJSON, fromJSON | versions, types and signatures decide which fields exist |
| Keys and addresses, `privatekey.js`, `publickey.js`, `address.js` | none | text, bytes and objects of each | what a text means depends on the networks there are |
| HD keys, `hdprivatekey.js`, `hdpublickey.js` | none | derive by number, long index and path; text and objects | hardened and 256 bit indexes, leading zero bytes, indexes without a key |
| Signatures and messages, `crypto/*`, `message.js` | none | sign, verify, recover; DER and compact forms | x past the order, low s, top bits, byte order of the hash |
| Mnemonics, `mnemonic/*` | none | phrases, validity, seeds | bits that are no bytes; lists that share words |
| Governance objects, units, URIs, unspent outputs, bloom filters | none | from objects and text and back | optional parts and defaults |
| Errors, configuration, word lists | none | tables | |

How they interact: a client feeds masternode list diffs from a node to a store; the
verification of a lock asks the store for the list at a height (`getSMLbyHeight`),
selects a quorum of it and awaits the BLS module; while it waits, further diffs are
added to the same store. The builder calls its inputs to sign, to clear signatures and
for their estimated size, and `sighash` to hash what a signature covers.

What makes each component correct:

- **Builder**: the change index names the change output; payments change only when the
  client asks; caches equal what they cache; the fee left to the miner is the fee
  reported; signatures in the transaction are valid for it and for as long as their
  type says; a lock time that was effective stays so.
- **Inputs**: never more signatures than the threshold, whoever signs in what order.
- **Store and list**: what is accepted is true of its block; a true diff that connects
  is accepted; a reconstructed list is true or is not given; the window is bounded; what
  the store says of a height does not change while it holds it.
- **Interpreter**: a script means what its blocks mean; an opcode what it abbreviates; multisig
  takes signatures in the order of the keys; locks hold; limits count what is skipped.
- **What is written**: reading gives back what was written, and different things are hashed
  from different bytes.
- **Keys**: deriving and making public commute; a text is never read as another key; every
  signature recovers its key.
- **Merkle proofs**: valid for exactly one root and exactly the matches.
- **Verification**: every call that starts ends; the module is compiled once; a lock
  signed by the quorum that the tip selects is accepted however the store moves; a call
  rejects only in named cases; a quorum counts as verified only if it is.

`PROJECT.json` lists every component with its files and the hazards of the code, each at
its line with the properties that would catch it going wrong.

## 2. The modules

Conventions. An operator marked `(fault)` stands before the one it is a variant of, with
a plausible mistake in it; the mutants of `PROJECT.json` put it in its place to show that
a property can fail. `MC*` modules hold only values of constants.

### The transaction builder: `Transaction`, `Sums`, `Payments`

`Transaction` has the fields of the object as one record `tx`, so that a helper takes a
transaction and returns a transaction together with how the call ended (`Return`,
`Throw`): a method that throws half way returns the half changed record, as the object
of the code stays half changed. One action per public method: `From`, `AddInput`,
`UncheckedAddInput`, `RemoveInput`, `Fee`, `FeePerKb`, `Change`, `AddOutput` (`to`,
`addData`, `addOutput`), `ClearOutputs`, `RemoveOutput`, `RemoveLaterOutput`
(`removeOutput` of an output behind the change output), `SortOutputs`,
`SortOutputsBadly` (a sorting function that loses an output), `SortInputs`, `Sort`,
`LockUntil`, `Sign`, `GetSignatures`, `ApplySignature`, `ReadInputAmount`, `ReadFee`,
`Serialize`, `Reload` (`toObject` and the constructor), `Reparse` (`toBuffer` and back).
The constant `Clients` names the clients of an instance and gives each the methods it
calls, its coins, payments, keys and signature types; `client`, chosen at the start, is the
one at work. `Calls` is the set of methods the whole instance uses.

Abstractions: a script is a name with a size; a coin is a record of its out point,
class, amount, keys and estimated size; a signature is its type and the thing it covers
(`Sighash` follows `sighash.js` case by case, the SIGHASH_SINGLE constant included), so
it is valid exactly if what it covers is unchanged. `changeIndex` is counted from 1.
`Sums` holds the sum of a sequence as a fold. `Payments` is the abstract side: the bag of
payments owed and what each request does to it (`Pay`, `TakeBack`, `Clear`, `Keep`). `Next` is
split into `PaymentCall`, the methods by which a client asks for a change of its payments, and
`OtherCall`, all the rest.

`MCClients` puts three clients of the builder into one instance (`tx_change` has one, that
may do everything its instance offers): one only pays, with a coin whose class cannot clear its
signatures; one signs with three keys and passes signatures on; one chooses what its
signatures cover and a lock time. `PaymentsFollowRequests` ties every step of
the builder to the step of `Payments` that its method asks for: `addOutput(o)` is `Pay(o)`,
`removeOutput(i)` takes back the output at `i`, `clearOutputs` is `Clear`, and a step in which
the bag changes is none of the other methods. So a payment that a sort, a fee, a signature or a
round trip loses or doubles is a violation, not a request.
`ReliedOn` says of each client what it counts on: the paying one sorts outputs after it has
signed, which clears nothing, so it cannot count on its signatures.

### The masternode list store: `MasternodeList`, `SMLStore`, `ListWindow`

`MasternodeList` has the list as a record and `ApplyDiff` as a function to the list as it
is left behind and an error or none. `SMLStore` has the store, its saved JSON, and a
client that constructs, adds diffs, saves and stops, crashes, and restores. A merkle root is modelled as the
contents it commits to, which is what collision resistance gives. Assumptions:
`RootsAssumption`, the roots in the coinbase of a diff are true of the block (a light
client checks them with its header chain), nothing else in a diff is; `TruthAssumption`,
no block of the chain has more quorums of a type than may be active; `StoreAssumption`,
types and bounds. `Climbing` says that a diff leads to a higher block; only the refinement
needs it, and `MCSMLStore` has it checked for the instance. `outdated` is chosen once: whether the node is of the kind whose quorum entries
cannot be checked (`isOutdatedRPC`). `ListWindow` is the abstract specification: a bounded
window of true lists, of which the oldest leaves when a newer one comes. A window that was
closed comes back as it was or is discarded; another one is opened only where nothing is
saved, and for that the client of `SMLStore` constructs a store only then. So a restore that
loses or changes a list is a violation.

### Verification: `BLS`, `LockVerification`, `QuorumVerification`, `Verification`

`BLS` is the loader: `instance`, `isLoading`, and for every caller what its promise waits
for. `LockVerification` is `verify()` of both kinds of locks. A call is one record: the
number of the attempt, the candidate quorum, the verdict. Between two awaits the code
runs without interruption, so an action goes from one await to the next: `Verify` to the
first candidate, `CheckSignature` from the module to the next candidate or the verdict,
passing over attempts for which there is no quorum of the type. Each attempt reads the
store as it is by then. The store is the window of its heights, base first, and `AddDiff`
moves it. A block may be skipped: `ListsUpTo` is `getSMLbyHeight`, which gives the list of the
last diff at or below a height and throws for a height that lies behind the base and
before the first diff, as it does for one below the base. `Rotated` follows the arithmetic of `selectSignatoryRotatedQuorum` and
`readLastNBits`. `QuorumVerification` is `verify()` of a quorum entry, with `isVerified`
shared by the calls. `Verification` composes the three, each step of one leaving the
variables of the others alone but for the loader, which they share; it states the
fairness and the properties.

Fairness: weak fairness of "some continuation that can run does" and of "a compilation
that has begun ends, well or not". The first is what the event loop of JavaScript does
with resolved promises; the second is the promise of the WebAssembly loader to settle.
Starting a call, adding a diff, and success of the compilation are not assumed.

### Scripts: `Opcodes`, `Scripts`, `ScriptClasses`, `ScriptNumbers`, `Interpreter`, `Spending`, `ScriptReference`

`Scripts` is `script.js`: a script is the sequence of its chunks, `FromBuffer` and `ToBuffer`,
`FromWords` and `ToWords` (a text is the sequence of its words), the builders of outputs and
inputs, the classification, and `FindAndDelete`. `ScriptClasses` has what depends on the
script that an input carries: `HasType` is the recursion of `classify` through
the buffer at the end of an input, and `AddressInfo` the address of a script. `ScriptNumbers`
are the numbers on the stack, of two bytes in the instance where the code has four.
`Interpreter` has the object of the code as one record, `interpreter`, and the calls of
`verify()` on it: `CallVerify` begins with the input's script, `RunStep` runs one opcode
(`Step`, one operator for each group of opcodes), and the end of a script begins the next or
the verdict. Every flag is there. A signature is a buffer that names its key and the size of
the script it covers (`Signs`), so that what `OP_CODESEPARATOR` and the removal of signatures
leave of the script matters; hashes are short and do not collide in the families.

`Spending` says what is promised of an output that a call of `verify()` lets an input spend:
`RedeemScriptAccepts`, `SpendsItsAddress`, `LocksHold` (of the blocks that can hold the
transaction, not of the fields compared), `MultisigInOrder` (multisig as a choice of keys in
their order) and `MinimalIsShortest` of its pushes. `ScriptReference` says what scripts mean in
other ways: conditionals as blocks within blocks (recursive), opcodes as what they abbreviate.
`MCInterpreter` has the families of scripts. Assumptions: `CallsAssumption` and `LocksAssumption`, types of the
arguments of a call and the order of two masks; `ReadAssumption`, of the instance: a chunk has
data only if its opcode pushes some, and a pay to script hash output has three chunks. The
second is needed since `isScriptHashOut` looks at three bytes of a script and its length only.

### What computes: `Encoding` to `Library`

| module | models |
|---|---|
| `Encoding` | readers, writers and compact sizes; fields of a type each, `Put` and `Take` write and read them |
| `Payloads`, `Commitments`, `TransactionBytes` | all nine payloads, quorum entries, masternode list diffs and their entries, bit arrays; transactions with inputs, outputs and the table of payload classes, `verify()` |
| `LockBytes` | InstantLocks of both versions, ChainLocks, what of them is hashed and signed |
| `Blocks` | headers, blocks, merkle blocks; trees whose hashes are symbolic (what was hashed, in which byte order) |
| `Networks` | the registry as a state machine: `AddNetwork`, `RemoveNetwork`, lookups and the switch to regtest |
| `Keys`, `HDKeys`, `Signatures` | keys, addresses, extended keys, ECDSA and its forms, signed messages, over a curve of 31 points |
| `Mnemonics`, `Governance`, `PaymentRequests` | phrases; proposals and triggers; units, URIs, unspent outputs |
| `Library` | composes them, and has the properties |

These are pure functions but for the networks. `Library` makes a state machine of them so
that one run asks all of them: a client takes up one *subject*, an object or the arguments of a
call, and the properties compare what the modules compute of it; the networks go on changing
while the subject is a key. A byte has 3 bits (`BYTE` is 8, `BITS` 3, related by
`BitsAssumption`), so that an integer of eight bytes fits TLC's integers and the boundaries of
every width are near. The curve is `y^2 = x^3 + 7` over the field of 43 elements, whose group
of 31 points has prime order: every private key, every leading zero byte and every x past
the order occurs. Hashes are constants.

## 3. The runs

| run | question | distinct states |
|---|---|---|
| `tx_change` | Do change, fee and caches stay right under every order of coins, payments, fees, rates, two change scripts and sorting? | 270 020 |
| `tx_clients` | Three clients: payments follow requests, also when calls throw half way; no stale signature, no overfull input; what SIGHASH types leave open may change; a lock time stays effective | 192 314 |
| `tx_half_signed` | *violation*: serialize() lets a half signed transaction through | |
| `tx_remove` | *violation*: removing a payment takes another one away | |
| `sml_store` | Is a store that is fed, pruned, saved and lost a window of true lists? | 12 499 |
| `sml_rejected` | *violation*: after a refused diff the current list is not that of the tip | |
| `sml_restore` | *violation*: a saved store cannot be restored | |
| `locks` | An InstantLock, a ChainLock and three quorum checks over one loader and a moving store | 14 808 |
| `bls_fails` | *violation*: after one failed compilation callers wait for ever | |
| `interpreter` | Does the interpreter run scripts as their reference meanings say, within the limits? | 187 049 |
| `library` | Is what is written read again; do keys, signatures, proofs, phrases agree with each other? | 10 748 |
| `quorum_signers` | *violation*: other members are taken to have signed a quorum entry | |

**Builder, bounds.** Two coins and two payments with at most two payments at once
(`MaxInputs`, `MaxOutputs`), amounts below 16. Two inputs and two outputs besides the
change output are enough for an index to be wrong, for one input to be signed and the
other not, and for the change output to be first, last or in between. A kilobyte is 200
bytes (`BYTES_PER_KB`) and a fee is 1 per kilobyte, so that one coin stays below it and
two cross it and the change output tips the size over: the interesting case of the
estimate. `change` may be called with the script of a payment, so that change and payment
look alike. In `tx_clients` one coin is of the abstract class whose `clearSignatures`
throws, and one, of the client that chooses scopes, has no known output. The signing client
has one two of three input and another one, three keys, and signatures that are taken out
and applied late. `serialize` is called with `disableIsFullySigned` where signing is not the
question, and not by the signing client.

**Store, bounds.** Five blocks and a fork of one, eight diffs (three of them damaged) that
may come in any order and any number of times, three openings of which one does not
connect, at least 2 diffs to build from (16 in the code) and at most 3 lists (720 in the
code, an option of the constructor). So the store is pruned twice within the chain, and a
refused diff can travel from the end of the diffs to the front and be met there.

**Verification, bounds.** Six blocks, `OFFSET` 2 instead of 8, at most five lists. The store
opens with blocks 1 to 5, or with 1, 3, 4 and 5: four lists, `2 * OFFSET`, the fewest the
constructor takes, and a gap right behind the base. There the first attempt of an InstantLock
comes to lie in the gap, and `getSMLbyHeight` throws; one diff more and it no longer does. So
`RejectsOnlyFor` names the store as it is at the step of the rejection. The quorum that signed
the InstantLock is selected from the sixth list on; the one that signed the ChainLock only in the
fifth, so that it may be accepted, refused and rejected. Quorums of lists number two (a power
of two) and three. One compilation may fail.
Every call is made once; the system may stop when all calls have ended or hang, hence no
check for deadlock there.

**Interpreter, bounds.** Conditionals: all scripts of up to six of OP_IF, OP_ELSE, OP_ENDIF,
OP_1, and of up to four with OP_NOTIF and OP_0, on negative zero too: nesting of three and two
OP_ELSE in one conditional. Every opcode that abbreviates others, on stacks of up to seven
elements and on pairs at the ends of the range of numbers. Multisig: up to three keys, also
equal ones, and all choices of signatures. Locks: numbers and transactions on both sides of
every flag and limit. Limits: one below, at and one above (7 operations for 201, 8 on the
stack for 1000, 14 and 40 bytes for 520 and 10000). Redeem scripts: eleven, on up to two
pushes. Pushes at the bounds of every width but the last. One call per object; `MaxCalls`
admits more.

**Library, bounds.** Samples of every kind on the wire in every version, with and without every
optional part, at the bounds of the compact sizes and on both sides of every bound past which
the code does not write, read or show what is valid. Those objects are named: `Unwritable`
(`toBuffer` throws), `Unread` (`fromBuffer` throws or reads another object) and `Unshown`
(`toJSON` or `fromObject` throws), and the properties are equivalences, so an object that fails
and is in none of the sets is a violation, and so is one in a set that does not fail. Not among the
samples are objects with fields that their version and type do not have. Merkle proofs for up to six transactions
and every set of matches, each also with every hash dropped, exchanged and inserted; up to two
networks added, one that shares versions with livenet; all 64 seeds of two bytes with twelve
indexes around the limits of short and hardened ones; every key with four hashes, four
values of k; all phrases of up to five words from three lists that share words.

What the violations show is listed in `PROJECT.json` under `findings` and in section 6.

## 4. The proofs

All proofs are checked by tlapm without any omitted step. They hold for every value of the
constants that satisfies the assumptions named in the modules: any coins, payments,
sizes and limits; any chain, any diffs, any `MaxDiffs`; any number of calls and any offset;
any scripts and any digests. `PROJECT.json` lists the results under `theorems`, each with the
property of a run that it states, where it states one.

**Sums** (`SumsProofs`). Lemmas on the sum of a sequence of naturals: its type, appending,
removing an element, equality for permutations. They carry the arithmetic of the builder.

**Builder** (`TransactionProofs`). `TypeCorrect` is type correctness
through every method, including the states in which methods throw. The
invariants about change, caches and fee are not inductive: what a method does depends on the
caches being right, and a method that throws half way leaves them wrong in a controlled
way. The inductive invariant is `Balanced`: the types, `Settled(tx)`, and that all inputs
are complete if all coins are. `Settled` says that caches are absent or right
(`Consistent`), and that, if no input is of a class whose `clearSignatures` throws and every
input has its output (`Complete`), the change index is right and the change output pays
the difference exactly. A call can only break the second part in a state that is not
complete, and `clearOutputs` needs a case of its own because what it leaves behind when it
throws includes a stale sum. That the fee paid is the fee reported afterwards needs
`SizesAssumption`: the size of a change output is at most a kilobyte, so that the estimate
made with and without it is stable. Results: `CompleteIsConsistent` without
hypotheses on the coins; `ChangeIsTracked`, `AmountsAreFresh` and `ChangePaysTheFee` with
the hypotheses their statements name (coins that `from()` knows completely; for the
fee, a client that does not reload); `SerializedIsBalanced`, that a complete
transaction let through by `serialize()` spends what it pays and its fee, when none of the options
that switch a check off is used.

**Signatures** (`SignatureProofs`). `MultiSigNeverOverfull`: no sequence of calls gives a
multisig input more signatures than its threshold. `SignaturesKeepTheirScope`: a signature
stays valid through every step that leaves alone what its type covers, over all methods and all
types, from the lemma that the parts a type covers determine its hash. `LocksAreKept`: no step
that leaves the number of inputs alone makes an effective lock time ineffective. None of the three has a
hypothesis. `SignaturesStayFresh`: with a change address no stale signature is in the
transaction, for a client that `SignsSafely`: its coins are of classes that can clear their
signatures and have their outputs, and it does without `sortOutputs`, `lockUntil` and a
reading from bytes, which clear nothing.

**Clients** (`ClientProofs`). `PaymentsAreAsked` is `AsRequested` of every step, for every
client that `FollowsRequests`: once it uses change addresses it does not call `clearOutputs`,
`removeOutput` in front of the change output, reload or reparse, and it has the outputs of its
coins. The argument counts: `PaymentStep` gives for each method the
payments it leaves, the same with one appended by `addOutput`, without the one at the index by
`removeOutput`, none by `clearOutputs`, and each as often as before by every other method, also
when the call throws half way and when it sorts; `AppendedBag`, `RemovedBag` and `KeptBag` turn
that into the bags of `Payments`.
The invariant behind it, `Located`, is `ChangeStaysLocated`. `ThreeClientsPayments` and
`ThreeClientsRelyOn` state the properties of the run for the clients of `MCClients` and all
bounds, the second for one change script: when a second `change()` with another script throws,
the output still pays the first.

**Store** (`SMLStoreProofs`). `Inv` says that the store and the saved
JSON are well typed, hold at most `MaxDiffs - 1` diffs, and only diffs with true roots: also
those that were refused. From it: `StoreTyped`, `WindowIsBounded`, `AcceptedListsAreTrue`
(whatever was applied half way before, a diff that passes the checks leaves a true list,
since the checks compare the whole list with true roots), and `LookupsAreTrue` for lists that
are replayed, by an argument on the least diff at which the replay could go wrong.
The store as a chain is `LinkInv`: as long as nothing was refused there are lists `L`, the
first the base and the last the current one, each made from the one before by its diff.
It gives `TrueDiffsAreAccepted`, that a true diff which connects is never refused, whatever was
pruned, saved and restored before. Its proof found that `TrueDiff` had said too
little: a true diff deletes only quorums that the earlier block had (deletion comes before
addition) and names only masternodes of the later one; and at least two diffs have to build a store (`MinDiffs`; 16 in the code). `StoreKeepsWindow` is the refinement of
`ListWindow`, under `Climbing`: the window moves by an accepted diff only, and what a restore
gives is the window that was saved, list by list. It needs two more invariants: `SoundInv`, that the base list
can be read back unless a refused diff has been applied to it half way, and that such a
store cannot be restored; and `ViewInv`, that what the window shows of a store is the chain,
whichever lists replaying goes through.

**Verification** (`VerificationProofs`). One inductive invariant for the three modules
together: `LoaderInv` (while somebody compiles the flag is up; only then does anybody wait for
the event), `AwaitInv` (a call that has ended waits for nothing), `WindowInv` (the window
reaches back over the offsets; its heights grow, from which follows where a gap can be),
`QuorumInv` (a check that has come to the second signature
had members that may be valid). From it, for any number of calls, heights and failures:
`VerificationTyped`, `CompiledOnce`, `RejectionsHaveReasons`, `VerifiedQuorumsAreTrue`.

**Networks** (`NetworksProofs`). `NetworksAreFound`: what a key finds is the last network of
the list that has it, and a network of the list is found under every key that no other was ever
added with. The map alone does not tell: the invariant
relates it to the list in both directions (`MapInv`, `FoundInv`) and keeps the list in the order
of addition (`ListInv`). It is stated for `NetworkSpec`; the steps of `Library` leave the registry alone
or are steps of it.

**Interpreter** (`InterpreterProofs`). `Inv` types the machine through each opcode's branch
(`StepRuns`), and counts: the operations up to the place the script has reached are at most
`nOpCount`, and no chunk passed is too long or disabled. So `LimitsAreKept` covers the branches
that are skipped. `InterpreterTyped` and `LimitsAreKept` are for one call on an object
(`MaxCalls = 1`), because `verify()` does not initialize the object before the input's script;
`OutputLimitsAreKept` is what holds without it. All assume `DigestsAreBuffers`: a hash function
gives bytes. That numbers and redeem scripts can be read at all is a proof that
their recursive functions exist (`RecursionExists`).

- `RedeemScriptsAccept`: `HashInv` follows the script of the input, of the output and the redeem
  script, and says of each what it has left; the third is run on the copy of the stack, which the
  proof identifies with the pushes of the input.
- `AddressesAreSpent`: `AddressInv` follows the last push of the input through the five
  chunks of a pay to public key hash output. A push in a conditional counts too: unless it is
  executed the script does not end balanced.
- `LocksAreHeld`: `LockInv`, for all heights, times and ages. The proof showed that `<n>` has
  to be a push (an opcode in its place could leave another number), which `LockedWith` now says.
- `GreedyIsEnough`: the single pass of `OP_CHECKMULTISIG` finds a match exactly if
  some choice of keys in their order exists, for any relation of signing.
  `CastToBoolIsTruth`: a buffer is false exactly if its number is zero.
- `MultisigsInOrder`: that single pass is the verdict of `verify()`. `MultisigInv` follows the
  call through the input's pushes (`SigsRun`), the pushes of the output (`ChecksRun`), the
  opcode (`Decided`) and the end (`Ordered`). What `OP_CHECKMULTISIG` finds on the stack are the
  keys and the signatures from the last to the first (`OrderReverses`); deleting the signatures
  from the script it signs for changes nothing, since no key is one of them; so the pass
  decides (`MatchingDecides`). It is for all numbers of keys an opcode names (up to 16), equal
  keys too, and one call on an object. Premises: both scripts are whole, the output names as many keys and as many
  signatures as there are, and the call is not refused for a limit or an encoding (`Refusals`).
- `MinimalPushesAreShortest`: for data of any length, by the sizes of all ways to push it. Data
  longer than 65535 bytes, which `checkMinimalPush` lets through, has only one way.
- `ScriptsReadBack`: no invariant but the types is needed, since it holds of every script. The
  bytes of the chunks lie one behind the other (`Placed`), a chunk is read back from wherever its
  bytes lie (`ReadsChunk`), and what is read from the end of the script to its beginning is
  the rest of the script (`ReadsThrough`, by a smallest counterexample). The same for words.

## 5. What is not proved, and what is not modelled

Only model-checked:

- `Settles` and `LatestQuorumAccepted`: liveness under fairness is out of reach of the prover;
- `Conditionals` and `Abbreviations`: their reference meanings are recursive operators or
  hold by induction over a script, which is out of reach too;
- the properties of `Library` for the same reason; `NetworksFound` is the exception.

The theorems do not say that the hypotheses on clients are necessary; the runs with
`violation` and the comments in `MCClients` show some that are.

Not modelled, by component:

- *Builder*: coinbase inputs and payloads while the builder is used (as bytes and objects they
  are), amounts that are no safe integers, fractional fees, negative heights, outputs that
  are one object added twice (`_.without` removes both), detached signatures of types other
  than ALL.
- *List and quorums*: selection of masternodes by score, and with it the calculation of the
  members of a quorum (how the check of the members can end is a constant of the call).
- *Verification*: the pairing of BLS (a signature is good or bad), calls with the wrong list or
  for outdated entries, which reject at once and change nothing.
- *Blocks*: difficulty, proof of work and time stamps: arithmetic on 256 bits that no
  other part relies on.
- *Payloads*: signing of a payload, and the checks of JavaScript types, which the
  objects here have by construction.
- *Keys*: multisig addresses (their redeem scripts are in `Scripts`), base 58 itself (a
  bijection), hash functions (constants), random numbers.
- *Tables*: word lists, configuration, error messages.

## 6. Where the code differs from what it says

Shown by runs:

- `tx_half_signed`: `isFullySigned()` asks `_.some`, so one signed input is enough.
- `tx_remove`: `removeOutput()` in front of a change output that sorting has put between two
  payments takes the second payment too.
- `sml_rejected`: a refused diff stays in the store and has changed the current list.
- `sml_restore`: `fromJSON()` loses `merkleRootQuorums`, so a store with quorums in its
  base list cannot be restored.
- `bls_fails`: `isLoading` is never reset when the compilation fails.
- `quorum_signers`: `numberToBitArray` gives a byte as many bits as its highest one needs, so
  every member after such a byte moves up, and `isValidMemberSig` takes others for signers.

Seen while modelling, and modelled as the code has it:

- `hasAllUtxoInfo()` also asks `_.some` (`transaction.js:797-803`).
- `to()` promises to reset signatures, but `_updateChangeOutput` returns early without a change
  script (`transaction.js:988-991`).
- `lockUntil*` before `from` leaves the lock without effect (`transaction.js:551-555`).
- A reload loses a change index 0, a fee 0 and every `feePerKb` (`transaction.js:490-498`).
- An exception in `_getInputAmount` leaves a partial sum in the cache (`transaction.js:974-986`).
- A coin in the format of `listunspent` is not recognized when added twice (`transaction.js:673-679`).
- With an outdated node `applyDiff` returns before it notes the block (`SimplifiedMNList.js:105-108`),
  so the order of later diffs is not checked; a diff that deletes all quorums is not
  checked against the quorum root (line 103).
- `baseBlockHash` of the store is not updated when the base moves; the constructor shifts the
  caller's array.
- A limit below 16 makes the later restore of a store impossible.
- `addAndMaybeRemoveQuorums` never removes.
- Selection of a rotated quorum throws for no or one quorum and can run past the end if their
  number is no power of two (`instantlock.js:371-376`). The test 'should not crash if no quorum
  was found' covers the other selection.
- The third attempt of a ChainLock throws, instead of answering false, if the list 16 blocks back
  is not in the store; the store insists on 16 lists, which is one too few for a lock at the tip.
- `QuorumEntry.verify` never settles if the check of the members throws (line 523), and a check
  that fails overwrites `isVerified` of one that has succeeded (line 532).
- *Scripts.* `findAndDelete` passes over the second of two adjacent matches (`script.js:1079`);
  `prepend` of a script appends it (660); with LOW_S the hash type is not checked
  (`interpreter.js:310`); the stack is measured only when the script has ended (358); `verify()`
  does not initialize the object before it runs the input's script (73).
- *Payloads.* Objects of a ProRegTx leave out its type, mode and the fields of a high
  performance node, those of a ProUpRegTx version and mode, of a ProUpRevTx the version (`Lost`
  in `Library`). An unsigned ProUpServTx or ProUpRevTx is written with one byte for its signature and
  read with a fixed size: the first comes back signed with that byte
  (`proupservtxpayload.js:301` and 127), the second is refused. `collateralIndex` is written
  signed and read unsigned (`proregtxpayload.js:326`), the height of a commitment the other way
  round (`commitmenttxpayload.js:84`). A payload whose payout is not set cannot be shown. The
  size of a signature is doubled where it should be halved, so that it is not checked
  (`proupservtxpayload.js:215`). A ProUpRevTx does not reverse `inputsHash` (`prouprevtxpayload.js:70`).
- *Transactions.* `toObject` drops the type below version 3; `sortOutputs` and
  `shuffleOutputs` keep signatures of the old order (`transaction.js:1141`).
- *Locks.* Whether the bytes of an InstantLock have a version is decided by trying
  (`instantlock.js:136`): one without a version is read as another lock if the last byte of its
  first hash is a number from 1 to one less than its inputs. Heights of ChainLocks and indexes of
  out points are written signed, so the upper half throws. `getSMLbyHeight` throws for a height
  between the base and the first diff (`SimplifiedMNListStore.js:143-147`), although the list at
  the base is the one there.
- *Entries.* Only entries of version 2 can be read from bytes (`SimplifiedMNListEntry.js:154`);
  of a diff below version 2 no entry can. Payout addresses are not written; a port 0 of the
  platform is not shown. The short form of a quorum entry is read without its index
  (`QuorumEntry.js:103`).
- *Networks.* The seeds of testnet are listed by a getter that `add` does not see
  (`networks.js:177-211`, 249-259), so testnet is not found under them, as livenet is under
  its own.
- *Quorums.* The type LLMQ_25_67 asks for 67 of 25 members (`QuorumEntry.js:367`).
- *Merkle blocks.* `MerkleBlock.build` keeps hashes in the order they are shown in
  (`merkleblock.js:80`), so what it builds has to be reversed before it is checked.
- *Keys.* With a hardened short index and a key with a leading zero byte `derive` and
  `deriveChild` differ, as the documentation of the first says; the depth wraps at 256
  (`hdprivatekey.js:587`); a text of a public extended key is accepted as a private one (396); a public key
  read from an object is livenet's (`publickey.js:230`); a network that is removed takes keys
  with it that named another one before it was added (`networks.js:144`).
- *Mnemonics, URIs.* `isValid` throws for a number of words that is no multiple of three
  (`mnemonic.js:134`); words that two lists share are found in the first; an amount of 0 is
  not written into a URI (`uri.js:200`), and `toObject` throws without a message (186).

## 7. The plan

In the order of importance; a run is merged with another when one instance can ask both
questions.

1. Done: the builder with its payments, the store with its window, the
   asynchronous verification; type correctness and the main invariants of the first two.
2. Done: the interpreter; everything that is written and read; networks, keys, HD keys,
   signatures, merkle proofs, mnemonics, governance objects; three clients of the builder in
   one instance.
3. Done: the invariants of the verification; the steps behind the refinements of
   `Payments` and `ListWindow`; stale signatures, scope and lock times; the registry of
   networks; limits, redeem scripts, addresses, locks, multisig and pushes of the interpreter, and the
   round trip of scripts.
   Left: steps of the reference meanings (one OP_IF against its block), and the laws that reading
   and writing of `Encoding` have for one field each.
4. A last pass over the weakest properties: deeper ones in their place, and the
   composition of store and locks at the level of the detailed store.

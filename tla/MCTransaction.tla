--------------------------- MODULE MCTransaction ---------------------------
(* Small instances of the transaction builder.  Sizes are those of the code; *)
(* a kilobyte has 200 bytes so that two inputs cross it, amounts are small.  *)
EXTENDS Transaction

P2PKH(n, amount, key) ==
  [outPoint |-> n, class |-> "PublicKeyHash", satoshis |-> amount, keys |-> {key},
   threshold |-> 1, size |-> 107, format |-> "bitcore"]
P2SH(n, amount, keys, threshold) ==
  [outPoint |-> n, class |-> "MultiSigScriptHash", satoshis |-> amount, keys |-> keys,
   threshold |-> threshold, size |-> 1 + 73 * threshold + 7 + 34 * Cardinality(keys),
   format |-> "bitcore"]
AnyoneCanSpend(n, amount) ==
  [outPoint |-> n, class |-> "Input", satoshis |-> amount, keys |-> {},
   threshold |-> 1, size |-> 41, format |-> "bitcore"]

Out(script, amount) == [script |-> script, satoshis |-> amount]
SigAll == [base |-> "ALL", anyoneCanPay |-> FALSE]
SigSingle == [base |-> "SINGLE", anyoneCanPay |-> FALSE]
SigNoneAnyone == [base |-> "NONE", anyoneCanPay |-> TRUE]

Sizes == [s \in {"alice", "bob", "change", "data"} |->
            CASE s = "bob" -> 32 [] s = "data" -> 12 [] OTHER -> 34]

TwoCoins == {P2PKH(1, 9, "k1"), P2PKH(2, 6, "k2")}
CoinAndMultiSig == {P2PKH(1, 9, "k1"), P2SH(2, 6, {"k1", "k2", "k3"}, 2)}
CoinAndAnyone == {P2PKH(1, 9, "k1"), AnyoneCanSpend(2, 6)}
Unknown(n, key) == [P2PKH(n, 0, key) EXCEPT !.satoshis = Undefined]
CoinAndUnknown == {P2PKH(1, 9, "k1"), Unknown(2, "k1")}
AllCoins == CoinAndMultiSig \cup CoinAndAnyone \cup CoinAndUnknown
OnePayment == {Out("alice", 2)}
AllTypes == {SigAll, SigSingle, SigNoneAnyone}
JustAll == {SigAll}
TwoPayments == {Out("alice", 2), Out("bob", 4)}

\* One client that uses whatever there is
AnyClient ==
  [any |-> [calls |-> Calls, coins |-> Utxos, payments |-> Payments, keys |-> PrivateKeys,
            sigTypes |-> SigTypes, maxOutputs |-> MaxOutputs]]
=============================================================================

--------------------------- MODULE PaymentRequests ----------------------------
(***************************************************************************)
(* lib/unit.js, lib/uri.js and lib/transaction/unspentoutput.js: amounts   *)
(* in the units there are, the URI that asks for one, and the outputs that *)
(* pay.  A number with decimals is a fraction <<numerator, denominator>>;  *)
(* the roundings of floating point arithmetic are left out.                *)
(***************************************************************************)
EXTENDS Keys

CONSTANTS UNITS,        \* by code: how many digits of a satoshi it has
          MAX_TXID      \* the size of a transaction hash

ThrownUnit == -1
Decimals(n, digits) == <<n, 10^digits>>
\* toFixed: half is rounded up
ToFixed(fraction, digits) ==
  (2 * fraction[1] * 10^digits + fraction[2]) \div (2 * fraction[2])

\* _from, and the constructor with a rate
UnitFrom(amount, code) ==
  IF code \notin DOMAIN UNITS THEN ThrownUnit ELSE ToFixed(<<amount[1] * 10^UNITS[code], amount[2]>>, 0)
FromFiat(amount, rate) ==
  IF rate <= 0 THEN ThrownUnit ELSE UnitFrom(<<amount[1], amount[2] * rate>>, "BTC")
\* to, by code and at a rate
UnitTo(satoshis, code) ==
  Decimals(ToFixed(Decimals(satoshis, UNITS[code]), UNITS[code]), UNITS[code])
AtRate(satoshis, rate) ==
  LET btc == UnitTo(satoshis, "BTC")
  IN  IF rate <= 0 THEN <<ThrownUnit, 1>> ELSE Decimals(ToFixed(<<btc[1] * rate, btc[2]>>, 2), 2)
UnitToObject(satoshis) == [amount |-> UnitTo(satoshis, "BTC"), code |-> "BTC"]
UnitFromObject(obj) == UnitFrom(obj.amount, obj.code)

-----------------------------------------------------------------------------
(* URI *)

ThrownURI == [thrown |-> TRUE]
Required == {"req-known", "req-other"}
\* _fromObject: message is null where there is none
URIFromObject(obj, knownParams) ==
  IF \/ AddressFromString(obj["address"], NoNetwork, "") = ThrownKey
     \/ ~(DOMAIN obj \cap Required \subseteq knownParams)
    THEN ThrownURI
  ELSE [name \in DOMAIN obj |-> obj[name]]
\* toObject: a member is written as a text, and one that is null throws
URIToObject(uri) ==
  IF "message" \notin DOMAIN uri THEN ThrownURI ELSE uri

\* (fault) the amount is written as it is kept, in satoshis
URITextSatoshis(uri) ==
  [name \in DOMAIN uri \ {n \in {"amount"} : n \in DOMAIN uri /\ uri[n] = 0} |->
    IF name = "amount" THEN <<uri[name], 1>> ELSE uri[name]]
\* toString: an amount of zero is left out
URIText(uri) ==
  [name \in DOMAIN uri \ {n \in {"amount"} : n \in DOMAIN uri /\ uri[n] = 0} |->
    IF name = "amount" THEN UnitTo(uri[name], "BTC") ELSE uri[name]]
\* The constructor of a text: parse, _parseAmount and _fromObject
URIFromText(text, knownParams) ==
  URIFromObject([name \in DOMAIN text |->
                   IF name = "amount" THEN UnitFrom(text[name], "BTC") ELSE text[name]],
                knownParams)

-----------------------------------------------------------------------------
(* UnspentOutput *)

\* The constructor: both names of three of its fields, the first one first
First(obj, names) ==
  LET i == SelectInSeq(names, LAMBDA name : name \in DOMAIN obj)
  IN  IF i = 0 THEN <<>> ELSE <<obj[names[i]]>>
NewUnspentOutput(data) ==
  LET txId == First(data, <<"txid", "txId">>)
      index == First(data, <<"vout", "outputIndex">>)
      script == First(data, <<"scriptPubKey", "script">>)
      amount == IF "amount" \in DOMAIN data THEN <<UnitFrom(data["amount"], "BTC")>>
                ELSE First(data, <<"satoshis">>)
      address == First(data, <<"address">>)
  IN  IF \/ <<>> \in {txId, index, script, amount}
         \/ Len(txId[1]) > MAX_TXID
         \/ address # <<>> /\ AddressFromString(address[1], NoNetwork, "") = ThrownKey
        THEN ThrownURI
      ELSE [address |-> address, txId |-> txId[1], outputIndex |-> index[1], script |-> script[1],
            satoshis |-> amount[1]]
UnspentOutputToObject(output) ==
  (IF output.address = <<>> THEN <<>> ELSE ("address" :> output.address[1]))
  @@ ("txid" :> output.txId) @@ ("vout" :> output.outputIndex) @@ ("scriptPubKey" :> output.script)
  @@ ("amount" :> UnitTo(output.satoshis, "BTC"))
=============================================================================

------------------------------ MODULE MCClients -------------------------------
(***************************************************************************)
(* Three clients of the transaction builder, each with the coins it has    *)
(* and the methods it uses; a behaviour is one of them at work.  One only  *)
(* pays, with a coin whose class cannot clear its signatures, so that      *)
(* methods throw half way.  One signs with three keys for a two of three   *)
(* input and passes a signature on.  One chooses what its signatures cover *)
(* and a lock time.                                                        *)
(***************************************************************************)
EXTENDS MCTransaction

PayingCalls ==
  {"from", "addInput", "removeInput", "fee", "change", "addOutput", "removeLaterOutput", "sortOutputs",
   "sort", "sortInputs", "getFee", "inputAmount", "sign", "serialize"}
SigningCalls ==
  {"from", "change", "addOutput", "sign", "getSignatures", "applySignature", "sortInputs", "reload",
   "removeInput"}
ScopingCalls ==
  {"from", "uncheckedAddInput", "addOutput", "sign", "lockUntil", "removeInput", "sort", "removeOutput",
   "clearOutputs", "reload", "reparse"}

ThreeClients ==
  [paying |-> [calls |-> PayingCalls, coins |-> CoinAndAnyone, payments |-> TwoPayments,
               keys |-> {"k1"}, sigTypes |-> JustAll, maxOutputs |-> 2],
   signing |-> [calls |-> SigningCalls, coins |-> CoinAndMultiSig, payments |-> OnePayment,
                keys |-> {"k1", "k2", "k3"}, sigTypes |-> JustAll, maxOutputs |-> 1],
   scoping |-> [calls |-> ScopingCalls, coins |-> CoinAndUnknown, payments |-> TwoPayments,
                keys |-> {"k1"}, sigTypes |-> AllTypes, maxOutputs |-> 2]]
AllCalls == PayingCalls \cup SigningCalls \cup ScopingCalls

-----------------------------------------------------------------------------

\* What is owed beside the change
Owed == BagOf(PaymentOutputs(tx))
Promise == INSTANCE Payments WITH owed <- Owed

\* The payments change by what the method was asked for, and by no other method.
AsRequested ==
  /\ \A o \in Payments : AddOutput(o) => Promise!Pay(o)
  /\ \A i \in 1 .. MaxOutputs + 1 :
       RemoveOutput(i) \/ RemoveLaterOutput(i) =>
         IF i \in DOMAIN tx.outputs THEN Promise!TakeBack(tx.outputs[i]) ELSE Promise!Keep
  /\ ClearOutputs => Promise!Clear
  /\ ~Promise!Keep => ~OtherCall

(* The payments follow the client's requests only: addOutput adds the payment
   it was given and nothing else, removeOutput takes the one at its index,
   clearOutputs takes all, and every other method leaves each payment as often
   as it was there, also where it throws half way and where sorting or a round
   trip moves the outputs.  A client that reloads a transaction with a change
   output in the first place finds it among its payments, so the signing one
   is left out. *)
PaymentsFollowRequests == [][client # "signing" => AsRequested]_vars

(* What each client relies on.  The paying one: the change index names an
   output that pays the change script, also after a method threw half way.
   The others: late signatures, reloads and changed inputs leave no stale
   signature in a transaction with a change address; the paying client cannot
   rely on that, since it sorts outputs after signing, which clears nothing. *)
ReliedOn == IF client = "paying" THEN ChangeOutputTracked ELSE SignaturesFresh
=============================================================================

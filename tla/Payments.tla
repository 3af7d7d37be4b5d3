------------------------------ MODULE Payments ------------------------------
(***************************************************************************)
(* What a transaction under construction owes its client: a bag of         *)
(* payments, and what each request of the client does to it.  Changing it  *)
(* takes a request: the change output, fees, sorting, signing and          *)
(* (de)serialization leave it as it is.                                    *)
(***************************************************************************)
EXTENDS Integers

VARIABLE owed            \* how many times each payment is owed

Count(o) == IF o \in DOMAIN owed THEN owed[o] ELSE 0

\* owed after the count of o has changed by n; a count of 0 leaves the bag
Adjusted(o, n) ==
  [p \in {q \in DOMAIN owed \cup {o} : q # o \/ Count(o) + n > 0} |->
     IF p = o THEN Count(o) + n ELSE owed[p]]

Pay(o) == owed' = Adjusted(o, 1)

TakeBack(o) == Count(o) > 0 /\ owed' = Adjusted(o, -1)

Clear == owed' = <<>>

Keep == UNCHANGED owed
=============================================================================

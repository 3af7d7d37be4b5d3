-------------------------------- MODULE Sums --------------------------------
(***************************************************************************)
(* Totals and rearrangements of sequences.  The total is the loop of       *)
(* _getOutputAmount and _getInputAmount, which add the satoshis of every   *)
(* element in order; it is a recursive function over prefixes, the form    *)
(* SumsProofs can reason about.                                            *)
(***************************************************************************)
EXTENDS Integers, Sequences, SequencesExt

\* The sum of a sequence of integers.
SumSeq(s) ==
  LET total[i \in 0 .. Len(s)] == IF i = 0 THEN 0 ELSE total[i - 1] + s[i]
  IN  total[Len(s)]

\* The ways to reorder n elements, and a sequence so reordered
Orders(n) == Bijection(1 .. n, 1 .. n)
Reorder(s, p) == [i \in DOMAIN s |-> s[p[i]]]
=============================================================================

----------------------------- MODULE ListWindow -----------------------------
(***************************************************************************)
(* What a masternode list store promises: the lists of the latest blocks,  *)
(* at most Size of them, oldest first, each of them true.  A new block     *)
(* goes to the end; the oldest list is forgotten when there is no room.    *)
(* A list, while it is in the window, never changes.  A window that was    *)
(* saved comes back as it was or not at all; only where nothing is saved   *)
(* another one can be opened.                                              *)
(***************************************************************************)
EXTENDS Integers, Sequences

CONSTANTS Lists,      \* the true lists, each with its height
          Size,       \* the lists a window can hold
          None        \* no window

VARIABLES window, saved

Init == window = None /\ saved = None

\* Heights only grow along a window.
IsWindow(w) == /\ w \in Seq(Lists)
               /\ Len(w) \in 1 .. Size
               /\ \A i \in 2 .. Len(w) : w[i - 1].height < w[i].height

Open == /\ window = None
        /\ saved = None
        /\ IsWindow(window')
        /\ UNCHANGED saved

Latest(w) == IF Len(w) > Size THEN Tail(w) ELSE w

Extend == /\ window # None
          /\ IsWindow(window')
          /\ window' = Latest(Append(window, window'[Len(window')]))
          /\ UNCHANGED saved

Close == /\ window # None
         /\ saved' = window
         /\ window' = None

\* By a crash or a refusal
Lose == /\ window # None
        /\ window' = None
        /\ UNCHANGED saved

Restore == /\ window = None
           /\ saved # None
           /\ window' = saved
           /\ saved' = None

\* What was saved cannot be read back.
Discard == /\ window = None
           /\ saved # None
           /\ saved' = None
           /\ UNCHANGED window

Next == Open \/ Extend \/ Close \/ Lose \/ Restore \/ Discard

Spec == Init /\ [][Next]_<<window, saved>>
=============================================================================

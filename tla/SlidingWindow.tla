--------------------------- MODULE SlidingWindow ---------------------------
(***************************************************************************)
(* What the size statistics of core/src/binary/sizeStats.ts promise about  *)
(* each method: the sizes they remember are the most recent ones, in the   *)
(* order they arrived, and no more than the window holds.  History may be  *)
(* forgotten as a whole at any time, never in part and never reordered.    *)
(***************************************************************************)
EXTENDS Naturals, Sequences

CONSTANTS Keys, Bytes, Longest

VARIABLE window  \* method -> the sizes remembered, oldest first

WindowInit == window = [k \in Keys |-> << >>]

\* What may be remembered after one more observation.
Slid(w, bytes) ==
  {Append(w, bytes), <<bytes>>} \cup (IF w = << >> THEN {} ELSE {Append(Tail(w), bytes)})

Observe(k, bytes) ==
  \E w \in Slid(window[k], bytes), forgotten \in SUBSET (Keys \ {k}) :
    /\ Len(w) <= Longest
    /\ window' = [q \in Keys |-> IF q = k THEN w ELSE IF q \in forgotten THEN << >> ELSE window[q]]

ForgetAll == window' = [k \in Keys |-> << >>]

WindowNext == (\E k \in Keys, bytes \in Bytes : Observe(k, bytes)) \/ ForgetAll

WindowSpec == WindowInit /\ [][WindowNext]_window
=============================================================================

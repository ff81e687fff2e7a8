-------------------------------- MODULE Runs --------------------------------
(***************************************************************************)
(* Audio is modelled by the positions of its sample frames in the source:  *)
(* a buffer is the sequence of the positions of the frames it holds, so    *)
(* that a lost, duplicated or reordered frame shows.  A gapless piece of   *)
(* audio is a run of consecutive positions.                                *)
(***************************************************************************)
EXTENDS Integers, Sequences

\* The n consecutive positions from a.
Run(a, n) == [i \in 1..n |-> a + i - 1]

Smaller(a, b) == IF a <= b THEN a ELSE b
Larger(a, b) == IF a >= b THEN a ELSE b

\* What remains of s when its first n elements are gone.
Dropped(s, n) == SubSeq(s, n + 1, Len(s))
=============================================================================

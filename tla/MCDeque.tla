------------------------------ MODULE MCDeque ------------------------------
(* The deque with one owner and two thieves, for TLC. *)
EXTENDS Deque, TLC

\* Thieves run the same code, and a task is only ever compared for equality.
Symmetry == Permutations(Thieves) \cup Permutations(Tasks)
=============================================================================

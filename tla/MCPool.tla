------------------------------ MODULE MCPool -------------------------------
(***************************************************************************)
(* Small pools for TLC.  The sizes of the structures are those of a 64 bit *)
(* build; the pool itself is small so that blocks fill up.                 *)
(***************************************************************************)
EXTENDS Pool, TLC

Symmetry == Permutations(Arrays)

=============================================================================

------------------------- MODULE MCTemporalActivity -------------------------
(***************************************************************************)
(* TemporalActivity on a small instance: every scope and cache key, a     *)
(* body of two atomic calls, up to three attempts in two processes.        *)
(***************************************************************************)
EXTENDS TemporalActivity, TLC

Symmetry == Permutations(Processes)
AllSetups == [scope : {"logic", "inner", "whole"}, key : {"none", "hash", "own"}]
=============================================================================

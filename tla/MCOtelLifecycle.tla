-------------------------- MODULE MCOtelLifecycle --------------------------
(***************************************************************************)
(* OtelLifecycle on small instances: a process, a child and a grandchild.  *)
(***************************************************************************)
EXTENDS OtelLifecycle, TLC

Symmetry == Permutations(Threads)
=============================================================================

------------------------ MODULE MCAtomicTransaction ------------------------
(***************************************************************************)
(* AtomicTransaction on small instances.  The pool of sessions is large    *)
(* enough that get_session() always finds a new one: every call on the     *)
(* stack of every scope may hold its own, and the registry one more.       *)
(***************************************************************************)
EXTENDS AtomicTransaction, TLC

Symmetry == Permutations(Scopes) \cup Permutations(Writes)
=============================================================================

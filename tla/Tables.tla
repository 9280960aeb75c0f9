------------------------------- MODULE Tables -------------------------------
(***************************************************************************)
(* Tables of operations are functions from names.  f ++ g is the operator  *)
(* @@ of module TLC, by a definition that proofs can expand.               *)
(***************************************************************************)
f ++ g == [o \in DOMAIN f \cup DOMAIN g |-> IF o \in DOMAIN f THEN f[o] ELSE g[o]]

\* One table of several that have no name in common.
Joined(tables) == [o \in UNION {DOMAIN t : t \in tables} |->
                      (CHOOSE t \in tables : o \in DOMAIN t)[o]]
=============================================================================

-------------------------- MODULE MCGrpcRateLimit --------------------------
(***************************************************************************)
(* GrpcRateLimit on small instances: a burst window stacked on a sustained *)
(* one, as in the scenarios of features/grpc_rate_limit.feature.           *)
(***************************************************************************)
EXTENDS GrpcRateLimit, TLC

MCWindows == <<[calls |-> 1, ms |-> 1], [calls |-> 2, ms |-> 3]>>
AllConfigs == [failClosed : BOOLEAN, async : BOOLEAN]
Symmetry == Permutations(Rpcs) \cup Permutations(Callers)
=============================================================================

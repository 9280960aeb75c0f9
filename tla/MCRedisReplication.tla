------------------------- MODULE MCRedisReplication -------------------------
(***************************************************************************)
(* RedisReplication on a small instance: a primary and two replicas.       *)
(***************************************************************************)
EXTENDS RedisReplication, RedisPorts, TLC

Symmetry == Permutations(Callers) \cup Permutations(Servers)
=============================================================================

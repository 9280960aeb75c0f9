----------------------------- MODULE MCTtlCache -----------------------------
(***************************************************************************)
(* TtlCache under two Keycloak methods: a cache of one entry, which all    *)
(* its writes forget, and a large one, which some of them clear.           *)
(***************************************************************************)
EXTENDS TtlCache, AdapterPorts, TLC

CONSTANTS a1, a2

MCReads == {"get_realm_role", "get_user_roles"}
MCMaxVersion == [get_realm_role |-> 1, get_user_roles |-> 2]
MCKeys == {<<"get_realm_role", a1>>, <<"get_realm_role", a2>>, <<"get_user_roles", a1>>}
MCOps == [delete_realm_role |-> delete_realm_role, delete_user |-> delete_user]

Symmetry == Permutations(Threads)

\* Whatever the ports of MinIO and Vault offer is cached, a write or asked anew.
ASSUME PortsCovered ==
    /\ DOMAIN MinioReads \cup DOMAIN MinioWrites \cup Downloads \cup Presigned \cup TagReads
       \cup LifecycleReads = MinioPort
    /\ DOMAIN VaultReads \cup DOMAIN VaultWrites \cup Leases \cup Transit = VaultPort
=============================================================================

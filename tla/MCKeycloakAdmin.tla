-------------------------- MODULE MCKeycloakAdmin --------------------------
EXTENDS KeycloakAdmin, KeycloakPorts, TLC

CONSTANTS p1, p2

SomeCallers == {p1, p2}
Symmetry == Permutations(SomeCallers)
=============================================================================

------------------------- MODULE MCManagerRegistry -------------------------
(***************************************************************************)
(* ManagerRegistry on small instances.                                     *)
(***************************************************************************)
CONSTANTS Threads, Registries, Unchecked, Base, Customs, None, Unset, MaxFailures

VARIABLES slot, instances, lock, at, reg, obj, got, built, failures, cleared, outrun

R == INSTANCE ManagerRegistry WITH pc <- at

ASSUME RegistryAssumption == R!ConstantsFit

RegistrySpec == R!FairSpec

\* The slots, the instances and the calls of the getters have their types.
RegistryType == R!TypeOK

\* There is one default manager per database, and it goes to callers of its own.
OneManager == R!OneManager

\* Every call of a getter ends.
Served == R!Served

\* A manager set by hand is replaced only by a call that found none before.
CustomKept == R!CustomKept
=============================================================================

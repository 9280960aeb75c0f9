------------------------- MODULE MCTemporalWorkers -------------------------
(***************************************************************************)
(* TemporalWorkers on a small instance.                                    *)
(***************************************************************************)
EXTENDS AdapterPorts

CONSTANTS Callers, MaxWorkers, MaxCallsEach

VARIABLES grace, client, made, state, signalled, running, workers, pc, op, target, queue, failed,
          callsMade, asked, outcome

W == INSTANCE TemporalWorkers WITH MaxCalls <- MaxCallsEach, calls <- callsMade

ASSUME WorkersAssumption == W!ConstantsFit

\* The operations of the adapter are those of its port.
ASSUME PortCovered == W!Uses \cup {"close"} = TemporalPort

WorkersSpec == W!Spec

\* The workers, the manager and its calls have their types.
WorkersType == W!TypeOK

\* A worker that is not listed was told to shut down, if the settings leave it time;
\* one whose handle says that it does not run is done.
NoneForgotten == W!NoneForgotten

\* A shutdown that was not cancelled has told every worker of its snapshot, or says
\* that it failed to.
ShutdownReachesAll == W!ShutdownReachesAll

\* Nobody waits for ever, but for the result of a workflow.
StopEnds == W!StopEnds
=============================================================================

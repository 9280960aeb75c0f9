-------------------------- MODULE TemporalWorkers --------------------------
(***************************************************************************)
(* TemporalWorkerManager: starting and stopping workers from several tasks *)
(* of one event loop, over the client of one TemporalAdapter, which other  *)
(* calls of the adapter make, use and give up meanwhile.                   *)
(*                                                                         *)
(* A task gives way to others only where it awaits: while the client       *)
(* connects, and while it waits for a worker to shut down.  What it does   *)
(* between two awaits is one step here.                                    *)
(*                                                                         *)
(* The Worker of temporalio is external: run() is started as a background  *)
(* task that nothing awaits; it ends when it was told to shut down and has *)
(* drained, or when polling fails; shutdown() sets an event and waits for  *)
(* run() to set another, which it never does if it failed before polling.  *)
(* A grace period of 0 makes wait_for() cancel shutdown() before it starts *)
(* and give up: the worker is not told anything.                           *)
(***************************************************************************)
EXTENDS Integers, FiniteSets, FiniteSetsExt

CONSTANTS Callers,      \* asyncio tasks that use the manager
          MaxWorkers,   \* bound: workers made
          MaxCalls      \* bound: calls of each task

\* What is assumed of the constants.
ConstantsFit == MaxWorkers \in Nat /\ MaxCalls \in Nat

Workers == 1..MaxWorkers
NoWorker == 0

VARIABLES grace,       \* WORKER_GRACEFUL_SHUTDOWN_SECONDS is positive, fixed
          client,      \* the adapter holds a client
          made,        \* workers made so far; numbers are their identities
          state,       \* worker -> "none", "new", "polling", "done" or "dead"
          signalled,   \* worker -> it was told to shut down
          running,     \* worker -> _running of its handle
          workers,     \* the manager's _workers
          pc,          \* caller -> "idle", "connect", "using" or "stopping"
          op,          \* caller -> the operation of its last call
          target,      \* caller -> the worker it waits for
          queue,       \* caller -> workers of its snapshot still to be stopped
          failed,      \* caller -> a worker of its snapshot failed to stop
          calls,       \* caller -> calls made
          asked,       \* history: caller -> the snapshot of its last shutdown
          outcome      \* history: caller -> how its last call ended

callState == <<pc, op, target, queue, failed, calls, asked, outcome>>
vars == <<grace, client, made, state, signalled, running, workers, callState>>

TypeOK == /\ grace \in BOOLEAN /\ client \in BOOLEAN
          /\ made \in 0..MaxWorkers
          /\ state \in [Workers -> {"none", "new", "polling", "done", "dead"}]
          /\ signalled \in [Workers -> BOOLEAN]
          /\ running \in [Workers -> BOOLEAN]
          /\ workers \in SUBSET (1..made)
          /\ pc \in [Callers -> {"idle", "connect", "using", "stopping"}]
          /\ op \in [Callers -> {"none", "use", "close_adapter", "start", "handle", "stop",
                                 "hurry", "shutdown", "close"}]
          /\ target \in [Callers -> Workers \cup {NoWorker}]
          /\ queue \in [Callers -> SUBSET Workers]
          /\ failed \in [Callers -> BOOLEAN]
          /\ calls \in [Callers -> 0..MaxCalls]
          /\ asked \in [Callers -> SUBSET Workers]
          /\ outcome \in [Callers -> {"none", "ok", "error", "cancelled"}]

Init == /\ grace \in BOOLEAN
        /\ client = FALSE
        /\ made = 0
        /\ state = [w \in Workers |-> "none"]
        /\ signalled = [w \in Workers |-> FALSE]
        /\ running = [w \in Workers |-> FALSE]
        /\ workers = {}
        /\ pc = [c \in Callers |-> "idle"]
        /\ op = [c \in Callers |-> "none"]
        /\ target = [c \in Callers |-> NoWorker]
        /\ queue = [c \in Callers |-> {}]
        /\ failed = [c \in Callers |-> FALSE]
        /\ calls = [c \in Callers |-> 0]
        /\ asked = [c \in Callers |-> {}]
        /\ outcome = [c \in Callers |-> "none"]

-----------------------------------------------------------------------------
Begin(c, o) == /\ pc[c] = "idle"
               /\ calls[c] < MaxCalls
               /\ calls' = [calls EXCEPT ![c] = @ + 1]
               /\ op' = [op EXCEPT ![c] = o]

End(c, how) == /\ pc' = [pc EXCEPT ![c] = "idle"]
               /\ outcome' = [outcome EXCEPT ![c] = how]
               /\ target' = [target EXCEPT ![c] = NoWorker]
               /\ queue' = [queue EXCEPT ![c] = {}]
               /\ failed' = [failed EXCEPT ![c] = FALSE]

-----------------------------------------------------------------------------
\* The operations of the adapter.  Each takes the client, connects if there is none,
\* and makes its request with it; workflows are started, waited for, looked up and
\* addressed, schedules are kept.
Starts == {"start_workflow", "execute_workflow"}
Handles == {"get_workflow_handle", "cancel_workflow", "terminate_workflow", "signal_workflow",
            "query_workflow"}
Views == {"list_workflows", "describe_workflow"}
Schedules == {"create_schedule", "stop_schedule"}
Uses == Starts \cup Handles \cup Views \cup Schedules

CallUse(c) ==
    /\ Uses # {}
    /\ Begin(c, "use")
    /\ pc' = [pc EXCEPT ![c] = IF client THEN "using" ELSE "connect"]
    /\ UNCHANGED <<grace, client, made, state, signalled, running, workers, target, queue, failed,
                   asked, outcome>>

\* The answer or an error; execute_workflow() has none until the workflow ends.
Answered(c) ==
    /\ pc[c] = "using"
    /\ \E how \in {"ok", "error"} : End(c, how)
    /\ UNCHANGED <<grace, client, made, state, signalled, running, workers, op, calls, asked>>

\* TemporalAdapter.close() gives up the client, also one that is being used.
CallClose(c) ==
    /\ Begin(c, "close_adapter")
    /\ client' = FALSE
    /\ End(c, "ok")
    /\ UNCHANGED <<grace, made, state, signalled, running, workers, asked>>

-----------------------------------------------------------------------------
\* start_worker()

\* Mutant: the handle is registered under another identity than its worker's.
MakeWorkerMisnamed(c) ==
    /\ made < MaxWorkers
    /\ made' = made + 1
    /\ state' = [state EXCEPT ![made + 1] = "new"]
    /\ running' = [running EXCEPT ![made + 1] = TRUE]
    /\ workers' = workers \cup {made + 2}
    /\ End(c, "ok")
\* Worker() may refuse its settings.  Otherwise the handle starts run() in the
\* background, says that it is running, and is registered.
MakeWorker(c) ==
    \/ /\ End(c, "error")
       /\ UNCHANGED <<made, state, running, workers>>
    \/ /\ made < MaxWorkers
       /\ made' = made + 1
       /\ state' = [state EXCEPT ![made + 1] = "new"]
       /\ running' = [running EXCEPT ![made + 1] = TRUE]
       /\ workers' = workers \cup {made + 1}
       /\ End(c, "ok")

CallStart(c) ==
    /\ Begin(c, "start")
    /\ IF client THEN MakeWorker(c)
       ELSE /\ pc' = [pc EXCEPT ![c] = "connect"]
            /\ UNCHANGED <<made, state, running, workers, target, queue, failed, outcome>>
    /\ UNCHANGED <<grace, client, signalled, asked>>

\* get_client(): Client.connect() answers and the call goes on.  Another task may have connected, or
\* closed the adapter, in the meantime.
Connected(c) ==
    /\ pc[c] = "connect"
    /\ client' = TRUE
    /\ IF op[c] = "start" THEN MakeWorker(c)
       ELSE /\ pc' = [pc EXCEPT ![c] = "using"]
            /\ UNCHANGED <<made, state, running, workers, target, queue, failed, outcome>>
    /\ UNCHANGED <<grace, signalled, op, calls, asked>>

ConnectFails(c) ==
    /\ pc[c] = "connect"
    /\ End(c, "error")
    /\ UNCHANGED <<grace, client, made, state, signalled, running, workers, op, calls, asked>>

-----------------------------------------------------------------------------
\* Stopping

\* WorkerHandle.stop() waits at all: stop(grace_period) may be called with any
\* period by the owner of the handle, the manager leaves it to the settings.
Patient(c) == op[c] = "handle" \/ (grace /\ op[c] # "hurry")

\* The end of a call that stops workers.  close() closes the adapter only if
\* shutdown_all_workers() did not raise.
EndStop(c, o, err) ==
    /\ End(c, IF err THEN "error" ELSE "ok")
    /\ client' = (client /\ (o # "close" \/ err))

\* Mutants: the loop ends with the first error; the registry is emptied at the
\* end of any call.
AdvanceAbort(c, o, rest, ws, run, err) ==
    IF err \/ {w \in rest \cap ws : run[w]} = {}
    THEN EndStop(c, o, err) /\ workers' = ws /\ UNCHANGED signalled
    ELSE LET t == Min({w \in rest \cap ws : run[w]}) IN
         /\ workers' = ws \ {w \in rest : w < t}
         /\ signalled' = [signalled EXCEPT ![t] = @ \/ grace]
         /\ target' = [target EXCEPT ![c] = t]
         /\ queue' = [queue EXCEPT ![c] = {w \in rest : w > t}]
         /\ failed' = [failed EXCEPT ![c] = err]
         /\ pc' = [pc EXCEPT ![c] = "stopping"]
         /\ UNCHANGED <<client, outcome>>
AdvanceClear(c, o, rest, ws, run, err) ==
    LET busy == {w \in rest \cap ws : run[w]} IN
    IF busy = {}
    THEN EndStop(c, o, err) /\ workers' = {} /\ UNCHANGED signalled
    ELSE LET t == Min(busy) IN
         /\ workers' = ws \ {w \in rest : w < t}
         /\ signalled' = [signalled EXCEPT ![t] = @ \/ grace]
         /\ target' = [target EXCEPT ![c] = t]
         /\ queue' = [queue EXCEPT ![c] = {w \in rest : w > t}]
         /\ failed' = [failed EXCEPT ![c] = err]
         /\ pc' = [pc EXCEPT ![c] = "stopping"]
         /\ UNCHANGED <<client, outcome>>

\* The workers in rest are next to be stopped, in the order they were started;
\* ws and run are the registry and the handles by now.  stop_worker() passes
\* over those that are not registered, removes those that do not run, tells the
\* first other one to shut down, if the settings leave it time, and waits for it.
Advance(c, o, rest, ws, run, err) ==
    LET busy == {w \in rest \cap ws : run[w]} IN
    IF busy = {}
    THEN EndStop(c, o, err) /\ workers' = ws \ rest /\ UNCHANGED signalled
    ELSE LET t == Min(busy) IN
         /\ workers' = ws \ {w \in rest : w < t}
         /\ signalled' = [signalled EXCEPT ![t] = @ \/ grace]
         /\ target' = [target EXCEPT ![c] = t]
         /\ queue' = [queue EXCEPT ![c] = {w \in rest : w > t}]
         /\ failed' = [failed EXCEPT ![c] = err]
         /\ pc' = [pc EXCEPT ![c] = "stopping"]
         /\ UNCHANGED <<client, outcome>>

CallStop(c, w) ==
    /\ w <= made
    /\ Begin(c, "stop")
    /\ Advance(c, "stop", {w}, workers, running, FALSE)
    /\ UNCHANGED <<grace, made, state, running, asked>>

\* shutdown_all_workers(), alone or from close(): a snapshot of the registry.
CallShutdown(c, o) ==
    /\ o \in {"shutdown", "close"}
    /\ Begin(c, o)
    /\ asked' = [asked EXCEPT ![c] = workers]
    /\ Advance(c, o, workers, workers, running, FALSE)
    /\ UNCHANGED <<grace, made, state, running>>

\* WorkerHandle.stop(), called by its owner and not through the manager, with a
\* grace period ("handle") or with none ("hurry").
CallHandleStop(c, w, o) ==
    /\ w <= made
    /\ Begin(c, o)
    /\ IF running[w]
       THEN /\ signalled' = [signalled EXCEPT ![w] = @ \/ o = "handle"]
            /\ target' = [target EXCEPT ![c] = w]
            /\ pc' = [pc EXCEPT ![c] = "stopping"]
            /\ UNCHANGED <<queue, failed, outcome>>
       ELSE End(c, "ok") /\ UNCHANGED signalled
    /\ UNCHANGED <<grace, client, made, state, running, workers, asked>>

\* The wait for a worker is over, without (late = FALSE) or with an error.  The
\* registry loses the worker in either case.  Removing it raises KeyError if
\* another task removed it first.
Resume(c, run, late) ==
    IF op[c] \in {"handle", "hurry"}
    THEN End(c, IF late THEN "error" ELSE "ok") /\ UNCHANGED <<client, workers, signalled>>
    ELSE Advance(c, op[c], queue[c], workers \ {target[c]}, run,
                 failed[c] \/ late \/ target[c] \notin workers)

\* shutdown() returned within the grace period.
Stopped(c) ==
    /\ pc[c] = "stopping"
    /\ Patient(c)
    /\ state[target[c]] = "done"
    /\ running' = [running EXCEPT ![target[c]] = FALSE]
    /\ Resume(c, running', FALSE)
    /\ UNCHANGED <<grace, made, state, op, calls, asked>>

\* Mutants: no deadline; a handle that was given up says it stopped.
NeverTimesOut(c) == FALSE /\ UNCHANGED vars
TimesOutStopped(c) ==
    /\ pc[c] = "stopping"
    /\ running' = [running EXCEPT ![target[c]] = FALSE]
    /\ Resume(c, running', TRUE)
    /\ UNCHANGED <<grace, made, state, op, calls, asked>>
\* The grace period is over, or there was none: wait_for() gives up, the handle
\* keeps _running.
TimesOut(c) ==
    /\ pc[c] = "stopping"
    /\ Resume(c, running, TRUE)
    /\ UNCHANGED <<grace, made, state, running, op, calls, asked>>

\* The calling task is cancelled while it waits; no except clause matches.
Cancelled(c) ==
    /\ pc[c] \in {"connect", "using", "stopping"}
    /\ End(c, "cancelled")
    /\ UNCHANGED <<grace, client, made, state, signalled, running, workers, op, calls, asked>>

-----------------------------------------------------------------------------
\* The workers

\* run() validates its namespace and polls, or fails before it does.
Run(w) == /\ state[w] = "new"
          /\ \E s \in {"polling", "dead"} : state' = [state EXCEPT ![w] = s]
          /\ UNCHANGED <<grace, client, made, signalled, running, workers, callState>>

\* Polling fails for good: run() cleans up and raises into nobody's hands.
PollFails(w) == /\ state[w] = "polling"
                /\ state' = [state EXCEPT ![w] = "done"]
                /\ UNCHANGED <<grace, client, made, signalled, running, workers, callState>>

\* A worker that was told to shut down has drained.
Drain(w) == /\ state[w] = "polling"
            /\ signalled[w]
            /\ state' = [state EXCEPT ![w] = "done"]
            /\ UNCHANGED <<grace, client, made, signalled, running, workers, callState>>

Next == \/ \E c \in Callers :
             \/ CallUse(c) \/ Answered(c) \/ CallClose(c)
             \/ CallStart(c) \/ Connected(c) \/ ConnectFails(c)
             \/ \E o \in {"shutdown", "close"} : CallShutdown(c, o)
             \/ \E w \in Workers :
                   \/ CallStop(c, w)
                   \/ \E o \in {"handle", "hurry"} : CallHandleStop(c, w, o)
             \/ Stopped(c) \/ TimesOut(c) \/ Cancelled(c)
        \/ \E w \in Workers : Run(w) \/ PollFails(w) \/ Drain(w)

\* Deadlines pass, connections are answered, background tasks go on.
Fairness == /\ \A c \in Callers : WF_vars(Connected(c) \/ ConnectFails(c))
            /\ \A c \in Callers : WF_vars(Stopped(c) \/ TimesOut(c))
            /\ \A w \in Workers : WF_vars(Run(w)) /\ WF_vars(Drain(w))

Spec == Init /\ [][Next]_vars /\ Fairness

-----------------------------------------------------------------------------
\* Properties

Made == 1..made

\* No worker is forgotten: one that the manager no longer lists was told to
\* shut down, whatever timed out, was cancelled, raced or started meanwhile, and
\* however its owner stopped it besides.  Not so if the settings leave workers no
\* time at all.  And a handle that says its worker does not run is right, although
\* it learns nothing of the background task.  (One that says it runs may be wrong.)
NoneForgotten == /\ grace => \A w \in Made \ workers : signalled[w]
                 /\ \A w \in Made : ~running[w] => state[w] = "done"

\* "Close the worker manager and all managed workers": a shutdown that was not
\* cancelled leaves none of its snapshot in the registry, and has told every worker of
\* it, also when some of them failed to stop and when another task was stopping the
\* same ones.  If the settings leave workers no time it tells none of them, but then
\* it does not return as if it had.
ShutdownReachesAll ==
    \A c \in Callers : pc[c] = "idle" /\ op[c] \in {"shutdown", "close"}
                          /\ outcome[c] # "cancelled" =>
        /\ asked[c] \cap workers = {}
        /\ grace \/ outcome[c] = "ok" => \A w \in asked[c] : signalled[w]

\* Nobody waits for ever, but for the result of a workflow: not for a client, nor for
\* a worker whose run() failed before it polled and that never completes its shutdown.
StopEnds == \A c \in Callers : pc[c] \in {"connect", "stopping"} ~>
                                   pc[c] = "idle" \/ pc[c] = "using"
=============================================================================

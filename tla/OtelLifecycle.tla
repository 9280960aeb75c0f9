--------------------------- MODULE OtelLifecycle ---------------------------
(***************************************************************************)
(* OtelUtils: who builds, publishes, adopts and shuts down the tracer,     *)
(* meter and logger providers of a process, and what a fork does to it.    *)
(*                                                                         *)
(* Threads enter init_otel_if_needed() on every traced call; other         *)
(* libraries set OpenTelemetry's globals, which can be set once, between   *)
(* any two steps of it.  A fork copies everything but the threads: not the *)
(* holder of the lock, not the thread behind the handle of the scrape      *)
(* server or push loop.  The two processes share nothing afterwards, so    *)
(* the model follows one of them: either the fork is not seen (parent) or  *)
(* it is the step Fork (child).                                            *)
(*                                                                         *)
(* The scrape server ends before its handle is dropped.  The push loop is  *)
(* told to stop and joined for two seconds: one that hangs in a push is    *)
(* still there when the next initialization starts another.                *)
(*                                                                         *)
(* Providers are known by their address, as in the code.  What they export,*)
(* the textmap propagator and the instrumentation of installed libraries   *)
(* decide nothing here and are left out.                                   *)
(***************************************************************************)
EXTENDS Naturals

CONSTANTS Threads,    \* the threads that call the library
          Addresses,  \* where provider objects may live
          None,
          Foreign,    \* another library
          Ghost,      \* the lock's holder, left behind in the parent
          Enabled,    \* the signals switched on in BaseConfig.OTEL
          Exporters,  \* values of METRICS_EXPORTER: "otlp", "pull", "pushgateway"
          MaxForks,   \* bound on the generations of processes
          Faults      \* "build": an exporter cannot be built; "import": a package
                      \* is missing; "reuse": an address is used again;
                      \* "fork_in_init": a fork while another thread initializes

Signals == {"trace", "metric", "log"}
Pids == 0..MaxForks

ASSUME ConstantsAssumption == /\ Addresses \subseteq Nat
                              /\ Enabled \subseteq Signals /\ Enabled # {}
                              /\ MaxForks \in Nat
                              /\ None \notin Pids \cup Threads \cup Addresses \cup {Foreign}
                              /\ Foreign \notin Pids
                              /\ None \notin [of : Addresses, by : Pids]
                              /\ Ghost \notin Threads \cup {None}

VARIABLES exporter,     \* METRICS_EXPORTER
          pid,          \* the process
          lock,         \* _lock
          pc,           \* thread -> where it is in init_otel_if_needed or shutdown
          initialized,  \* _initialized
          initPid,      \* _init_pid
          importFailed, \* _import_failed
          globalsSet,   \* _globals_set
          provider,     \* signal -> _tracer_provider and its twins
          owns,         \* signal -> _owns_tracer and its twins
          shutIds,      \* _shutdown_provider_ids
          worker,       \* the handle of the scrape or push thread: the meter provider
                        \* it serves and the process that started it
          loops,        \* the scrape and push threads of the process, and whether
                        \* each was told to stop
          handler,      \* the provider of the handler on the root logger
          global,       \* signal -> OpenTelemetry's global provider
          maker,        \* address -> who built what is there
          shut,         \* the providers that were shut down
          todo,         \* local to init: signals left to acquire or publish
          new,          \* local to init: signal -> provider acquired
          newOwns       \* local to init: signal -> it was built here

identity == <<initialized, initPid>>
refs == <<provider, owns, globalsSet>>
objects == <<maker, shut, shutIds>>
locals == <<todo, new, newOwns>>
fixed == <<exporter, pid>>
workers == <<worker, loops>>
vars == <<lock, pc, importFailed, workers, handler, global, identity, refs, objects,
          locals, fixed>>

Refs == [Signals -> Addresses \cup {None}]

TypeOK == /\ exporter \in Exporters
          /\ pid \in Pids
          /\ lock \in Threads \cup {Ghost, None}
          /\ pc \in [Threads -> {"idle", "want", "acquire", "publish", "install", "hung"}]
          /\ initialized \in BOOLEAN
          /\ initPid \in Pids \cup {None}
          /\ importFailed \in BOOLEAN
          /\ globalsSet \in BOOLEAN
          /\ provider \in Refs
          /\ owns \in [Signals -> BOOLEAN]
          /\ shutIds \subseteq Addresses
          /\ worker \in [of : Addresses, by : Pids] \cup {None}
          /\ loops \subseteq [of : Addresses, told : BOOLEAN]
          /\ handler \in Addresses \cup {None}
          /\ global \in Refs
          /\ maker \in [Addresses -> Pids \cup {Foreign, None}]
          /\ shut \subseteq Addresses
          /\ todo \subseteq Enabled
          /\ new \in Refs
          /\ newOwns \in [Signals -> BOOLEAN]

Nothing == [s \in Signals |-> None]
NotOwned == [s \in Signals |-> FALSE]

Init == /\ exporter \in Exporters
        /\ pid = 0
        /\ lock = None
        /\ pc = [t \in Threads |-> "idle"]
        /\ initialized = FALSE /\ initPid = None
        /\ importFailed = FALSE
        /\ globalsSet = FALSE
        /\ provider = Nothing /\ owns = NotOwned
        /\ shutIds = {} /\ shut = {}
        /\ worker = None /\ loops = {}
        /\ handler = None
        /\ global = Nothing
        /\ maker = [a \in Addresses |-> None]
        /\ todo = {} /\ new = Nothing /\ newOwns = NotOwned

-----------------------------------------------------------------------------
\* Providers

\* An address is free if nothing was built there or, where addresses are used
\* again, if its provider is shut down and no longer referenced.
Free == {a \in Addresses :
           \/ maker[a] = None
           \/ /\ "reuse" \in Faults
              /\ a \in shut \ {handler}
              /\ \A s \in Signals : a \notin {global[s], provider[s], new[s]}}
Fresh == {a \in Free : \A b \in Free : maker[a] = maker[b] => a <= b}

Build(a, by) == /\ maker' = [maker EXCEPT ![a] = by]
                /\ shut' = shut \ {a}

\* Mutant: a provider that was shut down is adopted.
UsableIfSet(a) == a # None
Usable(a) == a # None /\ a \notin shutIds /\ a \notin shut

\* The global provider of a signal, if it is one that can be adopted.
Existing(s) == IF Usable(global[s]) THEN global[s] ELSE None

\* Mutant: adopted providers are shut down as well.
ShutDownAll(ps, owned) ==
    LET gone == {ps[s] : s \in Signals} \ {None}
    IN  shut' = shut \cup gone /\ shutIds' = shutIds \cup gone
\* The owned ones of some providers are shut down and their ids remembered.
ShutDown(ps, owned) ==
    LET gone == {ps[s] : s \in {r \in Signals : owned[r]}} \ {None}
    IN  shut' = shut \cup gone /\ shutIds' = shutIds \cup gone

\* Traces come before metrics and metrics before logs.
FirstOf(S) == IF "trace" \in S THEN "trace" ELSE IF "metric" \in S THEN "metric" ELSE "log"

Goto(t, step) == pc' = [pc EXCEPT ![t] = step]

\* The step of a phase that takes the enabled signals one after the other.
Advance(t, next) ==
    IF todo = {FirstOf(todo)} THEN todo' = Enabled /\ Goto(t, next)
    ELSE todo' = todo \ {FirstOf(todo)} /\ UNCHANGED pc

\* init ends: the lock is released, the locals are gone.
Leave(t) == /\ Goto(t, "idle")
            /\ lock' = None
            /\ todo' = {} /\ new' = Nothing /\ newOwns' = NotOwned

-----------------------------------------------------------------------------
\* The threads

Thread(of, told) == [of |-> of, told |-> told]

\* Mutant: the handle is dropped, and the thread never hears of it.
StopForgets == worker' = None /\ UNCHANGED loops
\* The thread behind the handle, if this process has it, is told to stop and the
\* handle dropped.  The wait for a push loop ends after two seconds.
Stop ==
    /\ worker' = None
    /\ IF worker # None /\ worker.by = pid
       THEN LET others == loops \ {Thread(worker.of, FALSE)}
            IN  \/ loops' = others
                \/ exporter = "pushgateway" /\ loops' = others \cup {Thread(worker.of, TRUE)}
       ELSE UNCHANGED loops

\* The push that held it up returns, and the loop sees that it was told to stop.
LoopEnds ==
    /\ \E l \in loops : l.told /\ loops' = loops \ {l}
    /\ UNCHANGED <<lock, pc, importFailed, worker, handler, global, identity, refs, objects,
                   locals, fixed>>

-----------------------------------------------------------------------------
\* init_otel_if_needed()

Done == importFailed \/ (initialized /\ initPid = pid)

\* The test without the lock.
Enter(t) ==
    /\ pc[t] = "idle" /\ ~Done
    /\ Goto(t, "want")
    /\ UNCHANGED <<lock, importFailed, workers, handler, global, identity, refs, objects,
                   locals, fixed>>

\* References to what the parent built are dropped; nothing is shut down or stopped.
ResetAfterFork ==
    /\ handler' = None /\ worker' = None
    /\ provider' = Nothing /\ owns' = NotOwned
    /\ initialized' = FALSE /\ initPid' = None /\ globalsSet' = FALSE

\* Mutant: the signals that are switched off are initialized, too.
StartAll(t) ==
    /\ Goto(t, "acquire")
    /\ lock' = t
    /\ todo' = Signals
    /\ IF initialized THEN ResetAfterFork ELSE UNCHANGED <<handler, worker, identity, refs>>
Start(t) ==
    /\ Goto(t, "acquire")
    /\ lock' = t
    /\ todo' = Enabled
    /\ IF initialized THEN ResetAfterFork ELSE UNCHANGED <<handler, worker, identity, refs>>

\* Mutant: no second test under the lock.
LockOnce(t) ==
    /\ pc[t] = "want" /\ lock = None
    /\ Start(t)
    /\ UNCHANGED <<importFailed, loops, global, objects, new, newOwns, fixed>>
\* The test is repeated under the lock; a forked child resets its state.
Lock(t) ==
    /\ pc[t] = "want" /\ lock = None
    /\ IF Done THEN Goto(t, "idle") /\ UNCHANGED <<lock, todo, handler, worker, identity, refs>>
       ELSE Start(t)
    /\ UNCHANGED <<importFailed, loops, global, objects, new, newOwns, fixed>>

\* The next signal: adopt the global provider or build one.
Acquire(t) ==
    /\ pc[t] = "acquire"
    /\ LET s == FirstOf(todo) IN
       \/ /\ Existing(s) # None
          /\ new' = [new EXCEPT ![s] = Existing(s)]
          /\ UNCHANGED <<newOwns, maker, shut>>
       \/ /\ Existing(s) = None
          /\ \E a \in Fresh : Build(a, pid) /\ new' = [new EXCEPT ![s] = a]
          /\ newOwns' = [newOwns EXCEPT ![s] = TRUE]
    /\ Advance(t, "publish")
    /\ UNCHANGED <<lock, importFailed, workers, handler, global, identity, refs, shutIds,
                   fixed>>

\* Mutant: what was built before is not shut down.
BuildFailsKeeps(t) ==
    /\ pc[t] = "acquire"
    /\ Existing(FirstOf(todo)) = None
    /\ Leave(t)
    /\ \/ "build" \in Faults /\ Stop /\ UNCHANGED importFailed
       \/ "import" \in Faults /\ importFailed' = TRUE /\ UNCHANGED workers
    /\ UNCHANGED <<handler, global, identity, refs, objects, fixed>>
\* It cannot be built: those built before it are shut down.  A missing package
\* switches telemetry off for good; after another error the next call retries.
BuildFails(t) ==
    /\ pc[t] = "acquire"
    /\ Existing(FirstOf(todo)) = None
    /\ ShutDown(new, newOwns)
    /\ Leave(t)
    /\ \/ "build" \in Faults /\ Stop /\ UNCHANGED importFailed
       \/ "import" \in Faults /\ importFailed' = TRUE /\ UNCHANGED workers
    /\ UNCHANGED <<maker, handler, global, identity, refs, fixed>>

\* Mutant: the global is not looked at again after it was set.
PublishedBlindly(s) ==
    /\ global' = [global EXCEPT ![s] = IF @ = None THEN new[s] ELSE @]
    /\ UNCHANGED <<new, newOwns, shut, shutIds>>
\* A built provider becomes the global one, unless another library was faster:
\* then its tracer or meter provider is adopted and ours is shut down.
Published(s) ==
    /\ global' = [global EXCEPT ![s] = IF @ = None THEN new[s] ELSE @]
    /\ IF s # "log" /\ Usable(global[s])
       THEN /\ new' = [new EXCEPT ![s] = global[s]]
            /\ newOwns' = [newOwns EXCEPT ![s] = FALSE]
            /\ ShutDown(new, [NotOwned EXCEPT ![s] = TRUE])
       ELSE UNCHANGED <<new, newOwns, shut, shutIds>>

Publish(t) ==
    /\ pc[t] = "publish"
    /\ LET s == FirstOf(todo) IN
       IF newOwns[s] /\ (s = "log" \/ ~globalsSet) THEN Published(s)
       ELSE UNCHANGED <<global, new, newOwns, shut, shutIds>>
    /\ Advance(t, "install")
    /\ UNCHANGED <<lock, importFailed, workers, handler, identity, refs, maker, fixed>>

\* Mutant: the scrape server or push loop starts for an adopted provider, too.
ServedAlways == "metric" \in Enabled /\ exporter # "otlp"
\* It is for a meter provider that is owned.
Served == "metric" \in Enabled /\ exporter # "otlp" /\ newOwns["metric"]

\* The scrape server or push loop starts, or fails to.
StartWorker ==
    \/ /\ Served
       /\ worker' = [of |-> new["metric"], by |-> pid]
       /\ loops' = loops \cup {Thread(new["metric"], FALSE)}
    \/ Served /\ worker' = None /\ UNCHANGED loops
    \/ ~Served /\ UNCHANGED workers

\* The providers are stored and the logging handler attached.
Install(t) ==
    /\ pc[t] = "install"
    /\ provider' = new /\ owns' = newOwns /\ globalsSet' = TRUE
    /\ StartWorker
    /\ handler' = IF handler = None THEN new["log"] ELSE handler
    /\ initialized' = TRUE /\ initPid' = pid
    /\ Leave(t)
    /\ UNCHANGED <<importFailed, global, objects, fixed>>

-----------------------------------------------------------------------------
\* shutdown(), also at exit

\* Mutant: the logging handler stays attached.
ClearKeepsHandler == provider' = Nothing /\ owns' = NotOwned /\ UNCHANGED handler
Clear == provider' = Nothing /\ owns' = NotOwned /\ handler' = None

\* A handle that was inherited.
Inherited == worker # None /\ worker.by # pid

Shutdown(t) ==
    /\ pc[t] = "idle" /\ lock = None
    /\ ~(exporter = "pull" /\ Inherited)
    /\ Stop
    /\ ShutDown(provider, owns)
    /\ Clear
    /\ initialized' = FALSE /\ initPid' = None
    /\ UNCHANGED <<lock, pc, importFailed, globalsSet, global, maker, locals, fixed>>

\* A child that still has the handle of its parent's scrape server waits for a
\* thread that it does not have.
ShutdownHangs(t) ==
    /\ pc[t] = "idle" /\ lock = None
    /\ exporter = "pull" /\ Inherited
    /\ Goto(t, "hung")
    /\ lock' = t
    /\ handler' = None
    /\ UNCHANGED <<importFailed, workers, global, identity, refs, objects, locals, fixed>>

-----------------------------------------------------------------------------
\* The environment

\* Another library sets a global that is not set yet.
ForeignSet(s) ==
    /\ global[s] = None
    /\ \E a \in Fresh : Build(a, Foreign) /\ global' = [global EXCEPT ![s] = a]
    /\ UNCHANGED <<lock, pc, importFailed, workers, handler, identity, refs, shutIds,
                   locals, fixed>>

\* A thread outside init forks, and the model goes on with the child.  The child
\* has no other thread: whoever holds the lock will never release it there.
Fork ==
    /\ pid < MaxForks
    /\ pid' = pid + 1
    /\ lock = None \/ "fork_in_init" \in Faults
    /\ lock' = IF lock = None THEN None ELSE Ghost
    /\ \E t \in Threads : pc[t] = "idle"
    /\ pc' = [t \in Threads |-> "idle"]
    /\ todo' = {} /\ new' = Nothing /\ newOwns' = NotOwned
    /\ loops' = {}
    /\ UNCHANGED <<exporter, importFailed, worker, handler, global, identity, refs, objects>>

Next == \/ \E t \in Threads : \/ Enter(t) \/ Lock(t) \/ Acquire(t) \/ BuildFails(t)
                              \/ Publish(t) \/ Install(t) \/ Shutdown(t)
                              \/ ShutdownHangs(t)
        \/ \E s \in Enabled : ForeignSet(s)
        \/ LoopEnds
        \/ Fork

Spec == Init /\ [][Next]_vars

-----------------------------------------------------------------------------
\* Properties

\* A process shuts down the providers it built and no others.  "Shutdown never
\* closes another library's provider", neither at exit nor when an initialization
\* fails half way or loses a race, nor in a forked child.  "Initialization is
\* transactional": while nobody initializes, every provider this process built and
\* did not shut down is one that it will shut down.
ShutsItsOwn ==
    /\ \A a \in shut : maker[a] # Foreign
    /\ lock = None =>
         \A a \in Addresses \ shut : maker[a] = pid =>
             \E s \in Signals : provider[s] = a /\ owns[s]

\* A process that counts as initialized has a working provider for every signal
\* that is switched on, whatever it inherited, adopted or shut down before; and
\* "pre-existing concrete global providers are adopted": it uses the tracer and
\* meter provider that another library published, unless they live where a
\* provider of ours was shut down before.
Ready ==
    initialized /\ initPid = pid =>
        \A s \in Enabled :
            /\ provider[s] \notin shut \cup {None}
            /\ s # "log" /\ global[s] \notin shutIds \cup {None} /\ maker[global[s]] = Foreign
                  => provider[s] = global[s]

\* Every scrape server and push loop that runs in a process serves the meter
\* provider that the process uses and owns, unless it was told to stop: none is
\* forgotten, also when a push loop outlives the wait for it, the next
\* initialization starts another, or an initialization is abandoned.  A handle in
\* an initialized process has its thread there, never in the parent.  Nor does the
\* handler on the root logger feed a provider that was shut down.
WorkerOwned ==
    /\ handler \notin shut
    /\ \A l \in loops :
         l.told \/ (initialized /\ owns["metric"] /\ l.of = provider["metric"])
    /\ initialized /\ initPid = pid /\ worker # None =>
         worker.by = pid /\ Thread(worker.of, FALSE) \in loops
=============================================================================

------------------------ MODULE OtelLifecycle_proofs ------------------------
(***************************************************************************)
(* Proofs about OtelLifecycle: for any number of threads, addresses and    *)
(* forks, whatever is switched on, fails or is set by other libraries, a   *)
(* process shuts down the providers it built and no others, has a working  *)
(* provider for every signal once it is initialized, and its workers       *)
(* belong to a provider that it owns.                                      *)
(***************************************************************************)
EXTENDS OtelLifecycle, TLAPS

\* Who is in the critical section holds the lock.
Inside == {"acquire", "publish", "install", "hung"}
Holding == \A t \in Threads : pc[t] \in Inside <=> lock = t

\* A thread initializes.
At(step) == lock \in Threads /\ pc[lock] = step
Initializing == At("acquire") \/ At("publish") \/ At("install")

\* While a thread initializes there is nothing from before, and else no locals.
Fresher == /\ Initializing => ~initialized
           /\ ~Initializing => new = Nothing /\ newOwns = NotOwned
           /\ At("acquire") \/ At("publish") => todo # {}

\* Who has been built, by whom: a fork makes no provider.
Built ==
    /\ \A a \in Addresses : maker[a] \in 0..pid \cup {Foreign, None}
    /\ \A s \in Signals : \A a \in {global[s], provider[s], new[s]} \ {None} : maker[a] # None
    /\ shut \subseteq shutIds
    /\ \A a \in shut : maker[a] \notin {Foreign, None}

\* Signals share no provider.
Apart == \A r, s \in Signals :
            r # s => {global[r], provider[r], new[r]} \cap {global[s], provider[s], new[s]}
                     \subseteq {None}

\* What this process built and did not shut down is owned.
Owned == \A a \in Addresses \ shut : maker[a] = pid =>
            \E s \in Signals : (provider[s] = a /\ owns[s]) \/ (new[s] = a /\ newOwns[s])

\* The global provider of a signal is the one used, or one that cannot be adopted.
Settled(s, used) == \/ used = global[s]
                    \/ global[s] \in shutIds
                    \/ global[s] # None /\ maker[global[s]] # Foreign

\* What is kept of an initialization, also in a child.
Kept ==
    /\ ~initialized => provider = Nothing /\ owns = NotOwned /\ worker = None /\ handler = None
    /\ initialized =>
         /\ initPid \in 0..pid
         /\ handler \in {None, provider["log"]}
         /\ \/ worker = None
            \/ worker.by = initPid /\ owns["metric"] /\ worker.of = provider["metric"]
         /\ \A s \in Signals :
              /\ provider[s] \notin shut
              /\ owns[s] => provider[s] # None /\ maker[provider[s]] = initPid
              /\ s \in Enabled => /\ provider[s] # None
                                  /\ s # "log" => Settled(s, provider[s])
    /\ globalsSet => \A s \in Enabled \ {"log"} : global[s] # None

\* Of the threads of this process the handle has the one that was not told to stop.
Running ==
    /\ \A l \in loops : ~l.told => worker = [of |-> l.of, by |-> pid]
    /\ worker # None /\ worker.by = pid => Thread(worker.of, FALSE) \in loops

\* What is acquired, and what of it is published.
Acquired(s) ==
    /\ new[s] = None => ~newOwns[s]
    /\ new[s] # None => /\ s \in Enabled /\ new[s] \notin shut
                        /\ newOwns[s] => maker[new[s]] = pid
                        /\ ~newOwns[s] => new[s] = global[s]
    /\ newOwns[s] /\ globalsSet /\ s # "log" => global[s] \in shutIds
    /\ At("acquire") /\ s \in Enabled => (new[s] = None <=> s \in todo)
    /\ At("publish") \/ At("install") => (s \in Enabled => new[s] # None)
    /\ newOwns[s] /\ (At("acquire") \/ (At("publish") /\ s \in todo)) => new[s] # global[s]
    /\ s # "log" /\ s \in Enabled /\ (At("install") \/ (At("publish") /\ s \notin todo))
          => Settled(s, new[s])

IInv == TypeOK /\ Holding /\ Fresher /\ Built /\ Apart /\ Owned /\ Kept /\ Running
        /\ \A s \in Signals : Acquired(s)

-----------------------------------------------------------------------------
\* The first of some signals is one of them.
LEMMA First ==
    ASSUME NEW S \in SUBSET Signals, S # {}
    PROVE  FirstOf(S) \in S
BY DEF FirstOf, Signals

LEMMA Constants ==
    /\ None \notin Addresses /\ Foreign \notin Pids /\ None \notin Pids /\ Foreign # None
    /\ None \notin Threads /\ Ghost \notin Threads /\ Ghost # None
    /\ Enabled \subseteq Signals /\ Addresses \subseteq Nat /\ MaxForks \in Nat
    /\ Signals = {"trace", "metric", "log"} /\ Enabled # {}
    /\ None \notin [of : Addresses, by : Pids]
BY ConstantsAssumption DEF Signals

\* The phase of initialization of the thread that holds the lock.
LEMMA Phase ==
    ASSUME TypeOK, Holding, NEW t \in Threads, pc[t] \in Inside
    PROVE  /\ lock = t
           /\ At("acquire") <=> pc[t] = "acquire"
           /\ At("publish") <=> pc[t] = "publish"
           /\ At("install") <=> pc[t] = "install"
           /\ \A u \in Threads : u # t => pc[u] \notin Inside
BY DEF Holding, At

\* Before Install() nothing is kept from before.
LEMMA Blank ==
    ASSUME IInv, Initializing
    PROVE  /\ ~initialized /\ provider = Nothing /\ owns = NotOwned
           /\ worker = None /\ handler = None
BY DEF IInv, Fresher, Kept

\* Without a handle of its own a process has no thread that was not told to stop.
LEMMA AllTold ==
    ASSUME TypeOK, Running, worker = None \/ worker.by # pid
    PROVE  \A l \in loops : l.told
<1> SUFFICES ASSUME NEW l \in loops, ~l.told PROVE FALSE
    BY DEF TypeOK
<1>1. worker = [of |-> l.of, by |-> pid]
      BY DEF Running
<1>2. l.of \in Addresses /\ pid \in Pids
      BY DEF TypeOK
<1>3. worker # None /\ worker.by = pid
      BY <1>1, <1>2, Constants
<1> QED BY <1>3

\* The threads stay as they are.
LEMMA SameWorkers ==
    ASSUME Running, UNCHANGED <<worker, loops, pid>>
    PROVE  Running'
BY DEF Running, Thread

\* The thread behind the handle is told to stop; others were told before.
LEMMA Stops ==
    ASSUME TypeOK, Running, Stop, UNCHANGED pid
    PROVE  /\ worker' = None /\ loops' \subseteq [of : Addresses, told : BOOLEAN]
           /\ Running'
<1>1. worker' = None
      BY DEF Stop
<1>2. CASE worker # None /\ worker.by = pid
  <2>1. PICK others \in SUBSET loops :
          /\ others = loops \ {Thread(worker.of, FALSE)}
          /\ loops' = others \/ loops' = others \cup {Thread(worker.of, TRUE)}
        BY <1>2 DEF Stop
  <2>2. Thread(worker.of, TRUE) \in [of : Addresses, told : BOOLEAN]
        BY <1>2 DEF TypeOK, Thread
  <2>3. ASSUME NEW l \in others PROVE l.told
    <3> SUFFICES ASSUME ~l.told PROVE FALSE
        BY <2>1 DEF TypeOK
    <3>1. worker = [of |-> l.of, by |-> pid]
          BY <2>1 DEF Running
    <3>2. l = [of |-> l.of, told |-> FALSE]
          BY <2>1 DEF TypeOK
    <3>3. l = Thread(worker.of, FALSE)
          BY <3>1, <3>2 DEF Thread
    <3> QED BY <2>1, <3>3
  <2>4. \A l \in loops' : l.told
        BY <2>1, <2>3 DEF Thread
  <2> QED BY <1>1, <2>1, <2>2, <2>4 DEF Running, TypeOK
<1>3. CASE ~(worker # None /\ worker.by = pid)
  <2>1. loops' = loops
        BY <1>3 DEF Stop
  <2>2. \A l \in loops : l.told
        BY <1>3, AllTold
  <2> QED BY <1>1, <2>1, <2>2 DEF Running, TypeOK
<1> QED BY <1>2, <1>3

\* A provider is built where none is referenced.
LEMMA Frees ==
    ASSUME IInv, NEW a \in Fresh
    PROVE  /\ a \in Addresses /\ a # None /\ a # handler
           /\ \A s \in Signals : a # global[s] /\ a # provider[s] /\ a # new[s]
<1>1. a \in Addresses /\ a # None
      BY Constants DEF Fresh, Free
<1>2. CASE maker[a] = None
  <2>1. \A s \in Signals : a # global[s] /\ a # provider[s] /\ a # new[s]
        BY <1>1, <1>2 DEF IInv, Built
  <2>2. a # handler
    <3>1. handler \in {None, provider["log"]} /\ "log" \in Signals
          BY Constants DEF IInv, Kept
    <3> QED BY <1>1, <2>1, <3>1
  <2> QED BY <1>1, <2>1, <2>2
<1>3. CASE maker[a] # None
      BY <1>1, <1>3 DEF Fresh, Free
<1> QED BY <1>2, <1>3

\* What Build() changes.
LEMMA Builds ==
    ASSUME IInv, NEW a \in Addresses, NEW by \in {pid, Foreign}, Build(a, by)
    PROVE  /\ maker' \in [Addresses -> Pids \cup {Foreign, None}]
           /\ maker'[a] = by /\ by \notin {None} /\ by \in 0..pid \cup {Foreign, None}
           /\ \A b \in Addresses : b # a => maker'[b] = maker[b]
           /\ shut' = shut \ {a}
<1>1. /\ maker \in [Addresses -> Pids \cup {Foreign, None}] /\ pid \in Pids
      BY DEF IInv, TypeOK
<1>2. by \in Pids \cup {Foreign, None} /\ pid \in 0..pid
      BY <1>1, Constants DEF Pids
<1>3. maker' = [maker EXCEPT ![a] = by] /\ shut' = shut \ {a}
      BY DEF Build
<1> QED BY <1>1, <1>2, <1>3, Constants

\* A thread goes on: it keeps the lock or does not need it.
LEMMA Moves ==
    ASSUME TypeOK, Holding, NEW t \in Threads,
           NEW w \in {"idle", "want", "acquire", "publish", "install", "hung"}, Goto(t, w),
           lock' = IF w \in Inside THEN t ELSE None,
           pc[t] \in Inside \/ lock = None
    PROVE  /\ pc' \in [Threads -> {"idle", "want", "acquire", "publish", "install", "hung"}]
           /\ pc'[t] = w /\ lock' \in Threads \cup {Ghost, None}
           /\ Holding'
<1>1. /\ pc' \in [Threads -> {"idle", "want", "acquire", "publish", "install", "hung"}]
      /\ pc'[t] = w /\ \A u \in Threads : u # t => pc'[u] = pc[u]
      BY DEF Goto, TypeOK
<1>2. \A u \in Threads : u # t => pc[u] \notin Inside
      BY Constants DEF Holding
<1>3. Holding'
      BY <1>1, <1>2, Constants DEF Holding
<1> QED BY <1>1, <1>3, Constants

\* The step of a phase.
LEMMA Advances ==
    ASSUME TypeOK, Holding, NEW t \in Threads, pc[t] \in Inside, todo # {},
           NEW next \in {"publish", "install"}, Advance(t, next), lock' = lock
    PROVE  /\ pc' \in [Threads -> {"idle", "want", "acquire", "publish", "install", "hung"}]
           /\ Holding' /\ todo' \subseteq Enabled /\ lock' = t
           /\ \/ todo = {FirstOf(todo)} /\ todo' = Enabled /\ pc'[t] = next
              \/ todo' = todo \ {FirstOf(todo)} /\ todo' # {} /\ pc'[t] = pc[t]
<1>1. lock = t /\ todo \subseteq Enabled /\ FirstOf(todo) \in todo
      BY Phase, First, Constants DEF TypeOK
<1>2. CASE todo = {FirstOf(todo)}
  <2>1. todo' = Enabled /\ Goto(t, next)
        BY <1>2 DEF Advance
  <2>2. lock' = IF next \in Inside THEN t ELSE None
        BY <1>1 DEF Inside
  <2>3. next \in {"idle", "want", "acquire", "publish", "install", "hung"}
        OBVIOUS
  <2> QED BY <1>1, <1>2, <2>1, <2>2, <2>3, Moves
<1>3. CASE todo # {FirstOf(todo)}
      BY <1>1, <1>3 DEF Advance, TypeOK, Holding
<1> QED BY <1>2, <1>3

\* Init ends.
LEMMA Leaves ==
    ASSUME TypeOK, Holding, NEW t \in Threads, pc[t] \in Inside, Leave(t)
    PROVE  /\ pc' \in [Threads -> {"idle", "want", "acquire", "publish", "install", "hung"}]
           /\ Holding' /\ lock' = None /\ ~Initializing'
           /\ todo' = {} /\ new' = Nothing /\ newOwns' = NotOwned
           /\ \A s \in Signals : new'[s] = None /\ ~newOwns'[s]
           /\ new' \in Refs /\ newOwns' \in [Signals -> BOOLEAN]
<1>1. /\ Goto(t, "idle") /\ lock' = IF "idle" \in Inside THEN t ELSE None
      /\ lock' = None /\ todo' = {} /\ new' = Nothing /\ newOwns' = NotOwned
      BY DEF Leave, Inside
<1>2. /\ pc' \in [Threads -> {"idle", "want", "acquire", "publish", "install", "hung"}]
      /\ Holding'
      BY <1>1, Moves
<1>3. ~Initializing'
      BY <1>1, Constants DEF Initializing, At
<1> QED BY <1>1, <1>2, <1>3 DEF Nothing, NotOwned, Refs

\* While nobody initializes, the locals are empty.
LEMMA Quiet ==
    ASSUME IInv, ~Initializing
    PROVE  /\ new = Nothing /\ newOwns = NotOwned
           /\ \A s \in Signals : new[s] = None /\ ~newOwns[s]
BY DEF IInv, Fresher, Nothing, NotOwned
-----------------------------------------------------------------------------
\* init_otel_if_needed() up to the critical section

\* A step of a thread outside init leaves its phase as it is.
LEMMA SamePhase ==
    ASSUME TypeOK, Holding, UNCHANGED lock,
           lock \in Threads => pc'[lock] = pc[lock]
    PROVE  /\ At("acquire")' <=> At("acquire")
           /\ At("publish")' <=> At("publish")
           /\ At("install")' <=> At("install")
           /\ Initializing' <=> Initializing
BY DEF At, Initializing

LEMMA EnterStep == ASSUME IInv, NEW t \in Threads, Enter(t) PROVE IInv'
<1>1. /\ pc[t] = "idle" /\ pc' = [pc EXCEPT ![t] = "want"]
      /\ UNCHANGED <<lock, importFailed, worker, loops, handler, global, initialized, initPid, provider,
                     owns, globalsSet, maker, shut, shutIds, todo, new, newOwns, exporter, pid>>
      /\ TypeOK /\ Holding
      BY DEF Enter, Goto, workers, identity, refs, objects, locals, fixed, IInv
<1>2. /\ pc' \in [Threads -> {"idle", "want", "acquire", "publish", "install", "hung"}]
      /\ pc'[t] = "want" /\ \A u \in Threads : u # t => pc'[u] = pc[u]
      BY <1>1 DEF TypeOK
<1>3. Holding' /\ (lock \in Threads => pc'[lock] = pc[lock])
      BY <1>1, <1>2 DEF Holding, Inside
<1>4. /\ At("acquire")' <=> At("acquire")
      /\ At("publish")' <=> At("publish")
      /\ At("install")' <=> At("install")
      /\ Initializing' <=> Initializing
      BY <1>1, <1>3, SamePhase
<1>5. TypeOK'
      BY <1>1, <1>2 DEF TypeOK
<1>6. Fresher' /\ Built' /\ Apart' /\ Owned' /\ Kept'
      BY <1>1, <1>4 DEF IInv, Fresher, Built, Apart, Owned, Kept, Settled
<1>7. ASSUME NEW s \in Signals PROVE Acquired(s)'
  <2>1. Acquired(s)
        BY DEF IInv
  <2> QED BY <1>1, <1>4, <2>1 DEF Acquired, Settled
<1>8. Running'
      BY <1>1, SameWorkers DEF IInv
<1> QED BY <1>3, <1>5, <1>6, <1>7, <1>8 DEF IInv

\* What was built before the lock was taken is forgotten if a parent built it, and
\* else there is nothing.
LEMMA LockStep == ASSUME IInv, NEW t \in Threads, Lock(t) PROVE IInv'
<1>1. /\ pc[t] = "want" /\ lock = None /\ TypeOK /\ Holding
      /\ UNCHANGED <<importFailed, loops, global, maker, shut, shutIds, new, newOwns, exporter,
                     pid>>
      BY DEF Lock, objects, fixed, IInv
<1>2. ~Initializing
      BY <1>1, Constants DEF Initializing, At
<1>3. \A s \in Signals : new[s] = None /\ ~newOwns[s]
      BY <1>2, Quiet
<1>4. CASE Done
  <2>1. /\ Goto(t, "idle")
        /\ UNCHANGED <<lock, todo, handler, worker, initialized, initPid, provider, owns, globalsSet>>
        BY <1>4 DEF Lock, identity, refs
  <2>2. lock' = IF "idle" \in Inside THEN t ELSE None
        BY <1>1, <2>1 DEF Inside
  <2>3. /\ pc' \in [Threads -> {"idle", "want", "acquire", "publish", "install", "hung"}]
        /\ Holding'
        BY <1>1, <2>1, <2>2, Moves
  <2>4. ~Initializing' /\ ~At("acquire")' /\ ~At("publish")' /\ ~At("install")'
        BY <1>1, <2>1, Constants DEF Initializing, At
  <2>5. TypeOK'
        BY <1>1, <2>1, <2>3 DEF TypeOK
  <2>6. Fresher' /\ Built' /\ Apart' /\ Owned' /\ Kept'
        BY <1>1, <1>2, <2>1, <2>4 DEF IInv, Fresher, Built, Apart, Owned, Kept, Settled
  <2>7. \A s \in Signals : Acquired(s)'
        BY <1>1, <1>3, <2>4 DEF Acquired
  <2>8. Running'
        BY <1>1, <2>1, SameWorkers DEF IInv
  <2> QED BY <2>3, <2>5, <2>6, <2>7, <2>8 DEF IInv
<1>5. CASE ~Done
  <2>1. /\ Goto(t, "acquire") /\ lock' = t /\ todo' = Enabled
        /\ IF initialized THEN ResetAfterFork ELSE UNCHANGED <<handler, worker, identity, refs>>
        BY <1>5 DEF Lock, Start
  <2>2. lock' = IF "acquire" \in Inside THEN t ELSE None
        BY <2>1 DEF Inside
  <2>3. /\ pc' \in [Threads -> {"idle", "want", "acquire", "publish", "install", "hung"}]
        /\ Holding' /\ pc'[t] = "acquire"
        BY <1>1, <2>1, <2>2, Moves
  <2>4. At("acquire")' /\ ~At("publish")' /\ ~At("install")' /\ Initializing'
        BY <2>1, <2>3 DEF Initializing, At
  <2>5. /\ ~initialized' /\ provider' = Nothing /\ owns' = NotOwned /\ worker' = None
        /\ handler' = None /\ initPid' \in Pids \cup {None}
        /\ globalsSet' \in BOOLEAN /\ (globalsSet' => globalsSet)
    <3>1. CASE initialized
          BY <2>1, <3>1 DEF ResetAfterFork
    <3>2. CASE ~initialized
          BY <2>1, <3>2 DEF IInv, TypeOK, Kept, identity, refs
    <3> QED BY <3>1, <3>2
  <2>6. provider' \in Refs /\ owns' \in [Signals -> BOOLEAN] /\ initialized' \in BOOLEAN
    <3>1. initialized' \in BOOLEAN
          BY <1>1, <2>1 DEF ResetAfterFork, identity, TypeOK
    <3> QED BY <2>5, <3>1 DEF Refs, Nothing, NotOwned
  <2>7. TypeOK'
        BY <1>1, <2>1, <2>3, <2>5, <2>6 DEF TypeOK
  <2>8. Fresher'
        BY <2>1, <2>4, <2>5, Constants DEF Fresher
  <2>9. \A s \in Signals : provider'[s] = None
        BY <2>5 DEF Nothing
  <2>10. Built' /\ Apart'
        BY <1>1, <2>9 DEF IInv, Built, Apart
  <2>11. Owned'
    <3> SUFFICES ASSUME NEW a \in Addresses, a \notin shut, maker[a] = pid PROVE FALSE
        BY <1>1 DEF Owned
    <3>1. PICK s \in Signals : provider[s] = a /\ owns[s]
          BY <1>3 DEF IInv, Owned
    <3>2. initialized
          BY <3>1 DEF IInv, Kept, NotOwned
    <3>3. maker[a] = initPid
          BY <3>1, <3>2 DEF IInv, Kept
    <3> QED BY <1>5, <3>2, <3>3 DEF Done
  <2>12. Kept'
    <3>1. globalsSet' => \A s \in Enabled \ {"log"} : global'[s] # None
          BY <1>1, <2>5 DEF IInv, Kept
    <3> QED BY <2>5, <3>1 DEF Kept
  <2>13. ASSUME NEW s \in Signals PROVE Acquired(s)'
        BY <1>1, <1>3, <2>1, <2>4 DEF Acquired
  <2>14. worker = None \/ worker.by # pid
    <3>1. CASE initialized
          BY <1>5, <3>1 DEF IInv, Kept, Done
    <3>2. CASE ~initialized
          BY <3>2 DEF IInv, Kept
    <3> QED BY <1>1, <3>1, <3>2 DEF TypeOK
  <2>15. Running'
    <3>1. \A l \in loops : l.told
          BY <1>1, <2>14, AllTold DEF IInv
    <3> QED BY <1>1, <2>5, <3>1 DEF Running
  <2> QED BY <2>3, <2>7, <2>8, <2>10, <2>11, <2>12, <2>13, <2>15 DEF IInv
<1> QED BY <1>4, <1>5

-----------------------------------------------------------------------------
\* shutdown() and fork()

\* What is shut down was built here or by a parent, and is referenced no longer.
LEMMA ShutdownStep == ASSUME IInv, NEW t \in Threads, Shutdown(t) PROVE IInv'
<1> DEFINE gone == {provider[s] : s \in {r \in Signals : owns[r]}} \ {None}
<1>1. /\ lock = None /\ TypeOK /\ Holding
      /\ shut' = shut \cup gone /\ shutIds' = shutIds \cup gone
      /\ provider' = Nothing /\ owns' = NotOwned /\ worker' = None /\ handler' = None
      /\ initialized' = FALSE /\ initPid' = None
      /\ UNCHANGED <<lock, pc, importFailed, globalsSet, global, maker, todo, new, newOwns,
                     exporter, pid>>
      /\ loops' \subseteq [of : Addresses, told : BOOLEAN] /\ Running'
      BY Stops DEF Shutdown, ShutDown, Clear, locals, fixed, IInv
<1>2. ~Initializing /\ ~Initializing' /\ ~At("acquire")' /\ ~At("publish")' /\ ~At("install")'
      BY <1>1, Constants DEF Initializing, At
<1>3. \A s \in Signals : new[s] = None /\ ~newOwns[s]
      BY <1>2, Quiet
<1>4. gone \subseteq Addresses /\ \A a \in gone : maker[a] \notin {Foreign, None}
  <2> SUFFICES ASSUME NEW s \in Signals, owns[s], provider[s] # None
               PROVE  provider[s] \in Addresses /\ maker[provider[s]] \notin {Foreign, None}
      OBVIOUS
  <2>1. initialized
        BY DEF IInv, Kept, NotOwned
  <2>2. maker[provider[s]] = initPid /\ initPid \in 0..pid
        BY <2>1 DEF IInv, Kept
  <2>3. pid \in Pids
        BY <1>1 DEF TypeOK
  <2>4. initPid \in Pids
        BY <2>2, <2>3, Constants DEF Pids
  <2> QED BY <1>1, <2>2, <2>4, Constants DEF TypeOK, Refs
<1>5. TypeOK'
  <2>1. provider' \in Refs /\ owns' \in [Signals -> BOOLEAN]
        BY <1>1 DEF Refs, Nothing, NotOwned
  <2> QED BY <1>1, <1>4, <2>1 DEF TypeOK
<1>6. Holding' /\ Fresher'
      BY <1>1, <1>2 DEF IInv, Holding, Fresher
<1>7. \A s \in Signals : provider'[s] = None
      BY <1>1 DEF Nothing
<1>8. Built' /\ Apart'
  <2> HIDE DEF gone
  <2> QED BY <1>1, <1>4, <1>7 DEF IInv, Built, Apart
<1>9. Owned'
  <2> SUFFICES ASSUME NEW a \in Addresses, a \notin shut, a \notin gone, maker[a] = pid PROVE FALSE
      BY <1>1 DEF Owned
  <2>1. PICK s \in Signals : provider[s] = a /\ owns[s]
        BY <1>3 DEF IInv, Owned
  <2> QED BY <2>1, Constants
<1>10. Kept'
  <2> HIDE DEF gone
  <2> QED BY <1>1 DEF IInv, Kept
<1>11. \A s \in Signals : Acquired(s)'
      BY <1>1, <1>2, <1>3 DEF Acquired
<1> QED BY <1>1, <1>5, <1>6, <1>8, <1>9, <1>10, <1>11 DEF IInv

LEMMA ShutdownHangsStep == ASSUME IInv, NEW t \in Threads, ShutdownHangs(t) PROVE IInv'
<1>1. /\ pc[t] = "idle" /\ lock = None /\ Goto(t, "hung") /\ lock' = t /\ handler' = None
      /\ UNCHANGED <<importFailed, worker, loops, global, initialized, initPid, provider, owns,
                     globalsSet, maker, shut, shutIds, todo, new, newOwns, exporter, pid>>
      /\ TypeOK /\ Holding
      BY DEF ShutdownHangs, workers, identity, refs, objects, locals, fixed, IInv
<1>2. /\ pc' \in [Threads -> {"idle", "want", "acquire", "publish", "install", "hung"}]
      /\ Holding' /\ pc'[t] = "hung"
  <2>1. lock' = IF "hung" \in Inside THEN t ELSE None
        BY <1>1 DEF Inside
  <2> QED BY <1>1, <2>1, Moves
<1>3. /\ ~Initializing /\ ~Initializing'
      /\ ~At("acquire")' /\ ~At("publish")' /\ ~At("install")'
      BY <1>1, <1>2, Constants DEF Initializing, At
<1>4. \A s \in Signals : new[s] = None /\ ~newOwns[s]
      BY <1>3, Quiet
<1>5. TypeOK'
      BY <1>1, <1>2 DEF TypeOK
<1>6. Fresher' /\ Built' /\ Apart' /\ Owned' /\ Kept'
      BY <1>1, <1>3 DEF IInv, Fresher, Built, Apart, Owned, Kept, Settled
<1>7. \A s \in Signals : Acquired(s)'
      BY <1>1, <1>3, <1>4 DEF Acquired
<1>8. Running'
      BY <1>1, SameWorkers DEF IInv
<1> QED BY <1>2, <1>5, <1>6, <1>7, <1>8 DEF IInv

\* A push loop ends; the one behind the handle was not told to.
LEMMA LoopEndsStep == ASSUME IInv, LoopEnds PROVE IInv'
<1>1. /\ UNCHANGED <<lock, pc, importFailed, worker, handler, global, initialized, initPid, provider,
                     owns, globalsSet, maker, shut, shutIds, todo, new, newOwns, exporter, pid>>
      /\ TypeOK /\ Running
      BY DEF LoopEnds, identity, refs, objects, locals, fixed, IInv
<1>2. PICK l \in loops : l.told /\ loops' = loops \ {l}
      BY DEF LoopEnds
<1>3. TypeOK'
      BY <1>1, <1>2 DEF TypeOK
<1>4. Running'
  <2>1. Thread(worker.of, FALSE) # l
        BY <1>2 DEF Thread
  <2> QED BY <1>1, <1>2, <2>1 DEF Running, Thread
<1>5. Holding' /\ Fresher' /\ Built' /\ Apart' /\ Owned' /\ Kept'
      BY <1>1 DEF IInv, Holding, Fresher, Initializing, At, Built, Apart, Owned, Kept, Settled
<1>6. ASSUME NEW s \in Signals PROVE Acquired(s)'
  <2>1. Acquired(s)
        BY DEF IInv
  <2> QED BY <1>1, <2>1 DEF Acquired, At, Settled
<1> QED BY <1>3, <1>4, <1>5, <1>6 DEF IInv

\* The child built nothing yet.
LEMMA ForkStep == ASSUME IInv, Fork PROVE IInv'
<1>1. /\ pid < MaxForks /\ pid' = pid + 1 /\ lock' \in {None, Ghost}
      /\ pc' = [t \in Threads |-> "idle"]
      /\ todo' = {} /\ new' = Nothing /\ newOwns' = NotOwned
      /\ loops' = {}
      /\ UNCHANGED <<exporter, importFailed, worker, handler, global, initialized, initPid,
                     provider, owns, globalsSet, maker, shut, shutIds>>
      /\ TypeOK
      BY DEF Fork, identity, refs, objects, IInv
<1>2. pid \in Nat /\ pid' \in Pids /\ 0..pid \subseteq 0..pid' /\ pid' \notin 0..pid
      BY <1>1, Constants DEF TypeOK, Pids
<1>3. /\ ~Initializing' /\ ~At("acquire")' /\ ~At("publish")' /\ ~At("install")'
      /\ Holding'
      BY <1>1, Constants DEF Initializing, At, Holding, Inside
<1>4. \A s \in Signals : new'[s] = None /\ ~newOwns'[s]
      BY <1>1 DEF Nothing, NotOwned
<1>5. TypeOK'
  <2>1. new' \in Refs /\ newOwns' \in [Signals -> BOOLEAN]
        BY <1>1 DEF Refs, Nothing, NotOwned
  <2>2. pc' \in [Threads -> {"idle", "want", "acquire", "publish", "install", "hung"}]
        BY <1>1
  <2> QED BY <1>1, <1>2, <2>1, <2>2 DEF TypeOK
<1>6. Fresher' /\ Apart'
      BY <1>1, <1>3, <1>4 DEF IInv, Fresher, Apart
<1>7. Built'
      BY <1>1, <1>2, <1>4 DEF IInv, Built
<1>8. Owned'
  <2> SUFFICES ASSUME NEW a \in Addresses, maker[a] = pid' PROVE FALSE
      BY <1>1 DEF Owned
  <2>1. maker[a] \in 0..pid \cup {Foreign, None}
        BY DEF IInv, Built
  <2> QED BY <1>2, <2>1, Constants
<1>9. Kept'
      BY <1>1, <1>2 DEF IInv, Kept, Settled
<1>10. \A s \in Signals : Acquired(s)'
      BY <1>3, <1>4 DEF Acquired
<1>11. Running'
  <2>1. worker = None \/ worker.by \in 0..pid
        BY DEF IInv, Kept
  <2> QED BY <1>1, <1>2, <2>1 DEF Running
<1> QED BY <1>3, <1>5, <1>6, <1>7, <1>8, <1>9, <1>10, <1>11 DEF IInv
-----------------------------------------------------------------------------
\* Other libraries

LEMMA ForeignSetStep == ASSUME IInv, NEW s \in Signals, ForeignSet(s) PROVE IInv'
<1>1. PICK a \in Fresh : Build(a, Foreign) /\ global' = [global EXCEPT ![s] = a]
      BY DEF ForeignSet
<1>2. /\ global[s] = None /\ TypeOK /\ Holding
      /\ UNCHANGED <<lock, pc, importFailed, worker, loops, handler, initialized, initPid, provider,
                     owns, globalsSet, shutIds, todo, new, newOwns, exporter, pid>>
      BY DEF ForeignSet, workers, identity, refs, locals, fixed, IInv
<1>3. /\ a \in Addresses /\ a # None /\ a # handler
      /\ \A r \in Signals : a # global[r] /\ a # provider[r] /\ a # new[r]
      BY Frees
<1>4. /\ maker' \in [Addresses -> Pids \cup {Foreign, None}]
      /\ maker'[a] = Foreign
      /\ \A b \in Addresses : b # a => maker'[b] = maker[b]
      /\ shut' = shut \ {a}
      BY <1>1, <1>3, Builds
<1>5. /\ global' \in Refs /\ global'[s] = a
      /\ \A r \in Signals : r # s => global'[r] = global[r]
      BY <1>1, <1>2, <1>3 DEF TypeOK, Refs
<1>6. /\ At("acquire")' <=> At("acquire")
      /\ At("publish")' <=> At("publish")
      /\ At("install")' <=> At("install")
      /\ Initializing' <=> Initializing
      BY <1>2, SamePhase
<1>7. TypeOK'
      BY <1>2, <1>4, <1>5 DEF TypeOK
<1>8. Holding' /\ Fresher'
      BY <1>2, <1>6 DEF IInv, Holding, Fresher
<1>9. Built'
  <2>1. \A b \in Addresses : maker'[b] \in 0..pid' \cup {Foreign, None}
        BY <1>2, <1>4 DEF IInv, Built
  <2>2. ASSUME NEW r \in Signals, NEW b \in {global'[r], provider'[r], new'[r]} \ {None}
        PROVE  maker'[b] # None
    <3>1. CASE b = a
          BY <1>4, <3>1, Constants
    <3>2. CASE b # a
      <4>1. b \in {global[r], provider[r], new[r]} \ {None} /\ b \in Addresses
            BY <1>2, <1>5, <2>2, <3>2 DEF TypeOK, Refs
      <4> QED BY <1>4, <3>2, <4>1 DEF IInv, Built
    <3> QED BY <3>1, <3>2
  <2>3. shut' \subseteq shutIds' /\ \A b \in shut' : maker'[b] \notin {Foreign, None}
        BY <1>2, <1>4 DEF IInv, Built, TypeOK
  <2> QED BY <2>1, <2>2, <2>3 DEF Built
<1>10. Apart'
      BY <1>2, <1>3, <1>5 DEF IInv, Apart
<1>11. Owned'
  <2> SUFFICES ASSUME NEW b \in Addresses, b \notin shut', maker'[b] = pid
               PROVE  \E r \in Signals : (provider[r] = b /\ owns[r]) \/ (new[r] = b /\ newOwns[r])
      BY <1>2 DEF Owned
  <2>1. b # a
        BY <1>2, <1>4, Constants DEF TypeOK
  <2> QED BY <1>4, <2>1 DEF IInv, Owned
<1>12. ASSUME NEW r \in Signals, NEW u \in Addresses \cup {None}, Settled(r, u), u # None
       PROVE  Settled(r, u)'
  <2>1. global[r] # None
        BY <1>2, <1>12, Constants DEF Settled, TypeOK
  <2>2. r # s /\ global[r] # a /\ global[r] \in Addresses
        BY <1>2, <1>3, <2>1 DEF TypeOK, Refs
  <2> QED BY <1>2, <1>4, <1>5, <1>12, <2>2 DEF Settled
<1>13. Kept'
  <2>1. globalsSet' => \A r \in Enabled \ {"log"} : global'[r] # None
        BY <1>2, <1>3, <1>5, Constants DEF IInv, Kept
  <2>2. ASSUME initialized, NEW r \in Signals
        PROVE  /\ provider[r] \notin shut'
               /\ owns[r] => provider[r] # None /\ maker'[provider[r]] = initPid
               /\ r \in Enabled => /\ provider[r] # None
                                   /\ r # "log" => Settled(r, provider[r])'
    <3>1. /\ provider[r] \notin shut
          /\ owns[r] => provider[r] # None /\ maker[provider[r]] = initPid
          /\ r \in Enabled => /\ provider[r] # None
                              /\ r # "log" => Settled(r, provider[r])
          BY <2>2 DEF IInv, Kept
    <3>2. provider[r] \in Addresses \cup {None} /\ provider[r] # a
          BY <1>2, <1>3 DEF TypeOK, Refs
    <3>3. r \in Enabled /\ r # "log" => Settled(r, provider[r])'
          BY <1>2, <1>12, <3>1, <3>2
    <3> QED BY <1>4, <3>1, <3>2, <3>3
  <2> QED BY <1>2, <2>1, <2>2 DEF IInv, Kept
<1>14. ASSUME NEW r \in Signals PROVE Acquired(r)'
  <2>1. Acquired(r) /\ new[r] \in Addresses \cup {None} /\ new[r] # a
        BY <1>2, <1>3 DEF IInv, TypeOK, Refs
  <2>2. new[r] # None => /\ r \in Enabled /\ new[r] \notin shut'
                         /\ newOwns[r] => maker'[new[r]] = pid
                         /\ ~newOwns[r] => new[r] = global'[r]
    <3>1. new[r] # None /\ ~newOwns[r] => r # s
          BY <1>2, <2>1 DEF Acquired
    <3> QED BY <1>4, <1>5, <2>1, <3>1 DEF Acquired
  <2>3. newOwns[r] /\ globalsSet /\ r # "log" => global'[r] \in shutIds
    <3>1. newOwns[r] /\ globalsSet /\ r # "log" => global[r] \in shutIds
          BY <2>1 DEF Acquired
    <3> QED BY <1>2, <1>5, <3>1, Constants DEF TypeOK
  <2>4. newOwns[r] /\ (At("acquire") \/ (At("publish") /\ r \in todo)) => new[r] # global'[r]
        BY <1>5, <2>1 DEF Acquired
  <2>5. r # "log" /\ r \in Enabled /\ (At("install") \/ (At("publish") /\ r \notin todo))
          => Settled(r, new[r])'
    <3> SUFFICES ASSUME r # "log", r \in Enabled,
                        At("install") \/ (At("publish") /\ r \notin todo)
                 PROVE  Settled(r, new[r])'
        OBVIOUS
    <3>1. Settled(r, new[r]) /\ new[r] # None
          BY <2>1 DEF Acquired
    <3> QED BY <1>2, <1>12, <2>1, <3>1
  <2>6. /\ new[r] = None => ~newOwns[r]
        /\ At("acquire") /\ r \in Enabled => (new[r] = None <=> r \in todo)
        /\ At("publish") \/ At("install") => (r \in Enabled => new[r] # None)
        BY <2>1 DEF Acquired
  <2> QED BY <1>2, <1>6, <2>2, <2>3, <2>4, <2>5, <2>6 DEF Acquired
<1>15. Running'
      BY <1>2, SameWorkers DEF IInv
<1> QED BY <1>7, <1>8, <1>9, <1>10, <1>11, <1>13, <1>14, <1>15 DEF IInv

-----------------------------------------------------------------------------
\* The end of init: the providers are stored, or those that were built are shut down.

LEMMA InstallStep == ASSUME IInv, NEW t \in Threads, Install(t) PROVE IInv'
<1>1. /\ pc[t] = "install" /\ provider' = new /\ owns' = newOwns /\ globalsSet' = TRUE
      /\ StartWorker /\ handler' = (IF handler = None THEN new["log"] ELSE handler)
      /\ initialized' = TRUE /\ initPid' = pid /\ Leave(t)
      /\ UNCHANGED <<importFailed, global, maker, shut, shutIds, exporter, pid>>
      /\ TypeOK /\ Holding
      BY DEF Install, objects, fixed, IInv
<1>2. /\ At("install") /\ Initializing
      BY <1>1, Phase DEF Inside, Initializing
<1>3. /\ ~initialized /\ provider = Nothing /\ owns = NotOwned /\ worker = None /\ handler = None
      BY <1>2, Blank
<1>4. /\ pc' \in [Threads -> {"idle", "want", "acquire", "publish", "install", "hung"}]
      /\ Holding' /\ lock' = None /\ ~Initializing'
      /\ todo' = {} /\ new' = Nothing /\ newOwns' = NotOwned
      /\ \A s \in Signals : new'[s] = None /\ ~newOwns'[s]
      /\ new' \in Refs /\ newOwns' \in [Signals -> BOOLEAN]
      BY <1>1, Leaves DEF Inside
<1>5. /\ \/ worker' = None /\ loops' = loops
         \/ /\ newOwns["metric"] /\ worker' = [of |-> new["metric"], by |-> pid]
            /\ loops' = loops \cup {Thread(new["metric"], FALSE)}
      /\ handler' = new["log"] /\ new["log"] \in Addresses \cup {None}
      BY <1>1, <1>3, Constants DEF StartWorker, Served, workers, TypeOK, Refs
<1>12. newOwns["metric"] => new["metric"] \in Addresses
  <2>1. Acquired("metric") /\ new["metric"] \in Addresses \cup {None}
        BY <1>1, Constants DEF IInv, TypeOK, Refs
  <2> QED BY <2>1 DEF Acquired
<1>13. Running'
  <2>1. \A l \in loops : l.told
        BY <1>1, <1>3, AllTold DEF IInv
  <2>2. CASE worker' = None /\ loops' = loops
        BY <2>1, <2>2 DEF Running
  <2>3. CASE /\ worker' = [of |-> new["metric"], by |-> pid]
             /\ loops' = loops \cup {Thread(new["metric"], FALSE)}
        BY <1>1, <2>1, <2>3 DEF Running, Thread
  <2> QED BY <1>5, <2>2, <2>3
<1>14. /\ worker' \in [of : Addresses, by : Pids] \cup {None}
       /\ loops' \subseteq [of : Addresses, told : BOOLEAN]
  <2>1. CASE worker' = None /\ loops' = loops
        BY <1>1, <2>1 DEF TypeOK
  <2>2. CASE /\ newOwns["metric"] /\ worker' = [of |-> new["metric"], by |-> pid]
             /\ loops' = loops \cup {Thread(new["metric"], FALSE)}
    <3>1. Thread(new["metric"], FALSE) \in [of : Addresses, told : BOOLEAN]
          BY <1>12, <2>2 DEF Thread
    <3>2. worker' \in [of : Addresses, by : Pids]
          BY <1>1, <1>12, <2>2 DEF TypeOK
    <3> QED BY <1>1, <2>2, <3>1, <3>2 DEF TypeOK
  <2> QED BY <1>5, <2>1, <2>2
<1>6. TypeOK'
      BY <1>1, <1>4, <1>5, <1>14 DEF TypeOK
<1>7. Fresher' /\ Built' /\ Apart'
  <2>1. ~At("acquire")' /\ ~At("publish")'
        BY <1>4 DEF Initializing
  <2> QED BY <1>1, <1>4, <2>1 DEF IInv, Fresher, Built, Apart
<1>8. Owned'
  <2> SUFFICES ASSUME NEW a \in Addresses, a \notin shut, maker[a] = pid
               PROVE  \E s \in Signals : new[s] = a /\ newOwns[s]
      BY <1>1 DEF Owned
  <2> QED BY <1>3 DEF IInv, Owned, NotOwned
<1>9. ASSUME NEW s \in Signals PROVE /\ new[s] \notin shut
                                     /\ newOwns[s] => new[s] # None /\ maker[new[s]] = pid
                                     /\ s \in Enabled => /\ new[s] # None
                                                         /\ s # "log" => Settled(s, new[s])
  <2>1. Acquired(s)
        BY DEF IInv
  <2>2. None \notin shut
        BY <1>1, Constants DEF TypeOK
  <2> QED BY <1>2, <2>1, <2>2 DEF Acquired
<1>10. Kept'
  <2>1. pid \in 0..pid
        BY <1>1, Constants DEF TypeOK, Pids
  <2>2. \A s \in Enabled \ {"log"} : global[s] # None
    <3> SUFFICES ASSUME NEW s \in Enabled, s # "log" PROVE global[s] # None
        OBVIOUS
    <3>1. s \in Signals
          BY Constants
    <3>2. Settled(s, new[s]) /\ new[s] # None
          BY <1>9, <3>1
    <3> QED BY <1>1, <3>2, Constants DEF Settled, TypeOK
  <2>3. \A s \in Signals : Settled(s, new[s]) => Settled(s, provider[s])'
        BY <1>1 DEF Settled
  <2>4. \/ worker' = None
        \/ worker'.by = initPid' /\ owns'["metric"] /\ worker'.of = provider'["metric"]
    <3>1. CASE newOwns["metric"] /\ worker' = [of |-> new["metric"], by |-> pid]
      <4>1. worker'.by = pid /\ worker'.of = new["metric"]
            BY <3>1
      <4>2. provider' = new /\ owns' = newOwns /\ initPid' = pid
            BY <1>1
      <4>3. owns'["metric"]
            BY <3>1, <4>2
      <4> QED BY <4>1, <4>2, <4>3
    <3> QED BY <1>5, <3>1
  <2> QED BY <1>1, <1>5, <1>9, <2>1, <2>2, <2>3, <2>4 DEF Kept
<1>11. \A s \in Signals : Acquired(s)'
      BY <1>4 DEF Acquired, Initializing
<1> QED BY <1>4, <1>13, <1>6, <1>7, <1>8, <1>10, <1>11 DEF IInv

LEMMA BuildFailsStep == ASSUME IInv, NEW t \in Threads, BuildFails(t) PROVE IInv'
<1> DEFINE gone == {new[s] : s \in {r \in Signals : newOwns[r]}} \ {None}
<1>1. /\ pc[t] = "acquire" /\ Leave(t) /\ TypeOK /\ Holding
      /\ shut' = shut \cup gone /\ shutIds' = shutIds \cup gone
      /\ importFailed' \in BOOLEAN /\ (Stop \/ UNCHANGED workers)
      /\ UNCHANGED <<maker, handler, global, initialized, initPid, provider, owns, globalsSet,
                     exporter, pid>>
      BY DEF BuildFails, ShutDown, identity, refs, fixed, IInv, TypeOK
<1>2. Initializing
      BY <1>1, Phase DEF Inside, Initializing
<1>3. /\ ~initialized /\ provider = Nothing /\ owns = NotOwned /\ worker = None /\ handler = None
      BY <1>2, Blank
<1>4. /\ pc' \in [Threads -> {"idle", "want", "acquire", "publish", "install", "hung"}]
      /\ Holding' /\ lock' = None /\ ~Initializing'
      /\ todo' = {} /\ new' = Nothing /\ newOwns' = NotOwned
      /\ \A s \in Signals : new'[s] = None /\ ~newOwns'[s]
      /\ new' \in Refs /\ newOwns' \in [Signals -> BOOLEAN]
      BY <1>1, Leaves DEF Inside
<1>5. gone \subseteq Addresses /\ \A a \in gone : maker[a] = pid
  <2> SUFFICES ASSUME NEW s \in Signals, newOwns[s], new[s] # None
               PROVE  new[s] \in Addresses /\ maker[new[s]] = pid
      OBVIOUS
  <2>1. Acquired(s)
        BY DEF IInv
  <2> QED BY <1>1, <2>1 DEF Acquired, TypeOK, Refs
<1>6. \A a \in Addresses : maker[a] = pid => a \in shut \cup gone
  <2> SUFFICES ASSUME NEW a \in Addresses, maker[a] = pid, a \notin shut PROVE a \in gone
      OBVIOUS
  <2>1. PICK s \in Signals : new[s] = a /\ newOwns[s]
        BY <1>3 DEF IInv, Owned, NotOwned
  <2> QED BY <2>1, Constants
<1>7. pid \notin {Foreign, None}
      BY <1>1, Constants DEF TypeOK
<1> HIDE DEF gone
<1>14. /\ worker' = None /\ loops' \subseteq [of : Addresses, told : BOOLEAN]
       /\ Running'
  <2>1. CASE Stop
        BY <1>1, <2>1, Stops DEF IInv
  <2>2. CASE UNCHANGED workers
    <3>1. UNCHANGED <<worker, loops>>
          BY <2>2 DEF workers
    <3> QED BY <1>1, <1>3, <3>1, SameWorkers DEF IInv, TypeOK
  <2> QED BY <1>1, <2>1, <2>2
<1>8. TypeOK'
      BY <1>1, <1>3, <1>4, <1>5, <1>14 DEF TypeOK
<1>9. ~At("acquire")' /\ ~At("publish")' /\ ~At("install")'
      BY <1>4 DEF Initializing
<1>10. Fresher' /\ Built' /\ Apart'
      BY <1>1, <1>4, <1>5, <1>7, <1>9 DEF IInv, Fresher, Built, Apart
<1>11. Owned'
      BY <1>1, <1>6 DEF Owned
<1>12. Kept'
      BY <1>1, <1>3, <1>14 DEF IInv, Kept
<1>13. \A s \in Signals : Acquired(s)'
      BY <1>4, <1>9 DEF Acquired
<1> QED BY <1>4, <1>14, <1>8, <1>10, <1>11, <1>12, <1>13 DEF IInv
-----------------------------------------------------------------------------
\* The signals one after the other

\* A provider is adopted, or built where nothing refers to.
LEMMA AcquireStep == ASSUME IInv, NEW t \in Threads, Acquire(t) PROVE IInv'
<1>0. PICK s : s = FirstOf(todo)
      OBVIOUS
<1>1. /\ pc[t] = "acquire" /\ Advance(t, "publish")
      /\ \/ /\ Existing(s) # None
            /\ new' = [new EXCEPT ![s] = Existing(s)]
            /\ UNCHANGED <<newOwns, maker, shut>>
         \/ /\ Existing(s) = None
            /\ \E a \in Fresh : Build(a, pid) /\ new' = [new EXCEPT ![s] = a]
            /\ newOwns' = [newOwns EXCEPT ![s] = TRUE]
      /\ UNCHANGED <<lock, importFailed, worker, loops, handler, global, initialized, initPid, provider,
                     owns, globalsSet, shutIds, exporter, pid>>
      /\ TypeOK /\ Holding
      BY <1>0 DEF Acquire, workers, identity, refs, fixed, IInv
<1>2. /\ At("acquire") /\ ~At("publish") /\ ~At("install") /\ Initializing /\ lock = t
      BY <1>1, Phase DEF Inside, Initializing
<1>3. /\ ~initialized /\ provider = Nothing /\ owns = NotOwned /\ worker = None /\ handler = None
      BY <1>2, Blank
<1>4. /\ todo # {} /\ todo \subseteq Enabled /\ s \in todo /\ s \in Signals /\ s \in Enabled
      BY <1>0, <1>1, <1>2, First, Constants DEF IInv, Fresher, TypeOK
<1>5. /\ pc' \in [Threads -> {"idle", "want", "acquire", "publish", "install", "hung"}]
      /\ Holding' /\ todo' \subseteq Enabled /\ lock' = t
      /\ \/ todo = {s} /\ todo' = Enabled /\ pc'[t] = "publish"
         \/ todo' = todo \ {s} /\ todo' # {} /\ pc'[t] = "acquire"
      BY <1>0, <1>1, <1>4, Advances DEF Inside
<1>6. new[s] = None /\ ~newOwns[s]
  <2>1. Acquired(s)
        BY <1>4 DEF IInv
  <2> QED BY <1>2, <1>4, <2>1 DEF Acquired
<1>7. PICK v \in Addresses :
        /\ new' \in Refs /\ newOwns' \in [Signals -> BOOLEAN] /\ new'[s] = v
        /\ \A r \in Signals : r # s => new'[r] = new[r] /\ newOwns'[r] = newOwns[r]
        /\ newOwns'[s] => maker'[v] = pid /\ v # global[s] /\ Existing(s) = None
        /\ ~newOwns'[s] => v = global[s]
        /\ maker' \in [Addresses -> Pids \cup {Foreign, None}]
        /\ shut' \subseteq shut /\ v \notin shut'
        /\ \A b \in Addresses : maker'[b] = maker[b] \/ (b = v /\ newOwns'[s])
        /\ \A b \in Addresses \ {v} : b \in shut => b \in shut'
        /\ maker'[v] \in 0..pid \cup {Foreign} /\ maker'[v] # None
        /\ newOwns'[s] => \A r \in Signals : v # global[r] /\ v # provider[r] /\ v # new[r]
  <2>1. CASE Existing(s) # None
    <3>1. /\ Existing(s) = global[s] /\ Usable(global[s])
          BY <2>1 DEF Existing
    <3>2. /\ global[s] \in Addresses /\ global[s] # None /\ global[s] \notin shut
          BY <1>1, <1>4, <3>1 DEF Usable, TypeOK, Refs
    <3>3. /\ new' = [new EXCEPT ![s] = global[s]] /\ UNCHANGED <<newOwns, maker, shut>>
          BY <1>1, <2>1, <3>1
    <3>4. /\ new' \in Refs /\ new'[s] = global[s]
          /\ \A r \in Signals : r # s => new'[r] = new[r]
          BY <1>1, <1>4, <3>2, <3>3 DEF TypeOK, Refs
    <3>5. maker[global[s]] # None /\ maker[global[s]] \in 0..pid \cup {Foreign, None}
          BY <1>4, <3>2 DEF IInv, Built
    <3> QED BY <1>1, <1>6, <3>2, <3>3, <3>4, <3>5 DEF TypeOK
  <2>2. CASE Existing(s) = None
    <3>1. PICK a \in Fresh : Build(a, pid) /\ new' = [new EXCEPT ![s] = a]
          BY <1>1, <2>2
    <3>2. newOwns' = [newOwns EXCEPT ![s] = TRUE]
          BY <1>1, <2>2
    <3>3. /\ a \in Addresses /\ a # None
          /\ \A r \in Signals : a # global[r] /\ a # provider[r] /\ a # new[r]
          BY Frees
    <3>4. /\ maker' \in [Addresses -> Pids \cup {Foreign, None}]
          /\ maker'[a] = pid
          /\ \A b \in Addresses : b # a => maker'[b] = maker[b]
          /\ shut' = shut \ {a}
          BY <3>1, <3>3, Builds
    <3>5. /\ new' \in Refs /\ newOwns' \in [Signals -> BOOLEAN]
          /\ new'[s] = a /\ newOwns'[s]
          /\ \A r \in Signals : r # s => new'[r] = new[r] /\ newOwns'[r] = newOwns[r]
          BY <1>1, <1>4, <3>1, <3>2, <3>3 DEF TypeOK, Refs
    <3>6. pid \in 0..pid /\ pid # None
          BY <1>1, Constants DEF TypeOK, Pids
    <3> QED BY <1>4, <2>2, <3>3, <3>4, <3>5, <3>6
  <2> QED BY <2>1, <2>2
<1>8. TypeOK'
      BY <1>1, <1>5, <1>7 DEF TypeOK
<1>9. Fresher'
  <2>1. Enabled # {}
        BY Constants
  <2>2. Initializing' /\ ~At("install")'
        BY <1>5 DEF Initializing, At
  <2> QED BY <1>1, <1>3, <1>5, <2>1, <2>2 DEF Fresher
<1>10. Built'
  <2>1. \A b \in Addresses : maker'[b] \in 0..pid' \cup {Foreign, None}
        BY <1>1, <1>7 DEF IInv, Built
  <2>2. ASSUME NEW r \in Signals, NEW b \in {global'[r], provider'[r], new'[r]} \ {None}
        PROVE  maker'[b] # None
    <3>1. CASE b = v
          BY <1>7, <3>1
    <3>2. CASE b # v
      <4>1. b \in {global[r], provider[r], new[r]} \ {None} /\ b \in Addresses
            BY <1>1, <1>7, <2>2, <3>2 DEF TypeOK, Refs
      <4> QED BY <1>7, <3>2, <4>1 DEF IInv, Built
    <3> QED BY <3>1, <3>2
  <2>3. shut' \subseteq shutIds' /\ \A b \in shut' : maker'[b] \notin {Foreign, None}
    <3>1. \A b \in shut' : b \in shut /\ b # v /\ maker'[b] = maker[b]
          BY <1>1, <1>7 DEF TypeOK
    <3> QED BY <1>1, <3>1 DEF IInv, Built
  <2> QED BY <2>1, <2>2, <2>3 DEF Built
<1>11. Apart'
  <2>1. v # None
        BY Constants
  <2>2. \A r \in Signals : r # s => v # global[r] /\ v # provider[r] /\ v # new[r]
    <3>1. CASE newOwns'[s]
          BY <1>7, <3>1
    <3>2. CASE ~newOwns'[s]
      <4> SUFFICES ASSUME NEW r \in Signals, r # s
                   PROVE  v # global[r] /\ v # provider[r] /\ v # new[r]
          OBVIOUS
      <4>1. {global[r], provider[r], new[r]} \cap {global[s], provider[s], new[s]} \subseteq {None}
            BY <1>4 DEF IInv, Apart
      <4>2. v = global[s]
            BY <1>7, <3>2
      <4>3. v \notin {global[r], provider[r], new[r]}
            BY <2>1, <4>1, <4>2
      <4> QED BY <4>3
    <3> QED BY <3>1, <3>2
  <2>3. ASSUME NEW r \in Signals, NEW q \in Signals, r # q
        PROVE  {global[r], provider[r], new'[r]} \cap {global[q], provider[q], new'[q]}
               \subseteq {None}
    <3>1. {global[r], provider[r], new[r]} \cap {global[q], provider[q], new[q]} \subseteq {None}
          BY <2>3 DEF IInv, Apart
    <3>2. CASE r = s
          BY <1>7, <2>2, <2>3, <3>1, <3>2
    <3>3. CASE q = s
          BY <1>7, <2>2, <2>3, <3>1, <3>3
    <3>4. CASE r # s /\ q # s
          BY <1>7, <3>1, <3>4
    <3> QED BY <3>2, <3>3, <3>4
  <2> QED BY <1>1, <2>3 DEF Apart
<1>12. Owned'
  <2> SUFFICES ASSUME NEW b \in Addresses, b \notin shut', maker'[b] = pid
               PROVE  \E r \in Signals : new'[r] = b /\ newOwns'[r]
      BY <1>1 DEF Owned
  <2>1. CASE b = v /\ newOwns'[s]
        BY <1>4, <1>7, <2>1
  <2>2. CASE ~(b = v /\ newOwns'[s])
    <3>1. maker[b] = pid
          BY <1>7, <2>2
    <3>2. b \notin shut
      <4>1. CASE b = v
            BY <1>1, <1>4, <2>2, <4>1 DEF TypeOK
      <4>2. CASE b # v
            BY <1>7, <4>2
      <4> QED BY <4>1, <4>2
    <3>3. PICK r \in Signals : new[r] = b /\ newOwns[r]
          BY <1>3, <3>1, <3>2 DEF IInv, Owned, NotOwned
    <3>4. r # s
          BY <1>6, <3>3
    <3> QED BY <1>7, <3>3, <3>4
  <2> QED BY <2>1, <2>2
<1>13. Kept'
      BY <1>1, <1>3 DEF IInv, Kept
<1>14. /\ At("acquire")' <=> pc'[t] = "acquire"
       /\ At("publish")' <=> pc'[t] = "publish"
       /\ ~At("install")'
      BY <1>5 DEF At
<1>15. Acquired(s)'
  <2>1. newOwns'[s] /\ globalsSet /\ s # "log" => global[s] \in shutIds
    <3> SUFFICES ASSUME newOwns'[s], globalsSet, s # "log" PROVE global[s] \in shutIds
        OBVIOUS
    <3>1. global[s] # None
          BY <1>4 DEF IInv, Kept
    <3>2. ~Usable(global[s])
          BY <1>7, <3>1 DEF Existing
    <3> QED BY <3>1, <3>2 DEF Usable, IInv, Built
  <2>2. v # None
        BY Constants
  <2>3. s \notin todo' \/ pc'[t] = "publish"
        BY <1>5
  <2>4. ~(At("publish")' /\ s \notin todo')
        BY <1>4, <1>5, <1>14
  <2>5. v \notin shut' /\ (newOwns'[s] => maker'[v] = pid') /\ (~newOwns'[s] => v = global'[s])
        BY <1>1, <1>7
  <2>6. newOwns'[s] => v # global'[s]
        BY <1>1, <1>7
  <2>7. ~(At("acquire")' /\ s \in todo')
        BY <1>14, <2>3
  <2>8. UNCHANGED <<globalsSet, global, shutIds>>
        BY <1>1
  <2>9. new'[s] = v
        BY <1>7
  <2> QED BY <1>4, <1>14, <2>1, <2>2, <2>4, <2>5, <2>6, <2>7, <2>8, <2>9 DEF Acquired
<1>16. ASSUME NEW r \in Signals, r # s PROVE Acquired(r)'
  <2>1. Acquired(r) /\ new'[r] = new[r] /\ newOwns'[r] = newOwns[r]
        BY <1>7, <1>16 DEF IInv
  <2>2. r \in Enabled => (new[r] = None <=> r \in todo)
        BY <1>2, <2>1 DEF Acquired
  <2>3. pc'[t] = "acquire" => (r \in todo' <=> r \in todo)
        BY <1>5, <1>16
  <2>4. pc'[t] = "publish" => todo' = Enabled /\ r \notin todo
        BY <1>5, <1>16
  <2>5. newOwns[r] => new[r] # global[r]
        BY <1>2, <2>1 DEF Acquired
  <2>6. new[r] # None => /\ r \in Enabled /\ new[r] \notin shut'
                         /\ newOwns[r] => maker'[new[r]] = pid
                         /\ ~newOwns[r] => new[r] = global[r]
    <3> SUFFICES ASSUME new[r] # None
                 PROVE  /\ r \in Enabled /\ new[r] \notin shut'
                        /\ newOwns[r] => maker'[new[r]] = pid
                        /\ ~newOwns[r] => new[r] = global[r]
        OBVIOUS
    <3>1. new[r] \in Addresses /\ r \in Enabled /\ new[r] \notin shut
          /\ (newOwns[r] => maker[new[r]] = pid) /\ (~newOwns[r] => new[r] = global[r])
          BY <1>1, <2>1 DEF Acquired, TypeOK, Refs
    <3>2. newOwns'[s] => new[r] # v
          BY <1>7
    <3> QED BY <1>7, <3>1, <3>2
  <2>7. newOwns[r] /\ globalsSet /\ r # "log" => global[r] \in shutIds
        BY <2>1 DEF Acquired
  <2>8. new[r] = None => ~newOwns[r]
        BY <2>1 DEF Acquired
  <2>9. ~(At("publish")' /\ r \in Enabled /\ r \notin todo')
        BY <1>14, <2>4
  <2> QED BY <1>1, <1>14, <2>1, <2>2, <2>3, <2>4, <2>5, <2>6, <2>7, <2>8, <2>9 DEF Acquired
<1>17. \A r \in Signals : Acquired(r)'
      BY <1>15, <1>16
<1>18. Running'
      BY <1>1, SameWorkers DEF IInv
<1> QED BY <1>5, <1>8, <1>9, <1>10, <1>11, <1>12, <1>13, <1>17, <1>18 DEF IInv

\* Ours becomes the global provider, or another's is adopted and ours shut down.
LEMMA PublishStep == ASSUME IInv, NEW t \in Threads, Publish(t) PROVE IInv'
<1>0. PICK s : s = FirstOf(todo)
      OBVIOUS
<1>1. /\ pc[t] = "publish" /\ Advance(t, "install")
      /\ IF newOwns[s] /\ (s = "log" \/ ~globalsSet) THEN Published(s)
         ELSE UNCHANGED <<global, new, newOwns, shut, shutIds>>
      /\ UNCHANGED <<lock, importFailed, worker, loops, handler, initialized, initPid, provider,
                     owns, globalsSet, maker, exporter, pid>>
      /\ TypeOK /\ Holding
      BY <1>0 DEF Publish, workers, identity, refs, fixed, IInv
<1>2. At("publish") /\ ~At("acquire") /\ ~At("install") /\ Initializing /\ lock = t
      BY <1>1, Phase DEF Inside, Initializing
<1>3. /\ ~initialized /\ provider = Nothing /\ owns = NotOwned /\ worker = None /\ handler = None
      BY <1>2, Blank
<1>4. todo # {} /\ todo \subseteq Enabled /\ s \in todo /\ s \in Signals /\ s \in Enabled
      BY <1>0, <1>1, <1>2, First, Constants DEF IInv, Fresher, TypeOK
<1>5. /\ pc' \in [Threads -> {"idle", "want", "acquire", "publish", "install", "hung"}]
      /\ Holding' /\ todo' \subseteq Enabled /\ lock' = t
      /\ \/ todo = {s} /\ todo' = Enabled /\ pc'[t] = "install"
         \/ todo' = todo \ {s} /\ todo' # {} /\ pc'[t] = "publish"
      BY <1>0, <1>1, <1>4, Advances DEF Inside
<1>6. /\ new[s] \in Addresses /\ new[s] # None /\ new[s] \notin shut
      /\ newOwns[s] => maker[new[s]] = pid /\ new[s] # global[s]
      /\ ~newOwns[s] => new[s] = global[s]
      /\ newOwns[s] /\ globalsSet /\ s # "log" => global[s] \in shutIds
      /\ global[s] \in Addresses \cup {None}
  <2>1. Acquired(s)
        BY <1>4 DEF IInv
  <2> QED BY <1>1, <1>2, <1>4, <2>1 DEF Acquired, TypeOK, Refs
<1>7. PICK gone \in SUBSET {new[s]} :
        /\ global' \in Refs /\ new' \in Refs /\ newOwns' \in [Signals -> BOOLEAN]
        /\ shut' = shut \cup gone /\ shutIds' = shutIds \cup gone
        /\ gone # {} => newOwns[s] /\ ~newOwns'[s]
        /\ newOwns[s] /\ ~newOwns'[s] => gone = {new[s]}
        /\ \A r \in Signals : r # s =>
              global'[r] = global[r] /\ new'[r] = new[r] /\ newOwns'[r] = newOwns[r]
        /\ global'[s] = (IF global[s] = None THEN new[s] ELSE global[s])
        /\ new'[s] \in {new[s], global[s]} /\ new'[s] # None /\ new'[s] \notin shut'
        /\ newOwns'[s] => newOwns[s] /\ new'[s] = new[s]
        /\ ~newOwns'[s] => new'[s] = global[s]
        /\ s # "log" => \/ new'[s] = global'[s]
                        \/ global[s] # None /\ global[s] \in shutIds
  <2>1. CASE /\ newOwns[s] /\ (s = "log" \/ ~globalsSet)
             /\ s # "log" /\ Usable(global[s])
    <3>1. Published(s)
          BY <1>1, <2>1
    <3>2. /\ global[s] \in Addresses /\ global[s] # None /\ global[s] \notin shut
          BY <1>6, <2>1 DEF Usable
    <3>3. /\ global' = [global EXCEPT ![s] = IF @ = None THEN new[s] ELSE @]
          /\ new' = [new EXCEPT ![s] = global[s]] /\ newOwns' = [newOwns EXCEPT ![s] = FALSE]
          /\ ShutDown(new, [NotOwned EXCEPT ![s] = TRUE])
          BY <2>1, <3>1 DEF Published
    <3>4. {r \in Signals : [NotOwned EXCEPT ![s] = TRUE][r]} = {s}
          BY <1>4 DEF NotOwned
    <3>5. shut' = shut \cup {new[s]} /\ shutIds' = shutIds \cup {new[s]}
          BY <1>6, <3>3, <3>4 DEF ShutDown
    <3>6. /\ global' \in Refs /\ new' \in Refs /\ newOwns' \in [Signals -> BOOLEAN]
          /\ global'[s] = global[s] /\ new'[s] = global[s] /\ ~newOwns'[s]
          /\ \A r \in Signals : r # s =>
               global'[r] = global[r] /\ new'[r] = new[r] /\ newOwns'[r] = newOwns[r]
          BY <1>1, <1>4, <3>2, <3>3 DEF TypeOK, Refs
    <3>7. new'[s] \notin shut'
          BY <1>6, <2>1, <3>2, <3>5, <3>6
    <3> WITNESS {new[s]} \in SUBSET {new[s]}
    <3> QED BY <1>6, <2>1, <3>2, <3>5, <3>6, <3>7
  <2>2. CASE /\ newOwns[s] /\ (s = "log" \/ ~globalsSet)
             /\ ~(s # "log" /\ Usable(global[s]))
    <3>1. /\ global' = [global EXCEPT ![s] = IF @ = None THEN new[s] ELSE @]
          /\ UNCHANGED <<new, newOwns, shut, shutIds>>
          BY <1>1, <2>2 DEF Published
    <3>2. /\ global' \in Refs
          /\ global'[s] = (IF global[s] = None THEN new[s] ELSE global[s])
          /\ \A r \in Signals : r # s => global'[r] = global[r]
          BY <1>1, <1>4, <1>6, <3>1 DEF TypeOK, Refs
    <3>3. s # "log" => global[s] = None \/ global[s] \in shutIds
          BY <2>2 DEF Usable, IInv, Built
    <3> WITNESS {} \in SUBSET {new[s]}
    <3> QED BY <1>1, <1>6, <2>2, <3>1, <3>2, <3>3 DEF TypeOK
  <2>3. CASE ~(newOwns[s] /\ (s = "log" \/ ~globalsSet))
    <3>1. UNCHANGED <<global, new, newOwns, shut, shutIds>>
          BY <1>1, <2>3
    <3>2. global[s] # None
      <4>1. CASE ~newOwns[s]
            BY <1>6, <4>1
      <4>2. CASE newOwns[s]
            BY <1>4, <2>3, <4>2 DEF IInv, Kept
      <4> QED BY <4>1, <4>2
    <3>3. s # "log" => new[s] = global[s] \/ global[s] \in shutIds
          BY <1>6, <2>3
    <3> WITNESS {} \in SUBSET {new[s]}
    <3> QED BY <1>1, <1>6, <3>1, <3>2, <3>3 DEF TypeOK
  <2> QED BY <2>1, <2>2, <2>3
<1>8. gone \subseteq Addresses /\ \A a \in gone : maker[a] = pid
      BY <1>6, <1>7
<1>9. pid \notin {Foreign, None}
      BY <1>1, Constants DEF TypeOK
<1>10. TypeOK'
      BY <1>1, <1>5, <1>7, <1>8 DEF TypeOK
<1>11. Fresher'
  <2>1. Initializing' /\ todo' # {}
        BY <1>5, Constants DEF Initializing, At
  <2> QED BY <1>1, <1>3, <2>1 DEF Fresher
<1>12. \A r \in Signals : {global'[r], provider'[r], new'[r]}
                           \subseteq {global[r], provider[r], new[r]}
      BY <1>1, <1>7
<1>13. Built'
  <2>1. \A a \in Addresses : maker'[a] \in 0..pid' \cup {Foreign, None}
        BY <1>1 DEF IInv, Built
  <2>2. \A r \in Signals : \A a \in {global'[r], provider'[r], new'[r]} \ {None} : maker'[a] # None
        BY <1>1, <1>12 DEF IInv, Built
  <2>3. shut' \subseteq shutIds' /\ \A a \in shut' : maker'[a] \notin {Foreign, None}
        BY <1>1, <1>7, <1>8, <1>9 DEF IInv, Built
  <2> QED BY <2>1, <2>2, <2>3 DEF Built
<1>14. Apart'
  <2> SUFFICES ASSUME NEW r \in Signals, NEW q \in Signals, r # q
               PROVE  {global'[r], provider'[r], new'[r]} \cap {global'[q], provider'[q], new'[q]}
                      \subseteq {None}
      BY DEF Apart
  <2>1. {global[r], provider[r], new[r]} \cap {global[q], provider[q], new[q]} \subseteq {None}
        BY DEF IInv, Apart
  <2> QED BY <1>12, <2>1
<1>15. Owned'
  <2> SUFFICES ASSUME NEW a \in Addresses, a \notin shut', maker[a] = pid
               PROVE  \E r \in Signals : new'[r] = a /\ newOwns'[r]
      BY <1>1 DEF Owned
  <2>1. PICK r \in Signals : new[r] = a /\ newOwns[r]
        BY <1>3, <1>7 DEF IInv, Owned, NotOwned
  <2>2. CASE r # s
        BY <1>7, <2>1, <2>2
  <2>3. CASE r = s
        BY <1>7, <2>1, <2>3
  <2> QED BY <2>2, <2>3
<1>16. Kept'
  <2>1. globalsSet => \A r \in Enabled \ {"log"} : global'[r] # None
    <3> SUFFICES ASSUME globalsSet, NEW r \in Enabled, r # "log" PROVE global'[r] # None
        OBVIOUS
    <3>1. r \in Signals /\ global[r] # None
          BY Constants DEF IInv, Kept
    <3> QED BY <1>7, <3>1
  <2> QED BY <1>1, <1>3, <2>1 DEF Kept
<1>17. /\ At("install")' <=> pc'[t] = "install"
       /\ At("publish")' <=> pc'[t] = "publish"
       /\ ~At("acquire")'
      BY <1>5 DEF At
<1>18. Acquired(s)'
  <2>1. newOwns'[s] /\ globalsSet /\ s # "log" => global'[s] \in shutIds'
    <3> SUFFICES ASSUME newOwns'[s], globalsSet, s # "log" PROVE global'[s] \in shutIds'
        OBVIOUS
    <3>1. global[s] \in shutIds /\ global[s] # None
          BY <1>1, <1>4, <1>6, <1>7 DEF IInv, Kept
    <3> QED BY <1>7, <3>1
  <2>2. ~newOwns'[s] => new'[s] = global'[s]
        BY <1>7
  <2>3. newOwns'[s] => maker[new'[s]] = pid
        BY <1>6, <1>7
  <2>4. s # "log" => Settled(s, new[s])'
        BY <1>7 DEF Settled
  <2>5. ~(At("publish")' /\ s \in todo')
        BY <1>5, <1>17
  <2>6. new'[s] # None /\ new'[s] \notin shut'
        BY <1>7
  <2>7. UNCHANGED <<globalsSet, maker, pid>>
        BY <1>1
  <2> QED BY <1>4, <1>17, <2>1, <2>2, <2>3, <2>4, <2>5, <2>6, <2>7 DEF Acquired
<1>19. ASSUME NEW r \in Signals, r # s PROVE Acquired(r)'
  <2>1. /\ Acquired(r)
        /\ global'[r] = global[r] /\ new'[r] = new[r] /\ newOwns'[r] = newOwns[r]
        BY <1>7, <1>19 DEF IInv
  <2>2. new[r] # None => new[r] \notin gone
    <3>1. {global[r], provider[r], new[r]} \cap {global[s], provider[s], new[s]} \subseteq {None}
          BY <1>4, <1>19 DEF IInv, Apart
    <3> QED BY <1>7, <3>1
  <2>3. new[r] # None => /\ r \in Enabled /\ new[r] \notin shut'
                         /\ newOwns[r] => maker[new[r]] = pid
                         /\ ~newOwns[r] => new[r] = global[r]
        BY <1>7, <2>1, <2>2 DEF Acquired
  <2>4. newOwns[r] /\ globalsSet /\ r # "log" => global[r] \in shutIds'
        BY <1>7, <2>1 DEF Acquired
  <2>5. /\ new[r] = None => ~newOwns[r]
        /\ r \in Enabled => new[r] # None
        BY <1>2, <2>1 DEF Acquired
  <2>6. newOwns[r] /\ At("publish")' /\ r \in todo' => new[r] # global[r]
    <3>1. At("publish")' /\ r \in todo' => r \in todo
          BY <1>5, <1>17
    <3> QED BY <1>2, <2>1, <3>1 DEF Acquired
  <2>7. r # "log" /\ r \in Enabled /\ (At("install")' \/ (At("publish")' /\ r \notin todo'))
          => Settled(r, new[r])'
    <3> SUFFICES ASSUME r # "log", r \in Enabled,
                        At("install")' \/ (At("publish")' /\ r \notin todo')
                 PROVE  Settled(r, new[r])'
        OBVIOUS
    <3>1. r \notin todo
          BY <1>5, <1>17, <1>19
    <3>2. Settled(r, new[r])
          BY <1>2, <2>1, <3>1 DEF Acquired
    <3> QED BY <1>1, <1>7, <2>1, <3>2 DEF Settled
  <2>8. UNCHANGED <<globalsSet, maker, pid>>
        BY <1>1
  <2> QED BY <1>17, <2>1, <2>3, <2>4, <2>5, <2>6, <2>7, <2>8 DEF Acquired
<1>20. \A r \in Signals : Acquired(r)'
      BY <1>18, <1>19
<1>21. Running'
      BY <1>1, SameWorkers DEF IInv
<1> QED BY <1>5, <1>10, <1>11, <1>13, <1>14, <1>15, <1>16, <1>20, <1>21 DEF IInv

-----------------------------------------------------------------------------
\* Theorems

LEMMA Initially == ASSUME Init PROVE IInv
<1>1. /\ pid = 0 /\ lock = None /\ pc = [t \in Threads |-> "idle"]
      /\ initialized = FALSE /\ initPid = None /\ importFailed = FALSE /\ globalsSet = FALSE
      /\ provider = Nothing /\ owns = NotOwned /\ shutIds = {} /\ shut = {}
      /\ worker = None /\ loops = {} /\ handler = None /\ global = Nothing
      /\ maker = [a \in Addresses |-> None]
      /\ todo = {} /\ new = Nothing /\ newOwns = NotOwned /\ exporter \in Exporters
      BY DEF Init
<1>2. Nothing \in Refs /\ NotOwned \in [Signals -> BOOLEAN]
      BY DEF Refs, Nothing, NotOwned
<1>3. /\ \A s \in Signals : global[s] = None /\ provider[s] = None /\ new[s] = None /\ ~newOwns[s]
      /\ \A a \in Addresses : maker[a] = None
      BY <1>1 DEF Nothing, NotOwned
<1>4. ~Initializing /\ ~At("acquire") /\ ~At("publish") /\ ~At("install")
      BY <1>1, Constants DEF Initializing, At
<1>5. 0 \in Pids
      BY Constants DEF Pids
<1>6. TypeOK
      BY <1>1, <1>2, <1>5 DEF TypeOK
<1>7. Holding /\ Fresher
      BY <1>1, <1>4, Constants DEF Holding, Inside, Fresher
<1>8. Built /\ Apart
      BY <1>1, <1>3 DEF Built, Apart
<1>9. Owned /\ Kept
      BY <1>1, <1>3, <1>5, Constants DEF Owned, Kept
<1>10. \A s \in Signals : Acquired(s)
      BY <1>3, <1>4 DEF Acquired
<1>11. Running
      BY <1>1 DEF Running
<1> QED BY <1>6, <1>7, <1>8, <1>9, <1>10, <1>11 DEF IInv

LEMMA Unchanging == ASSUME IInv, UNCHANGED vars PROVE IInv'
<1>1. UNCHANGED <<lock, pc, importFailed, worker, loops, handler, global, initialized, initPid, provider,
                  owns, globalsSet, maker, shut, shutIds, todo, new, newOwns, exporter, pid>>
      BY DEF vars, workers, identity, refs, objects, locals, fixed
<1>2. \A s \in Signals : Acquired(s)'
  <2> SUFFICES ASSUME NEW s \in Signals PROVE Acquired(s)'
      OBVIOUS
  <2>1. Acquired(s)
        BY DEF IInv
  <2> QED BY <1>1, <2>1 DEF Acquired, At, Settled
<1>3. TypeOK' /\ Holding' /\ Fresher'
      BY <1>1 DEF IInv, TypeOK, Holding, Fresher, Initializing, At
<1>4. Built' /\ Apart' /\ Owned' /\ Kept'
      BY <1>1 DEF IInv, Built, Apart, Owned, Kept, Settled
<1>5. Running'
      BY <1>1, SameWorkers DEF IInv
<1> QED BY <1>2, <1>3, <1>4, <1>5 DEF IInv

LEMMA Preserved == IInv /\ [Next]_vars => IInv'
<1> SUFFICES ASSUME IInv, [Next]_vars PROVE IInv'
    OBVIOUS
<1>1. CASE \E t \in Threads : \/ Enter(t) \/ Lock(t) \/ Acquire(t) \/ BuildFails(t)
                                \/ Publish(t) \/ Install(t) \/ Shutdown(t)
                                \/ ShutdownHangs(t)
      BY <1>1, EnterStep, LockStep, AcquireStep, BuildFailsStep, PublishStep, InstallStep,
         ShutdownStep, ShutdownHangsStep
<1>2. CASE \E s \in Enabled : ForeignSet(s)
      BY <1>2, ForeignSetStep, Constants
<1>3. CASE LoopEnds
      BY <1>3, LoopEndsStep
<1>4. CASE Fork
      BY <1>4, ForkStep
<1>5. CASE UNCHANGED vars
      BY <1>5, Unchanging
<1> QED BY <1>1, <1>2, <1>3, <1>4, <1>5 DEF Next

\* The parts of the state of OtelUtils fit together at every step of its callers, of
\* other libraries and of fork(): see the parts of IInv.
THEOREM Invariance == Spec => []IInv
<1>1. Init => IInv
      BY Initially
<1>2. IInv /\ [Next]_vars => IInv'
      BY Preserved
<1> QED BY <1>1, <1>2, PTL DEF Spec

\* The fields of OtelUtils and the locals of init_otel_if_needed() keep their types.
THEOREM TypeCorrect == Spec => []TypeOK
<1>1. IInv => TypeOK
      BY DEF IInv
<1> QED BY <1>1, Invariance, PTL

\* shutdown(), a failed init_otel_if_needed() and one that lost a race for the global
\* close what this process built, all of it, and no provider of another library.
THEOREM OwnShutDown == Spec => []ShutsItsOwn
<1>1. ASSUME IInv PROVE ShutsItsOwn
  <2>1. \A a \in shut : maker[a] # Foreign
        BY <1>1 DEF IInv, Built
  <2>2. ASSUME lock = None, NEW a \in Addresses \ shut, maker[a] = pid
        PROVE  \E s \in Signals : provider[s] = a /\ owns[s]
    <3>1. ~Initializing
          BY <2>2, Constants DEF Initializing, At
    <3>2. \A s \in Signals : ~newOwns[s]
          BY <1>1, <3>1, Quiet
    <3> QED BY <1>1, <2>2, <3>2 DEF IInv, Owned
  <2> QED BY <2>1, <2>2 DEF ShutsItsOwn
<1> QED BY <1>1, Invariance, PTL

\* After init_otel_if_needed() the process has a live provider for every signal, and
\* for traces and metrics it is the one that another library published, if any.
THEOREM ReadyOnceInitialized == Spec => []Ready
<1>1. ASSUME IInv PROVE Ready
  <2> SUFFICES ASSUME initialized, initPid = pid, NEW s \in Enabled
               PROVE  /\ provider[s] \notin shut \cup {None}
                      /\ s # "log" /\ global[s] \notin shutIds \cup {None}
                           /\ maker[global[s]] = Foreign => provider[s] = global[s]
      BY DEF Ready
  <2>1. s \in Signals
        BY Constants
  <2>2. /\ provider[s] \notin shut /\ provider[s] # None
        /\ s # "log" => Settled(s, provider[s])
        BY <1>1, <2>1 DEF IInv, Kept
  <2> QED BY <2>2 DEF Settled
<1> QED BY <1>1, Invariance, PTL

\* Whatever scrape server or push loop runs in a process serves the meter provider it
\* uses and owns, or was told to stop by shutdown(); a handle in an initialized process
\* has its thread there, and the logging handler never feeds a provider that
\* shutdown() has closed.
THEOREM WorkersOwned == Spec => []WorkerOwned
<1>1. ASSUME IInv PROVE WorkerOwned
  <2>1. handler \notin shut
    <3>1. None \notin shut /\ "log" \in Signals
          BY <1>1, Constants DEF IInv, TypeOK
    <3> QED BY <1>1, <3>1 DEF IInv, Kept
  <2>2. ASSUME NEW l \in loops, ~l.told
        PROVE  initialized /\ owns["metric"] /\ l.of = provider["metric"]
    <3>1. worker = [of |-> l.of, by |-> pid]
          BY <1>1, <2>2 DEF IInv, Running
    <3>2. worker # None
          BY <1>1, <2>2, AllTold DEF IInv
    <3> QED BY <1>1, <3>1, <3>2 DEF IInv, Kept
  <2>3. initialized /\ initPid = pid /\ worker # None =>
           worker.by = pid /\ Thread(worker.of, FALSE) \in loops
        BY <1>1 DEF IInv, Kept, Running
  <2> QED BY <1>1, <2>1, <2>2, <2>3 DEF WorkerOwned, IInv, TypeOK
<1> QED BY <1>1, Invariance, PTL
=============================================================================

------------------------------ MODULE TtlCache ------------------------------
(***************************************************************************)
(* CachedFunction of the ttl_cache decorator under the adapters that use   *)
(* it.  A cached call looks its key up, reads the entry, asks the server   *)
(* and stores the answer in separate steps; a write changes the server and *)
(* then clears caches one after the other.  Threads interleave between any *)
(* two steps, entries expire and are evicted, the answer of a write gets   *)
(* lost, and other clients write to the server as well.                    *)
(*                                                                         *)
(* The cache itself is cachetools.TTLCache.  What the server answers to a  *)
(* read is a version, the number of changes so far.                        *)
(***************************************************************************)
EXTENDS Integers, Sequences, FiniteSets, AdapterCaches

CONSTANTS Threads,
          None,
          Reads,       \* the cached methods in use
          Args,        \* their arguments
          Keys,        \* which of them are called with which
          Ops,         \* the writes in use: name -> what they change and clear
          Step,        \* seconds that pass at once
          MaxTime,     \* bound on the clock
          MaxVersion,  \* read -> bound on the changes of its answer
          Faults       \* "raise": the server refuses a read; "lost": a write is done and its
                       \* answer is lost; "foreign": other clients write

ASSUME ConstantsAssumption == /\ Reads \subseteq DOMAIN CachedReads
                              /\ Step \in Nat \ {0} /\ MaxTime \in Nat
                              /\ MaxVersion \in [Reads -> Nat]
                              /\ None \notin Reads \cup Args
                              /\ Keys \subseteq Reads \X Args
                              /\ \A w \in DOMAIN Ops :
                                    /\ Ops[w] \in AdapterWrites
                                    /\ Ops[w].clears \in Seq(DOMAIN CachedReads)
                              /\ Reads \cap DOMAIN Ops = {}
\* Every cache has room and keeps its entries for some time.
ASSUME CachesAssumption == \A r \in DOMAIN CachedReads :
                             CachedReads[r] \in [size : Nat \ {0}, ttl : Nat \ {0}]

VARIABLES now,     \* time.monotonic()
          server,  \* read -> version of its answer
          cache,   \* read -> argument -> entry; history: how long its call took
          pc,      \* thread -> where it is
          call,    \* thread -> the method it is in
          arg,     \* thread -> its argument
          got,     \* thread -> what the server answered
          left,    \* thread -> the caches it has still to clear
          wrote,   \* thread -> read -> version its write produced
          done,    \* history: read -> latest version whose write cleared it and returned
          superseded  \* history: read -> version -> when the server left it behind

locals == <<pc, call, arg, got, left, wrote>>
history == <<done, superseded>>
vars == <<now, server, cache, locals, history>>

Versions == {0} \cup UNION {0..MaxVersion[r] : r \in Reads}
Nothing == [ver |-> 0, asked |-> 0, overlap |-> FALSE]
Fetched == [ver : Versions, asked : 0..MaxTime, overlap : BOOLEAN]
Entries == [ver : Versions, took : 0..MaxTime, overlap : BOOLEAN, stored : 0..MaxTime]

\* "key in self._cache"
Held(r, a) == cache[r][a] # None /\ now < cache[r][a].stored + CachedReads[r].ttl

Typed == /\ now \in 0..MaxTime
         /\ server \in [Reads -> Versions]
         /\ cache \in [Reads -> [Args -> Entries \cup {None}]]
         /\ pc \in [Threads -> {"idle", "read", "call", "store", "clear", "keyerror"}]
         /\ call \in [Threads -> Reads \cup DOMAIN Ops \cup {None}]
         /\ arg \in [Threads -> Args \cup {None}]
         /\ got \in [Threads -> Fetched]
         /\ left \in [Threads -> Seq(DOMAIN CachedReads)]
         /\ wrote \in [Threads -> [Reads -> Versions]]
         /\ done \in [Reads -> Versions]
         /\ superseded \in [Reads -> [Versions -> 0..MaxTime]]

\* "maxsize: Maximum size of the cache"
Bounded == \A r \in Reads : Cardinality({a \in Args : Held(r, a)}) <= CachedReads[r].size

TypeOK == Typed /\ Bounded

Init == /\ now = 0
        /\ server = [r \in Reads |-> 0]
        /\ cache = [r \in Reads |-> [a \in Args |-> None]]
        /\ pc = [t \in Threads |-> "idle"]
        /\ call = [t \in Threads |-> None]
        /\ arg = [t \in Threads |-> None]
        /\ got = [t \in Threads |-> Nothing]
        /\ left = [t \in Threads |-> << >>]
        /\ wrote = [t \in Threads |-> [r \in Reads |-> 0]]
        /\ done = [r \in Reads |-> 0]
        /\ superseded = [r \in Reads |-> [v \in Versions |-> 0]]

Goto(t, step) == pc' = [pc EXCEPT ![t] = step]

\* The call ends; its locals are gone.
Return(t) == /\ Goto(t, "idle")
             /\ call' = [call EXCEPT ![t] = None]
             /\ arg' = [arg EXCEPT ![t] = None]
             /\ got' = [got EXCEPT ![t] = Nothing]
             /\ left' = [left EXCEPT ![t] = << >>]
             /\ wrote' = [wrote EXCEPT ![t] = [r \in Reads |-> 0]]

-----------------------------------------------------------------------------
\* TTLCache

\* Mutant: the cache is a dictionary that also expires its entries.
StoredUnbounded(r, a, e) == {[cache[r] EXCEPT ![a] = e]}
\* A full cache gives up another entry for a new key.
Stored(r, a, e) ==
    LET live == {b \in Args \ {a} : Held(r, b)}
        kept(gone) == [b \in Args |-> IF b = a THEN e
                                      ELSE IF b \in live \ gone THEN cache[r][b] ELSE None]
    IN  IF Cardinality(live) < CachedReads[r].size THEN {kept({})}
        ELSE {kept({b}) : b \in live}

-----------------------------------------------------------------------------
\* A cached read

\* "if key in self._cache"
Look(t, r, a) == /\ pc[t] = "idle" /\ <<r, a>> \in Keys
                 /\ Goto(t, IF Held(r, a) THEN "read" ELSE "call")
                 /\ call' = [call EXCEPT ![t] = r]
                 /\ arg' = [arg EXCEPT ![t] = a]
                 /\ UNCHANGED <<now, server, cache, got, left, wrote, history>>

\* Mutant: a hit renews the entry.
ReadRenews(t) ==
    /\ pc[t] = "read"
    /\ IF Held(call[t], arg[t])
       THEN /\ Return(t)
            /\ cache' = [cache EXCEPT ![call[t]][arg[t]].stored = now]
       ELSE Goto(t, "keyerror") /\ UNCHANGED <<cache, call, arg, got, left, wrote>>
    /\ UNCHANGED <<now, server, history>>
\* "return self._cache[key]": raises KeyError if the entry is gone meanwhile.
Read(t) ==
    /\ pc[t] = "read"
    /\ IF Held(call[t], arg[t]) THEN Return(t)
       ELSE Goto(t, "keyerror") /\ UNCHANGED <<call, arg, got, left, wrote>>
    /\ UNCHANGED <<now, server, cache, history>>

Ask(t) == /\ pc[t] = "call"
          /\ Goto(t, "store")
          /\ got' = [got EXCEPT ![t] =
                       [ver |-> server[call[t]], asked |-> now, overlap |-> FALSE]]
          /\ UNCHANGED <<now, server, cache, call, arg, left, wrote, history>>

\* Exceptions are not cached.
AskFails(t) == /\ pc[t] = "call" /\ "raise" \in Faults
               /\ Return(t)
               /\ UNCHANGED <<now, server, cache, history>>

Store(t) ==
    /\ pc[t] = "store"
    /\ LET r == call[t]
           e == [ver |-> got[t].ver, took |-> now - got[t].asked,
                 overlap |-> got[t].overlap, stored |-> now]
       IN  \E entries \in Stored(r, arg[t], e) : cache' = [cache EXCEPT ![r] = entries]
    /\ Return(t)
    /\ UNCHANGED <<now, server, history>>

\* The caller gets the KeyError.
Raise(t) == /\ pc[t] = "keyerror"
            /\ Return(t)
            /\ UNCHANGED <<now, server, cache, history>>

-----------------------------------------------------------------------------
\* A write

\* The server changes; reads that it answered before and that are not stored yet
\* are overtaken by the write.
Change(R) ==
    /\ \A r \in R : server[r] < MaxVersion[r]
    /\ server' = [r \in Reads |-> IF r \in R THEN server[r] + 1 ELSE server[r]]
    /\ superseded' = [r \in Reads |-> IF r \in R THEN [superseded[r] EXCEPT ![server[r]] = now]
                                     ELSE superseded[r]]

Overtaken(R) == [t \in Threads |->
    IF pc[t] = "store" /\ call[t] \in R THEN [got[t] EXCEPT !.overlap = TRUE] ELSE got[t]]

Changed(w) == Ops[w].changes \cap Reads

\* The reads that a write both changes and clears.
Settled(w) == {r \in Changed(w) : \E i \in DOMAIN Ops[w].clears : Ops[w].clears[i] = r}

\* Mutant: nothing is cleared after the write.
WriteKeepsCaches(t, w) ==
    /\ pc[t] = "idle"
    /\ Change(Changed(w))
    /\ got' = Overtaken(Changed(w))
    /\ Goto(t, "clear")
    /\ call' = [call EXCEPT ![t] = w]
    /\ wrote' = [wrote EXCEPT ![t] = server']
    /\ UNCHANGED <<now, cache, arg, left, done>>
Write(t, w) ==
    /\ pc[t] = "idle"
    /\ Change(Changed(w))
    /\ got' = Overtaken(Changed(w))
    /\ Goto(t, "clear")
    /\ call' = [call EXCEPT ![t] = w]
    /\ left' = [left EXCEPT ![t] = Ops[w].clears]
    /\ wrote' = [wrote EXCEPT ![t] = server']
    /\ UNCHANGED <<now, cache, arg, done>>

\* The server does it and the caller gets an error all the same: no cache is
\* cleared.  A write that is refused changes nothing.
WriteFails(t, w) ==
    /\ pc[t] = "idle" /\ "lost" \in Faults
    /\ Change(Changed(w))
    /\ UNCHANGED <<now, cache, locals, done>>

Clear(t) ==
    /\ pc[t] = "clear" /\ left[t] # << >>
    /\ cache' = [r \in Reads |-> IF r = Head(left[t]) THEN [a \in Args |-> None]
                                ELSE cache[r]]
    /\ left' = [left EXCEPT ![t] = Tail(@)]
    /\ UNCHANGED <<now, server, pc, call, arg, got, wrote, history>>

WriteReturns(t) ==
    /\ pc[t] = "clear" /\ left[t] = << >>
    /\ done' = [r \in Reads |-> IF r \in Settled(call[t]) /\ wrote[t][r] > done[r]
                                THEN wrote[t][r] ELSE done[r]]
    /\ Return(t)
    /\ UNCHANGED <<now, server, cache, superseded>>

-----------------------------------------------------------------------------
Tick == /\ now + Step <= MaxTime
        /\ now' = now + Step
        /\ UNCHANGED <<server, cache, locals, history>>

\* Another client of the server.
ForeignWrite(r) == /\ "foreign" \in Faults
                   /\ Change({r})
                   /\ UNCHANGED <<now, cache, locals, done>>

Next == \/ \E t \in Threads : \/ \E r \in Reads, a \in Args : Look(t, r, a)
                              \/ Read(t) \/ Ask(t) \/ AskFails(t) \/ Store(t)
                              \/ Raise(t)
                              \/ \E w \in DOMAIN Ops : Write(t, w) \/ WriteFails(t, w)
                              \/ Clear(t) \/ WriteReturns(t)
        \/ Tick
        \/ \E r \in Reads : ForeignWrite(r)

Spec == Init /\ [][Next]_vars

-----------------------------------------------------------------------------
\* Properties

\* When a write that clears a cache it has changed returns, the answers it made obsolete
\* are gone from that cache.  A read that the write overtook may still put one there.
UpToDate(r) == \A a \in Args :
                  cache[r][a] # None => cache[r][a].ver >= done[r] \/ cache[r][a].overlap

\* Whatever a write forgets to clear, another client changes or an overtaken read stores:
\* an obsolete answer is served for the ttl at most after the server stopped giving it,
\* and for the time that the call which stored it took.
LeavesInTime(r) == \A a \in Args :
    LET e == cache[r][a]
    IN  Held(r, a) /\ e.ver < server[r] =>
            now < superseded[r][e.ver] + CachedReads[r].ttl + e.took

\* Both, of every cached read.
WritesSeen == \A r \in Reads : UpToDate(r) /\ LeavesInTime(r)
=============================================================================

--------------------------- MODULE TtlCache_proofs ---------------------------
(***************************************************************************)
(* Proofs about TtlCache: for any methods and writes of the adapters, any  *)
(* number of threads and every schedule, no answer that a write made       *)
(* obsolete is still in a cache it cleared when it returns, unless the     *)
(* write overtook the read; no obsolete answer at all outlives the ttl of  *)
(* its cache; and no cache outgrows its size.                              *)
(***************************************************************************)
EXTENDS TtlCache, FiniteSetTheorems, TLAPS

\* An answer shows version v of what the server holds, or a write overtook it.
Shows(x, v) == x.ver >= v \/ x.overlap

\* A call that asks the server is one of a read, with an argument.
Calls == \A t \in Threads :
            /\ pc[t] \in {"read", "call", "store"} => call[t] \in Reads /\ arg[t] \in Args
            /\ pc[t] = "clear" => call[t] \in DOMAIN Ops

\* An answer of version x.ver was asked for no later than now, and not after the server
\* left that version behind.
Dates(r, x, asked) == /\ x.ver <= server[r] /\ asked <= now
                      /\ x.ver < server[r] => asked <= superseded[r][x.ver]
Dated == /\ \A t \in Threads : pc[t] = "store" => Dates(call[t], got[t], got[t].asked)
         /\ \A r \in Reads, a \in Args :
                cache[r][a] # None =>
                    Dates(r, cache[r][a], cache[r][a].stored - cache[r][a].took)

\* No write produced a version the server has not reached.
Reached == \A r \in Reads : /\ done[r] <= server[r]
                             /\ \A t \in Threads : wrote[t][r] <= server[r]

\* An answer on its way to the cache shows what all writes have produced that
\* returned or are about to clear caches.
InFlight ==
    \A t \in Threads : pc[t] = "store" =>
        /\ Shows(got[t], done[call[t]])
        /\ \A u \in Threads : pc[u] = "clear" /\ call[t] \in Changed(call[u])
                                => Shows(got[t], wrote[u][call[t]])

\* What a write has cleared holds answers only that show its version.
Waits(t, r) == \E i \in 1..Len(left[t]) : left[t][i] = r
Fresh(r, v) == \A a \in Args : cache[r][a] # None => Shows(cache[r][a], v)
Cleared ==
    \A t \in Threads : pc[t] = "clear" =>
        \A r \in Settled(call[t]) : Waits(t, r) \/ Fresh(r, wrote[t][r])

\* What is cached shows the writes that have returned.
Current == \A r \in Reads : UpToDate(r)

IInv == Typed /\ Calls /\ Dated /\ Reached /\ InFlight /\ Cleared /\ Current

-----------------------------------------------------------------------------
\* Versions are numbers from 0 on, and the server has no others.
LEMMA VersionFacts == /\ Versions \subseteq Nat /\ 0 \in Versions
                      /\ \A r \in Reads : MaxVersion[r] \in Nat
                      /\ \A r \in Reads, v \in Nat : v <= MaxVersion[r] => v \in Versions
<1>1. \A r \in Reads : MaxVersion[r] \in Nat
      BY ConstantsAssumption
<1> QED BY <1>1 DEF Versions

\* What is in a cache after a store was there before, or is what was stored.
LEMMA StoredEntries ==
    ASSUME NEW r, NEW a, NEW e, NEW entries \in Stored(r, a, e)
    PROVE  /\ entries = [b \in Args |-> entries[b]]
           /\ \A b \in Args : entries[b] \in {e, cache[r][b], None}
<1> DEFINE live == {b \in Args \ {a} : Held(r, b)}
           kept(gone) == [b \in Args |-> IF b = a THEN e
                                         ELSE IF b \in live \ gone THEN cache[r][b] ELSE None]
<1>1. PICK gone : entries = kept(gone)
      BY Zenon DEF Stored
<1> QED BY <1>1

\* So are those of the state.
LEMMA Numbers ==
    ASSUME Typed
    PROVE  /\ server \in [Reads -> Nat] /\ done \in [Reads -> Nat]
           /\ wrote \in [Threads -> [Reads -> Nat]]
           /\ \A t \in Threads : got[t].ver \in Nat
           /\ \A r \in Reads, a \in Args : cache[r][a] # None => cache[r][a].ver \in Nat
<1>1. server \in [Reads -> Nat] /\ done \in [Reads -> Nat]
  <2>1. \A f \in [Reads -> Versions] : f \in [Reads -> Nat]
        BY VersionFacts
  <2> QED BY <2>1 DEF Typed
<1>2. wrote \in [Threads -> [Reads -> Nat]]
  <2>1. \A f \in [Threads -> [Reads -> Versions]] : f \in [Threads -> [Reads -> Nat]]
        BY VersionFacts
  <2> QED BY <2>1 DEF Typed
<1>3. \A t \in Threads : got[t].ver \in Nat
      BY VersionFacts DEF Typed, Fetched
<1>4. ASSUME NEW r \in Reads, NEW a \in Args, cache[r][a] # None PROVE cache[r][a].ver \in Nat
  <2>1. cache[r][a] \in Entries
        BY <1>4 DEF Typed
  <2> QED BY <2>1, VersionFacts DEF Entries
<1> QED BY <1>1, <1>2, <1>3, <1>4

\* A write leaves versions of the server behind.
LEMMA ServerTyped ==
    ASSUME Typed, NEW R, Change(R)
    PROVE  /\ server' \in [Reads -> Versions]
           /\ superseded' \in [Reads -> [Versions -> 0..MaxTime]]
           /\ \A r \in Reads : server[r] <= server'[r]
<1>1. server \in [Reads -> Nat] /\ \A r \in Reads : server[r] \in Versions
      BY Numbers DEF Typed
<1>2. ASSUME NEW r \in Reads, r \in R PROVE server[r] + 1 \in Versions
  <2>1. server[r] < MaxVersion[r] \/ r \notin R
        BY DEF Change
  <2>2. server[r] \in Nat /\ MaxVersion[r] \in Nat
        BY <1>1, VersionFacts
  <2> QED BY <1>2, <2>1, <2>2, VersionFacts
<1>3. \A r \in Reads : server'[r] \in Versions /\ server[r] <= server'[r]
      BY <1>1, <1>2 DEF Change
<1>4. server' = [r \in Reads |-> server'[r]]
      BY DEF Change
<1>5. \A r \in Reads : superseded'[r] \in [Versions -> 0..MaxTime]
      BY DEF Change, Typed
<1>6. superseded' = [r \in Reads |-> superseded'[r]]
      BY DEF Change
<1> QED BY <1>3, <1>4, <1>5, <1>6

\* The initial state satisfies the invariant.
LEMMA Initially == Init => IInv
BY ConstantsAssumption, VersionFacts
DEF Init, IInv, Typed, Calls, Dated, Reached, InFlight, Cleared, Current, UpToDate,
    Nothing, Fetched, Entries

\* Every step preserves the types and where calls are.
LEMMA TypesPreserved == Typed /\ Calls /\ Dated /\ [Next]_vars => Typed' /\ Calls'
<1> SUFFICES ASSUME Typed, Calls, Dated, [Next]_vars PROVE Typed' /\ Calls'
    OBVIOUS
<1> USE ConstantsAssumption, VersionFacts DEF Typed, Calls, Nothing, Fetched, Entries, Goto, history
<1>1. ASSUME NEW t \in Threads, NEW r \in Reads, NEW a \in Args, Look(t, r, a) PROVE Typed' /\ Calls'
  <2>1. PICK step \in {"read", "call"} : pc' = [pc EXCEPT ![t] = step]
        BY <1>1, Zenon DEF Look
  <2>2. /\ call' = [call EXCEPT ![t] = r] /\ arg' = [arg EXCEPT ![t] = a]
        /\ UNCHANGED <<now, server, cache, got, left, wrote, history>>
        BY <1>1 DEF Look
  <2> QED BY <2>1, <2>2
<1>2. ASSUME NEW t \in Threads, Read(t) PROVE Typed' /\ Calls'
  <2>1. CASE Held(call[t], arg[t])
    <3>1. Return(t) /\ UNCHANGED <<now, server, cache, history>>
          BY <1>2, <2>1, Zenon DEF Read
    <3> QED BY <1>2, <3>1 DEF Read, Return
  <2>2. CASE ~ Held(call[t], arg[t])
    <3>1. /\ pc' = [pc EXCEPT ![t] = "keyerror"]
          /\ UNCHANGED <<now, server, cache, call, arg, got, left, wrote, history>>
          BY <1>2, <2>2, Zenon DEF Read
    <3> QED BY <3>1
  <2> QED BY <2>1, <2>2
<1>3. ASSUME NEW t \in Threads, Ask(t) PROVE Typed' /\ Calls'
      BY <1>3 DEF Ask
<1>4. ASSUME NEW t \in Threads, AskFails(t) PROVE Typed' /\ Calls'
      BY <1>4 DEF AskFails, Return
<1>5. ASSUME NEW t \in Threads, Store(t) PROVE Typed' /\ Calls'
  <2>1. call[t] \in Reads /\ arg[t] \in Args /\ now \in 0..MaxTime
        BY <1>5 DEF Store
  <2> DEFINE e == [ver |-> got[t].ver, took |-> now - got[t].asked,
                overlap |-> got[t].overlap, stored |-> now]
  <2>2. PICK entries \in Stored(call[t], arg[t], e) :
               cache' = [cache EXCEPT ![call[t]] = entries]
        BY <1>5 DEF Store
  <2>3. e \in Entries
    <3>1. got[t] \in Fetched /\ got[t].asked <= now
          BY <1>5 DEF Store, Dated, Dates
    <3> QED BY <2>1, <3>1
  <2> HIDE DEF e
  <2>4. entries \in [Args -> Entries \cup {None}]
    <3>1. /\ entries = [b \in Args |-> entries[b]]
          /\ \A b \in Args : entries[b] \in {e, cache[call[t]][b], None}
          BY <2>2, StoredEntries
    <3>2. \A b \in Args : cache[call[t]][b] \in Entries \cup {None}
          BY <2>1
    <3>3. \A b \in Args : entries[b] \in Entries \cup {None}
          BY <3>1, <3>2, <2>3
    <3> QED BY <3>1, <3>3
  <2>5. cache' \in [Reads -> [Args -> Entries \cup {None}]]
        BY <2>1, <2>2, <2>4
  <2> QED BY <1>5, <2>5 DEF Store, Return
<1>6. ASSUME NEW t \in Threads, Raise(t) PROVE Typed' /\ Calls'
      BY <1>6 DEF Raise, Return
<1>7. ASSUME NEW t \in Threads, NEW w \in DOMAIN Ops, Write(t, w) PROVE Typed' /\ Calls'
  <2>1. /\ server' \in [Reads -> Versions]
        /\ superseded' \in [Reads -> [Versions -> 0..MaxTime]]
        BY <1>7, ServerTyped DEF Write
  <2>2. got' \in [Threads -> Fetched]
        BY <1>7 DEF Write, Overtaken
  <2>3. wrote' \in [Threads -> [Reads -> Versions]]
        BY <1>7, <2>1 DEF Write
  <2>4. left' \in [Threads -> Seq(DOMAIN CachedReads)]
        BY <1>7 DEF Write
  <2>5. /\ pc' = [pc EXCEPT ![t] = "clear"] /\ call' = [call EXCEPT ![t] = w]
        /\ UNCHANGED <<now, cache, arg, done>>
        BY <1>7 DEF Write
  <2> QED BY <2>1, <2>2, <2>3, <2>4, <2>5
<1>8. ASSUME NEW t \in Threads, NEW w \in DOMAIN Ops, WriteFails(t, w) PROVE Typed' /\ Calls'
      BY <1>8, ServerTyped DEF WriteFails, locals
<1>9. ASSUME NEW t \in Threads, Clear(t) PROVE Typed' /\ Calls'
      BY <1>9 DEF Clear
<1>10. ASSUME NEW t \in Threads, WriteReturns(t) PROVE Typed' /\ Calls'
      BY <1>10 DEF WriteReturns, Return, Changed
<1>11. CASE Tick
      BY <1>11 DEF Tick, locals
<1>12. ASSUME NEW r \in Reads, ForeignWrite(r) PROVE Typed' /\ Calls'
      BY <1>12, ServerTyped DEF ForeignWrite, locals
<1>13. CASE UNCHANGED vars
      BY <1>13 DEF vars, locals
<1> QED BY <1>1, <1>2, <1>3, <1>4, <1>5, <1>6, <1>7, <1>8, <1>9, <1>10, <1>11,
           <1>12, <1>13 DEF Next

-----------------------------------------------------------------------------
\* The server answers to r what it did, or has moved on by one version now.
Moves(r) == \/ server'[r] = server[r] /\ superseded'[r] = superseded[r]
            \/ /\ server'[r] = server[r] + 1
               /\ superseded'[r] = [superseded[r] EXCEPT ![server[r]] = now]

\* An answer that was asked for in time still was when the server has moved on.
LEMMA DatesKept ==
    ASSUME Typed, NEW r \in Reads, Moves(r), now <= now', now' \in Nat,
           NEW v \in Versions, NEW asked \in Int, v <= server[r], asked <= now,
           v < server[r] => asked <= superseded[r][v]
    PROVE  /\ v <= server'[r] /\ asked <= now'
           /\ v < server'[r] => asked <= superseded'[r][v]
<1>1. /\ server[r] \in Versions /\ v \in Nat /\ server[r] \in Nat /\ now \in Nat
      /\ superseded[r] \in [Versions -> 0..MaxTime]
  <2>1. server[r] \in Versions /\ superseded[r] \in [Versions -> 0..MaxTime] /\ now \in Nat
        BY ConstantsAssumption DEF Typed
  <2> QED BY <2>1, VersionFacts
<1>2. CASE server'[r] = server[r] /\ superseded'[r] = superseded[r]
      BY <1>1, <1>2
<1>3. CASE /\ server'[r] = server[r] + 1
           /\ superseded'[r] = [superseded[r] EXCEPT ![server[r]] = now]
  <2>1. superseded'[r][v] = IF v = server[r] THEN now ELSE superseded[r][v]
        BY <1>1, <1>3
  <2> QED BY <1>1, <1>3, <2>1
<1> QED BY <1>2, <1>3 DEF Moves

\* So do all, where a step adds none.
LEMMA DatedKept ==
    ASSUME Typed, Calls, Dated, now <= now', now' \in Nat, \A r \in Reads : Moves(r),
           \A t \in Threads : pc'[t] = "store" =>
               /\ pc[t] = "store" /\ call'[t] = call[t]
               /\ got'[t].ver = got[t].ver /\ got'[t].asked = got[t].asked,
           \A r \in Reads, a \in Args : cache'[r][a] \in {cache[r][a], None}
    PROVE  Dated'
<1>1. ASSUME NEW t \in Threads, pc'[t] = "store"
      PROVE  Dates(call[t], got[t], got[t].asked)'
  <2>1. /\ call[t] \in Reads /\ got[t] \in Fetched /\ pc[t] = "store"
        BY <1>1 DEF Typed, Calls
  <2>2. got[t].ver \in Versions /\ got[t].asked \in Int
        BY <2>1 DEF Fetched
  <2>3. /\ got[t].ver <= server[call[t]] /\ got[t].asked <= now
        /\ got[t].ver < server[call[t]] => got[t].asked <= superseded[call[t]][got[t].ver]
        BY <2>1 DEF Dated, Dates
  <2>4. /\ got[t].ver <= server'[call[t]] /\ got[t].asked <= now'
        /\ got[t].ver < server'[call[t]] => got[t].asked <= superseded'[call[t]][got[t].ver]
        BY <2>1, <2>2, <2>3, DatesKept
  <2> QED BY <1>1, <2>4 DEF Dates
<1>2. ASSUME NEW r \in Reads, NEW a \in Args, cache'[r][a] # None
      PROVE  Dates(r, cache[r][a], cache[r][a].stored - cache[r][a].took)'
  <2> DEFINE asked == cache[r][a].stored - cache[r][a].took
  <2>1. cache'[r][a] = cache[r][a] /\ cache[r][a] \in Entries
        BY <1>2 DEF Typed
  <2>2. cache[r][a].ver \in Versions /\ asked \in Int
        BY <2>1, ConstantsAssumption DEF Entries
  <2>3. /\ cache[r][a].ver <= server[r] /\ asked <= now
        /\ cache[r][a].ver < server[r] => asked <= superseded[r][cache[r][a].ver]
        BY <1>2, <2>1 DEF Dated, Dates
  <2> HIDE DEF asked
  <2>4. /\ cache[r][a].ver <= server'[r] /\ asked <= now'
        /\ cache[r][a].ver < server'[r] => asked <= superseded'[r][cache[r][a].ver]
        BY <2>2, <2>3, DatesKept
  <2> QED BY <2>1, <2>4 DEF Dates, asked
<1> QED BY <1>1, <1>2 DEF Dated

\* A write moves the server on.
LEMMA ChangeMoves ==
    ASSUME Typed, NEW R, Change(R), NEW r \in Reads
    PROVE  Moves(r)
BY DEF Change, Moves

\* Every step preserves when answers were asked for.
LEMMA DatedPreserved == IInv /\ Typed' /\ [Next]_vars => Dated'
<1> SUFFICES ASSUME IInv, Typed', [Next]_vars PROVE Dated'
    OBVIOUS
<1> USE DEF IInv, Goto, history
<1>0. now \in Nat /\ now' \in Nat
      BY ConstantsAssumption, VersionFacts DEF Typed
<1>1. ASSUME UNCHANGED <<now, server, superseded>>,
             \A t \in Threads : pc'[t] = "store" =>
                 pc[t] = "store" /\ call'[t] = call[t] /\ got'[t] = got[t],
             \A r \in Reads, a \in Args : cache'[r][a] \in {cache[r][a], None}
      PROVE  Dated'
      BY <1>0, <1>1, DatedKept DEF Moves
<1>2. ASSUME NEW t \in Threads, NEW r \in Reads, NEW a \in Args, Look(t, r, a) PROVE Dated'
  <2>1. PICK step \in {"read", "call"} : pc' = [pc EXCEPT ![t] = step]
        BY <1>2, Zenon DEF Look
  <2>2. \A u \in Threads : pc'[u] = "store" =>
            pc[u] = "store" /\ call'[u] = call[u] /\ got'[u] = got[u]
        BY <1>2, <2>1 DEF Look, Typed
  <2> QED BY <1>1, <1>2, <2>2 DEF Look
<1>3. ASSUME NEW t \in Threads, Read(t) PROVE Dated'
  <2>1. \A u \in Threads : pc'[u] = "store" =>
            pc[u] = "store" /\ call'[u] = call[u] /\ got'[u] = got[u]
    <3>1. CASE Held(call[t], arg[t])
      <4>1. Return(t)
            BY <1>3, <3>1, Zenon DEF Read
      <4> QED BY <4>1 DEF Return, Typed
    <3>2. CASE ~ Held(call[t], arg[t])
      <4>1. pc' = [pc EXCEPT ![t] = "keyerror"] /\ UNCHANGED <<call, got>>
            BY <1>3, <3>2, Zenon DEF Read
      <4> QED BY <4>1 DEF Typed
    <3> QED BY <3>1, <3>2
  <2>2. UNCHANGED <<now, server, cache, superseded>>
        BY <1>3, Zenon DEF Read
  <2> QED BY <1>1, <2>1, <2>2
<1>4. ASSUME NEW t \in Threads, AskFails(t) \/ Raise(t) \/ WriteReturns(t) PROVE Dated'
  <2>1. Return(t) /\ UNCHANGED <<now, server, cache, superseded>>
        BY <1>4 DEF AskFails, Raise, WriteReturns
  <2>2. \A u \in Threads : pc'[u] = "store" =>
            pc[u] = "store" /\ call'[u] = call[u] /\ got'[u] = got[u]
        BY <2>1 DEF Return, Typed
  <2> QED BY <1>1, <2>1, <2>2
<1>5. ASSUME NEW t \in Threads, Ask(t) PROVE Dated'
  <2>1. /\ pc[t] = "call" /\ pc' = [pc EXCEPT ![t] = "store"]
        /\ got' = [got EXCEPT ![t] =
                     [ver |-> server[call[t]], asked |-> now, overlap |-> FALSE]]
        /\ UNCHANGED <<now, server, cache, call, superseded>>
        BY <1>5 DEF Ask
  <2>2. call[t] \in Reads /\ server[call[t]] \in Nat
        BY <2>1, ConstantsAssumption, VersionFacts DEF Calls, Typed
  <2>3. Dates(call[t], got[t], got[t].asked)'
        BY <1>0, <2>1, <2>2 DEF Dates, Typed
  <2>4. \A u \in Threads \ {t} : pc'[u] = pc[u] /\ got'[u] = got[u]
        BY <2>1 DEF Typed
  <2> QED BY <2>1, <2>3, <2>4 DEF Dated, Dates
<1>6. ASSUME NEW t \in Threads, Store(t) PROVE Dated'
  <2> DEFINE e == [ver |-> got[t].ver, took |-> now - got[t].asked,
                   overlap |-> got[t].overlap, stored |-> now]
  <2>1. PICK entries \in Stored(call[t], arg[t], e) :
               cache' = [cache EXCEPT ![call[t]] = entries]
        BY <1>6 DEF Store
  <2>2. \A b \in Args : entries[b] \in {e, cache[call[t]][b], None}
        BY <2>1, StoredEntries
  <2>3. /\ call[t] \in Reads /\ pc[t] = "store" /\ Return(t)
        /\ UNCHANGED <<now, server, superseded>>
        BY <1>6 DEF Store, Calls
  <2>4. \A r \in Reads, b \in Args :
           cache'[r][b] = cache[r][b] \/ cache'[r][b] = None \/ (r = call[t] /\ cache'[r][b] = e)
        BY <2>1, <2>2, <2>3 DEF Typed
  <2>5. e.ver = got[t].ver /\ e.stored - e.took = got[t].asked
    <3>1. got[t].asked \in Int
          BY ConstantsAssumption, VersionFacts DEF Typed, Fetched
    <3> QED BY <1>0, <3>1
  <2>6. Dates(call[t], e, e.stored - e.took)
        BY <2>3, <2>5 DEF Dated, Dates
  <2> HIDE DEF e
  <2>7. ASSUME NEW r \in Reads, NEW b \in Args, cache'[r][b] # None
        PROVE  Dates(r, cache[r][b], cache[r][b].stored - cache[r][b].took)'
        BY <2>3, <2>4, <2>6, <2>7 DEF Dated, Dates
  <2>8. ASSUME NEW u \in Threads, pc'[u] = "store"
        PROVE  Dates(call[u], got[u], got[u].asked)'
    <3>1. u # t /\ pc[u] = "store" /\ call'[u] = call[u] /\ got'[u] = got[u]
          BY <2>3, <2>8 DEF Return, Typed
    <3> QED BY <2>3, <3>1 DEF Dated, Dates
  <2> QED BY <2>7, <2>8 DEF Dated
<1>7. ASSUME NEW t \in Threads, NEW w \in DOMAIN Ops, Write(t, w) PROVE Dated'
  <2>1. /\ Change(Changed(w)) /\ got' = Overtaken(Changed(w))
        /\ pc' = [pc EXCEPT ![t] = "clear"] /\ call' = [call EXCEPT ![t] = w]
        /\ UNCHANGED <<now, cache>>
        BY <1>7 DEF Write
  <2>2. \A r \in Reads : Moves(r)
        BY <2>1, ChangeMoves
  <2>3. \A u \in Threads : pc'[u] = "store" =>
            /\ pc[u] = "store" /\ call'[u] = call[u]
            /\ got'[u].ver = got[u].ver /\ got'[u].asked = got[u].asked
        BY <2>1 DEF Overtaken, Typed, Fetched
  <2> QED BY <1>0, <2>1, <2>2, <2>3, DatedKept
<1>8. ASSUME NEW t \in Threads, NEW w \in DOMAIN Ops, WriteFails(t, w) PROVE Dated'
  <2>1. Change(Changed(w)) /\ UNCHANGED <<now, cache, pc, call, got>>
        BY <1>8 DEF WriteFails, locals
  <2>2. \A r \in Reads : Moves(r)
        BY <2>1, ChangeMoves
  <2> QED BY <1>0, <2>1, <2>2, DatedKept
<1>9. ASSUME NEW t \in Threads, Clear(t) PROVE Dated'
  <2>1. \A r \in Reads, a \in Args : cache'[r][a] \in {cache[r][a], None}
        BY <1>9 DEF Clear
  <2> QED BY <1>1, <1>9, <2>1 DEF Clear
<1>10. CASE Tick
  <2>1. now <= now' /\ UNCHANGED <<server, cache, superseded, pc, call, got>>
        BY <1>0, <1>10, ConstantsAssumption DEF Tick, locals
  <2> QED BY <1>0, <2>1, DatedKept DEF Moves
<1>11. ASSUME NEW r \in Reads, ForeignWrite(r) PROVE Dated'
  <2>1. Change({r}) /\ UNCHANGED <<now, cache, pc, call, got>>
        BY <1>11 DEF ForeignWrite, locals
  <2>2. \A x \in Reads : Moves(x)
        BY <2>1, ChangeMoves
  <2> QED BY <1>0, <2>1, <2>2, DatedKept
<1>12. CASE UNCHANGED vars
      BY <1>1, <1>12 DEF vars, locals
<1> QED BY <1>2, <1>3, <1>4, <1>5, <1>6, <1>7, <1>8, <1>9, <1>10, <1>11, <1>12 DEF Next

-----------------------------------------------------------------------------
\* The server moves on only.
LEMMA ReachedKept ==
    ASSUME Typed, Reached, NEW R, Change(R), UNCHANGED <<wrote, done>>
    PROVE  Reached'
<1> SUFFICES ASSUME NEW r \in Reads
             PROVE  /\ done[r] <= server'[r]
                    /\ \A t \in Threads : wrote[t][r] <= server'[r]
    BY DEF Reached
<1>1. server[r] \in Nat /\ server'[r] \in Nat /\ server[r] <= server'[r]
      BY Numbers, ServerTyped, VersionFacts
<1>2. done[r] \in Nat /\ done[r] <= server[r]
      BY Numbers DEF Reached
<1>3. ASSUME NEW t \in Threads PROVE wrote[t][r] <= server'[r]
  <2>1. wrote[t][r] \in Nat /\ wrote[t][r] <= server[r]
        BY Numbers DEF Reached
  <2> QED BY <1>1, <2>1
<1> QED BY <1>1, <1>2, <1>3

\* Every step preserves that versions are those of the server.
LEMMA ReachedPreserved == IInv /\ [Next]_vars => Reached'
<1> SUFFICES ASSUME IInv, [Next]_vars PROVE Reached'
    OBVIOUS
<1> USE ConstantsAssumption, VersionFacts DEF IInv, Typed, Reached, Goto, history
<1>0. /\ server \in [Reads -> Nat] /\ done \in [Reads -> Nat]
      /\ wrote \in [Threads -> [Reads -> Nat]]
      /\ \A t \in Threads : got[t].ver \in Nat
      /\ \A r \in Reads, a \in Args : cache[r][a] # None => cache[r][a].ver \in Nat
      BY Numbers
<1> USE <1>0
<1>1. ASSUME NEW t \in Threads, NEW r \in Reads, NEW a \in Args, Look(t, r, a) PROVE Reached'
  <2>1. UNCHANGED <<server, wrote, history>>
        BY <1>1 DEF Look
  <2> QED BY <2>1
<1>2. ASSUME NEW t \in Threads, Read(t) PROVE Reached'
  <2>1. CASE Held(call[t], arg[t])
    <3>1. Return(t) /\ UNCHANGED <<now, server, cache, history>>
          BY <1>2, <2>1, Zenon DEF Read
    <3> QED BY <1>2, <3>1 DEF Read, Return
  <2>2. CASE ~ Held(call[t], arg[t])
    <3>1. /\ pc' = [pc EXCEPT ![t] = "keyerror"]
          /\ UNCHANGED <<now, server, cache, call, arg, got, left, wrote, history>>
          BY <1>2, <2>2, Zenon DEF Read
    <3> QED BY <3>1
  <2> QED BY <2>1, <2>2
<1>3. ASSUME NEW t \in Threads, Ask(t) PROVE Reached'
      BY <1>3 DEF Ask
<1>4. ASSUME NEW t \in Threads, AskFails(t) PROVE Reached'
      BY <1>4 DEF AskFails, Return
<1>5. ASSUME NEW t \in Threads, Store(t) PROVE Reached'
      BY <1>5 DEF Store, Return
<1>6. ASSUME NEW t \in Threads, Raise(t) PROVE Reached'
      BY <1>6 DEF Raise, Return
<1>7. ASSUME NEW t \in Threads, NEW w \in DOMAIN Ops, Write(t, w) PROVE Reached'
      BY <1>7 DEF Write, Change
<1>8. ASSUME NEW t \in Threads, NEW w \in DOMAIN Ops, WriteFails(t, w) PROVE Reached'
      BY <1>8 DEF WriteFails, Change, locals
<1>9. ASSUME NEW t \in Threads, Clear(t) PROVE Reached'
      BY <1>9 DEF Clear
<1>10. ASSUME NEW t \in Threads, WriteReturns(t) PROVE Reached'
      BY <1>10 DEF WriteReturns, Return
<1>11. CASE Tick
      BY <1>11 DEF Tick, locals
<1>12. ASSUME NEW r \in Reads, ForeignWrite(r) PROVE Reached'
      BY <1>12, ReachedKept DEF ForeignWrite, locals
<1>13. CASE UNCHANGED vars
      BY <1>13 DEF vars, locals
<1> QED BY <1>1, <1>2, <1>3, <1>4, <1>5, <1>6, <1>7, <1>8, <1>9, <1>10, <1>11,
           <1>12, <1>13 DEF Next

\* Every step preserves what answers on their way to the cache show.
LEMMA InFlightPreserved == IInv /\ [Next]_vars => InFlight'
<1> SUFFICES ASSUME IInv, [Next]_vars PROVE InFlight'
    OBVIOUS
<1> USE ConstantsAssumption, VersionFacts
    DEF IInv, Typed, Calls, Reached, InFlight, Shows, Fetched, Goto, history
<1>0. /\ server \in [Reads -> Nat] /\ done \in [Reads -> Nat]
      /\ wrote \in [Threads -> [Reads -> Nat]]
      /\ \A t \in Threads : got[t].ver \in Nat
      /\ \A r \in Reads, a \in Args : cache[r][a] # None => cache[r][a].ver \in Nat
      BY Numbers
<1> USE <1>0
<1>1. ASSUME NEW t \in Threads, NEW r \in Reads, NEW a \in Args, Look(t, r, a) PROVE InFlight'
  <2>1. PICK step \in {"read", "call"} : pc' = [pc EXCEPT ![t] = step]
        BY <1>1, Zenon DEF Look
  <2>2. /\ call' = [call EXCEPT ![t] = r] /\ arg' = [arg EXCEPT ![t] = a]
        /\ UNCHANGED <<now, server, cache, got, left, wrote, history>>
        BY <1>1 DEF Look
  <2> QED BY <1>1, <2>1, <2>2 DEF Look
<1>2. ASSUME NEW t \in Threads, Read(t) PROVE InFlight'
  <2>1. CASE Held(call[t], arg[t])
    <3>1. Return(t) /\ UNCHANGED <<now, server, cache, history>>
          BY <1>2, <2>1, Zenon DEF Read
    <3> QED BY <1>2, <3>1 DEF Read, Return
  <2>2. CASE ~ Held(call[t], arg[t])
    <3>1. /\ pc' = [pc EXCEPT ![t] = "keyerror"]
          /\ UNCHANGED <<now, server, cache, call, arg, got, left, wrote, history>>
          BY <1>2, <2>2, Zenon DEF Read
    <3> QED BY <3>1
  <2> QED BY <2>1, <2>2
<1>3. ASSUME NEW t \in Threads, Ask(t) PROVE InFlight'
      BY <1>3 DEF Ask
<1>4. ASSUME NEW t \in Threads, AskFails(t) PROVE InFlight'
      BY <1>4 DEF AskFails, Return
<1>5. ASSUME NEW t \in Threads, Store(t) PROVE InFlight'
      BY <1>5 DEF Store, Return
<1>6. ASSUME NEW t \in Threads, Raise(t) PROVE InFlight'
      BY <1>6 DEF Raise, Return
<1>7. ASSUME NEW t \in Threads, NEW w \in DOMAIN Ops, Write(t, w) PROVE InFlight'
  <2>1. /\ pc' = [pc EXCEPT ![t] = "clear"] /\ call' = [call EXCEPT ![t] = w]
        /\ wrote' = [wrote EXCEPT ![t] = server'] /\ done' = done
        /\ got' = Overtaken(Changed(w))
        BY <1>7 DEF Write
  <2> SUFFICES ASSUME NEW u \in Threads, pc'[u] = "store"
               PROVE /\ Shows(got'[u], done'[call'[u]])
                     /\ \A v \in Threads : pc'[v] = "clear" /\ call'[u] \in Changed(call'[v])
                                             => Shows(got'[u], wrote'[v][call'[u]])
      BY DEF Changed
  <2>2. u # t /\ pc[u] = "store" /\ call'[u] = call[u]
        BY <2>1
  <2>3. CASE call[u] \in Changed(w)
    <3>1. got'[u].overlap = TRUE
          BY <2>1, <2>2, <2>3 DEF Overtaken
    <3> QED BY <3>1
  <2>4. CASE call[u] \notin Changed(w)
    <3>1. got'[u] = got[u]
          BY <2>1, <2>2, <2>4 DEF Overtaken
    <3>2. ASSUME NEW v \in Threads, pc'[v] = "clear", call[u] \in Changed(call'[v])
          PROVE v # t /\ pc[v] = "clear" /\ call'[v] = call[v] /\ wrote'[v] = wrote[v]
          BY <2>1, <2>4, <3>2
    <3> QED BY <2>1, <2>2, <3>1, <3>2
  <2> QED BY <2>3, <2>4
<1>8. ASSUME NEW t \in Threads, NEW w \in DOMAIN Ops, WriteFails(t, w) PROVE InFlight'
      BY <1>8 DEF WriteFails, locals
<1>9. ASSUME NEW t \in Threads, Clear(t) PROVE InFlight'
      BY <1>9 DEF Clear
<1>10. ASSUME NEW t \in Threads, WriteReturns(t) PROVE InFlight'
      BY <1>10 DEF WriteReturns, Return, Settled
<1>11. CASE Tick
      BY <1>11 DEF Tick, locals
<1>12. ASSUME NEW r \in Reads, ForeignWrite(r) PROVE InFlight'
      BY <1>12 DEF ForeignWrite, Change, locals
<1>13. CASE UNCHANGED vars
      BY <1>13 DEF vars, locals
<1> QED BY <1>1, <1>2, <1>3, <1>4, <1>5, <1>6, <1>7, <1>8, <1>9, <1>10, <1>11,
           <1>12, <1>13 DEF Next

\* A thread that is clearing caches after the step did so before it, no further.
SameClear(u) == pc'[u] = "clear" => /\ pc[u] = "clear" /\ call'[u] = call[u]
                                    /\ left'[u] = left[u] /\ wrote'[u] = wrote[u]

\* What such a thread has cleared stays cleared if the step removes entries only
\* or adds answers that show its write.
LEMMA OthersCleared ==
    ASSUME Cleared, NEW u \in Threads, SameClear(u), pc'[u] = "clear",
           NEW r \in Settled(call'[u]),
           \A a \in Args : cache'[r][a] \in {cache[r][a], None}
                          \/ Shows(cache'[r][a], wrote[u][r])
    PROVE  Waits(u, r)' \/ Fresh(r, wrote[u][r])'
<1>1. pc[u] = "clear" /\ call'[u] = call[u] /\ left'[u] = left[u] /\ wrote'[u] = wrote[u]
      BY DEF SameClear
<1>2. r \in Settled(call[u])
      BY <1>1
<1>3. CASE Waits(u, r)
      BY <1>1, <1>3 DEF Waits
<1>4. CASE Fresh(r, wrote[u][r])
  <2>1. Fresh(r, wrote[u][r])'
    <3> SUFFICES ASSUME NEW a \in Args, cache'[r][a] # None
                 PROVE  Shows(cache'[r][a], wrote'[u][r])
        BY DEF Fresh, Shows
    <3>1. CASE cache'[r][a] = cache[r][a]
          BY <1>1, <1>4, <3>1 DEF Fresh
    <3>2. CASE Shows(cache'[r][a], wrote[u][r])
          BY <1>1, <3>2
    <3> QED BY <3>1, <3>2
  <2> QED BY <2>1
<1> QED BY <1>1, <1>2, <1>3, <1>4, Zenon DEF Cleared

\* So does a step that leaves the caches alone and starts no write.
LEMMA NothingCleared ==
    ASSUME Cleared, UNCHANGED cache, \A u \in Threads : SameClear(u)
    PROVE  Cleared'
<1> SUFFICES ASSUME NEW u \in Threads, pc'[u] = "clear",
                    NEW r \in Settled(call'[u])
             PROVE  Waits(u, r)' \/ Fresh(r, wrote[u][r])'
    BY DEF Cleared, Settled, Changed
<1>1. wrote'[u] = wrote[u]
      BY DEF SameClear
<1> QED BY <1>1, OthersCleared

\* What is in a sequence and not its head is in its tail.
LEMMA TailHas ==
    ASSUME NEW S, NEW s \in Seq(S), s # << >>, NEW i \in 1..Len(s), s[i] # Head(s)
    PROVE  i # 1 /\ i - 1 \in 1..Len(Tail(s)) /\ Tail(s)[i - 1] = s[i]
<1>1. Head(s) = s[1] /\ Len(Tail(s)) = Len(s) - 1 /\ Len(s) \in Nat
      OBVIOUS
<1>2. i # 1
      BY <1>1
<1> QED BY <1>1, <1>2

\* Every step preserves what is in the caches that a write has cleared.
LEMMA ClearedPreserved == IInv /\ Typed' /\ [Next]_vars => Cleared'
<1> SUFFICES ASSUME IInv, Typed', [Next]_vars PROVE Cleared'
    OBVIOUS
<1> USE ConstantsAssumption DEF IInv, Typed, Calls, Goto
<1>1. ASSUME NEW t \in Threads, NEW r \in Reads, NEW a \in Args, Look(t, r, a) PROVE Cleared'
  <2>1. PICK step \in {"read", "call"} : pc' = [pc EXCEPT ![t] = step]
        BY <1>1, Zenon DEF Look
  <2>2. /\ call' = [call EXCEPT ![t] = r] /\ arg' = [arg EXCEPT ![t] = a]
        /\ UNCHANGED <<now, server, cache, got, left, wrote, history>>
        BY <1>1 DEF Look
  <2>3. \A u \in Threads : SameClear(u)
        BY <2>1, <2>2 DEF SameClear
  <2> QED BY <2>2, <2>3, NothingCleared
<1>2. ASSUME NEW t \in Threads, Read(t) PROVE Cleared'
  <2>1. CASE Held(call[t], arg[t])
    <3>1. Return(t) /\ UNCHANGED <<now, server, cache, history>>
          BY <1>2, <2>1, Zenon DEF Read
    <3>2. \A u \in Threads : SameClear(u)
          BY <1>2, <3>1 DEF Return, SameClear
    <3> QED BY <3>1, <3>2, NothingCleared
  <2>2. CASE ~ Held(call[t], arg[t])
    <3>1. /\ pc' = [pc EXCEPT ![t] = "keyerror"]
          /\ UNCHANGED <<now, server, cache, call, arg, got, left, wrote, history>>
          BY <1>2, <2>2, Zenon DEF Read
    <3>2. \A u \in Threads : SameClear(u)
          BY <3>1 DEF SameClear
    <3> QED BY <3>1, <3>2, NothingCleared
  <2> QED BY <2>1, <2>2
<1>3. ASSUME NEW t \in Threads, Ask(t) PROVE Cleared'
  <2>1. UNCHANGED cache /\ \A u \in Threads : SameClear(u)
        BY <1>3 DEF Ask, SameClear
  <2> QED BY <2>1, NothingCleared
<1>4. ASSUME NEW t \in Threads, AskFails(t) PROVE Cleared'
  <2>1. UNCHANGED cache /\ \A u \in Threads : SameClear(u)
        BY <1>4 DEF AskFails, Return, SameClear
  <2> QED BY <2>1, NothingCleared
<1>5. ASSUME NEW t \in Threads, Store(t) PROVE Cleared'
  <2> DEFINE e == [ver |-> got[t].ver, took |-> now - got[t].asked,
                overlap |-> got[t].overlap, stored |-> now]
  <2>1. PICK entries \in Stored(call[t], arg[t], e) :
               cache' = [cache EXCEPT ![call[t]] = entries]
        BY <1>5 DEF Store
  <2>2. \A b \in Args : entries[b] \in {e, cache[call[t]][b], None}
        BY <2>1, StoredEntries
  <2>3. call[t] \in Reads /\ pc[t] = "store"
        BY <1>5 DEF Store
  <2>4. \A r \in Reads, b \in Args :
           cache'[r][b] = cache[r][b] \/ cache'[r][b] = None \/ (r = call[t] /\ cache'[r][b] = e)
        BY <2>1, <2>2, <2>3
  <2>5. \A u \in Threads : SameClear(u)
        BY <1>5 DEF Store, Return, SameClear
  <2>6. \A u \in Threads : pc[u] = "clear" /\ call[t] \in Changed(call[u])
                             => Shows(e, wrote[u][call[t]])
        BY <2>3 DEF InFlight, Shows
  <2> HIDE DEF e
  <2> SUFFICES ASSUME NEW u \in Threads, pc'[u] = "clear",
                      NEW r \in Settled(call'[u])
               PROVE  Waits(u, r)' \/ Fresh(r, wrote[u][r])'
      BY DEF Cleared, Settled, Changed
  <2>7. /\ pc[u] = "clear" /\ call'[u] = call[u] /\ wrote'[u] = wrote[u]
        /\ r \in Reads /\ r \in Changed(call[u])
        BY <2>5 DEF SameClear, Settled, Changed
  <2>8. ASSUME NEW a \in Args
        PROVE  cache'[r][a] \in {cache[r][a], None} \/ Shows(cache'[r][a], wrote[u][r])
    <3>1. CASE r = call[t] /\ cache'[r][a] = e
          BY <2>6, <2>7, <3>1
    <3> QED BY <2>4, <2>7, <3>1
  <2> QED BY <2>5, <2>7, <2>8, OthersCleared
<1>6. ASSUME NEW t \in Threads, Raise(t) PROVE Cleared'
  <2>1. UNCHANGED cache /\ \A u \in Threads : SameClear(u)
        BY <1>6 DEF Raise, Return, SameClear
  <2> QED BY <2>1, NothingCleared
<1>7. ASSUME NEW t \in Threads, NEW w \in DOMAIN Ops, Write(t, w) PROVE Cleared'
  <2>1. /\ pc' = [pc EXCEPT ![t] = "clear"] /\ call' = [call EXCEPT ![t] = w]
        /\ wrote' = [wrote EXCEPT ![t] = server'] /\ cache' = cache
        /\ left' = [left EXCEPT ![t] = Ops[w].clears]
        BY <1>7 DEF Write
  <2>2. ASSUME NEW r \in Settled(w)
        PROVE  \E i \in 1..Len(left'[t]) : left'[t][i] = r
    <3>1. PICK i \in DOMAIN Ops[w].clears : Ops[w].clears[i] = r
          BY <2>2, Zenon DEF Settled
    <3>2. DOMAIN Ops[w].clears = 1..Len(Ops[w].clears)
          OBVIOUS
    <3> QED BY <2>1, <3>1, <3>2
  <2>3. \A u \in Threads \ {t} : SameClear(u)
        BY <2>1 DEF SameClear
  <2> SUFFICES ASSUME NEW u \in Threads, pc'[u] = "clear",
                      NEW r \in Settled(call'[u])
               PROVE  Waits(u, r)' \/ Fresh(r, wrote[u][r])'
      BY DEF Cleared, Settled, Changed
  <2>4. CASE u = t
        BY <2>1, <2>2, <2>4 DEF Waits
  <2>5. CASE u # t
    <3>1. SameClear(u) /\ wrote'[u] = wrote[u]
          BY <2>1, <2>3, <2>5
    <3> QED BY <2>1, <3>1, OthersCleared
  <2> QED BY <2>4, <2>5
<1>8. ASSUME NEW t \in Threads, NEW w \in DOMAIN Ops, WriteFails(t, w) PROVE Cleared'
  <2>1. UNCHANGED cache /\ \A u \in Threads : SameClear(u)
        BY <1>8 DEF WriteFails, locals, SameClear
  <2> QED BY <2>1, NothingCleared
<1>9. ASSUME NEW t \in Threads, Clear(t) PROVE Cleared'
  <2>1. /\ pc[t] = "clear" /\ left[t] # << >> /\ left' = [left EXCEPT ![t] = Tail(@)]
        /\ cache' = [r \in Reads |-> IF r = Head(left[t]) THEN [a \in Args |-> None]
                                    ELSE cache[r]]
        /\ UNCHANGED <<pc, call, wrote>>
        BY <1>9 DEF Clear
  <2>2. ASSUME NEW r \in Reads, Waits(t, r), r # Head(left[t])
        PROVE  \E i \in 1..Len(left'[t]) : left'[t][i] = r
    <3>1. PICK i \in 1..Len(left[t]) : left[t][i] = r
          BY <2>2 DEF Waits
    <3>2. i # 1 /\ i - 1 \in 1..Len(Tail(left[t])) /\ Tail(left[t])[i - 1] = r
          BY <2>1, <2>2, <3>1, TailHas DEF IInv, Typed
    <3> QED BY <2>1, <3>2 DEF IInv, Typed
  <2>3. \A r \in Reads, a \in Args :
           cache'[r][a] = None \/ (r # Head(left[t]) /\ cache'[r][a] = cache[r][a])
        BY <2>1
  <2> SUFFICES ASSUME NEW u \in Threads, pc'[u] = "clear",
                      NEW r \in Settled(call'[u])
               PROVE  Waits(u, r)' \/ Fresh(r, wrote[u][r])'
      BY DEF Cleared, Settled, Changed
  <2>4. r \in Settled(call[u]) /\ r \in Reads /\ pc[u] = "clear"
        BY <2>1 DEF Settled, Changed
  <2>5. \A a \in Args : cache'[r][a] \in {cache[r][a], None}
        BY <2>3, <2>4
  <2>6. CASE u # t
    <3>1. SameClear(u) /\ wrote'[u] = wrote[u]
          BY <2>1, <2>6 DEF SameClear
    <3> QED BY <2>5, <3>1, OthersCleared
  <2>7. CASE u = t /\ r = Head(left[t])
    <3>1. \A a \in Args : cache'[r][a] = None
          BY <2>3, <2>4, <2>7
    <3> QED BY <3>1 DEF Fresh
  <2>8. CASE u = t /\ r # Head(left[t])
    <3>1. CASE Waits(t, r)
          BY <2>2, <2>4, <2>8, <3>1 DEF Waits
    <3>2. CASE Fresh(r, wrote[t][r])
          BY <2>1, <2>5, <2>8, <3>2 DEF Fresh, Shows
    <3> QED BY <2>4, <2>8, <3>1, <3>2 DEF Cleared
  <2> QED BY <2>6, <2>7, <2>8
<1>10. ASSUME NEW t \in Threads, WriteReturns(t) PROVE Cleared'
  <2>1. UNCHANGED cache /\ \A u \in Threads : SameClear(u)
        BY <1>10 DEF WriteReturns, Return, SameClear
  <2> QED BY <2>1, NothingCleared
<1>11. CASE Tick
  <2>1. UNCHANGED cache /\ \A u \in Threads : SameClear(u)
        BY <1>11 DEF Tick, locals, SameClear
  <2> QED BY <2>1, NothingCleared
<1>12. ASSUME NEW r \in Reads, ForeignWrite(r) PROVE Cleared'
  <2>1. UNCHANGED cache /\ \A u \in Threads : SameClear(u)
        BY <1>12 DEF ForeignWrite, locals, SameClear
  <2> QED BY <2>1, NothingCleared
<1>13. CASE UNCHANGED vars
  <2>1. UNCHANGED cache /\ \A u \in Threads : SameClear(u)
        BY <1>13 DEF vars, locals, SameClear
  <2> QED BY <2>1, NothingCleared
<1> QED BY <1>1, <1>2, <1>3, <1>4, <1>5, <1>6, <1>7, <1>8, <1>9, <1>10, <1>11,
           <1>12, <1>13 DEF Next

\* Every step preserves that writes are seen.
LEMMA SeenPreserved == IInv /\ [Next]_vars => Current'
<1> SUFFICES ASSUME IInv, [Next]_vars PROVE Current'
    OBVIOUS
<1> USE ConstantsAssumption, VersionFacts
    DEF IInv, Typed, Calls, Current, UpToDate, Fetched, Entries, Goto, history
<1>0. /\ server \in [Reads -> Nat] /\ done \in [Reads -> Nat]
      /\ wrote \in [Threads -> [Reads -> Nat]]
      /\ \A t \in Threads : got[t].ver \in Nat
      /\ \A r \in Reads, a \in Args : cache[r][a] # None => cache[r][a].ver \in Nat
      BY Numbers
<1> USE <1>0
<1>1. ASSUME NEW t \in Threads, NEW r \in Reads, NEW a \in Args, Look(t, r, a) PROVE Current'
  <2>1. PICK step \in {"read", "call"} : pc' = [pc EXCEPT ![t] = step]
        BY <1>1, Zenon DEF Look
  <2>2. /\ call' = [call EXCEPT ![t] = r] /\ arg' = [arg EXCEPT ![t] = a]
        /\ UNCHANGED <<now, server, cache, got, left, wrote, history>>
        BY <1>1 DEF Look
  <2> QED BY <1>1, <2>1, <2>2 DEF Look
<1>2. ASSUME NEW t \in Threads, Read(t) PROVE Current'
  <2>1. CASE Held(call[t], arg[t])
    <3>1. Return(t) /\ UNCHANGED <<now, server, cache, history>>
          BY <1>2, <2>1, Zenon DEF Read
    <3> QED BY <1>2, <3>1 DEF Read, Return
  <2>2. CASE ~ Held(call[t], arg[t])
    <3>1. /\ pc' = [pc EXCEPT ![t] = "keyerror"]
          /\ UNCHANGED <<now, server, cache, call, arg, got, left, wrote, history>>
          BY <1>2, <2>2, Zenon DEF Read
    <3> QED BY <3>1
  <2> QED BY <2>1, <2>2
<1>3. ASSUME NEW t \in Threads, Ask(t) PROVE Current'
      BY <1>3 DEF Ask
<1>4. ASSUME NEW t \in Threads, AskFails(t) PROVE Current'
      BY <1>4 DEF AskFails, Return
<1>5. ASSUME NEW t \in Threads, Store(t) PROVE Current'
  <2> DEFINE e == [ver |-> got[t].ver, took |-> now - got[t].asked,
                overlap |-> got[t].overlap, stored |-> now]
  <2>1. PICK entries \in Stored(call[t], arg[t], e) :
               cache' = [cache EXCEPT ![call[t]] = entries]
        BY <1>5 DEF Store
  <2>2. \A b \in Args : entries[b] \in {e, cache[call[t]][b], None}
        BY <2>1, StoredEntries
  <2>3. call[t] \in Reads /\ pc[t] = "store"
        BY <1>5 DEF Store
  <2>4. \A r \in Reads, b \in Args :
           cache'[r][b] = cache[r][b] \/ cache'[r][b] = None \/ (r = call[t] /\ cache'[r][b] = e)
        BY <2>1, <2>2, <2>3
  <2>5. Shows(e, done[call[t]]) /\ done' = done
        BY <1>5, <2>3 DEF InFlight, Shows, Store
  <2> HIDE DEF e
  <2>6. ASSUME NEW r \in Reads, NEW a \in Args, cache'[r][a] # None
        PROVE  Shows(cache'[r][a], done'[r])
    <3>1. CASE r = call[t] /\ cache'[r][a] = e
          BY <2>5, <3>1
    <3>2. CASE cache'[r][a] = cache[r][a]
          BY <2>5, <2>6, <3>2 DEF Shows
    <3> QED BY <2>4, <2>6, <3>1, <3>2
  <2> QED BY <2>6 DEF Shows
<1>6. ASSUME NEW t \in Threads, Raise(t) PROVE Current'
      BY <1>6 DEF Raise, Return
<1>7. ASSUME NEW t \in Threads, NEW w \in DOMAIN Ops, Write(t, w) PROVE Current'
      BY <1>7 DEF Write
<1>8. ASSUME NEW t \in Threads, NEW w \in DOMAIN Ops, WriteFails(t, w) PROVE Current'
      BY <1>8 DEF WriteFails, locals
<1>9. ASSUME NEW t \in Threads, Clear(t) PROVE Current'
      BY <1>9 DEF Clear
<1>10. ASSUME NEW t \in Threads, WriteReturns(t) PROVE Current'
  <2>1. /\ pc[t] = "clear" /\ left[t] = << >> /\ cache' = cache
        /\ done' = [r \in Reads |-> IF r \in Settled(call[t]) /\ wrote[t][r] > done[r]
                                  THEN wrote[t][r] ELSE done[r]]
        BY <1>10 DEF WriteReturns
  <2>2. \A r \in Settled(call[t]) : \A a \in Args :
           cache[r][a] # None => Shows(cache[r][a], wrote[t][r])
    <3>1. \A r : ~Waits(t, r)
          BY <2>1 DEF Waits
    <3> QED BY <2>1, <3>1 DEF Cleared, Fresh
  <2> QED BY <2>1, <2>2 DEF Shows, Settled, Changed
<1>11. CASE Tick
      BY <1>11 DEF Tick, locals
<1>12. ASSUME NEW r \in Reads, ForeignWrite(r) PROVE Current'
      BY <1>12 DEF ForeignWrite, Change, locals
<1>13. CASE UNCHANGED vars
      BY <1>13 DEF vars, locals
<1> QED BY <1>1, <1>2, <1>3, <1>4, <1>5, <1>6, <1>7, <1>8, <1>9, <1>10, <1>11,
           <1>12, <1>13 DEF Next

-----------------------------------------------------------------------------
\* An entry that was asked for before its answer became obsolete expires in time.
LEMMA InTime ==
    ASSUME Typed, Dated, NEW r \in Reads
    PROVE  LeavesInTime(r)
<1> SUFFICES ASSUME NEW a \in Args, Held(r, a), cache[r][a].ver < server[r]
             PROVE  now < superseded[r][cache[r][a].ver] + CachedReads[r].ttl + cache[r][a].took
    BY DEF LeavesInTime
<1>1. cache[r][a] \in Entries
      BY DEF Held, Typed
<1>2. /\ now \in Nat /\ cache[r][a].stored \in Nat /\ cache[r][a].took \in Nat
      /\ cache[r][a].ver \in Versions
      BY <1>1, ConstantsAssumption DEF Entries, Typed
<1>3. superseded[r][cache[r][a].ver] \in Nat
      BY <1>2, ConstantsAssumption DEF Typed
<1>4. CachedReads[r].ttl \in Nat
      BY ConstantsAssumption, CachesAssumption
<1>5. cache[r][a].stored - cache[r][a].took <= superseded[r][cache[r][a].ver]
      BY DEF Held, Dated, Dates
<1>6. now < cache[r][a].stored + CachedReads[r].ttl
      BY DEF Held
<1> QED BY <1>2, <1>3, <1>4, <1>5, <1>6

-----------------------------------------------------------------------------
\* The size of a cache

\* The keys that a cache holds; there are finitely many at any time, although calls may
\* have any number of arguments.
Holds(r) == {a \in Args : Held(r, a)}
Small(r) == IsFiniteSet(Holds(r)) /\ Cardinality(Holds(r)) <= CachedReads[r].size

LEMMA CacheNumbers ==
    ASSUME NEW r \in Reads
    PROVE  CachedReads[r].size \in Nat /\ CachedReads[r].ttl \in Nat
<1>1. r \in DOMAIN CachedReads
      BY ConstantsAssumption
<1> QED BY <1>1, CachesAssumption

\* A cache whose keys are among those it held stays small.
LEMMA Shrinks ==
    ASSUME NEW r \in Reads, Small(r), Holds(r)' \subseteq Holds(r)
    PROVE  Small(r)'
<1>1. /\ IsFiniteSet(Holds(r)') /\ Cardinality(Holds(r)') <= Cardinality(Holds(r))
      BY FS_Subset DEF Small
<1>2. Cardinality(Holds(r)') \in Nat /\ Cardinality(Holds(r)) \in Nat
      BY <1>1, FS_CardinalityType DEF Small
<1>3. CachedReads[r].size \in Nat
      BY CacheNumbers
<1> QED BY <1>1, <1>2, <1>3 DEF Small

\* TTLCache: a store gives up another key of a full cache.
LEMMA StoredSmall ==
    ASSUME NEW r \in Reads, NEW a \in Args, NEW e, NEW entries \in Stored(r, a, e), Small(r)
    PROVE  LET keys == {b \in Args : entries[b] # None
                                     /\ now < entries[b].stored + CachedReads[r].ttl}
           IN  IsFiniteSet(keys) /\ Cardinality(keys) <= CachedReads[r].size
<1> DEFINE live == {b \in Args \ {a} : Held(r, b)}
           kept(gone) == [b \in Args |-> IF b = a THEN e
                                         ELSE IF b \in live \ gone THEN cache[r][b] ELSE None]
           keys == {b \in Args : entries[b] # None
                                 /\ now < entries[b].stored + CachedReads[r].ttl}
           size == CachedReads[r].size
<1>1. IsFiniteSet(live) /\ Cardinality(live) \in Nat /\ size \in Nat
  <2>1. live \subseteq Holds(r)
        BY DEF Holds
  <2>2. IsFiniteSet(live)
        BY <2>1, FS_Subset DEF Small
  <2> QED BY <2>2, CacheNumbers, FS_CardinalityType
<1>2. Cardinality(live) <= size
  <2>1. live \subseteq Holds(r)
        BY DEF Holds
  <2>2. Cardinality(live) <= Cardinality(Holds(r)) /\ Cardinality(Holds(r)) \in Nat
        BY <2>1, FS_Subset, FS_CardinalityType DEF Small
  <2> HIDE DEF live, size
  <2> QED BY <1>1, <2>2 DEF Small, size
<1>3. PICK gone \in SUBSET live :
          /\ entries = kept(gone)
          /\ gone = {} => Cardinality(live) < size
          /\ gone # {} => \E b \in live : gone = {b}
  <2>1. CASE Cardinality(live) < size
        BY <2>1, Zenon DEF Stored
  <2>2. CASE ~ (Cardinality(live) < size)
    <3>1. PICK b \in live : entries = kept({b})
          BY <2>2, Zenon DEF Stored
    <3> HIDE DEF live, kept
    <3> QED BY <3>1
  <2> QED BY <2>1, <2>2
<1>4. keys \subseteq (live \ gone) \cup {a}
      BY <1>3
<1>5. IsFiniteSet(live \ gone) /\ Cardinality(live \ gone) + 1 <= size
  <2> HIDE DEF live, kept, keys, size
  <2>1. CASE gone = {}
    <3>1. live \ gone = live
          BY <2>1
    <3> QED BY <1>1, <1>3, <2>1, <3>1
  <2>2. CASE gone # {}
    <3>1. PICK b \in live : gone = {b}
          BY <1>3, <2>2
    <3>2. /\ IsFiniteSet(live \ {b})
          /\ Cardinality(live \ {b}) = Cardinality(live) - 1
          BY <1>1, <3>1, FS_RemoveElement
    <3> QED BY <1>1, <1>2, <3>1, <3>2
  <2> QED BY <2>1, <2>2
<1> HIDE DEF live, kept, keys, size
<1>6. /\ IsFiniteSet((live \ gone) \cup {a}) /\ Cardinality(live \ gone) \in Nat
      /\ Cardinality((live \ gone) \cup {a}) <= Cardinality(live \ gone) + 1
  <2>1. Cardinality(live \ gone) \in Nat
        BY <1>5, FS_CardinalityType
  <2>2. /\ IsFiniteSet((live \ gone) \cup {a})
        /\ \/ Cardinality((live \ gone) \cup {a}) = Cardinality(live \ gone)
           \/ Cardinality((live \ gone) \cup {a}) = Cardinality(live \ gone) + 1
        BY <1>5, FS_AddElement
  <2> QED BY <2>1, <2>2
<1>7. IsFiniteSet(keys) /\ Cardinality(keys) <= Cardinality((live \ gone) \cup {a})
      BY <1>4, <1>6, FS_Subset
<1>8. Cardinality(keys) \in Nat /\ Cardinality((live \ gone) \cup {a}) \in Nat
      BY <1>6, <1>7, FS_CardinalityType
<1>9. Cardinality(keys) <= size
      BY <1>1, <1>5, <1>6, <1>7, <1>8
<1> QED BY <1>7, <1>9 DEF keys, size

LEMMA SmallPreserved ==
    ASSUME Typed, Calls, \A r \in Reads : Small(r), [Next]_vars, NEW r \in Reads
    PROVE  Small(r)'
<1>1. ASSUME UNCHANGED <<now, cache>> PROVE Small(r)'
  <2>1. Holds(r)' = Holds(r)
        BY <1>1 DEF Holds, Held
  <2> QED BY <2>1, Shrinks
<1>2. ASSUME NEW t \in Threads, Store(t) PROVE Small(r)'
  <2> DEFINE e == [ver |-> got[t].ver, took |-> now - got[t].asked,
                overlap |-> got[t].overlap, stored |-> now]
  <2>1. /\ call[t] \in Reads /\ arg[t] \in Args /\ now' = now
        BY <1>2 DEF Store, Calls
  <2>2. PICK entries \in Stored(call[t], arg[t], e) :
               cache' = [cache EXCEPT ![call[t]] = entries]
        BY <1>2 DEF Store
  <2> HIDE DEF e
  <2>3. CASE r # call[t]
    <3>1. cache'[r] = cache[r]
          BY <2>2, <2>3 DEF Typed
    <3>2. Holds(r)' = Holds(r)
          BY <2>1, <3>1 DEF Holds, Held
    <3> QED BY <3>2, Shrinks
  <2>4. CASE r = call[t]
    <3>1. cache'[r] = entries
          BY <2>1, <2>2, <2>4 DEF Typed
    <3>2. Holds(r)' = {b \in Args : entries[b] # None
                                    /\ now < entries[b].stored + CachedReads[r].ttl}
          BY <2>1, <3>1 DEF Holds, Held
    <3>3. entries \in Stored(r, arg[t], e)
          BY <2>2, <2>4
    <3>4. IsFiniteSet(Holds(r)') /\ Cardinality(Holds(r)') <= CachedReads[r].size
      <4> QED BY <2>1, <3>2, <3>3, StoredSmall
    <3> QED BY <3>4 DEF Small
  <2> QED BY <2>3, <2>4
<1>3. ASSUME NEW t \in Threads, Clear(t) PROVE Small(r)'
  <2>1. now' = now /\ \A a \in Args : cache'[r][a] \in {None, cache[r][a]}
        BY <1>3 DEF Clear, Typed
  <2>2. Holds(r)' \subseteq Holds(r)
        BY <2>1 DEF Holds, Held
  <2> QED BY <2>2, Shrinks
<1>4. CASE Tick
  <2>1. now' = now + Step /\ cache' = cache /\ now \in Nat /\ Step \in Nat
        BY <1>4, ConstantsAssumption DEF Tick, Typed
  <2>2. CachedReads[r].ttl \in Nat
        BY CacheNumbers
  <2>3. \A a \in Args : cache[r][a] # None => cache[r][a].stored \in Nat
        BY ConstantsAssumption DEF Typed, Entries
  <2>4. Holds(r)' \subseteq Holds(r)
        BY <2>1, <2>2, <2>3 DEF Holds, Held
  <2> QED BY <2>4, Shrinks
<1>5. ASSUME NEW t \in Threads, NEW x \in Reads, NEW a \in Args, Look(t, x, a) PROVE Small(r)'
      BY <1>1, <1>5 DEF Look
<1>6. ASSUME NEW t \in Threads, Read(t) \/ Ask(t) \/ AskFails(t) \/ Raise(t) \/ WriteReturns(t)
      PROVE  Small(r)'
      BY <1>1, <1>6 DEF Read, Ask, AskFails, Raise, WriteReturns
<1>7. ASSUME NEW t \in Threads, NEW w \in DOMAIN Ops, Write(t, w) \/ WriteFails(t, w)
      PROVE  Small(r)'
      BY <1>1, <1>7 DEF Write, WriteFails
<1>8. ASSUME NEW x \in Reads, ForeignWrite(x) PROVE Small(r)'
      BY <1>1, <1>8 DEF ForeignWrite
<1>9. CASE UNCHANGED vars
      BY <1>1, <1>9 DEF vars
<1> QED BY <1>2, <1>3, <1>4, <1>5, <1>6, <1>7, <1>8, <1>9 DEF Next

-----------------------------------------------------------------------------
\* The invariant holds in every reachable state.
THEOREM Invariance == Spec => []IInv
<1>1. Init => IInv
      BY Initially
<1>2. IInv /\ [Next]_vars => IInv'
      BY TypesPreserved, DatedPreserved, ReachedPreserved, InFlightPreserved, ClearedPreserved,
         SeenPreserved
      DEF IInv
<1> QED BY <1>1, <1>2, PTL DEF Spec

\* CachedFunction under the adapters: when a write returns, the caches it has changed
\* and cleared hold nothing it made obsolete, unless it overtook a read.  That read's
\* answer, and those of the caches a write forgets, leave within the ttl.
THEOREM Seen == Spec => []WritesSeen
<1>1. IInv => WritesSeen
      BY InTime DEF IInv, Current, WritesSeen
<1> QED BY <1>1, Invariance, PTL

\* The state keeps its types, and TTLCache with parameter maxsize never holds more
\* entries than that, whichever threads store at once and however many keys are asked.
THEOREM TypeCorrect == Spec => []TypeOK
<1> DEFINE AllSmall == \A r \in Reads : Small(r)
<1>1. Init => AllSmall
  <2> SUFFICES ASSUME Init, NEW r \in Reads PROVE Small(r)
      OBVIOUS
  <2>1. Holds(r) = {}
        BY DEF Init, Holds, Held
  <2> QED BY <2>1, FS_EmptySet, CacheNumbers DEF Small
<1>2. IInv /\ AllSmall /\ [Next]_vars => AllSmall'
      BY SmallPreserved DEF IInv
<1>3. IInv /\ AllSmall => TypeOK
      BY DEF IInv, TypeOK, Bounded, Small, Holds
<1> HIDE DEF AllSmall
<1> QED BY <1>1, <1>2, <1>3, Invariance, PTL DEF Spec
=============================================================================

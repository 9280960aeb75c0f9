----------------------- MODULE RedisReplication_proofs -----------------------
(***************************************************************************)
(* Proofs about RedisReplication: for any callers, servers and modes, with *)
(* every failure and failover, no write is sent to a replica, what asks    *)
(* the primary misses nothing that anybody was told before, and a caller's *)
(* reads never go back in time where the adapter can keep them from it.    *)
(***************************************************************************)
EXTENDS RedisReplication, TLAPS

-----------------------------------------------------------------------------
\* What the operations of each kind ask

ToPrimary(effect) == [client |-> "client", effect |-> effect]
ToReplica(effect) == [client |-> "read_only_client", effect |-> effect]

Plain == {ToReplica("read"), ToPrimary("write"), ToPrimary("none")}
AtPrimary == {ToPrimary("read"), ToPrimary("write"), ToPrimary("none")}

\* The requests that the operations of a kind make.
Asks == [strings     |-> Plain,
         lists       |-> Plain,
         sets        |-> Plain \cup AtPrimary,
         sorted_sets |-> AtPrimary,
         hashes      |-> Plain,
         arrays      |-> Plain,
         documents   |-> AtPrimary,
         parameters  |-> {ToPrimary("set"), ToReplica("show")},
         channels    |-> {ToPrimary("set"), ToPrimary("show"), ToPrimary("none")},
         topology    |-> {ToPrimary("none")}]

\* A table of operations makes no others.
Within(table, Q) == \A o \in DOMAIN table : table[o] \in Q

LEMMA Together ==
    ASSUME NEW Q, NEW f, NEW g, Within(f, Q), Within(g, Q)
    PROVE  Within(f ++ g, Q)
BY DEF Within, ++

LEMMA OfTables ==
    ASSUME NEW names
    PROVE  /\ Within(Reads(names), {ToReplica("read")})
           /\ Within(PrimaryReads(names), {ToPrimary("read")})
           /\ Within(Writes(names), {ToPrimary("write")})
           /\ Within(Others(names), {ToPrimary("none")})
BY DEF Within, Reads, PrimaryReads, Writes, Others, ToReplica, ToPrimary

LEMMA OfServer == Within(Server, {ToPrimary("none"), ToPrimary("write")})
BY OfTables DEF Server, Within, ++

LEMMA OfStrings == Within(Counters ++ Strings ++ Keys ++ Server, Plain)
<1>1. Within(Counters, Plain)
      BY OfTables DEF Counters, Plain, Within, ++
<1>2. Within(Strings, Plain)
      BY OfTables DEF Strings, Plain, Within, ++
<1>3. Within(Keys, Plain)
      BY OfTables DEF Keys, Plain, Within, ++
<1>4. Within(Server, Plain)
      BY OfServer DEF Plain, Within
<1> QED BY <1>1, <1>2, <1>3, <1>4, Together

LEMMA OfCollections ==
    /\ Within(Lists ++ Server, Plain)
    /\ Within(Sets ++ Server, Plain \cup AtPrimary)
    /\ Within(Hashes ++ Server, Plain)
    /\ Within(Arrays ++ Server, Plain)
<1>1. Within(Server, Plain) /\ Within(Server, Plain \cup AtPrimary)
      BY OfServer DEF Plain, AtPrimary, Within
<1>2. Within(Lists, Plain)
      BY OfTables DEF Lists, Plain, Within, ++
<1>3. Within(Sets, Plain \cup AtPrimary)
      BY OfTables DEF Sets, Plain, AtPrimary, Within, ++
<1>4. Within(Hashes, Plain)
      BY OfTables DEF Hashes, Plain, Within, ++
<1>5. Within(Arrays, Plain)
      BY OfTables DEF Arrays, Plain, Within, ++
<1> QED BY <1>1, <1>2, <1>3, <1>4, <1>5, Together

LEMMA OfPrimary ==
    /\ Within(SortedSets ++ Ranks ++ Server, AtPrimary)
    /\ Within(Indexes ++ Documents ++ Queries, AtPrimary)
<1>1. Within(Server, AtPrimary)
      BY OfServer DEF AtPrimary, Within
<1>2. Within(SortedSets, AtPrimary)
      BY OfTables DEF SortedSets, AtPrimary, Within, ++
<1>3. Within(Ranks, AtPrimary)
      BY OfTables DEF Ranks, AtPrimary, Within, ++
<1>4. Within(Indexes, AtPrimary)
      BY OfTables DEF Indexes, AtPrimary, Within, ++
<1>5. Within(Documents, AtPrimary)
      BY OfTables DEF Documents, AtPrimary, Within, ++
<1>6. Within(Queries, AtPrimary)
      BY OfTables DEF Queries, AtPrimary, Within, ++
<1> QED BY <1>1, <1>2, <1>3, <1>4, <1>5, <1>6, Together

LEMMA OfOthers ==
    /\ Within(Parameters, Asks.parameters)
    /\ Within(PubSub, Asks.channels)
    /\ Within(Cluster, Asks.topology)
BY OfTables DEF Parameters, PubSub, Cluster, Asks, Within, ToPrimary, ToReplica, ++

\* The async adapter asks what the sync one does.
LEMMA AsyncAsSync == AsyncOperations = Operations
BY DEF AsyncOperations, Operations, AsyncCounters, AsyncStrings, AsyncKeys, AsyncServer,
       AsyncLists, AsyncSets, AsyncSortedSets, AsyncRanks, AsyncHashes, AsyncArrays,
       AsyncIndexes, AsyncDocuments, AsyncQueries, AsyncParameters, AsyncPubSub, AsyncCluster

LEMMA OfKinds ==
    ASSUME NEW k \in Kinds
    PROVE  /\ Within(Operations[k], Asks[k])
           /\ Within(AsyncOperations[k], Asks[k])
<1>1. /\ Within(Operations.strings, Asks.strings)
      /\ Within(Operations.lists, Asks.lists)
      /\ Within(Operations.sets, Asks.sets)
      /\ Within(Operations.hashes, Asks.hashes)
      /\ Within(Operations.arrays, Asks.arrays)
      BY OfStrings, OfCollections DEF Operations, Asks
<1>2. /\ Within(Operations.sorted_sets, Asks.sorted_sets)
      /\ Within(Operations.documents, Asks.documents)
      BY OfPrimary DEF Operations, Asks
<1>3. /\ Within(Operations.parameters, Asks.parameters)
      /\ Within(Operations.channels, Asks.channels)
      /\ Within(Operations.topology, Asks.topology)
      BY OfOthers DEF Operations
<1>4. k \in {"strings", "lists", "sets", "sorted_sets", "hashes", "arrays", "documents",
             "parameters", "channels", "topology"}
      BY DEF Kinds, Operations
<1> QED BY <1>1, <1>2, <1>3, <1>4, AsyncAsSync

-----------------------------------------------------------------------------
\* The inductive invariant

\* What is asked is in the table.
Asked == /\ requests \subseteq Asks[kind]
         /\ \A c \in Callers : pc[c] \in {"asked", "answered"} => request[c] \in requests

\* No server is ahead of the primary.  Servers keep parameters and channels for
\* themselves, so that a failover to one which knows less of them loses some.
Ahead == kind \in Replicated \/ ~lost => \A s \in Servers : version[s] <= version[primary]

\* What must come from the primary, whichever mode the adapter is in.
AtThePrimary(c) == \/ request[c].effect = "write"
                   \/ kind \in {"sorted_sets", "documents", "channels"} /\ mode # "balanced"

\* The primary knows all that anybody was told.
Fresh == /\ \A c \in Callers : floor[c] <= acked
         /\ \A c \in Callers : pc[c] # "refused"
         /\ ~lost => /\ acked <= version[primary]
                     /\ \A c \in Callers : pc[c] = "answered" =>
                          /\ answer[c] <= version[primary]
                          /\ AtThePrimary(c) => floor[c] <= answer[c]

\* The modes and kinds in which all that a caller reads comes from one server,
\* and that server.
OneSource == /\ mode = "replicated" => kind # "sets"
             /\ mode = "sentinel" => kind \in {"sorted_sets", "channels"}
             /\ mode # "balanced"
Source == IF mode = "replicated" /\ kind \notin {"sorted_sets", "documents", "channels", "topology"}
          THEN slave ELSE primary

\* It has not forgotten anything that it showed.
Shown == OneSource /\ ~lost =>
         \A c \in Callers :
             /\ seen[c] <= version[Source]
             /\ pc[c] = "answered" /\ request[c].effect \in {"read", "show"} =>
                    seen[c] <= answer[c] /\ answer[c] <= version[Source]

IInv == TypeOK /\ Asked /\ Ahead /\ Fresh /\ Shown

-----------------------------------------------------------------------------
\* What an operation asks of which client decides which server answers

LEMMA Contract ==
    ASSUME NEW k \in Kinds, NEW q \in Asks[k]
    PROVE  /\ q \in Requests
           /\ q.effect \in {"write", "set"} => q.client = "client"
           /\ k \in {"sorted_sets", "documents", "channels", "topology"} => q.client = "client"
           /\ /\ k \notin {"sets", "sorted_sets", "documents", "channels", "topology"}
              /\ q.effect \in {"read", "show"}
              => q.client = "read_only_client"
BY DEF Kinds, Operations, Asks, Plain, AtPrimary, ToPrimary, ToReplica, Requests

\* _set_clients(): whoever writes reaches the primary in every mode, and so does
\* whoever asks the primary to read, unless the cluster client decides.
LEMMA Targeted ==
    ASSUME TypeOK, NEW q \in Asks[kind], NEW s \in Targets(q)
    PROVE  /\ s \in Servers
           /\ q.effect \in {"write", "set"} => s = primary
           /\ kind \in {"sorted_sets", "documents", "channels"} /\ mode # "balanced" => s = primary
           /\ OneSource /\ q.effect \in {"read", "show"} => s = Source
<1>1. /\ mode \in {"single", "replicated", "sentinel", "cluster", "balanced"}
      /\ kind \in Kinds /\ primary \in Servers /\ slave \in Servers
      BY ConstantsAssumption DEF TypeOK
<1>2. /\ q.effect \in {"write", "set"} => q.client = "client"
      /\ kind \in {"sorted_sets", "documents", "channels", "topology"} => q.client = "client"
      /\ /\ kind \notin {"sets", "sorted_sets", "documents", "channels", "topology"}
         /\ q.effect \in {"read", "show"}
         => q.client = "read_only_client"
      BY <1>1, Contract
<1>3. CASE mode \in {"single", "replicated"}
      <2>1. s \in Standalone(q.client)
            BY <1>3 DEF Targets
      <2> QED BY <2>1, <1>1, <1>2, <1>3 DEF Standalone, OneSource, Source
<1>4. CASE mode = "sentinel"
      <2>1. s \in Sentinel(q.client)
            BY <1>4 DEF Targets
      <2> QED BY <2>1, <1>1, <1>2, <1>4 DEF Sentinel, OneSource, Source
<1>5. CASE mode \in {"cluster", "balanced"}
      <2>1. s \in InCluster(q.effect)
            BY <1>5 DEF Targets
      <2> QED BY <2>1, <1>1, <1>2, <1>5 DEF InCluster, OneSource, Source
<1> QED BY <1>1, <1>3, <1>4, <1>5

LEMMA MaxOfTwo ==
    ASSUME NEW a \in Nat, NEW b \in Nat
    PROVE  Max({a, b}) = IF a >= b THEN a ELSE b
<1>1. \E x \in {a, b} : \A y \in {a, b} : x >= y
      OBVIOUS
<1>2. Max({a, b}) \in {a, b} /\ \A y \in {a, b} : Max({a, b}) >= y
      BY <1>1 DEF Max
<1> QED BY <1>2

LEMMA MinOfTwo ==
    ASSUME NEW a \in Nat, NEW b \in Nat
    PROVE  Min({a, b}) = IF a <= b THEN a ELSE b
<1>1. \E x \in {a, b} : \A y \in {a, b} : x <= y
      OBVIOUS
<1>2. Min({a, b}) \in {a, b} /\ \A y \in {a, b} : Min({a, b}) <= y
      BY <1>1 DEF Min
<1> QED BY <1>2

LEMMA Start ==
    ASSUME Init
    PROVE  IInv
<1>1. requests \subseteq Asks[kind]
      <2>1. PICK operations \in {Operations[kind], AsyncOperations[kind]} :
                    requests = {operations[o] : o \in DOMAIN operations}
            BY DEF Init
      <2>2. kind \in Kinds
            BY DEF Init
      <2> QED BY <2>1, <2>2, OfKinds DEF Within
<1>2. TypeOK
      <2>1. requests \subseteq Requests
            BY <1>1, Contract DEF Init
      <2>2. 0 \in Versions
            BY ConstantsAssumption DEF Versions
      <2>3. \A s \in Servers : version[s] <= version[primary]
            BY DEF Init
      <2> QED BY <2>1, <2>2, <2>3 DEF Init, TypeOK, Idle, Requests
<1>3. Asked
      BY <1>1 DEF Init, Asked
<1>4. Ahead /\ Fresh
      BY DEF Init, Ahead, Fresh
<1>5. Shown
      BY DEF Init, Shown, Source
<1> QED BY <1>2, <1>3, <1>4, <1>5 DEF IInv

-----------------------------------------------------------------------------
\* A call of the adapter

LEMMA BeginStep ==
    ASSUME IInv, NEW c \in Callers, Begin(c)
    PROVE  IInv'
<1>1. PICK q \in requests : request' = [request EXCEPT ![c] = q]
      BY DEF Begin
<1>2. q \in Requests
      BY <1>1 DEF IInv, TypeOK
<1>3. /\ pc' = [pc EXCEPT ![c] = "asked"]
      /\ floor' = [floor EXCEPT ![c] = acked]
      /\ UNCHANGED <<mode, kind, requests, slave, primary, version, answer, acked, seen, lost>>
      BY DEF Begin, fixed
<1>4. TypeOK'
      BY <1>1, <1>2, <1>3 DEF IInv, TypeOK, Versions
<1>5. Asked'
      BY <1>1, <1>3 DEF IInv, TypeOK, Asked
<1>6. Ahead'
      BY <1>3 DEF IInv, Ahead
<1>7. Fresh'
      <2>1. acked \in Nat
            BY DEF IInv, TypeOK, Versions
      <2> QED BY <2>1, <1>1, <1>3 DEF IInv, TypeOK, Fresh, AtThePrimary
<1>8. Shown'
      BY <1>1, <1>3 DEF IInv, TypeOK, Shown, OneSource, Source
<1> QED BY <1>4, <1>5, <1>6, <1>7, <1>8 DEF IInv

LEMMA ExecuteStep ==
    ASSUME IInv, NEW c \in Callers, Execute(c)
    PROVE  IInv'
<1> DEFINE q == request[c]
           n(s) == version[s] + (IF q.effect \in {"write", "set"} THEN 1 ELSE 0)
<1>1. PICK s \in Targets(q) :
          /\ n(s) <= MaxWrites
          /\ IF q.effect = "write" /\ s # primary
             THEN pc' = [pc EXCEPT ![c] = "refused"] /\ UNCHANGED <<version, answer>>
             ELSE /\ pc' = [pc EXCEPT ![c] = "answered"]
                  /\ version' = [version EXCEPT ![s] = n(s)]
                  /\ answer' = [answer EXCEPT ![c] = n(s)]
      BY DEF Execute
<1>2. /\ pc[c] = "asked"
      /\ UNCHANGED <<mode, kind, requests, slave, primary, request, acked, floor, seen, lost>>
      BY DEF Execute, fixed, history
<1>3. TypeOK /\ q \in Asks[kind] /\ q \in requests
      BY <1>2 DEF IInv, Asked
<1>4. /\ s \in Servers
      /\ q.effect \in {"write", "set"} => s = primary
      /\ kind \in {"sorted_sets", "documents", "channels"} /\ mode # "balanced" => s = primary
      /\ OneSource /\ q.effect \in {"read", "show"} => s = Source
      BY <1>3, Targeted
<1>5. /\ pc' = [pc EXCEPT ![c] = "answered"]
      /\ version' = [version EXCEPT ![s] = n(s)]
      /\ answer' = [answer EXCEPT ![c] = n(s)]
      BY <1>1, <1>4
<1>6. /\ n(s) \in Versions /\ version[s] <= n(s)
      /\ n(s) = version[s] \/ s = primary
      /\ q.effect \in {"read", "show"} => n(s) = version[s]
      BY <1>1, <1>3, <1>4, ConstantsAssumption DEF TypeOK, Versions
<1>7. /\ version' \in [Servers -> Versions]
      /\ version'[s] = n(s)
      /\ \A r \in Servers : version[r] <= version'[r]
      /\ \A r \in Servers \ {s} : version[r] = version'[r]
      /\ answer'[c] = n(s) /\ pc'[c] = "answered"
      /\ \A d \in Callers \ {c} : answer'[d] = answer[d] /\ pc'[d] = pc[d]
      BY <1>3, <1>4, <1>5, <1>6 DEF TypeOK, Versions
<1>8. \A r \in Servers : version[r] <= version[primary] => version'[r] <= version'[primary]
      BY <1>3, <1>6, <1>7 DEF TypeOK, Versions
<1>9. TypeOK'
      <2>1. kind \in Replicated => \A r \in Servers : version'[r] <= version'[primary]
            BY <1>3, <1>8 DEF TypeOK
      <2> QED BY <2>1, <1>2, <1>3, <1>5, <1>6, <1>7 DEF TypeOK
<1>10. Asked'
      BY <1>2, <1>3, <1>5, <1>7 DEF IInv, Asked
<1>11. Ahead'
      BY <1>2, <1>8 DEF IInv, Ahead
<1>12. Fresh'
      <2>1. ~lost => acked <= version'[primary]
            BY <1>3, <1>7 DEF IInv, Fresh, TypeOK, Versions
      <2>2. ~lost => n(s) <= version'[primary]
            BY <1>7, <1>8, <1>4 DEF IInv, Ahead
      <2>3. ~lost /\ AtThePrimary(c) => floor[c] <= n(s)
            <3>1. AtThePrimary(c) => s = primary
                  BY <1>4 DEF AtThePrimary
            <3> QED BY <3>1, <1>3, <1>6, <1>7 DEF IInv, Fresh, TypeOK, Versions
      <2>4. ASSUME NEW d \in Callers, ~lost, pc'[d] = "answered"
            PROVE  /\ answer'[d] <= version'[primary]
                   /\ AtThePrimary(d)' => floor[d] <= answer'[d]
            <3>1. CASE d = c
                  BY <3>1, <2>2, <2>3, <2>4, <1>2, <1>7 DEF AtThePrimary
            <3>2. CASE d # c
                  <4>1. answer[d] <= version[primary] /\ (AtThePrimary(d) => floor[d] <= answer[d])
                        BY <3>2, <2>4, <1>7 DEF IInv, Fresh
                  <4>2. answer'[d] = answer[d] /\ version[primary] <= version'[primary]
                        BY <3>2, <1>3, <1>7 DEF TypeOK
                  <4>3. answer'[d] <= version'[primary]
                        BY <4>1, <4>2, <1>3, <1>7 DEF TypeOK, Versions
                  <4> QED BY <4>1, <4>2, <4>3, <1>2 DEF AtThePrimary
            <3> QED BY <3>1, <3>2
      <2>5. \A d \in Callers : pc'[d] # "refused"
            BY <1>7 DEF IInv, Fresh
      <2> QED BY <2>1, <2>4, <2>5, <1>2 DEF IInv, Fresh
<1>13. Shown'
      <2> SUFFICES ASSUME OneSource, ~lost, NEW d \in Callers
                   PROVE  /\ seen[d] <= version'[Source]
                          /\ pc'[d] = "answered" /\ request[d].effect \in {"read", "show"} =>
                                 seen[d] <= answer'[d] /\ answer'[d] <= version'[Source]
            BY <1>2 DEF Shown, OneSource, Source
      <2>1. /\ seen[d] <= version[Source]
            /\ pc[d] = "answered" /\ request[d].effect \in {"read", "show"} =>
                   seen[d] <= answer[d] /\ answer[d] <= version[Source]
            BY DEF IInv, Shown
      <2>2. Source \in Servers /\ version[Source] <= version'[Source]
            BY <1>3, <1>7 DEF Source, TypeOK
      <2>3. seen[d] <= version'[Source]
            BY <2>1, <2>2, <1>3, <1>7 DEF TypeOK, Versions
      <2>4. CASE d = c
            <3>1. q.effect \in {"read", "show"} => n(s) = version[Source]
                  BY <1>4, <1>6
            <3> QED BY <3>1, <2>1, <2>2, <2>3, <2>4, <1>7
      <2>5. CASE d # c
            <3>1. answer'[d] = answer[d] /\ pc'[d] = pc[d]
                  BY <2>5, <1>7
            <3>2. answer[d] <= version[Source] => answer[d] <= version'[Source]
                  BY <2>2, <1>3, <1>7 DEF TypeOK, Versions
            <3> QED BY <3>1, <3>2, <2>1, <2>3
      <2> QED BY <2>4, <2>5
<1> QED BY <1>9, <1>10, <1>11, <1>12, <1>13 DEF IInv

\* What a finished call leaves behind.
LEMMA Idles == Idle \in Requests /\ Idle.effect = "none"
BY DEF Idle, Requests

LEMMA ReturnStep ==
    ASSUME IInv, NEW c \in Callers, Return(c)
    PROVE  IInv'
<1> DEFINE a == answer[c]
<1>1. /\ pc[c] = "answered"
      /\ pc' = [pc EXCEPT ![c] = "idle"]
      /\ request' = [request EXCEPT ![c] = Idle]
      /\ answer' = [answer EXCEPT ![c] = 0]
      /\ floor' = [floor EXCEPT ![c] = 0]
      /\ UNCHANGED <<mode, kind, requests, slave, primary, version, lost>>
      BY DEF Return, fixed
<1>2. TypeOK /\ a \in Versions /\ acked \in Versions /\ seen[c] \in Versions /\ 0 \in Versions
      BY ConstantsAssumption DEF IInv, TypeOK, Versions
<1>3. acked' = IF acked >= a THEN acked ELSE a
      BY <1>2, MaxOfTwo DEF Return, Versions
<1>4. \/ seen' = seen
      \/ /\ request[c].effect \in {"read", "show"}
         /\ seen' = [seen EXCEPT ![c] = IF seen[c] >= a THEN seen[c] ELSE a]
      BY <1>2, MaxOfTwo DEF Return, Versions
<1>5. TypeOK'
      <2>1. acked' \in Versions /\ seen' \in [Callers -> Versions]
            BY <1>2, <1>3, <1>4 DEF TypeOK
      <2> QED BY <2>1, <1>1, <1>2, Idles DEF TypeOK
<1>6. Asked' /\ Ahead'
      BY <1>1, <1>2 DEF IInv, TypeOK, Asked, Ahead
<1>7. Fresh'
      <2>1. \A d \in Callers : floor'[d] <= acked'
            BY <1>1, <1>2, <1>3 DEF IInv, TypeOK, Fresh, Versions
      <2>2. ~lost => acked' <= version[primary]
            BY <1>1, <1>3 DEF IInv, Fresh
      <2>3. ASSUME NEW d \in Callers, pc'[d] = "answered"
            PROVE  /\ pc[d] = "answered" /\ answer'[d] = answer[d] /\ floor'[d] = floor[d]
                   /\ request'[d] = request[d]
            BY <2>3, <1>1, <1>2 DEF TypeOK
      <2>4. \A d \in Callers : pc'[d] # "refused"
            BY <1>1, <1>2 DEF IInv, Fresh, TypeOK
      <2>5. ASSUME NEW d \in Callers, ~lost, pc'[d] = "answered"
            PROVE  /\ answer'[d] <= version[primary]
                   /\ AtThePrimary(d)' => floor'[d] <= answer'[d]
            BY <2>3, <2>5, <1>1 DEF IInv, Fresh, AtThePrimary
      <2> QED BY <2>1, <2>2, <2>4, <2>5, <1>1 DEF Fresh
<1>8. Shown'
      <2> SUFFICES ASSUME OneSource, ~lost, NEW d \in Callers
                   PROVE  /\ seen'[d] <= version[Source]
                          /\ pc'[d] = "answered" /\ request'[d].effect \in {"read", "show"} =>
                                 seen'[d] <= answer'[d] /\ answer'[d] <= version[Source]
            BY <1>1 DEF Shown, OneSource, Source
      <2>1. /\ seen[d] <= version[Source]
            /\ pc[d] = "answered" /\ request[d].effect \in {"read", "show"} =>
                   seen[d] <= answer[d] /\ answer[d] <= version[Source]
            BY DEF IInv, Shown
      <2>2. CASE d = c
            BY <2>1, <2>2, <1>1, <1>2, <1>4 DEF TypeOK
      <2>3. CASE d # c
            <3>1. /\ seen'[d] = seen[d] /\ pc'[d] = pc[d] /\ answer'[d] = answer[d]
                  /\ request'[d] = request[d]
                  BY <2>3, <1>1, <1>2, <1>4 DEF TypeOK
            <3> QED BY <3>1, <2>1
      <2> QED BY <2>2, <2>3
<1> QED BY <1>5, <1>6, <1>7, <1>8 DEF IInv

LEMMA FailStep ==
    ASSUME IInv, NEW c \in Callers, Fail(c)
    PROVE  IInv'
<1>1. /\ pc' = [pc EXCEPT ![c] = "idle"]
      /\ request' = [request EXCEPT ![c] = Idle]
      /\ answer' = [answer EXCEPT ![c] = 0]
      /\ floor' = [floor EXCEPT ![c] = 0]
      /\ UNCHANGED <<mode, kind, requests, slave, primary, version, acked, seen, lost>>
      BY DEF Fail, fixed
<1>2. TypeOK /\ 0 \in Versions /\ acked \in Versions
      BY ConstantsAssumption DEF IInv, TypeOK, Versions
<1>3. TypeOK'
      BY <1>1, <1>2, Idles DEF TypeOK
<1>4. Asked' /\ Ahead'
      BY <1>1, <1>2 DEF IInv, TypeOK, Asked, Ahead
<1>5. ASSUME NEW d \in Callers, pc'[d] = "answered"
      PROVE  /\ pc[d] = "answered" /\ answer'[d] = answer[d] /\ floor'[d] = floor[d]
             /\ request'[d] = request[d]
      BY <1>5, <1>1, <1>2 DEF TypeOK
<1>6. Fresh'
      <2>1. \A d \in Callers : floor'[d] <= acked /\ pc'[d] # "refused"
            BY <1>1, <1>2 DEF IInv, TypeOK, Fresh, Versions
      <2>2. ASSUME NEW d \in Callers, ~lost, pc'[d] = "answered"
            PROVE  /\ answer'[d] <= version[primary]
                   /\ AtThePrimary(d)' => floor'[d] <= answer'[d]
            BY <2>2, <1>1, <1>5 DEF IInv, Fresh, AtThePrimary
      <2> QED BY <2>1, <2>2, <1>1 DEF IInv, Fresh
<1>7. Shown'
      BY <1>1, <1>5 DEF IInv, Shown, OneSource, Source
<1> QED BY <1>3, <1>4, <1>6, <1>7 DEF IInv

-----------------------------------------------------------------------------
\* The servers

LEMMA ReplicateStep ==
    ASSUME IInv, NEW s \in Servers, Replicate(s)
    PROVE  IInv'
<1>1. /\ version[s] < version[primary]
      /\ version' = [version EXCEPT ![s] = @ + 1]
      /\ UNCHANGED <<mode, kind, requests, slave, primary, pc, request, answer,
                     acked, floor, seen, lost>>
      BY DEF Replicate, fixed, call, history
<1>2. TypeOK
      BY DEF IInv
<1>3. /\ version' \in [Servers -> Versions]
      /\ version'[primary] = version[primary]
      /\ \A r \in Servers : version[r] <= version'[r]
      /\ \A r \in Servers : version[r] <= version[primary] => version'[r] <= version'[primary]
      <2>1. version \in [Servers -> Nat] /\ primary \in Servers /\ version[primary] <= MaxWrites
            BY <1>2 DEF TypeOK, Versions
      <2>2. version[s] + 1 \in Versions /\ version[s] + 1 <= version[primary]
            BY <1>1, <2>1, ConstantsAssumption DEF Versions
      <2>3. /\ version'[s] = version[s] + 1
            /\ \A r \in Servers \ {s} : version'[r] = version[r]
            BY <1>1, <2>1
      <2>4. s # primary
            BY <1>1, <2>1
      <2>5. version' \in [Servers -> Versions]
            BY <1>1, <1>2, <2>2 DEF TypeOK
      <2> QED BY <2>1, <2>2, <2>3, <2>4, <2>5
<1>4. TypeOK' /\ Asked' /\ Ahead'
      BY <1>1, <1>2, <1>3 DEF IInv, TypeOK, Asked, Ahead
<1>5. Fresh'
      BY <1>1, <1>3 DEF IInv, Fresh, AtThePrimary
<1>6. Shown'
      <2> SUFFICES ASSUME OneSource, ~lost, NEW c \in Callers
                   PROVE  /\ seen[c] <= version'[Source]
                          /\ pc[c] = "answered" /\ request[c].effect \in {"read", "show"} =>
                                 seen[c] <= answer[c] /\ answer[c] <= version'[Source]
            BY <1>1 DEF Shown, OneSource, Source
      <2>1. Source \in Servers
            BY <1>2 DEF Source, TypeOK
      <2>2. \A n \in Versions : n <= version[Source] => n <= version'[Source]
            BY <2>1, <1>2, <1>3 DEF TypeOK, Versions
      <2> QED BY <2>2, <1>2 DEF IInv, Shown, TypeOK
<1> QED BY <1>4, <1>5, <1>6 DEF IInv

\* A failover that loses nothing leaves every server as it was.
LEMMA FailoverStep ==
    ASSUME IInv, NEW s \in Servers, Failover(s)
    PROVE  IInv'
<1>1. /\ mode \in {"sentinel", "cluster", "balanced"}
      /\ primary' = s
      /\ version' = IF kind \in Replicated
                    THEN [r \in Servers |-> Min({version[r], version[s]})]
                    ELSE version
      /\ lost' = (lost \/ version[s] < version[primary])
      /\ UNCHANGED <<mode, kind, requests, slave, pc, request, answer, acked, floor, seen>>
      BY DEF Failover, fixed, call
<1>2. TypeOK
      BY DEF IInv
<1>3. ASSUME kind \in Replicated
      PROVE  /\ version' \in [Servers -> Versions]
             /\ \A r \in Servers :
                  version'[r] = IF version[r] <= version[s] THEN version[r] ELSE version[s]
      BY <1>1, <1>2, <1>3, MinOfTwo DEF TypeOK, Versions
<1>4. version' \in [Servers -> Versions]
      BY <1>1, <1>2, <1>3 DEF TypeOK
<1>5. kind \in Replicated => \A r \in Servers : version'[r] <= version'[s]
      BY <1>2, <1>3 DEF TypeOK, Versions
<1>6. TypeOK'
      BY <1>1, <1>2, <1>4, <1>5 DEF TypeOK
<1>7. ASSUME ~lost'
      PROVE  /\ ~lost
             /\ \A r \in Servers : version'[r] = version[r]
             /\ version[s] = version[primary]
             /\ \A r \in Servers : version[r] <= version[s]
      <2>1. ~lost /\ ~(version[s] < version[primary])
            BY <1>1, <1>7
      <2>2. \A r \in Servers : version[r] <= version[primary]
            BY <2>1 DEF IInv, Ahead
      <2>3. version[s] = version[primary]
            BY <2>1, <2>2, <1>2 DEF TypeOK, Versions
      <2>4. \A r \in Servers : version'[r] = version[r]
            BY <2>2, <2>3, <1>1, <1>3
      <2> QED BY <2>1, <2>2, <2>3, <2>4
<1>8. Asked'
      BY <1>1 DEF IInv, Asked
<1>9. Ahead'
      BY <1>1, <1>5, <1>7 DEF Ahead
<1>10. Fresh'
      BY <1>1, <1>7 DEF IInv, Fresh, AtThePrimary
<1>11. Shown'
      <2> SUFFICES ASSUME OneSource, ~lost', NEW c \in Callers
                   PROVE  /\ seen[c] <= version'[s]
                          /\ pc[c] = "answered" /\ request[c].effect \in {"read", "show"} =>
                                 seen[c] <= answer[c] /\ answer[c] <= version'[s]
            BY <1>1 DEF Shown, OneSource, Source
      <2>1. version[Source] = version'[s]
            BY <1>1, <1>7 DEF Source
      <2> QED BY <2>1, <1>7 DEF IInv, Shown
<1> QED BY <1>6, <1>8, <1>9, <1>10, <1>11 DEF IInv

-----------------------------------------------------------------------------
\* The theorems

LEMMA Step == IInv /\ [Next]_vars => IInv'
<1> SUFFICES ASSUME IInv, [Next]_vars PROVE IInv'
    OBVIOUS
<1>1. CASE \E c \in Callers : Begin(c) \/ Execute(c) \/ Return(c) \/ Fail(c)
      BY <1>1, BeginStep, ExecuteStep, ReturnStep, FailStep
<1>2. CASE \E s \in Servers : Replicate(s) \/ Failover(s)
      BY <1>2, ReplicateStep, FailoverStep
<1>3. CASE UNCHANGED vars
      BY <1>3 DEF vars, fixed, call, history, IInv, TypeOK, Asked, Ahead, Fresh, AtThePrimary,
                  Shown, OneSource, Source
<1> QED BY <1>1, <1>2, <1>3 DEF Next

\* What is asked comes from the adapters' operations, no server is ahead of the
\* primary, which knows what anybody was told, and the server that a caller reads
\* from has not forgotten what it showed: always.
THEOREM Invariance == Spec => []IInv
<1>1. Init => IInv
      BY Start
<1>2. IInv /\ [Next]_vars => IInv'
      BY Step
<1> QED BY <1>1, <1>2, PTL DEF Spec

\* Requests, servers and versions stay what they are; of the kinds that are
\* replicated no server ever has more than the primary, lost writes or not.
THEOREM TypeCorrect == Spec => []TypeOK
<1>1. IInv => TypeOK
      BY DEF IInv
<1> QED BY <1>1, Invariance, PTL

\* No operation that writes is ever sent to a replica, and what is asked of the
\* primary contains all that anybody was told before the call, unless a failover
\* lost writes.
THEOREM Freshness == Spec => []PrimaryFresh
<1>1. IInv => PrimaryFresh
      <2> SUFFICES ASSUME IInv, NEW c \in Callers
                   PROVE  /\ pc[c] # "refused"
                          /\ pc[c] = "answered" /\ ~lost /\ AtThePrimary(c) => answer[c] >= floor[c]
            BY DEF PrimaryFresh, AtThePrimary
      <2>1. answer[c] \in Nat /\ floor[c] \in Nat
            BY DEF IInv, TypeOK, Versions
      <2> QED BY <2>1 DEF IInv, Fresh
<1> QED BY <1>1, Invariance, PTL

\* A caller's reads never go back in time, with one replica for all kinds but
\* sets, with several where the primary is asked.
THEOREM Monotonic == Spec => []MonotonicReads
<1>1. IInv => MonotonicReads
      <2> SUFFICES ASSUME IInv, NEW c \in Callers, OneSource, ~lost,
                          pc[c] = "answered", request[c].effect \in {"read", "show"}
                   PROVE  answer[c] >= seen[c]
            BY DEF MonotonicReads, OneSource
      <2>1. answer[c] \in Nat /\ seen[c] \in Nat
            BY DEF IInv, TypeOK, Versions
      <2> QED BY <2>1 DEF IInv, Shown
<1> QED BY <1>1, Invariance, PTL

=============================================================================

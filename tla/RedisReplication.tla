------------------------- MODULE RedisReplication -------------------------
(***************************************************************************)
(* What the callers of a Redis adapter see of replicated data.  The        *)
(* adapter keeps two clients and every operation names one of them, see    *)
(* RedisOperations; which server that is depends on the mode:              *)
(*   "single"      standalone, no SLAVE_HOST: both clients are the primary; *)
(*   "replicated"  standalone with SLAVE_HOST: one replica, for good;      *)
(*   "sentinel"    master_for() and slave_for(), which follow a failover;  *)
(*   "cluster"     one cluster client, reads at the primary;               *)
(*   "balanced"    the same with CLUSTER_READ_FROM_REPLICAS: commands that *)
(*                 read go round the primary and its replicas.             *)
(*                                                                         *)
(* A behaviour follows one kind of state at one key (strings, hashes,      *)
(* ...), of which only the number of writes it has seen matters: kinds do  *)
(* not influence each other.  The servers are external.                    *)
(***************************************************************************)
EXTENDS Naturals, FiniteSets, FiniteSetsExt, RedisOperations

CONSTANTS Callers,
          Servers,     \* the primary and its replicas
          Modes,       \* modes met
          MaxWrites    \* bound: writes

ASSUME ConstantsAssumption ==
    /\ IsFiniteSet(Servers) /\ Cardinality(Servers) > 1
    /\ Modes \subseteq {"single", "replicated", "sentinel", "cluster", "balanced"}
    /\ MaxWrites \in Nat

VARIABLES mode,     \* the adapter's mode, fixed
          kind,     \* the kind of state that is followed, fixed
          requests, \* what the adapter's operations ask of it, fixed
          slave,    \* SLAVE_HOST, fixed
          primary,  \* the server that is the primary now
          version,  \* server -> writes it has applied
          pc,       \* caller -> "idle", "asked", "answered" or "refused"
          request,  \* caller -> its request
          answer,   \* caller -> the version it was answered from
          acked,    \* history: the latest version that a caller was told of
          floor,    \* history: caller -> acked when its request began
          seen,     \* history: caller -> the latest version a read showed it
          lost      \* history: a failover lost writes

fixed == <<mode, kind, requests, slave>>
call == <<pc, request, answer>>
history == <<acked, floor, seen, lost>>
vars == <<fixed, primary, version, call, history>>

Versions == 0..MaxWrites
Kinds == DOMAIN Operations
Replicated == Kinds \ {"parameters", "channels", "topology"}
Requests == [client : {"client", "read_only_client"},
             effect : {"read", "write", "set", "show", "none"}]

TypeOK ==
    /\ mode \in Modes /\ kind \in Kinds /\ requests \subseteq Requests
    /\ slave \in Servers /\ primary \in Servers
    /\ version \in [Servers -> Versions]
    /\ kind \in Replicated => \A s \in Servers : version[s] <= version[primary]
    /\ pc \in [Callers -> {"idle", "asked", "answered", "refused"}]
    /\ request \in [Callers -> Requests]
    /\ answer \in [Callers -> Versions]
    /\ acked \in Versions
    /\ floor \in [Callers -> Versions]
    /\ seen \in [Callers -> Versions]
    /\ lost \in BOOLEAN

Idle == [client |-> "client", effect |-> "none"]

\* _build_binary_client() refuses to search in sentinel mode.  What a cluster
\* client makes of a server's own state is left out.
Init == /\ mode \in Modes
        /\ kind \in Kinds
        /\ mode \in {"cluster", "balanced"} => kind \in Replicated \cup {"topology"}
        /\ mode = "sentinel" => kind # "documents"
        /\ \E operations \in {Operations[kind], AsyncOperations[kind]} :
             requests = {operations[o] : o \in DOMAIN operations}
        /\ primary \in Servers
        /\ slave \in Servers \ {primary}
        /\ version = [s \in Servers |-> 0]
        /\ pc = [c \in Callers |-> "idle"]
        /\ request = [c \in Callers |-> Idle]
        /\ answer = [c \in Callers |-> 0]
        /\ acked = 0
        /\ floor = [c \in Callers |-> 0]
        /\ seen = [c \in Callers |-> 0]
        /\ lost = FALSE

-----------------------------------------------------------------------------
\* _set_clients()

\* The servers a client may send a request to.
Standalone(client) == IF client = "read_only_client" /\ mode = "replicated"
                      THEN {slave} ELSE {primary}
Sentinel(client) == IF client = "read_only_client" THEN Servers ELSE {primary}
InCluster(effect) == IF mode = "balanced" /\ effect = "read" THEN Servers ELSE {primary}

Targets(q) == CASE mode \in {"single", "replicated"} -> Standalone(q.client)
                [] mode = "sentinel"                 -> Sentinel(q.client)
                [] mode \in {"cluster", "balanced"}  -> InCluster(q.effect)

-----------------------------------------------------------------------------
\* A call of the adapter

Begin(c) == /\ pc[c] = "idle"
            /\ \E q \in requests : request' = [request EXCEPT ![c] = q]
            /\ pc' = [pc EXCEPT ![c] = "asked"]
            /\ floor' = [floor EXCEPT ![c] = acked]
            /\ UNCHANGED <<fixed, primary, version, answer, acked, seen, lost>>

\* A server answers; only the primary accepts writes.
Execute(c) ==
    /\ pc[c] = "asked"
    /\ \E s \in Targets(request[c]) :
         LET n == version[s] + (IF request[c].effect \in {"write", "set"} THEN 1 ELSE 0) IN
         /\ n <= MaxWrites
         /\ IF request[c].effect = "write" /\ s # primary
            THEN pc' = [pc EXCEPT ![c] = "refused"] /\ UNCHANGED <<version, answer>>
            ELSE /\ pc' = [pc EXCEPT ![c] = "answered"]
                 /\ version' = [version EXCEPT ![s] = n]
                 /\ answer' = [answer EXCEPT ![c] = n]
    /\ UNCHANGED <<fixed, primary, request, history>>

Return(c) ==
    /\ pc[c] = "answered"
    /\ pc' = [pc EXCEPT ![c] = "idle"]
    /\ acked' = Max({acked, answer[c]})
    /\ IF request[c].effect \in {"read", "show"}
       THEN seen' = [seen EXCEPT ![c] = Max({@, answer[c]})]
       ELSE UNCHANGED seen
    /\ request' = [request EXCEPT ![c] = Idle]
    /\ answer' = [answer EXCEPT ![c] = 0]
    /\ floor' = [floor EXCEPT ![c] = 0]
    /\ UNCHANGED <<fixed, primary, version, lost>>

\* No server, or no answer: the call raises, whether or not it was executed.
Fail(c) ==
    /\ pc[c] \in {"asked", "answered", "refused"}
    /\ pc' = [pc EXCEPT ![c] = "idle"]
    /\ request' = [request EXCEPT ![c] = Idle]
    /\ answer' = [answer EXCEPT ![c] = 0]
    /\ floor' = [floor EXCEPT ![c] = 0]
    /\ UNCHANGED <<fixed, primary, version, acked, seen, lost>>

-----------------------------------------------------------------------------
\* The servers

\* A replica receives the next write.
Replicate(s) ==
    /\ kind \in Replicated
    /\ version[s] < version[primary]
    /\ version' = [version EXCEPT ![s] = @ + 1]
    /\ UNCHANGED <<fixed, primary, call, history>>

\* A replica becomes the primary; the others follow it and forget what it has
\* not received.  In standalone mode nothing would follow.
Failover(s) ==
    /\ mode \in {"sentinel", "cluster", "balanced"}
    /\ s # primary
    /\ primary' = s
    /\ version' = IF kind \in Replicated
                  THEN [r \in Servers |-> Min({version[r], version[s]})]
                  ELSE version
    /\ lost' = (lost \/ version[s] < version[primary])
    /\ UNCHANGED <<fixed, call, acked, floor, seen>>

Next == \/ \E c \in Callers : Begin(c) \/ Execute(c) \/ Return(c) \/ Fail(c)
        \/ \E s \in Servers : Replicate(s) \/ Failover(s)

Spec == Init /\ [][Next]_vars

-----------------------------------------------------------------------------
\* Properties

\* "Maintains separate read/write clients for replica-friendly deployments": no
\* operation that writes is sent to a replica, which would refuse it.  Unless a
\* failover lost writes, what an operation that writes answers (getset, lpop,
\* incrby, increx) contains all that anybody was told before it was called,
\* and so do all operations on sorted sets, search documents and channels, which
\* ask the primary also to read, except where a cluster balances its reads.
PrimaryFresh ==
    \A c \in Callers :
        /\ pc[c] # "refused"
        /\ /\ pc[c] = "answered" /\ ~lost
           /\ \/ request[c].effect = "write"
              \/ kind \in {"sorted_sets", "documents", "channels"} /\ mode # "balanced"
           => answer[c] >= floor[c]

\* A caller's reads never go back in time, although the replica lags and the
\* answers of writes are ahead of it: with one replica for all kinds but sets,
\* whose size and union are asked of the primary and whose members are not; with
\* several replicas to choose from only where the primary is asked.
MonotonicReads ==
    \A c \in Callers :
        /\ pc[c] = "answered" /\ request[c].effect \in {"read", "show"} /\ ~lost
        /\ mode = "replicated" => kind # "sets"
        /\ mode = "sentinel" => kind \in {"sorted_sets", "channels"}
        /\ mode # "balanced"
        => answer[c] >= seen[c]
=============================================================================

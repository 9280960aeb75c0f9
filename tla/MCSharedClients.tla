-------------------------- MODULE MCSharedClients --------------------------
(***************************************************************************)
(* The adapters whose callers share connections, each on a small instance: *)
(* EmailPool with more threads than connections, KafkaClients, and         *)
(* ScyllaSession.  A behaviour is one of one of the three; the other two   *)
(* stay in an initial state.                                               *)
(***************************************************************************)
EXTENDS EmailPool, AdapterPorts

CONSTANTS None,
          Tasks, Messages, MaxClients,
          Callers, Loader, Keyspaces, Home

VARIABLES which,   \* the adapter a behaviour is about, fixed
          kind, clients, adapter, stage, operation, held, place, due, failed, twice,
          flavour, caching, timeout, keyspace, shut, cached,
          at, doing, driver, given, original, space, left, spaces, hurried, tangled

K == INSTANCE KafkaClients
S == INSTANCE ScyllaSession

\* The operations of the adapters are those of their ports.  Three of the ScyllaDB
\* adapter do not make a request.
ASSUME PortsCovered ==
    /\ DOMAIN K!ConsumerOperations \cup {"close"} = KafkaConsumerPort
    /\ DOMAIN K!AsyncConsumerOperations \cup {"close"} = AsyncKafkaConsumerPort
    /\ DOMAIN K!ProducerOperations \cup {"close"} = KafkaProducerPort
    /\ DOMAIN K!AsyncProducerOperations \cup {"close"} = AsyncKafkaProducerPort
    /\ S!Special \cup S!SyncRequests \cup S!Lookups \cup S!PoolStatistics = ScyllaDBPort
    /\ S!Special \cup S!AsyncRequests \cup S!AsyncLookups \cup S!AsyncPoolStatistics
       = AsyncScyllaDBPort

\* Clients are numbered from 1, and None is none of them; KEYSPACE is a keyspace; the
\* loader is nobody's task but its own.
ASSUME ConstantsFit == /\ None \notin Nat /\ MaxClients \in Nat \ {0}
                       /\ Home \in Keyspaces /\ Loader \notin Callers

kafka == <<kind, clients, adapter, stage, operation, held, place, due, failed, twice>>
scylla == <<flavour, caching, timeout, keyspace, shut, cached, at, doing, driver, given,
            original, space, left, spaces, hurried, tangled>>
all == <<which, vars, kafka, scylla>>

\* The managers, the mails, the tasks and the callers are alike: the pool may begin
\* with any manager, and what holds of one caller holds of all.
AManager == CHOOSE c \in Managers : TRUE
AMail == CHOOSE m \in Mails : TRUE
ATask == CHOOSE p \in Tasks : TRUE
ACaller == CHOOSE p \in Callers : TRUE

EachType == /\ which \in {"email", "kafka", "scylla"}
            /\ TypeOK /\ K!TypeOK /\ S!TypeOK

EachInit == /\ which \in {"email", "kafka", "scylla"}
            /\ Init /\ K!Init /\ S!Init
            /\ pool[1] = AManager
            /\ which # "email" => server = "usual"
            /\ which # "kafka" => kind = "consumer"
            /\ which # "scylla" => flavour = "sync" /\ caching

EachNext == \/ which = "email" /\ Next /\ UNCHANGED <<which, kafka, scylla>>
            \/ which = "kafka" /\ K!Next /\ UNCHANGED <<which, vars, scylla>>
            \/ which = "scylla" /\ S!Next /\ UNCHANGED <<which, vars, kafka>>

EachFair == /\ \A m \in Mails : WF_vars(which = "email" /\ Step(m))
            /\ K!Fairness
            /\ S!Fairness

EachSpec == EachInit /\ [][EachNext]_all /\ EachFair

-----------------------------------------------------------------------------
\* The properties of the parts

\* _adapter of a Kafka adapter is the client that is open: none is left behind.
ClientsKept == K!ClientsKept

\* Consumers read from a client that is subscribed, or is about to be.
ReadsSubscribed == K!ReadsSubscribed

\* close() of a producer leaves no message behind that was accepted before.
CloseFlushes == K!CloseFlushes

\* health_check() of the ScyllaDB adapter lends its timeout and gives it back.
Deadlines == S!Deadlines

\* prepare() of the ScyllaDB adapter returns a statement of the session's keyspace.
PreparedHere == S!PreparedHere

\* Every call of a shared connection ends: whoever took one puts it back, messages
\* are delivered or given up, and the driver answers.
CallsEnd ==
    /\ which = "email" => SendEnds(AMail)
    /\ which = "kafka" => K!CallEnds(ATask)
    /\ which = "scylla" => S!CallEnds(ACaller)
=============================================================================

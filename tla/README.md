# ArchiPy, in TLA+

ArchiPy is a Python library: decorators, adapters and interceptors an
application is built from. It has no main loop of its own. What is hard about it
is what its pieces keep between calls (sessions, managers, counters, caches,
providers, pools) while threads, asyncio tasks, servers and failures interleave.
This project models those pieces. Paths below are relative to `src/archipy/`.

## Inventory

| component | state | operations | interacts with | hard | correct if |
|---|---|---|---|---|---|
| Atomic transactions `helpers/decorators/sqlalchemy_atomic.py`, `adapters/base/sqlalchemy/session_managers.py` | scoped registry (scope -> session), `session.info` flag, transaction, pending rows | the sync and async wrapper: enter, return, raise; adapter operations of the body | registry, SQLAlchemy, database | nesting, joined transactions, errors caught half way, cancellation, lost commit answers | all rows of an outermost call are committed or none; no session is left behind or shared |
| Base SQLAlchemy adapter `adapters/base/sqlalchemy/adapters.py` | none of its own | create, bulk_create, get_by_uuid, delete, bulk_delete, execute, scalars, paginate | session of the scope | a failed flush kills the transaction | works in the block's session |
| Session manager registries `adapters/*/sqlalchemy/session_manager_registry.py` | one class attribute per class and kind | get, set, reset | Singleton, session managers | unlocked check, build, assign, read; inheritance of the slot | one manager per database; the one that was set stays |
| Singleton `helpers/metaclasses/singleton.py` | `_instances`, one lock for all classes | call | every session manager | double-checked lock, constructors that raise | one instance per class; the lock is always released |
| gRPC rate limiter `helpers/interceptors/grpc/rate_limit`, `helpers/utils/rate_limit_utils.py` | counters in Redis with an expiry | intercept (sync, async) | Redis master and replica, handlers | two commands per refused window, expiry, replica lag, fail open | all windows pass before the handler runs; no window lets more through; nobody is refused without cause; handlers run once |
| OpenTelemetry lifecycle `helpers/utils/otel_utils.py` | providers and who owns them, globals that can be set once, lock, pid, scrape server, push thread, log handler | init, flush, shutdown, fork reset, instrument | OTel SDK, other libraries, fork, atexit | fork with a lock held, half-built providers, adoption | only what is owned is shut down, nothing owned leaks |
| TTL cache `helpers/decorators/cache.py` | entries with an expiry, shared by all instances of a class | call, clear | MinIO, Vault, Keycloak | test and read are separate, fills race with clears, writes forget caches | what a write clears is gone when it returns; obsolete answers are served for the time to live at most |
| MinIO, Vault, Keycloak `adapters/{minio,vault,keycloak}` | caches, clients, an admin token and its expiry | reads (cached), writes (clear) | the servers | which write clears which cache; refresh races; `create_client` switches the realm of the client all calls share | as above; calls use a live client, in the realm they are meant for |
| Temporal worker manager and adapter `adapters/temporal/{worker,adapters}.py` | client, workers by id, running flags | the adapter's requests; start, stop, shut down all, close | Temporal server, background tasks | every await is an interleaving point, deadlines, workers that die unseen | every started worker is stopped or reported; every call ends |
| Temporal activities `adapters/temporal/base.py` | rows, a cache of results | the template of `execute()`, with or without a transaction | the server that retries them, atomic blocks, worker processes | attempts that outlive their timeout, lost commit answers, a cache keyed per process | what is reported agrees with the database; a retry repeats nothing |
| Email `adapters/email` | a queue of connections | send | SMTP server | lost connections, retries | connections return to the pool; an e-mail is sent or tried as often as promised |
| Kafka `adapters/kafka` | the client of each adapter, lazily made and subscribed by the async ones | produce, consume, subscribe, flush, close | brokers | creation across awaits, overlapping closes | subscribed before it is polled; no client is left open; close leaves no message behind |
| ScyllaDB `adapters/scylladb` | one session for all callers, its default timeout and keyspace, prepared statements | requests, prepare, use_keyspace, health_check, close | driver threads, event loop | a health check lends its timeout to everybody; the keyspace changes under a prepared statement | the usual timeout comes back; statements belong to the session's keyspace; every call ends |
| Redis `adapters/redis` | a client for writes and one for reads | commands on seven kinds of data, publications, the servers themselves, a search handle | primary, replicas, sentinels, clusters | replicas lag, failovers lose writes | writes reach the primary; reads do not go back in time |
| Tracing and metrics decorators | instrument cache behind a lock | wrap | OpenTelemetry lifecycle | cache survives a fork | instruments belong to the live provider |
| Retry, timeout `helpers/decorators/{retry,timeout}.py` | SIGALRM handler and alarm | wrap | anything | a nested alarm clears the outer one; retry of committed work | the deadline holds; no work twice |
| Elasticsearch, payment gateways | clients | one call per method | servers | | delegation |
| gRPC interceptors, application builders, configuration, entities, DTOs, errors, pure utilities | none, or written once at start-up | | | | |

`PROJECT.json` lists the hazards at their lines, with the properties that watch
each of them or the reason why none does.

### How the parts interact

- A decorated function asks the **registry** for a manager (`Singleton` builds
  it at the first call), the manager's scoped registry for the session of the
  current thread or task, and the session for a transaction. Adapters called in
  its body fetch the session of the scope again for every operation; that is
  why the registry, and not the stack of calls, decides where a row goes.
- An RPC passes the **rate limiter**'s windows, each one or two commands to
  Redis, before its handler runs; handlers typically open an atomic block.
- Every traced call enters **OpenTelemetry**'s `init_otel_if_needed()`; the
  `atexit` hook and forked children run the same class methods on inherited state.
- The **TTL cache** decorator keeps one cache per method for all instances. The
  MinIO, Vault and Keycloak adapters' writes call the server first and then
  clear caches one after the other.
- All operations of a **Keycloak** adapter fetch its one admin client anew for each
  step; the property that hands it out logs in again when that is due.
- A **Temporal** worker manager and everybody else who uses the adapter share its
  client; an **activity** runs atomic blocks inside or outside one of its own, and
  the server hands it out again when an attempt fails or is late.
- The callers of the **email**, **Kafka** and **ScyllaDB** adapters share a few
  connections; those of **Redis** two clients, whose servers share the data.
- Each adapter implements a **port**, the interface applications are written against.

## Modules

| module | models | role |
|---|---|---|
| `AtomicBlock` | what `sqlalchemy_atomic_decorator` promises | abstract specification |
| `AtomicTransaction` | the sync and async wrapper, the scoped session registry, adapter writes, SQLAlchemy's transaction states | implements `AtomicBlock` |
| `ManagerRegistry` | the session manager registries over `Singleton` | |
| `Database_proofs` | | theorems about `AtomicTransaction`, and about `ManagerRegistry` in the instance `R` of `MCManagerRegistry` |
| `GrpcRateLimit` | the gRPC rate limit interceptors over Redis | |
| `GrpcRateLimit_proofs` | | theorems |
| `OtelLifecycle` | `OtelUtils`: init, shutdown, fork, adoption, publication | |
| `OtelLifecycle_proofs` | | theorems |
| `Tables` | operators on tables of operations | used by the three tables below |
| `AdapterCaches` | which adapter methods are cached and which caches each write clears | tables |
| `TtlCache` | `CachedFunction` under those adapters | extends `AdapterCaches` |
| `TtlCache_proofs` | | theorems |
| `KeycloakOperations` | what each operation of the sync and async Keycloak mixins does with which client | table |
| `KeycloakAdmin` | the admin client's login, renewal and use, `create_client`'s realm | extends `KeycloakOperations` |
| `KeycloakAdmin_proofs` | | theorems |
| `RedisOperations` | which client each Redis operation asks, sync, async and search, and what it does to which kind of state | table |
| `RedisReplication` | where the two clients lead in each mode, replication, failover | extends `RedisOperations` |
| `RedisReplication_proofs` | | theorems |
| `TemporalWorkers` | `TemporalWorkerManager`, its handles and the operations of `TemporalAdapter` | |
| `TemporalActivity` | `BaseActivity`, `AtomicActivity` and the retries of the server | |
| `Temporal_proofs` | | theorems about `TemporalActivity`, and about `TemporalWorkers` in the instance `W` of `MCTemporalWorkers` |
| `EmailPool` | `send_email()` over the connection pool | |
| `KafkaClients` | the client object of the four Kafka adapters | |
| `ScyllaSession` | the session of the ScyllaDB adapters | |
| `SharedClients_proofs` | | theorems about the three and their composition |
| `KeycloakPorts`, `RedisPorts`, `AdapterPorts` | the ports: the operations callers are promised | tables |
| `MC*` | instances for TLC; `MCSharedClients` runs `EmailPool`, `KafkaClients` and `ScyllaSession`, one per behaviour; `MCManagerRegistry` and `MCTemporalWorkers` instantiate their module under a name, so that its proofs can stand beside others | |

The ports are compared with the tables of operations whenever TLC starts (`PortImplemented`,
`PortsCovered`, `PortCovered`): an operation that a port promises and a model lacks, or the
reverse, stops the run.

Operators named after mutations ("Mutant:" in their comment) are not part of a
specification. They are small bugs one could make in the code; `PROJECT.json`
names, for every property, one that it catches.

### AtomicTransaction

`registry` is the scoped registry (`scoped_session`, or `async_scoped_session`
with `current_task`), `flag`, `txn` and `pending` are the session's `info` flag,
transaction and flushed rows. `stack` has one frame per decorated call with
what the wrapper remembers in local variables: the session it fetched,
`is_nested`, and whether it joined a transaction.

| action | code |
|---|---|
| `Enter` | the wrapper down to the call of the function: `get_session`, the flag, `in_transaction()`, `begin()` |
| `Write`, `WriteFails` | an adapter's operation and its `except` branch; outside any call as well, where the session begins a transaction by itself |
| `Raise` | the body raises, or its task is cancelled |
| `ReturnNested`, `ReturnCommit`, `ReturnInactive` | the body returns: of a nested call, of the outermost one, of one whose transaction is already over or broken |
| `CommitRejected`, `CommitAckLost` | the commit raises, without or with effect |
| `ExitRaise` | `_handle_db_exception`, rollback, close, `remove_session`, re-raise |

Every way out ends in `Settle`, or in nothing for a nested success; an error that
reaches a calling body either passes on or (fault `"swallow"`) is caught there.

### ManagerRegistry

One step per read and write of shared state in `get_sync_manager()` and
`Singleton.__call__`: `Call`, `Check` (the unlocked test of the slot, which a class
may inherit from the base), `FirstTest`, `Acquire`, `SecondTest`, `Construct` or
`ConstructFails`, `Release`, `Fetch`, `Publish`, `Read` (the slot is looked up once
more). `Set` and `Reset` are atomic in the code. `async` managers use the same
code with another slot. One lock serves all classes, as in the code.

### GrpcRateLimit

Per RPC: `Exempt` or `Identify`/`IdentifyFails`, then for each window `Increx` and,
after a refusal only, `Pttl`; `RedisFails` and `ReplyLost` at either command,
`Bypass` for fail open, `Invoke` for the handler. `Tick` moves the clock of Redis
between any two commands. INCREX and PTTL are modelled as their use in
`_enforce_rate_limit_windows` requires; the read-only client may be a lagging
replica.

### OtelLifecycle

The flags and references of `OtelUtils` are variables of the same names; `global`
is what OpenTelemetry holds and can be set once. `Enter` and `Lock` are the two
tests, `Acquire` takes the signals one by one (adopt or build), `BuildFails` is the
`except` branches, `Publish` one signal at a time, `Install` the rest of
`_build_providers`, `Shutdown` and `ShutdownHangs` the `shutdown()` of a process
whose scrape server runs or was inherited. `Fork` moves the model to the child:
everything is copied, the lock's holder included, but no thread. `ForeignSet` is
another library. Providers are identified by address, as in
`_shutdown_provider_ids`, and addresses are used again.

The handle of the scrape server or push loop and the thread behind it are two things:
`worker` is the handle, with the process that started its thread; `loops` are the threads
the process has, and whether each was told to stop. `StartWorker` makes both, `Stop` tells
the thread and drops the handle. The scrape server has ended by then. The push loop is
joined for two seconds (`otel_utils.py:1067`), so it may still hang in a push while the next
initialization starts another one, until `LoopEnds`. A fork copies the handle and not the
thread: a child's `loops` are empty.

### TtlCache

`Look` ("key in cache"), `Read`, `Ask`, `Store` are the four places where
`CachedFunction.__call__` lets another thread in; `Write` is the request of a write,
`Clear` one `clear_cache()`, `WriteReturns` its return; `WriteFails` is a write that is done
while its caller gets an error and clears nothing, `ForeignWrite` another client. The answer
of the server is a version, the number of changes so far; `superseded` remembers when the
server left a version behind.

`AdapterCaches` has the size and time of every cached read, and for every write of the MinIO
and Vault adapters, and of the sync Keycloak mixins for users, roles and clients, what it
changes on the server and what it clears. The two differ: `delete_user` changes six
cached reads and clears one, `add_realm_roles_to_composite` changes three and clears none. The other
Keycloak mixins clear nothing; what they change of a cached answer looks like the work of
another client. `get_userinfo()` calls the function that its cache wraps, so that this
cache stays empty and has no entry in the table.

`WritesSeen` promises two things of every read. `UpToDate`: a write that both changes and clears
it (`Settled`) leaves none of the answers it made obsolete, but for one that was fetched before the
write and not stored yet. `LeavesInTime` has no exception: whatever a write forgets
to clear, another client changes or an overtaken read stores is served for the time to live
at most, counted from when the server stopped giving it, and for the duration of the call that
stored it.

### KeycloakAdmin and KeycloakOperations

`admin` and `expiry` are `_admin_adapter` and `_admin_token_expiry`; `clients` are the
`KeycloakAdmin` objects made so far, with the realm of their connection. An operation
is reduced to its plan, the steps it takes with a client that it fetches anew for
each: requests, `clear_all_caches()` (which reads every attribute, the property
included), and the four accesses of `create_client` to the realm. Tokens, token checks
and user-managed access use clients of their own, whose realm nobody switches
(`Outside`). The table gives the plans of all operations; the model runs every plan
with at most `MaxRequests` requests.

| action | code |
|---|---|
| `Begin` | a call of an operation |
| `Check`, `Login`, `LoginStores`, `Test`, `Take` | the property `admin_adapter`: its test, the two assignments of a login (client first with the admin's password, expiry first with the client's secret), the test for None, the read it returns |
| `LoginFails`, `LoginRaises` | the `except` branches: the client is dropped, the expiry reset, the error raised |
| `NoneType` | the property returned None and the caller uses it |
| `Request`, `Answer`, `Refused` | a request leaves for the realm of the connection; it is answered, or raises `KeycloakError` |
| `ClearAll` | `clear_all_caches()` |
| `Origin`, `Switch`, `Report`, `Restore` | `create_client`: `original_realm`, the assignment, the realm of the result, the `finally` |

An error ends the call, or sends it to the `finally`, which needs a client as well.
Threads interleave at every action; tasks of the async adapter at `await` only
(`MayRun`). The histories `raced`, `crossed` and `tangled` name the overlaps in
which the properties promise nothing; everything else they must survive: expired
and failed logins in the middle of a call, refused requests, a `finally` that cannot
get a client.

### RedisOperations and RedisReplication

The table has an entry for every command of the mixins: the client it is sent to and whether
it writes, reads, or does what a read shows in passing. A behaviour follows one kind of state
at one key; an answer is the number of writes it shows.

| definition | code |
|---|---|
| `Standalone`, `Sentinel`, `InCluster`, joined in `Targets` | `_set_clients()` and its helpers: which server the client of a mode asks |
| `Begin`, `Execute`, `Return`, `Fail` | an operation: chosen, executed by a server (a replica refuses writes), answered, or raised whether or not it was executed |
| `Replicate`, `Failover` | the servers: a replica gets one more write; a replica becomes the primary and what it lacked is lost |

The histories `acked`, `floor` and `seen` are what callers were told before, `lost` that a
failover lost writes.

### TemporalWorkers

`workers` is `_workers`, `running` the flag of the handles, `state` what the background
task of `Worker.run()` does, which nobody awaits. Between two awaits a task runs alone, so
`CallStop` goes as far as the wait for the worker, `Stopped` and `TimesOut` (the deadline
of `wait_for`) go on from there through the rest of the loop (`Advance`). `grace` says whether
`WORKER_GRACEFUL_SHUTDOWN_SECONDS` is positive. It may be 0, and then `wait_for(...,
timeout=0)` cancels `shutdown()` before it begins: the worker is not told anything, the call
fails, and the registry loses the worker all the same (`worker.py:158`, `398`). The owner of
a handle chooses a period of its own: `CallHandleStop` with `"handle"` has one, with `"hurry"` none. `CallUse`,
`Answered` and `CallClose` are the operations of the adapter, which make, use and give up
the client under the manager. `Cancelled` ends a call at any await. `Run`, `PollFails`
and `Drain` are the worker.

### TemporalActivity

`stage` is where an attempt is in `execute()`: `Begin` (hook), `Lookup`, `Call` (one
atomic method of the logic), `Store`, `After` (hook), `Finish`; `Raise` fails it anywhere,
`CommitUnsure` commits and fails, `Die` is the death of the process. A body may return None
(`empty`): such a result is not stored, since None stands for a missing entry (`base.py:236`,
`244`). `Scope` tells which part
runs in a transaction of its own; `CommitsAt` where its rows become durable. `Dispatch`,
`Expires`, `ReportOk` and `ReportError` are the server with its retry policy.

### EmailPool

`pool` is the blocking queue, `conn` the manager a call holds. `server` says what connections
are like: `"none"`, no server is configured; `"usual"`, they fail with what `connect()`
catches (`SMTPException`, `OSError`); `"any"`, they may also fail with what it does not, such
as the `UnicodeError`, `ValueError` or `RuntimeError` of `smtplib`. `lost` are the managers whose
`get_connection()` raised: it had taken them from the queue, and its caller never saw them.

| action | code |
|---|---|
| `Take` | `pool.get()` |
| `Refresh`, `RefreshRaises` | `refresh_if_needed()`; an error it does not catch leaves before the caller's `try` begins, and the manager is lost |
| `MessageRaises` | `_create_message()` |
| `Send`, `SendFails`, `Reconnect`, `ConnectInstead` | an iteration: sent; failed, perhaps after the server accepted the mail, and connected anew; no connection, so that it connects and does not send |
| `SendRaises`, `ConnectRaises` | an error that nobody catches, with the manager in the call's hands |
| `Return` | the `finally` |
| `Age` | five minutes pass while a manager is idle |

### KafkaClients

`clients` are the client objects made so far, `adapter` is `_adapter`. `Find`, `Make`,
`Subscribed` and `SubscriptionFails` are `_get_adapter()`, which awaits the subscription
with `_adapter` already set; `Consume`, `Resubscribe`, `Produce`, `Flush` the call of the
client, `Fails` its error or a cancellation; `Close`, `CloseEnds`, `Closed` the two ends of
`close()`. `Deliver` is the client's own work.

### ScyllaSession

`timeout` is `session.default_timeout`, `keyspace` the session's, `cached` the statement
that the cache holds for one text. `Request` covers all operations that only send a
request; a `USE` among them changes the keyspace of the session in the driver's thread when its
answer arrives, whatever became of the call (`Used`). `UseKeyspace`, the actions of `prepare()` and the five
`Check*` of `health_check()` are the special ones. Threads interleave anywhere, tasks where they
await (`MayRun`). The driver's own `prepare()` and `set_keyspace()` do not await and stop the
loop. But the async adapter with a statement cache goes through `alru_cache`
(`scylladb/adapters.py:983`), which runs the preparation in a task of its own and has all calls with
the same text await it:

| action | code |
|---|---|
| `PrepareMiss` | `prepare()` without a cache, or of the sync adapter: the call asks the driver itself |
| `PrepareAwaits` | the async one with a cache: the first call makes the task `Loader`, any other joins it |
| `LoaderRuns`, `LoaderEnds`, `LoaderFails` | the task begins, in the keyspace the session has by then, and keeps the statement or nothing |
| `LoaderDropped` | all that awaited it were cancelled, and it with them before it began |
| `Resumes` | a call that awaited it goes on, after others may have run |
| `PrepareHit`, `Expire` | a hit; the entry goes |

## What TLC checks

| run | instance | shows |
|---|---|---|
| `atomic` | 2 scopes, 2 rows, nesting 2, swallowed errors, lost answers | sessions are isolated and released, nothing is abandoned in a transaction, nested calls share the session; blocks whose bodies let errors pass are all or nothing |
| `atomic_block` | 2 scopes, 3 rows, nesting 2, no faults | the wrapper implements `AtomicBlock` |
| `atomic_swallow` | 1 scope | refuted: "If the function succeeds, the transaction is committed" does not hold once a body catches the error of a nested call or of a flush |
| `registry` | 2 threads, 2 databases, 1 custom manager, 1 failing constructor | one manager per database, no mixing, None only after a reset, a custom manager replaced only by a call past its test; every call ends |
| `rate_limit` | 3 RPCs, 2 callers, a burst and a sustained window, all four settings, all faults | windows keep their limits until they expire, refusals and their delays are justified, the handler runs once and only after all windows |
| `otel` | 2 threads, 4 addresses, 2 signals, all exporters, 2 forks, all faults | only owned providers are shut down and nothing leaks, what counts as initialized works, every scrape or push thread serves the owned provider or was told to stop, also if a push hangs |
| `cache` | 2 threads, a one-entry cache that its writes forget and a large one that one of them forgets, `delete_realm_role` and `delete_user`, expiry, all faults | what a write clears is gone when it returns, what it forgets is served for the time to live at most; no cache exceeds its size |
| `keycloak` | 2 callers, sync and async, both kinds of login, every plan with at most 2 requests, a login due after one tick, 2 further logins, failures | who asks for the client gets one that was not due, unless another thread logs in meanwhile; a call's requests go to its realm, `create_client` reports that realm, and the shared client returns to the configured one |
| `activity` | 3 attempts in 2 processes, a body of two atomic methods, every scope and cache key, bodies that return None, lost commit answers, timeouts, deaths | the report agrees with the database; attempts leave all or nothing; a retry does not repeat what is done |
| `workers` | 2 tasks with 2 calls each, 2 workers, with and without a grace period | no worker is forgotten if there is a grace period, a shutdown reaches all of its snapshot or raises, every wait ends |
| `redis` | 2 callers, a primary and 2 replicas, 2 writes, all five modes, every kind of state | writes and sorted sets see all that was acknowledged; reads are monotonic where one server answers them |
| `clients` | 3 mails over 2 connections with 2 tries and each kind of server; 2 tasks, 1 message, 2 clients for each of the four Kafka adapters; 2 callers, the cache's task and 2 keyspaces for both ScyllaDB adapters, with and without the cache | connections return to the pool and mails are given up or repeated only for cause; Kafka clients are subscribed, kept and closed with nothing left in them; the session's timeout and keyspace are what they should be; every call ends |

A property that holds with an exception names it; see the findings.

### Bounds, and why they are enough

- **Two scopes or threads.** The races are between one actor's two steps and
  another's one; the lock, the slot and the cache have no state that needs three.
  For the rate limiter three RPCs are needed: two that fill a window of size two
  and one that is refused.
- **Nesting 2** has an outermost, a nested call and a nested call's sibling (after
  the first returns); a nested call of a nested call behaves as a nested call,
  which the proof confirms for any depth. `Sessions` has one object per call
  that can be under way and one more per scope than the registry can hold, so that
  `get_session()` never lacks a new one; identities are reused, as objects are.
- **Rate limiter.** A second is 2 ms and the clock ends at 3, so both windows
  (1 ms and 3 ms) expire with RPCs between their two commands, and rounding to
  seconds goes both ways.
- **OtelLifecycle** uses two signals because the code treats traces and metrics
  alike but for the workers, and logs differ (never adopted on a lost race, no
  foreign exporter, a handler). The proofs are for all three. Four addresses allow two
  initializations of two providers each; with addresses used again there are more.
- **Cache.** The clock moves by half of `get_user_roles`' 300 seconds (`Step`) and ends at
  300 (`MaxTime`), so an entry is fresh, half way or expired, and a request takes no time or
  half of it. `Keys` gives the one-entry cache two arguments, which evict one another, and
  the other one. `MaxVersion` allows one change of the read that nothing clears
  (its answers are then obsolete or not) and two of the other: a write that is overtaken by
  another. It bounds the changes by the guard in `Change`, `MaxTime` the clock by the guard
  in `Tick`.
- **Keycloak.** `MaxTime` and `Lifetime` 1 let a login fall due once, at any step of
  any call; `MaxClients` 3 is the first client and two more logins, enough for both
  callers to log in at once. A third renewal meets the states of the second.
  `MaxRequests` 2 leaves out longer plans, in which a request followed by a
  fetch only repeats. One other realm: `create_client` compares with the current
  one only. `MaxChildren` bounds the roles added to a composite, one request each.
- **Activity.** Three attempts are two retries, one after a lost report and one after
  that; two processes give the default cache key two values; a body of two methods has a
  state between them.
- **Workers.** `grace` is either and stays; `"handle"` and `"hurry"` give single workers the
  other treatment. Two workers are a snapshot with one left to stop while another is waited
  for; two calls per task are a start and a stop, or two overlapping stops.
- **Redis.** Two replicas can differ from one another; two writes are one that is
  replicated and one that is not.
- **Clients.** Three mails over two connections: one waits. Two Kafka clients are the
  one that is closed and the one made in between; one message is accepted by either, and
  when it is used up the queue is full. Two keyspaces: the session's and another one. The
  cache of ScyllaDB is followed for one text, so there is one `Loader`.
- **Symmetry** is used over scopes, rows, RPCs, callers of both kinds, threads and arguments,
  which no constant or initial state tells apart, only in runs that check safety.
  `registry`, `workers` and `clients` check liveness and use none; `CallsEnd` follows one mail,
  task and caller instead, since all of them are alike.
- `CHECK_DEADLOCK FALSE` where clocks, addresses or changes run out. In
  `atomic` and `registry` some actor can always go on and deadlock is checked.

### Fairness

- `registry`: `Served`, every call of the getter ends, under weak fairness of each
  thread's next step (`FairSpec`). A thread inside the getter is
  runnable until it waits for `Singleton`'s lock; the operating system schedules
  runnable threads, and the constructor is taken to end, with a manager or an
  error. Weak fairness of `Acquire` suffices because each thread takes the lock at
  most once per call and, in the checked instance, as often as calls are made:
  TLC found no starvation, since an instance that exists ends the competition.
- `workers`: `StopEnds`, under weak fairness of connecting (the client library has a
  timeout) and of the end of a wait for a worker, which the code itself gives a deadline.
  Nothing is assumed of the workers: one that never drains is given up.
- `clients`: `CallsEnd`. A thread that sends a mail goes on when it can (weak fairness;
  the queue serves whoever waits). A task or thread in a Kafka call goes on, and
  the client delivers or gives up what it accepted, as `message.timeout.ms` makes it.
  The driver of ScyllaDB answers every request, if only with a timeout, and the event
  loop takes tasks in turn, those of `alru_cache` included; because the driver's `prepare()`
  stops the loop now and then, a task can go on again and again but not all the time, so this is
  strong fairness. Nothing is assumed of senders once the last e-mail connection is lost.

## What is proved

TLAPS checks the theorems below for every value of the constants that satisfies the named
assumption of the module: model values are distinct from one another, numbers are naturals,
modes and writes are those of the code. It is called `ConstantsAssumption`;
for `ManagerRegistry` and `TemporalWorkers`, which are proved about through an instance, it is the
definition `ConstantsFit`, which the `MC` module assumes (`RegistryAssumption`,
`WorkersAssumption`), so that TLC evaluates it as well. Every invariant and action property of the passing runs is proved.

- **Database_proofs**, about `AtomicTransaction`: `TypeCorrect`, `Atomicity` (a block is all or nothing;
  `Committed` and `RolledBack` are its halves) and `Disciplined` (`SessionDiscipline`,
  of which `Isolated`, `Reused`, `Released` and `NothingAbandoned` are the parts). The
  properties are not
  inductive: that a block's rows are committed when it returns needs, while its
  body runs, that they are exactly what is pending in the session the registry
  holds for the scope, that this session is flagged and the one the outermost
  call fetched, and that its transaction has not ended (`CleanBody`). This in turn
  needs that no other scope holds the session (`SessionIsolation`), that a session
  outside the registry has no transaction (`PendingHeld`), and that the outermost
  call is the one that commits (`OutermostOwns`). `IInv` is the conjunction; there
  is a lemma per action.
  `Implementation` is the refinement: without faults every step of the wrapper is a step of
  `AtomicBlock` or a stutter (`ImplementsBlock`). The mapping reads a block's buffer off the
  session that the registry holds for its scope, so that flag, transaction state and the frames
  of nested calls disappear: a nested call's entry and return are stutters, the outermost
  return is `Commit`, every error on its way out `Doom`, `Abort` once it leaves. Two invariants
  carry it: that of the other theorems, by which the session a scope commits is
  the one the mapping looks at, and `Untainted`, that no block met a fault. With the fault
  "swallow" it is false (see Findings), so `Faults = {}` is the theorem's hypothesis, as in
  the run.
- **Database_proofs**, about `ManagerRegistry`: `RegistryTypeCorrect`, `OneDefault` (`OneManager`, of which
  `DefaultsSeparate` and `NoneCleared` are parts), `CustomStays`. The invariant says what the lock protects
  (`Mutex`), that `built` counts at most one success and agrees with `instances`
  (`BuiltOnce`), what a thread knows at each step (`Progress`, `InDatabase`), that
  slots and results hold instances of their own class (`Slots`, `Results`), and
  that a custom manager in the slot of a call past its test arrived since
  (`Overtaken`).
- **TtlCache_proofs**: `Seen` (`WritesSeen`), in two halves. For `UpToDate`, an answer that
  is neither overtaken nor obsolete must stay so on three legs: while it is on its way to
  the cache (`InFlight`: a write that starts now marks it, one that started before produced a
  version the server already has), while a write that clears it is still clearing
  (`Cleared`: the cache is on the list of what is left, or has nothing obsolete), and after the
  write returned (`Current`). The lemmas `OthersCleared` and `NothingCleared` carry `Cleared`
  through the steps of other threads. For `LeavesInTime` the invariant is `Dated`: an answer
  that the server no longer gives was superseded after it was asked for, and a kept one was
  stored no later than its request and its duration say (`DatesKept` for a step that
  changes nothing of it, `ChangeMoves` for one that changes the server); `InTime` adds the time to live.
  `TypeCorrect` is the bound on the size of
  a cache: a call may have any of infinitely many arguments, so the invariant (`Small`) says
  that the live keys are finitely many as well as few; `StoredSmall` is the counting
  argument about one store. That the tables give every cache a size and a time is
  `CachesAssumption`, which TLC evaluates.
- **GrpcRateLimit_proofs**: `TypeCorrect`, `LimitHeld` (`LimitHeldBeforeExpiry`) and `Guarded`
  (`HandlerGuarded`). `Stage` says of each stage of the interceptor which windows the RPC has
  passed (those before the one it is at), why it skipped the rest and how often its handler
  ran. `Counted` says of a counter that it is within its window's limit and, before its last
  millisecond, has counted every RPC let past it: what is counted is what INCREX let
  through, and the only other way past a window, PTTL's answer 0, exists in that last
  millisecond only. Windows need not differ and RPCs need not be finitely many.
  `Justified` (`RefusalJustified`) rests on a second invariant, `Refusals`, in the other
  direction: a counter counts no more than its takers and expires within its window
  (`Took`), whoever asks for the delay was preceded by as many others of its identity as
  the window allows (`Preceded`), and rounding to seconds never shortens the delay
  (`RoundsUp`). It has a hypothesis, `DistinctWindows`: the counter's key is made of size
  and length, so two equal windows would share one and count an RPC twice. Nothing in the
  code forbids such a stack; the run's windows differ.
- **OtelLifecycle_proofs**: `TypeCorrect`, `OwnShutDown` (`ShutsItsOwn`), `ReadyOnceInitialized`
  (`Ready`) and `WorkersOwned` (`WorkerOwned`). One thread at most is inside the lock
  (`Holding`), and while it initializes nothing is left from before (`Fresher`). `Owned` says
  that what this process built and did not shut down is owned, by the module's state or by
  the locals of the initialization. For it to survive the steps it takes that signals
  share no provider (`Apart`), that a fork builds none (`Built`), what the child keeps of
  its parent (`Kept`: whatever was owned belongs to the process that initialized),
  and how far acquisition and publication have come (`Acquired`). `Settled` is what makes
  adoption right: the provider in use is the published one, or that one cannot be adopted.
  `WorkersOwned` needs `Running` besides: a thread that was not told to stop is the one behind the
  handle, and a handle that this process made has its thread; `Kept` says whose provider it
  serves. `Stops` and `AllTold` say what is left when the handle is dropped, whether or not the join
  succeeded.
- **Temporal_proofs**, about `TemporalWorkers`: `WorkersTypeCorrect`, `Remembered` (`NoneForgotten`) and `Reached`
  (`ShutdownReachesAll`). A worker out of the registry, or whose handle says that it does not
  run, was told to shut down (`Told`), if there is a grace period; without one a call
  that did not tell a worker has failed by the time it ends (`Stopping`, `Ended`). What
  is still registered of a shutdown's snapshot is what it waits for or has yet to stop (`Stopping`), so nothing is when it ends (`Ended`), also if another task
  was stopping the same workers.
- **Temporal_proofs**, about `TemporalActivity`: `TypeCorrect`, `Reported` (`RowsAsReported`) and `WrittenOnce`
  (`RetriesWriteOnce`). The invariant places an attempt's rows at each stage of the
  template and in each scope (`Fresh`, `Writing`, `Written`, `Ending`, `Left`), says that results
  others may get have durable rows (`Given`), and what keeps a retry from writing while
  nothing is lost (`Once`): the server knows the one attempt that runs, and either rows
  become durable with its report, or its result is cached under a key that no
  later attempt of the same process misses; an attempt that returned None is not counted
  (`Counted`), since nothing of it is cached.
- **SharedClients_proofs**, one part per model and one about their composition.
  *EmailPool*: `Conserved` (`PoolConserved`) and `Justified` (`TriesJustified`). A call holds a
  manager from the queue until its end (`Holding`), no two calls hold the same (`Alone`), the
  queue has none twice (`Injective`) and none that is held (`Apart`); every manager is
  in the queue, held, or one whose `get_connection()` raised (`Whole`), and those stay away and need a reason (`Gone`); and a call's iterations, failures and acceptances
  add up (`Tallied`).
  *KafkaClients*: `Known` (`ClientsKept`), `Subscriptions` (`ReadsSubscribed`) and `Flushed`
  (`CloseFlushes`). While no calls of `close()` overlap, one closes at most, what
  it closes is what the adapter knows, and nobody makes another client meanwhile
  (`Closing`, `Kept`); an unsubscribed client has a maker that is still subscribing it or
  failed to (`Reading`); messages wait in the known client and nowhere else (`Flushing`).
  *ScyllaSession*: `InTime` (`Deadlines`) and `Current` (`PreparedHere`). Without overlaps one
  health check is under way at most, knows the usual timeout, and only meanwhile the short
  one is in force (`Lent`, `Lends`); a statement that is kept, being prepared by a call or by the cache's task, or awaited
  is of a keyspace that the session had during the call, or marked as left behind
  (`Marked`, `Prepares`).
  *Side by side*: a step of one adapter leaves the others alone (`EachInvariance`), so each
  keeps its invariant in the composition; `EachTypeCorrect` states the run's `EachType`. What
  the three need of their constants is the assumption `ConstantsFit` of `MCSharedClients`.

- **KeycloakAdmin_proofs**: `TypeCorrect`, `HandedOut` (`ClientHandedOut`) and `Realm`
  (`RightRealm`), for any callers, plans of any length and lifetimes of a login. First the
  tables: `PlansFit` says that what an operation does is either the plan of `create_client()`
  or one without any step of it, for all operations of both adapters and any bound on the
  requests. From this follows what is left of a plan at any time (`Shape`; `Heads` and
  `Tails` say how a step shortens it), and `Planned` says what a call has noted by then:
  a call has a realm to restore while the rest of its plan restores one. The invariant
  has two halves. About logins: a client that is still to be stored is in nobody's hands and
  in the configured realm (`Unshared`), a client and the expiry next to it are of the same
  login unless two logins overlapped (`Orderly`), and whoever was not overtaken since its
  test finds the client it tested or made (`Renewed`). About the realm: while calls that
  set it do not overlap there is one at most, it started from the configured realm, and if
  the client is away that call still restores it (`Untangled`); and a call that
  nobody crossed is alone with the client, which is in the realm it set, or in the configured one
  (`Uncrossed`). `Untangled` and `Uncrossed` differ in what excuses them, which is why a login
  that replaces the client excuses a wrong answer but never a client left away.
  TLC checked `IInv` on the run's two callers before it was proved. The theorems need that
  `None` is no index of a client, which the assumption now says.
- **RedisReplication_proofs**: `TypeCorrect`, `Freshness` (`PrimaryFresh`) and `Monotonic`
  (`MonotonicReads`), for any callers, writes, number of replicas and all modes. The lemmas
  `OfStrings` to `OfKinds` reduce the tables to a contract, `Asks`: the pairs of client and effect that the
  operations of each kind make, so that the rest of the proof knows no operation by name; a
  command that wrote through the read-only client, or a sorted set read through it, would
  fail there. The invariant: no server is ahead of the primary (`Ahead`; parameters and
  channels are kept by each server for itself, and a failover to one that knows less of
  them counts as a loss), the primary knows all that anybody was told (`Fresh`), and where one
  server answers a caller's reads it has not forgotten what it showed (`Shown`).

`Tables` defines the union of two tables by a set of names and a function on it, where TLC's own
operator `@@` has a definition the provers cannot see.

Only model-checked: `Served`, `StopEnds` and `CallsEnd`, which are liveness under fairness and
out of the prover's reach, and `CommitOnSuccessAlways`, which is refuted. Outside both: what the
MC modules assume of the tables and ports (`PortCovered` and its like), which TLC evaluates.
No module declares a recursive operator.

## Findings

One run refutes a sentence of the documentation, `atomic_swallow`; `PROJECT.json` quotes it.
A body that catches a nested call's error returns successfully and its rows are lost
(`sqlalchemy_atomic.py:233`).

The other things met while modelling are part of the models, where a property names them as
its exception, or lie outside what the models tell apart.

**Exceptions that a property names.**

- Rate limiter: a handler that ran during a fail-open bypass and returned None is run again
  by the async interceptor (`HandlerGuarded`). In the last millisecond of a window PTTL
  answers 0, which is taken for a pass (`LimitHeldBeforeExpiry`).
- Registries: a default manager may replace a custom one that was set while it was being
  built (`CustomKept`); a reset during the call makes the getter return None (`OneManager`).
- Cache: several writes forget caches that hold what they changed, and a read that a write
  overtook stores its old answer: both are served until they are as old as the time to
  live and the request that fetched them (`WritesSeen`). A user that was deleted is found by id and
  by e-mail for five minutes, and keeps its roles for as long.
- Keycloak: overlapping `create_client` calls read and restore each other's realm, and the
  shared client may stay in the wrong one (`RightRealm`); a login that fails in another
  thread makes the property return None (`ClientHandedOut`).
- Temporal activities: `execute_atomic()` of a cacheable activity stores its result before
  the commit, so a retry may report rows that were rolled back (`RowsAsReported`); the
  default cache key is Python's `hash` of a string, which every process seeds anew, so
  only retries in the same process find it; a result that is None is never stored, so the retry
  of an activity that wrote and returned None writes again although nothing was lost
  (`RetriesWriteOnce`).
- Temporal workers: with `WORKER_GRACEFUL_SHUTDOWN_SECONDS` 0, which the settings allow, no
  worker is told to shut down; the manager forgets it while it goes on polling, and a
  shutdown reports every worker of its snapshot as failed (`NoneForgotten`,
  `ShutdownReachesAll`).
- Redis: the size and the union of a set are asked of the primary, its members of a replica;
  `config_set` and `config_get` go to different servers and nothing replicates between
  them; `CLUSTER_READ_FROM_REPLICAS` is on by default and makes even the reads that other
  modes send to the primary stale (`MonotonicReads`, `PrimaryFresh`).
- Email: a call whose `get_connection()` raises loses its manager: without `SMTP_SERVER` always, with
  one when `SMTP()`, `starttls()` or `login()` raise something other than `SMTPException` and
  `OSError`, such as the `UnicodeError` of a password that is not ASCII. When all are lost every
  sender blocks for ever (`PoolConserved`, `CallsEnd`).
- Kafka: a consumer whose first subscription failed keeps the unsubscribed client for good
  (`ReadsSubscribed`); of two overlapping `close()` calls the later one forgets a client
  that was made in between (`ClientsKept`, `CloseFlushes`).
- ScyllaDB: crossing health checks leave the short timeout for good (`Deadlines`); a cached
  statement is found by its text only, also after `use_keyspace()` or a `USE` sent with
  `execute()` (`PreparedHere`).

**Behaviour of a model that no property forbids.**

- A cached call raises `KeyError` if its entry goes between test and read (`Raise` in
  `TtlCache`, `cache.py:98`).
- A forked child that exits before its first traced call waits for a thread only its parent
  has (`ShutdownHangs`, `otel_utils.py:974`), and a child adopts its parent's providers from
  OpenTelemetry's inherited globals as if another library had set them (`Existing`), although
  the log message at `otel_utils.py:566` announces that it rebuilds them.
- A push loop that outlived the two seconds of `shutdown()` pushes once more when its push
  returns (`LoopEnds`), after the shutdown deleted the process's group from the gateway.
- Of two tasks that stop the same worker the second meets a `KeyError`, which a shutdown
  reports as a failed stop, and then leaves the client open; a worker whose background task
  died is reported as running (`TemporalWorkers`).
- A mail that is given up after `MAX_RETRIES`, or whose attachment cannot be read, ends in a
  silent return (`EmailPool`).
- The driver's `prepare()` and `set_keyspace()` stop the event loop of the async ScyllaDB
  adapter (`MayRun`); with a statement cache, other tasks run before and after, so a statement may be
  prepared in a keyspace to which another task switched after the call began.

**Read in the code, not modelled.**

- Kafka's async `produce()` drops the future of the delivery and its `flush()` does not use
  the timeout it takes; the sync producer never calls `poll()`, so delivery reports wait for
  a flush, which with a timeout only warns about what is left; the admin adapter drops
  the futures of `create_topic()` and `delete_topic()`, and with them the broker's errors.
- `upsert_hash` of the Redis search adapters ignores `replace`.
- A child that inherits the handle of a push loop and shuts down deletes its parent's group on
  the gateway: `_owns_metrics_pushgateway` is copied with the rest.
- The sync `get_userinfo()` of Keycloak calls the uncached function behind its own cache;
  the async token checks use a public key that is cached for an hour, so that tokens signed
  after a rotation are refused until then.

## Not modelled, and why

- The async Keycloak adapter's `alru_cache`: like the TTL cache but for the event loop, with
  concurrent calls sharing one request. `ScyllaSession` models that sharing for one text; the entry
  going between the making of the cache's task and its first step is left out there.
- Each SQLAlchemy adapter builds its own session manager while the decorator asks the
  registry; `AtomicTransaction` takes both for the same, as `Singleton` makes them unless a
  custom manager was set. The cache of one adapter instance is shared with all others.
- Redis: the kept type of a search index, documents that are half written, the two requests
  of `get_document()`, how commands are put together.
- Vault's authentication and token renewal, its settings source; the Kafka admin adapter
  (one request per method), consumer offsets.
- Instrumentation of installed libraries, propagators and exporters' protocols, and the
  instrument cache of the metrics decorator: they decide nothing in the lifecycle.
- Retry and timeout decorators: a nested alarm clears the outer one, and what a retry does
  to a commit whose answer was lost depends on the function it wraps.
- Elasticsearch and the payment gateways: one request per method and no state between
  calls. Utilities, entities, DTOs and errors: pure, or strings.
- Configuration and application builders: written once at start-up.
- The behaviour tests under `features/` are not code of the system; they were read for what
  callers expect.

## Plan

Done: all modules above. In order of what they add:

1. The async cache of Keycloak: the in-flight future as the entry, next to `TtlCache`.
2. Retry and timeout around `AtomicTransaction`: retried commits whose answer was lost,
   nested alarms.
3. The composition of `ManagerRegistry` and `AtomicTransaction`: a custom manager under a
   block whose adapters have managers of their own.

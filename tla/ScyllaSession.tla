--------------------------- MODULE ScyllaSession ---------------------------
(***************************************************************************)
(* The session that all callers of a ScyllaDB adapter share, with its      *)
(* default timeout and its keyspace.                                       *)
(*                                                                         *)
(* Every operation is one request.  A request takes the session's timeout  *)
(* and keyspace when it is sent; health_check() changes the timeout for    *)
(* its own request and restores it, use_keyspace() changes the keyspace    *)
(* for everybody, and so does a USE that is sent like any request.         *)
(* prepare() keeps statements by their text.                               *)
(*                                                                         *)
(* The callers of the sync adapter are threads, which interleave anywhere. *)
(* Those of the async one are tasks, which interleave where they await the *)
(* answer of the driver: _await_future() has it delivered by a callback    *)
(* from the driver's thread.  The driver's prepare() and set_keyspace() do *)
(* not await and stop the loop; but with a statement cache alru_cache runs *)
(* prepare() in a task of its own, the loader, which the calls that want   *)
(* the statement await.  alru_cache, the driver and the servers are        *)
(* external.                                                               *)
(***************************************************************************)
CONSTANTS Callers,
          Loader,     \* the task of alru_cache that prepares the statement
          None,
          Keyspaces,
          Home        \* KEYSPACE

VARIABLES flavour,   \* "sync" or "async", fixed
          caching,   \* ENABLE_PREPARED_STATEMENT_CACHE, fixed
          timeout,   \* session.default_timeout: "full" (REQUEST_TIMEOUT) or
                     \* "short" (HEALTH_CHECK_TIMEOUT)
          keyspace,  \* session.keyspace
          shut,      \* session.is_shutdown
          cached,    \* the statement kept for the text, or None: the keyspace it
                     \* was prepared in; history: the session left it since
          at,        \* caller or loader -> where it is; "joined" and "woken" are
                     \* calls that await the loader and that have its result
          doing,     \* caller -> its operation
          driver,    \* caller -> its request: "none", "asked" or "over"
          given,     \* caller -> the timeout of its request
          original,  \* caller -> original_timeout
          space,     \* caller -> the keyspace of the statement it prepares, or
                     \* the one it switches to
          left,      \* history: caller -> the session left that keyspace since
          spaces,    \* history: caller -> the session's keyspaces during prepare()
          hurried,   \* history: caller -> a health check was under way when it asked
          tangled    \* history: health checks overlapped

Everyone == Callers \cup {Loader}

session == <<timeout, keyspace, shut, cached>>
call == <<at, doing, driver, given, original, space>>
history == <<left, spaces, hurried, tangled>>
vars == <<flavour, caching, session, call, history>>

Timeouts == {"full", "short"}

\* The operations of the adapters.  All but the special ones only send a request.
SchemaChanges == {"create_keyspace", "drop_keyspace", "create_table", "drop_table"}
AsyncSchemaChanges == SchemaChanges
RowChanges == {"insert", "update", "delete", "batch_execute"}
AsyncRowChanges == RowChanges
RowReads == {"select"}
AsyncRowReads == RowReads
RowCounts == {"count", "exists"}
AsyncRowCounts == RowCounts
Statements == {"execute", "execute_prepared"}
AsyncStatements == Statements
Special == {"prepare", "use_keyspace", "health_check"}

SyncRequests == SchemaChanges \cup RowChanges \cup RowReads \cup RowCounts \cup Statements
AsyncRequests == AsyncSchemaChanges \cup AsyncRowChanges \cup AsyncRowReads
                 \cup AsyncRowCounts \cup AsyncStatements
Requests == IF flavour = "sync" THEN SyncRequests ELSE AsyncRequests

\* They look at the session and the cluster and ask nobody.
Lookups == {"get_session", "is_connected"}
AsyncLookups == Lookups
PoolStatistics == {"get_pool_stats"}
AsyncPoolStatistics == PoolStatistics

Places == {"idle", "read", "set", "sent", "answered", "restore", "prepared",
           "ready", "joined", "woken"}

TypeOK ==
    /\ flavour \in {"sync", "async"} /\ caching \in BOOLEAN
    /\ timeout \in Timeouts /\ keyspace \in Keyspaces /\ shut \in BOOLEAN
    /\ cached = None \/ cached \in [space : Keyspaces, left : BOOLEAN]
    /\ at \in [Everyone -> Places]
    /\ doing \in [Everyone -> {"none", "request"} \cup Special]
    /\ driver \in [Everyone -> {"none", "asked", "over"}]
    /\ given \in [Everyone -> Timeouts \cup {None}]
    /\ original \in [Everyone -> Timeouts \cup {None}]
    /\ space \in [Everyone -> Keyspaces \cup {None}]
    /\ left \in [Everyone -> BOOLEAN] /\ spaces \in [Everyone -> SUBSET Keyspaces]
    /\ hurried \in [Everyone -> BOOLEAN] /\ tangled \in BOOLEAN

\* __init__ connects and raises if it cannot.
Init == /\ flavour \in {"sync", "async"} /\ caching \in BOOLEAN
        /\ timeout = "full" /\ keyspace = Home /\ shut = FALSE /\ cached = None
        /\ at = [p \in Everyone |-> "idle"] /\ doing = [p \in Everyone |-> "none"]
        /\ driver = [p \in Everyone |-> "none"] /\ given = [p \in Everyone |-> None]
        /\ original = [p \in Everyone |-> None] /\ space = [p \in Everyone |-> None]
        /\ left = [p \in Everyone |-> FALSE] /\ spaces = [p \in Everyone |-> {}]
        /\ hurried = [p \in Everyone |-> FALSE] /\ tangled = FALSE

Others(p) == Everyone \ {p}
Checking(q) == at[q] \in {"read", "set", "sent", "answered", "restore"} /\ doing[q] = "health_check"
Preparing(q) == at[q] \in {"sent", "answered"} /\ doing[q] = "prepare"

\* A task runs until it awaits; the loader has not begun when it is ready.
Awaits(q) == \/ at[q] \in {"idle", "ready", "joined", "woken"}
             \/ at[q] \in {"sent", "answered"} /\ doing[q] \in {"request", "health_check"}
MayRun(p) == flavour = "async" => \A q \in Others(p) : Awaits(q)

Goto(p, where) == at' = [at EXCEPT ![p] = where]

\* The call is over, its request is forgotten.
End(p) == /\ Goto(p, "idle")
          /\ doing' = [doing EXCEPT ![p] = "none"] /\ driver' = [driver EXCEPT ![p] = "none"]
          /\ given' = [given EXCEPT ![p] = None] /\ original' = [original EXCEPT ![p] = None]
          /\ space' = [space EXCEPT ![p] = None] /\ left' = [left EXCEPT ![p] = FALSE]
          /\ spaces' = [spaces EXCEPT ![p] = {}] /\ hurried' = [hurried EXCEPT ![p] = FALSE]

\* session.execute(), execute_async(), prepare() or set_keyspace()
Send(p) == /\ ~shut
           /\ Goto(p, "sent")
           /\ driver' = [driver EXCEPT ![p] = "asked"]
           /\ given' = [given EXCEPT ![p] = timeout]
           /\ hurried' = [hurried EXCEPT ![p] = tangled \/ \E q \in Others(p) : Checking(q)]

-----------------------------------------------------------------------------
\* Operations that send one request.  On a session that is shut down the driver
\* raises and nothing has happened.

Request(p) ==
    /\ at[p] = "idle" /\ MayRun(p) /\ Requests # {}
    /\ doing' = [doing EXCEPT ![p] = "request"]
    /\ Send(p)
    /\ UNCHANGED <<flavour, caching, session, original, space, left, spaces, tangled>>

UseKeyspace(p) ==
    /\ at[p] = "idle" /\ MayRun(p)
    /\ doing' = [doing EXCEPT ![p] = "use_keyspace"]
    /\ \E k \in Keyspaces : space' = [space EXCEPT ![p] = k]
    /\ Send(p)
    /\ UNCHANGED <<flavour, caching, session, original, left, spaces, tangled>>

\* prepare(): the statement is known by its text.
PrepareHit(p) ==
    /\ at[p] = "idle" /\ MayRun(p) /\ caching /\ cached # None
    /\ Goto(p, "prepared") /\ doing' = [doing EXCEPT ![p] = "prepare"]
    /\ space' = [space EXCEPT ![p] = cached.space]
    /\ left' = [left EXCEPT ![p] = cached.left]
    /\ spaces' = [spaces EXCEPT ![p] = {keyspace}]
    /\ UNCHANGED <<flavour, caching, session, driver, given, original, hurried, tangled>>

\* Mutant: statements are prepared in the configured keyspace.
AskPrepareHome(p) == /\ doing' = [doing EXCEPT ![p] = "prepare"]
                     /\ space' = [space EXCEPT ![p] = Home]
                     /\ spaces' = [spaces EXCEPT ![p] = {keyspace}]
                     /\ Send(p)
\* session.prepare(): the driver prepares it in the keyspace of the session.
AskPrepare(p) == /\ doing' = [doing EXCEPT ![p] = "prepare"]
                 /\ space' = [space EXCEPT ![p] = keyspace]
                 /\ spaces' = [spaces EXCEPT ![p] = {keyspace}]
                 /\ Send(p)

\* The call prepares it itself: there is no cache, or the one of the sync adapter.
PrepareMiss(p) ==
    /\ at[p] = "idle" /\ MayRun(p)
    /\ ~caching \/ (flavour = "sync" /\ cached = None)
    /\ AskPrepare(p)
    /\ UNCHANGED <<flavour, caching, session, original, left, tangled>>

\* alru_cache has a task prepare it, which the calls with the same text await.
PrepareAwaits(p) ==
    /\ at[p] = "idle" /\ MayRun(p) /\ caching /\ flavour = "async" /\ cached = None
    /\ at' = [at EXCEPT ![p] = "joined", ![Loader] = "ready"]
    /\ doing' = [doing EXCEPT ![p] = "prepare"]
    /\ spaces' = [spaces EXCEPT ![p] = {keyspace}]
    /\ UNCHANGED <<flavour, caching, session, driver, given, original, space, left, hurried, tangled>>

\* _prepare_internal() begins, in the keyspace that the session has by then.
LoaderRuns ==
    /\ at[Loader] = "ready" /\ MayRun(Loader)
    /\ AskPrepare(Loader)
    /\ UNCHANGED <<flavour, caching, session, original, left, tangled>>

\* Nobody awaits the loader any more: it may be cancelled before it begins.
LoaderDropped ==
    /\ at[Loader] = "ready" /\ \A q \in Callers : at[q] # "joined"
    /\ Goto(Loader, "idle")
    /\ UNCHANGED <<flavour, caching, session, doing, driver, given, original, space, history>>

\* The entry's time is up, or other statements take its place.
Expire == /\ cached # None
          /\ cached' = None
          /\ UNCHANGED <<flavour, caching, timeout, keyspace, shut, call, history>>

-----------------------------------------------------------------------------
\* The answer

\* Mutant: an answer that is an error does not reach the future.
AnswerLost(p) ==
    /\ at[p] = "sent" /\ driver[p] = "asked"
    /\ driver' = [driver EXCEPT ![p] = "over"]
    /\ \/ at' = at
       \/ Goto(p, "answered")
    /\ UNCHANGED <<flavour, caching, session, doing, given, original, space, history>>
\* The driver has the answer, an error or the time is up; _await_future() has it
\* delivered to the loop, a thread gets it at once; an answer to a task that was
\* cancelled meanwhile goes nowhere.
Answer(p) ==
    /\ at[p] = "sent" /\ driver[p] = "asked"
    /\ driver' = [driver EXCEPT ![p] = "over"]
    /\ Goto(p, "answered")
    /\ UNCHANGED <<flavour, caching, session, doing, given, original, space, history>>

\* The session has another keyspace now; statements of the one it leaves stay.
Switch(k) ==
    /\ keyspace' = k
    /\ cached' = IF cached = None THEN None
                 ELSE [cached EXCEPT !.left = @ \/ cached.space # k]
    /\ left' = [q \in Everyone |-> left[q] \/ (Preparing(q) /\ space[q] # k)]
    /\ spaces' = [q \in Everyone |-> IF doing[q] = "prepare" THEN spaces[q] \cup {k}
                                                             ELSE spaces[q]]

\* The call goes on with the answer.  USE took effect for the whole session.
RequestEnds(p) ==
    /\ at[p] = "answered" /\ MayRun(p) /\ doing[p] = "request"
    /\ End(p)
    /\ UNCHANGED <<flavour, caching, session, tangled>>

UseKeyspaceEnds(p) ==
    /\ at[p] = "answered" /\ MayRun(p) /\ doing[p] = "use_keyspace"
    /\ Switch(space[p])
    /\ Goto(p, "idle")
    /\ doing' = [doing EXCEPT ![p] = "none"] /\ driver' = [driver EXCEPT ![p] = "none"]
    /\ given' = [given EXCEPT ![p] = None] /\ space' = [space EXCEPT ![p] = None]
    /\ hurried' = [hurried EXCEPT ![p] = FALSE]
    /\ UNCHANGED <<flavour, caching, timeout, shut, original, tangled>>

\* A USE among the requests takes effect in the driver's thread when its answer is
\* there, whatever became of the call: the model lets it happen at any time.
Used == /\ ~shut
        /\ \E k \in Keyspaces : Switch(k)
        /\ UNCHANGED <<flavour, caching, timeout, shut, call, hurried, tangled>>

\* A statement that was prepared is kept, also if the session has moved on.
PrepareEnds(p) ==
    /\ at[p] = "answered" /\ MayRun(p) /\ doing[p] = "prepare"
    /\ cached' = IF caching THEN [space |-> space[p], left |-> left[p]] ELSE None
    /\ Goto(p, "prepared")
    /\ UNCHANGED <<flavour, caching, timeout, keyspace, shut, doing, driver, given, original,
                   space, history>>

\* The loader is done: the calls that await it get the statement, or its error.
Wakes(s) ==
    /\ at' = [q \in Everyone |-> IF q = Loader THEN "idle"
                                 ELSE IF at[q] = "joined" THEN "woken" ELSE at[q]]
    /\ space' = [q \in Everyone |-> IF q = Loader THEN None
                                    ELSE IF at[q] = "joined" THEN s ELSE space[q]]
    /\ doing' = [doing EXCEPT ![Loader] = "none"] /\ driver' = [driver EXCEPT ![Loader] = "none"]
    /\ given' = [given EXCEPT ![Loader] = None] /\ left' = [left EXCEPT ![Loader] = FALSE]
    /\ spaces' = [spaces EXCEPT ![Loader] = {}] /\ hurried' = [hurried EXCEPT ![Loader] = FALSE]
    /\ UNCHANGED <<flavour, caching, timeout, keyspace, shut, original, tangled>>

\* The statement is kept; also if all the calls that awaited it were cancelled.
LoaderEnds ==
    /\ at[Loader] = "answered"
    /\ cached' = [space |-> space[Loader], left |-> left[Loader]]
    /\ Wakes(space[Loader])

\* The driver raises: nothing is kept.
LoaderFails ==
    /\ at[Loader] = "answered" \/ (at[Loader] = "ready" /\ MayRun(Loader) /\ shut)
    /\ Wakes(None)
    /\ UNCHANGED cached

\* A call that awaited it goes on; others may have run since the loader was done.
Resumes(p) ==
    /\ at[p] = "woken" /\ MayRun(p)
    /\ IF space[p] = None
       THEN End(p)
       ELSE /\ Goto(p, "prepared")
            /\ UNCHANGED <<doing, driver, given, original, space, left, spaces, hurried>>
    /\ UNCHANGED <<flavour, caching, session, tangled>>

Prepared(p) ==
    /\ at[p] = "prepared"
    /\ End(p)
    /\ UNCHANGED <<flavour, caching, session, tangled>>

\* An error is translated and raised.  A task may be cancelled while it awaits.
RequestFails(p) ==
    /\ \/ at[p] = "answered"
       \/ flavour = "async" /\ at[p] \in {"sent", "joined", "woken"} /\ Awaits(p)
    /\ MayRun(p) /\ doing[p] # "health_check"
    /\ End(p)
    /\ UNCHANGED <<flavour, caching, session, tangled>>

-----------------------------------------------------------------------------
\* health_check()

\* "original_timeout = session.default_timeout", if the session is connected
CheckBegins(p) ==
    /\ at[p] = "idle" /\ MayRun(p) /\ ~shut
    /\ Goto(p, "read") /\ doing' = [doing EXCEPT ![p] = "health_check"]
    /\ original' = [original EXCEPT ![p] = timeout]
    /\ tangled' = (tangled \/ \E q \in Others(p) : Checking(q))
    /\ UNCHANGED <<flavour, caching, session, driver, given, space, left, spaces, hurried>>

\* "session.default_timeout = self.config.HEALTH_CHECK_TIMEOUT"
CheckSets(p) ==
    /\ at[p] = "read" /\ MayRun(p)
    /\ timeout' = "short"
    /\ Goto(p, "set")
    /\ UNCHANGED <<flavour, caching, keyspace, shut, cached, doing, driver, given, original, space,
                   history>>

\* Its request; a session that was shut down meanwhile raises.
CheckSends(p) ==
    /\ at[p] = "set" /\ MayRun(p)
    /\ IF shut THEN Goto(p, "restore") /\ UNCHANGED <<driver, given, hurried>>
       ELSE Send(p)
    /\ UNCHANGED <<flavour, caching, session, doing, original, space, left, spaces, tangled>>

\* An answer or an error, or the task is cancelled.
CheckAnswered(p) ==
    /\ \/ at[p] = "answered"
       \/ flavour = "async" /\ at[p] = "sent"
    /\ MayRun(p) /\ doing[p] = "health_check"
    /\ Goto(p, "restore")
    /\ UNCHANGED <<flavour, caching, session, doing, driver, given, original, space, history>>

\* Mutant: no finally: the timeout is restored only after an answer.
CheckRestoresSome(p) ==
    /\ at[p] = "restore" /\ MayRun(p)
    /\ timeout' = IF driver[p] = "over" THEN original[p] ELSE timeout
    /\ End(p)
    /\ UNCHANGED <<flavour, caching, keyspace, shut, cached, tangled>>
\* "finally: session.default_timeout = original_timeout"
CheckRestores(p) ==
    /\ at[p] = "restore" /\ MayRun(p)
    /\ timeout' = original[p]
    /\ End(p)
    /\ UNCHANGED <<flavour, caching, keyspace, shut, cached, tangled>>

-----------------------------------------------------------------------------
\* close(): the session and the cluster are shut down; what is under way fails.
Close(p) ==
    /\ at[p] = "idle" /\ MayRun(p) /\ ~shut
    /\ shut' = TRUE
    /\ UNCHANGED <<flavour, caching, timeout, keyspace, cached, call, history>>

\* What a call that is under way does next, if nothing interferes.
Proceed(p) == \/ RequestEnds(p) \/ UseKeyspaceEnds(p) \/ PrepareEnds(p) \/ Prepared(p)
              \/ CheckSets(p) \/ CheckSends(p) \/ CheckAnswered(p) \/ CheckRestores(p)
              \/ Resumes(p)

LoaderProceeds == LoaderRuns \/ LoaderEnds \/ LoaderFails

Next == \/ \E p \in Callers : \/ Request(p) \/ UseKeyspace(p)
                              \/ PrepareHit(p) \/ PrepareMiss(p) \/ PrepareAwaits(p)
                              \/ CheckBegins(p) \/ Close(p)
                              \/ Proceed(p) \/ RequestFails(p)
        \/ \E q \in Everyone : Answer(q)
        \/ LoaderProceeds \/ LoaderDropped \/ Expire \/ Used

\* The driver answers every request, if only because its time is up; a thread that
\* can go on does, and the event loop takes the tasks that can go on in turn.
Fairness == /\ \A q \in Everyone : WF_vars(Answer(q))
            /\ \A p \in Callers : SF_vars(Proceed(p))
            /\ SF_vars(LoaderProceeds)

Spec == Init /\ [][Next]_vars /\ Fairness

-----------------------------------------------------------------------------
\* Properties

\* Every call ends, and with it every health check gives its timeout back, although
\* the driver answers a task from another thread.
CallEnds(p) == at[p] # "idle" ~> at[p] = "idle"

\* A health check, which lends its short timeout to the whole session, hurries only
\* the requests sent while it is under way, has the short timeout itself, and leaves
\* the usual one behind, however it ends.  Health checks that overlap are the
\* exception: the short timeout may stay for good, and the check of a thread, not
\* that of a task, may get the long one.
Deadlines ==
    /\ \A p \in Everyone : at[p] = "sent" =>
         IF doing[p] = "health_check" THEN given[p] = "short" \/ (tangled /\ flavour = "sync")
                                      ELSE given[p] = "full" \/ hurried[p]
    /\ (\A p \in Callers : ~Checking(p)) /\ ~tangled => timeout = "full"

\* The statement that prepare() returns was prepared in a keyspace that the session
\* had during the call.  The exception is a cached one: it is found by its text
\* although use_keyspace() left its keyspace since.
PreparedHere ==
    \A p \in Callers : at[p] = "prepared" =>
        space[p] \in spaces[p] \/ (caching /\ left[p])
=============================================================================

-------------------------- MODULE TemporalActivity --------------------------
(***************************************************************************)
(* One Temporal activity built on BaseActivity or AtomicActivity, and the  *)
(* server that retries it.                                                 *)
(*                                                                         *)
(* The server hands the activity to a worker, waits for its report or for  *)
(* a timeout, and hands it out again until RETRY_MAXIMUM_ATTEMPTS is       *)
(* reached.  An attempt that was timed out may still be running.  Every    *)
(* attempt runs the template of execute(): hook, cache, body, cache, hook. *)
(* The body calls methods of the logic that are decorated with @atomic;    *)
(* where their rows become durable depends on what encloses them:          *)
(*   "logic"  nothing: every call commits its own rows;                    *)
(*   "inner"  _do_execute_atomic(): all the calls, without the hooks;      *)
(*   "whole"  execute_atomic(): the whole template.                        *)
(* The cache is the logic's own store, shared by the worker processes.     *)
(* Its key is hash(str(input)) unless an activity overrides it; Python     *)
(* seeds hash() of strings anew in every process.                          *)
(*                                                                         *)
(* The database and the server are external; an atomic block is taken for  *)
(* what AtomicBlock says it is.                                            *)
(***************************************************************************)
EXTENDS Naturals, FiniteSets

CONSTANTS MaxAttempts,   \* RETRY_MAXIMUM_ATTEMPTS
          MaxCalls,      \* bound: atomic methods that the body calls
          Processes,     \* worker processes that poll the task queue
          Setups,        \* activities: [scope : {"logic", "inner", "whole"},
                         \*              key : {"none", "hash", "own"}];
                         \* "none" is not cacheable, "own" overrides the key
          Faults         \* "lost_ack": a commit is applied, its answer is lost;
                         \* "timeout": an attempt outlives its timeout;
                         \* "death": the process of an attempt dies

ASSUME ConstantsAssumption ==
    /\ MaxAttempts \in Nat \ {0}
    /\ MaxCalls \in Nat \ {0}
    /\ IsFiniteSet(Processes) /\ Processes # {} /\ {"own", "none"} \cap Processes = {}
    /\ Setups \subseteq [scope : {"logic", "inner", "whole"}, key : {"none", "hash", "own"}]

Attempts == 1..MaxAttempts
Calls == 1..MaxCalls
Stages == {"before", "lookup", "body", "store", "after", "end"}
Keys == Processes \cup {"own"}

VARIABLES setup,      \* what kind of activity this is, fixed
          process,    \* attempt -> the process that runs it
          dead,       \* processes that died
          stage,      \* attempt -> "none", a stage of the template, or "over"
          calls,      \* attempt -> calls of the body that have been made
          open,       \* attempt -> rows of its transaction, not yet durable
          db,         \* rows that are durable: <<attempt, call>>
          cache,      \* key -> the attempt whose result is cached, 0 for None
          returns,    \* attempt -> the attempt whose result it returns, 0
          empty,      \* attempts whose body returned None
          current,    \* the attempt the server waits for, 0 if none
          last,       \* attempts handed out so far
          task,       \* "open", "completed" or "failed"
          answer,     \* the attempt whose result the workflow got, 0
          reported,   \* history: attempt -> "none", "ok" or "error"
          unsure,     \* history: attempts with a lost commit answer
          disturbed   \* history: an answer, a report, a process or a result
                      \* on its way to the cache was lost

hosts == <<process, dead>>
server == <<current, last, task, answer>>
vars == <<setup, hosts, stage, calls, open, db, cache, returns, empty, server, reported,
          unsure, disturbed>>

TypeOK == /\ setup \in Setups
          /\ stage \in [Attempts -> Stages \cup {"none", "over"}]
          /\ calls \in [Attempts -> 0..MaxCalls]
          /\ open \in [Attempts -> SUBSET (Attempts \X Calls)]
          /\ db \in SUBSET (Attempts \X Calls)
          /\ process \in [Attempts -> Processes \cup {"none"}] /\ dead \subseteq Processes
          /\ cache \in [Keys -> 0..MaxAttempts]
          /\ returns \in [Attempts -> 0..MaxAttempts] /\ empty \subseteq Attempts
          /\ current \in 0..MaxAttempts
          /\ last \in 0..MaxAttempts
          /\ task \in {"open", "completed", "failed"}
          /\ answer \in 0..MaxAttempts
          /\ reported \in [Attempts -> {"none", "ok", "error"}]
          /\ unsure \in SUBSET Attempts
          /\ disturbed \in BOOLEAN

Init == /\ setup \in Setups
        /\ stage = [a \in Attempts |-> "none"]
        /\ calls = [a \in Attempts |-> 0]
        /\ open = [a \in Attempts |-> {}]
        /\ db = {}
        /\ process = [a \in Attempts |-> "none"]
        /\ dead = {}
        /\ cache = [k \in Keys |-> 0]
        /\ returns = [a \in Attempts |-> 0]
        /\ empty = {}
        /\ current = 0
        /\ last = 0
        /\ task = "open"
        /\ answer = 0
        /\ reported = [a \in Attempts |-> "none"]
        /\ unsure = {}
        /\ disturbed = FALSE

-----------------------------------------------------------------------------
\* The server

\* An attempt is over for the server: another one follows, or the task fails.
AttemptFailed == /\ current' = 0
                 /\ task' = IF last = MaxAttempts THEN "failed" ELSE "open"

\* RETRY_NON_RETRYABLE_ERROR_TYPES names the type of the error.
NotRetried == current' = 0 /\ task' = "failed"

Dispatch == /\ task = "open"
            /\ current = 0
            /\ last < MaxAttempts
            /\ last' = last + 1
            /\ current' = last + 1
            /\ \E p \in Processes \ dead : process' = [process EXCEPT ![last + 1] = p]
            /\ stage' = [stage EXCEPT ![last + 1] = "before"]
            /\ UNCHANGED <<setup, dead, calls, open, db, cache, returns, empty, task, answer,
                           reported, unsure, disturbed>>

\* start_to_close_timeout or heartbeat_timeout passes without a report.
Expires == /\ current # 0
           /\ stage[current] = "over" \/ "timeout" \in Faults
           /\ AttemptFailed
           /\ disturbed' = TRUE
           /\ UNCHANGED <<setup, hosts, stage, calls, open, db, cache, returns, empty, last, answer,
                          reported, unsure>>

\* The report of an attempt; the server ignores those it no longer waits for.
ReportOk(a) == /\ reported' = [reported EXCEPT ![a] = "ok"]
               /\ IF current = a
                  THEN /\ current' = 0
                       /\ task' = "completed"
                       /\ answer' = returns'[a]
                  ELSE UNCHANGED <<current, task, answer>>
ReportError(a) == /\ reported' = [reported EXCEPT ![a] = "error"]
                  /\ IF current = a THEN AttemptFailed \/ NotRetried
                                    ELSE UNCHANGED <<current, task>>
                  /\ UNCHANGED answer

-----------------------------------------------------------------------------
\* Where the rows of the logic's calls become durable

Scope == setup.scope

\* Mutants: a nested call commits what the enclosing transaction holds; the
\* transaction of the inner scope is left without a commit.
CommitsNested(a, s) == s \in {"body", "end"}
CommitsOuterOnly(a, s) == \/ Scope = "logic" /\ s = "body"
                          \/ Scope = "whole" /\ s = "end"
\* A transaction that encloses the calls ends with the last call or at the end.
CommitsAt(a, s) == \/ Scope = "logic" /\ s = "body"
                   \/ Scope = "inner" /\ s = "body" /\ calls[a] + 1 = MaxCalls
                   \/ Scope = "whole" /\ s = "end"

-----------------------------------------------------------------------------
\* An attempt

Go(a, s) == stage' = [stage EXCEPT ![a] = s]

Begin(a) == /\ stage[a] = "before"
            /\ Go(a, "lookup")
            /\ UNCHANGED <<setup, hosts, calls, open, db, cache, returns, empty, server, reported,
                           unsure, disturbed>>

\* _get_cache_key(): the default differs from process to process.
KeyOf(a) == IF setup.key = "own" THEN "own" ELSE process[a]
Cacheable == setup.key # "none"

\* A cached result that is not None is returned at once: neither the body nor
\* the hook runs.
Lookup(a) == /\ stage[a] = "lookup"
             /\ IF Cacheable /\ cache[KeyOf(a)] # 0
                THEN Go(a, "end") /\ returns' = [returns EXCEPT ![a] = cache[KeyOf(a)]]
                ELSE Go(a, "body") /\ UNCHANGED returns
             /\ UNCHANGED <<setup, hosts, calls, open, db, cache, empty, server, reported, unsure,
                            disturbed>>

\* Mutant: the body makes one call too many.
CallAgain(a) ==
    /\ stage[a] = "body"
    /\ calls' = [calls EXCEPT ![a] = @ + 1]
    /\ LET rows == open[a] \cup {<<a, calls[a] + 1>>} IN
         IF CommitsAt(a, "body")
         THEN db' = db \cup rows /\ open' = [open EXCEPT ![a] = {}]
         ELSE open' = [open EXCEPT ![a] = rows] /\ UNCHANGED db
    /\ Go(a, IF calls[a] = MaxCalls THEN "store" ELSE "body")
    /\ UNCHANGED <<setup, hosts, cache, returns, empty, server, reported, unsure, disturbed>>
\* A method of the logic writes its row; the transaction commits or goes on.
Call(a) ==
    /\ stage[a] = "body"
    /\ calls' = [calls EXCEPT ![a] = @ + 1]
    /\ LET rows == open[a] \cup {<<a, calls[a] + 1>>} IN
         IF CommitsAt(a, "body")
         THEN db' = db \cup rows /\ open' = [open EXCEPT ![a] = {}]
         ELSE open' = [open EXCEPT ![a] = rows] /\ UNCHANGED db
    /\ Go(a, IF calls[a] + 1 = MaxCalls THEN "store" ELSE "body")
    /\ UNCHANGED <<setup, hosts, cache, returns, empty, server, reported, unsure, disturbed>>

\* Mutant: the result is never stored.
StoreNever(a) == /\ stage[a] = "store"
                 /\ returns' = [returns EXCEPT ![a] = a]
                 /\ Go(a, "after")
                 /\ UNCHANGED <<setup, hosts, calls, open, db, cache, empty, server, reported, unsure,
                                disturbed>>
\* The result is stored before the hook runs, and before execute_atomic() commits;
\* None is not stored.
Store(a) == /\ stage[a] = "store"
            /\ returns' = [returns EXCEPT ![a] = a]
            /\ empty' \in {empty, empty \cup {a}}
            /\ cache' = IF Cacheable /\ a \notin empty'
                        THEN [cache EXCEPT ![KeyOf(a)] = a] ELSE cache
            /\ Go(a, "after")
            /\ UNCHANGED <<setup, hosts, calls, open, db, server, reported, unsure, disturbed>>

After(a) == /\ stage[a] = "after"
            /\ Go(a, "end")
            /\ UNCHANGED <<setup, hosts, calls, open, db, cache, returns, empty, server, reported,
                           unsure, disturbed>>

\* execute() returned; execute_atomic() commits, and the worker reports.
Finish(a) ==
    /\ stage[a] = "end"
    /\ IF CommitsAt(a, "end") THEN db' = db \cup open[a] ELSE UNCHANGED db
    /\ open' = [open EXCEPT ![a] = {}]
    /\ UNCHANGED returns
    /\ ReportOk(a)
    /\ Go(a, "over")
    /\ UNCHANGED <<setup, hosts, calls, cache, empty, last, unsure, disturbed>>

\* A hook, the body, the cache or a commit raises, or the worker cancels the
\* attempt: the transaction is rolled back and the error reported.
Raise(a) ==
    /\ stage[a] \in Stages
    /\ stage[a] = "end" => Scope = "whole"
    /\ open' = [open EXCEPT ![a] = {}]
    /\ disturbed' = (disturbed \/ stage[a] = "store")
    /\ ReportError(a)
    /\ Go(a, "over")
    /\ UNCHANGED <<setup, hosts, calls, db, cache, returns, empty, last, unsure>>

\* A commit is applied and its answer lost: the attempt reports an error.
CommitUnsure(a) ==
    /\ "lost_ack" \in Faults
    /\ \/ stage[a] = "body" /\ CommitsAt(a, "body")
             /\ db' = db \cup open[a] \cup {<<a, calls[a] + 1>>}
       \/ stage[a] = "end" /\ CommitsAt(a, "end") /\ db' = db \cup open[a]
    /\ open' = [open EXCEPT ![a] = {}]
    /\ unsure' = unsure \cup {a}
    /\ disturbed' = TRUE
    /\ ReportError(a)
    /\ Go(a, "over")
    /\ UNCHANGED <<setup, hosts, calls, cache, returns, empty, last>>

\* A worker process dies with its attempts; the database rolls their
\* transactions back.  Another process goes on polling.
Die(p) ==
    LET lost == {a \in Attempts : process[a] = p /\ stage[a] \in Stages} IN
    /\ "death" \in Faults
    /\ lost # {}
    /\ Processes \ (dead \cup {p}) # {}
    /\ dead' = dead \cup {p}
    /\ stage' = [a \in Attempts |-> IF a \in lost THEN "over" ELSE stage[a]]
    /\ open' = [a \in Attempts |-> IF a \in lost THEN {} ELSE open[a]]
    /\ disturbed' = TRUE
    /\ UNCHANGED <<setup, process, calls, db, cache, returns, empty, server, reported, unsure>>

Progress(a) == \/ Begin(a) \/ Lookup(a) \/ Call(a) \/ Store(a) \/ After(a) \/ Finish(a)
               \/ Raise(a)

Next == \/ Dispatch \/ Expires
        \/ \E a \in Attempts : Progress(a) \/ CommitUnsure(a)
        \/ \E p \in Processes : Die(p)

Spec == Init /\ [][Next]_vars

-----------------------------------------------------------------------------
\* Properties

Rows(a) == {<<a, i>> : i \in Calls}
Writers == {a \in Attempts : Rows(a) \cap db # {}}

\* What is reported of an activity agrees with the database.  A workflow that gets
\* a result gets one whose rows are all there, also when the result came out of the
\* cache of an earlier attempt; not so for a cacheable activity run by
\* execute_atomic(), which stores its result before it commits.  "Ensuring atomicity
\* of all database operations": an attempt of execute_atomic() that failed left
\* nothing behind, and no attempt of either atomic scope leaves a part of its rows.
RowsAsReported ==
    /\ task = "completed" /\ ~(Scope = "whole" /\ Cacheable) => Rows(answer) \subseteq db
    /\ Scope = "whole" =>
         \A a \in Attempts \ unsure : reported[a] = "error" => Rows(a) \cap db = {}
    /\ Scope # "logic" =>
         \A a \in Attempts : Rows(a) \subseteq db \/ Rows(a) \cap db = {}

\* A retry does not repeat what is done: unless an answer, a report, a process
\* or a result on its way to the cache was lost, at most one attempt of an
\* activity leaves rows, if it runs in one transaction, or if it caches the
\* result of the inner one.  With the default key the cache helps only the
\* retries that run in the same process, and it never helps an attempt that
\* wrote its rows and returned None: its retry writes again.
RetriesWriteOnce ==
    /\ Scope = "whole" \/ (Scope = "inner" /\ Cacheable)
    /\ ~disturbed
    /\ Scope = "inner" /\ setup.key = "hash" => \A a, b \in 1..last : process[a] = process[b]
    => Cardinality(IF Scope = "inner" THEN Writers \ empty ELSE Writers) <= 1
=============================================================================

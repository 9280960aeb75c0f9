------------------------- MODULE AtomicTransaction -------------------------
(***************************************************************************)
(* The SQLAlchemy atomic decorator over a scoped session registry.         *)
(*                                                                         *)
(* A scope is a thread (scoped_session) or an asyncio task                 *)
(* (async_scoped_session with scopefunc=current_task); the registry holds  *)
(* at most one session per scope.  A scope runs a stack of decorated       *)
(* calls; every call remembers the session it fetched on entry, whether    *)
(* that session was already flagged (is_nested) and whether a transaction  *)
(* was already under way (joined).  Bodies write through adapters, which   *)
(* fetch the session of the scope anew for every operation.                *)
(*                                                                         *)
(* The sync and the async wrapper are the same state machine: a scope runs *)
(* one step at a time and shares nothing but the database with the others. *)
(* Session, scoped_session and the database are external: they are         *)
(* modelled by the behaviour of SQLAlchemy 2.0 the wrapper relies on.      *)
(***************************************************************************)
EXTENDS Naturals, Sequences

CONSTANTS Scopes,     \* threads or tasks
          Sessions,   \* identities of session objects, reused when unreferenced
          NoSession,  \* the registry holds no session for the scope
          Writes,     \* rows that bodies write
          MaxDepth,   \* bound: how deep atomic calls nest
          Faults      \* "swallow": a body catches an error and goes on;
                      \* "lost_ack": a commit is applied, its reply is lost

ASSUME ConstantsAssumption == /\ Sessions \subseteq Nat
                              /\ NoSession \notin Sessions
                              /\ MaxDepth \in Nat

VARIABLES registry,   \* scope -> its session, or NoSession
          flag,       \* session -> session.info[atomic_flag]
          txn,        \* session -> "none", "active" or "deactive" (a flush failed)
          pending,    \* session -> rows flushed and not committed
          stack,      \* scope -> the decorated calls it is in, outermost first
          pc,         \* scope -> "idle", "body" or "raising"
          db,         \* rows committed
          work,       \* history: rows of the scope's outermost block
          taint,      \* history: the Faults met in that block
          result      \* history: how that block ended

vars == <<registry, flag, txn, pending, stack, pc, db, work, taint, result>>

Frame == [sess : Sessions, nested : BOOLEAN, joined : BOOLEAN]

TypeOK == /\ registry \in [Scopes -> Sessions \cup {NoSession}]
          /\ flag \in [Sessions -> BOOLEAN]
          /\ txn \in [Sessions -> {"none", "active", "deactive"}]
          /\ pending \in [Sessions -> SUBSET Writes]
          /\ stack \in [Scopes -> Seq(Frame)]
          /\ pc \in [Scopes -> {"idle", "body", "raising"}]
          /\ db \in SUBSET Writes
          /\ work \in [Scopes -> SUBSET Writes]
          /\ taint \in [Scopes -> SUBSET {"swallow", "lost_ack"}]
          /\ result \in [Scopes -> {"none", "ok", "error"}]

Init == /\ registry = [t \in Scopes |-> NoSession]
        /\ flag = [s \in Sessions |-> FALSE]
        /\ txn = [s \in Sessions |-> "none"]
        /\ pending = [s \in Sessions |-> {}]
        /\ stack = [t \in Scopes |-> <<>>]
        /\ pc = [t \in Scopes |-> "idle"]
        /\ db = {}
        /\ work = [t \in Scopes |-> {}]
        /\ taint = [t \in Scopes |-> {}]
        /\ result = [t \in Scopes |-> "none"]

-----------------------------------------------------------------------------
\* Sessions and the registry

Held(s) == \/ \E t \in Scopes : registry[t] = s
           \/ \E t \in Scopes : \E i \in DOMAIN stack[t] : stack[t][i].sess = s

\* Mutant: the scope function is left out and all scopes share one session.
SharedSession(t) == IF \E u \in Scopes : registry[u] # NoSession
                    THEN {registry[u] : u \in Scopes} \ {NoSession}
                    ELSE {s \in Sessions : ~Held(s) /\ \A r \in Sessions : r < s => Held(r)}

\* get_session(): the session of the scope, or a new one (new objects take
\* the least identity that nothing refers to).
SessionsFor(t) == IF registry[t] # NoSession THEN {registry[t]}
                  ELSE {s \in Sessions : ~Held(s) /\ \A r \in Sessions : r < s => Held(r)}

\* Mutants: the wrapper never finds the flag; info.get() has no default.
NeverFlagged(t, s) == FALSE
FlaggedOrNone(t, s) == IF registry[t] = s THEN flag[s] ELSE NoSession

\* A new session starts with an empty info dictionary.
Flagged(t, s) == registry[t] = s /\ flag[s]

\* Mutants: remove_session() is forgotten; close() and rollback() are.
SettleNoRemove(t, s) ==
    /\ txn' = [x \in Sessions |-> IF x \in {s, registry[t]} THEN "none" ELSE txn[x]]
    /\ pending' = [x \in Sessions |-> IF x \in {s, registry[t]} THEN {} ELSE pending[x]]
    /\ UNCHANGED registry
SettleNoClose(t, s) ==
    /\ registry' = [registry EXCEPT ![t] = NoSession]
    /\ UNCHANGED <<txn, pending>>

\* rollback() or the end of a commit, then close() and remove_session(): the
\* session of the call and the session registered for the scope both end.
Settle(t, s) ==
    /\ txn' = [x \in Sessions |-> IF x \in {s, registry[t]} THEN "none" ELSE txn[x]]
    /\ pending' = [x \in Sessions |-> IF x \in {s, registry[t]} THEN {} ELSE pending[x]]
    /\ registry' = [registry EXCEPT ![t] = NoSession]

\* An error reaches the body of a decorated call, which lets it pass or
\* (fault "swallow") catches it and continues.  met: faults met on the way.
Throw(t, met) ==
    \/ /\ pc' = [pc EXCEPT ![t] = "raising"]
       /\ taint' = [taint EXCEPT ![t] = @ \cup met]
    \/ /\ "swallow" \in Faults
       /\ pc' = [pc EXCEPT ![t] = "body"]
       /\ taint' = [taint EXCEPT ![t] = @ \cup met \cup {"swallow"}]

\* The call whose function body is running.
Top(t) == stack[t][Len(stack[t])]
Pop(t) == stack' = [stack EXCEPT ![t] = SubSeq(@, 1, Len(@) - 1)]

\* A decorated call ends: its caller continues, or gets the error.
LeaveOk(t) ==
    /\ Pop(t)
    /\ IF Len(stack[t]) = 1
       THEN /\ pc' = [pc EXCEPT ![t] = "idle"]
            /\ result' = [result EXCEPT ![t] = "ok"]
       ELSE UNCHANGED <<pc, result>>
    /\ UNCHANGED taint

LeaveError(t, met) ==
    /\ Pop(t)
    /\ IF Len(stack[t]) = 1
       THEN /\ pc' = [pc EXCEPT ![t] = "idle"]
            /\ result' = [result EXCEPT ![t] = "error"]
            /\ taint' = [taint EXCEPT ![t] = @ \cup met]
       ELSE /\ Throw(t, met)
            /\ UNCHANGED result

-----------------------------------------------------------------------------
\* The wrapper

\* Entry: fetch the session, flag it unless an enclosing call did, and open a
\* transaction unless one is under way.
Enter(t) ==
    /\ pc[t] # "raising"
    /\ Len(stack[t]) < MaxDepth
    /\ \E s \in SessionsFor(t) :
         /\ registry' = [registry EXCEPT ![t] = s]
         /\ flag' = [flag EXCEPT ![s] = TRUE]
         /\ txn' = [txn EXCEPT ![s] = IF @ = "none" THEN "active" ELSE @]
         /\ stack' = [stack EXCEPT ![t] =
                        Append(@, [sess |-> s, nested |-> Flagged(t, s),
                                   joined |-> txn[s] # "none"])]
         /\ IF stack[t] = <<>>
            THEN /\ work' = [work EXCEPT ![t] = pending[s]]
                 /\ taint' = [taint EXCEPT ![t] = {}]
                 /\ result' = [result EXCEPT ![t] = "none"]
            ELSE UNCHANGED <<work, taint, result>>
    /\ pc' = [pc EXCEPT ![t] = "body"]
    /\ UNCHANGED <<pending, db>>

\* Mutants: a call that joins a transaction never commits; every call commits.
CommitsIfBegan(f) == ~f.joined
CommitsAlways(f) == TRUE

\* Whether the wrapper of a call commits when the body returns.
Commits(f) == ~(f.joined /\ f.nested)

\* The body of a nested call returns: no commit.  The finally clause removes
\* the session if the transaction is already over.
ReturnNested(t) ==
    /\ pc[t] = "body"
    /\ ~Commits(Top(t))
    /\ IF txn[Top(t).sess] = "none" THEN Settle(t, Top(t).sess)
       ELSE UNCHANGED <<txn, pending, registry>>
    /\ LeaveOk(t)
    /\ UNCHANGED <<flag, db, work>>

\* The body of the outermost call returns and its transaction commits.
ReturnCommit(t) ==
    /\ pc[t] = "body"
    /\ Commits(Top(t))
    /\ txn[Top(t).sess] = "active"
    /\ db' = db \cup pending[Top(t).sess]
    /\ Settle(t, Top(t).sess)
    /\ LeaveOk(t)
    /\ UNCHANGED <<flag, work>>

\* The body returns although the transaction is over or broken.  The exit of
\* "with session.begin()" then closes the session silently; the explicit
\* commit() does nothing without a transaction and raises on a broken one.
ReturnInactive(t) ==
    /\ pc[t] = "body"
    /\ Commits(Top(t))
    /\ txn[Top(t).sess] # "active"
    /\ Settle(t, Top(t).sess)
    /\ IF Top(t).joined /\ txn[Top(t).sess] = "deactive"
       THEN LeaveError(t, {}) ELSE LeaveOk(t)
    /\ UNCHANGED <<flag, db, work>>

\* The database rejects the commit.
CommitRejected(t) ==
    /\ pc[t] = "body"
    /\ Commits(Top(t))
    /\ txn[Top(t).sess] = "active"
    /\ Settle(t, Top(t).sess)
    /\ LeaveError(t, {})
    /\ UNCHANGED <<flag, db, work>>

\* The database applies the commit and its answer never comes.
CommitAckLost(t) ==
    /\ "lost_ack" \in Faults
    /\ pc[t] = "body"
    /\ Commits(Top(t))
    /\ txn[Top(t).sess] = "active"
    /\ db' = db \cup pending[Top(t).sess]
    /\ Settle(t, Top(t).sess)
    /\ LeaveError(t, {"lost_ack"})
    /\ UNCHANGED <<flag, work>>

\* The body raised (or the task was cancelled): roll back, close, remove.
ExitRaise(t) ==
    /\ pc[t] = "raising"
    /\ Settle(t, Top(t).sess)
    /\ LeaveError(t, {})
    /\ UNCHANGED <<flag, db, work>>

-----------------------------------------------------------------------------
\* The body, and code that uses an adapter outside any atomic call

\* The body raises an error of its own.
Raise(t) == /\ pc[t] = "body"
            /\ pc' = [pc EXCEPT ![t] = "raising"]
            /\ UNCHANGED <<registry, flag, txn, pending, stack, db, work, taint, result>>

\* An operation of an adapter through the session of the scope: create() adds
\* and flushes one row, bulk_create() several, a read none.  Outside an atomic
\* call the session begins a transaction that nothing commits.
Write(t, rows) ==
    /\ pc[t] # "raising"
    /\ rows \cap db = {}
    /\ \A s \in Sessions : rows \cap pending[s] = {}
    /\ \A u \in Scopes : rows \cap work[u] = {}
    /\ \E s \in SessionsFor(t) :
         /\ txn[s] # "deactive"
         /\ registry' = [registry EXCEPT ![t] = s]
         /\ flag' = [flag EXCEPT ![s] = Flagged(t, s)]
         /\ txn' = [txn EXCEPT ![s] = "active"]
         /\ pending' = [pending EXCEPT ![s] = @ \cup rows]
    /\ IF pc[t] = "body"
       THEN work' = [work EXCEPT ![t] = @ \cup rows] /\ UNCHANGED result
       ELSE work' = [work EXCEPT ![t] = {}] /\ result' = [result EXCEPT ![t] = "none"]
    /\ UNCHANGED <<stack, pc, db, taint>>

\* The flush fails: SQLAlchemy rolls the transaction back and refuses further
\* work on it; a session whose flush already failed raises at once.
WriteFails(t) ==
    /\ pc[t] # "raising"
    /\ \E s \in SessionsFor(t) :
         /\ registry' = [registry EXCEPT ![t] = s]
         /\ flag' = [flag EXCEPT ![s] = Flagged(t, s)]
         /\ txn' = [txn EXCEPT ![s] = "deactive"]
         /\ pending' = [pending EXCEPT ![s] = {}]
    /\ IF pc[t] = "body" THEN Throw(t, {}) /\ UNCHANGED <<work, result>>
       ELSE /\ work' = [work EXCEPT ![t] = {}]
            /\ result' = [result EXCEPT ![t] = "none"]
            /\ UNCHANGED <<pc, taint>>
    /\ UNCHANGED <<stack, db>>

Next == \E t \in Scopes :
          \/ Enter(t) \/ ReturnNested(t) \/ ReturnCommit(t) \/ ReturnInactive(t)
          \/ CommitRejected(t) \/ CommitAckLost(t) \/ ExitRaise(t) \/ Raise(t)
          \/ WriteFails(t)
          \/ \E rows \in SUBSET Writes : Write(t, rows)

Spec == Init /\ [][Next]_vars

-----------------------------------------------------------------------------
\* Properties

\* "If the function succeeds, the transaction is committed": a block whose
\* bodies let every error pass and which returned has all its rows committed.
CommitOnSuccess ==
    \A t \in Scopes : result[t] = "ok" /\ taint[t] = {} => work[t] \subseteq db

\* "otherwise, it is rolled back": while such a block runs, and after it
\* raised, none of its rows is committed (unless the database lost the answer
\* to a commit it applied).
NothingBeforeCommit ==
    \A t \in Scopes : (stack[t] # <<>> \/ result[t] = "error") /\ taint[t] = {}
                         => work[t] \cap db = {}

\* A block is atomic: what it wrote, nested calls included, becomes durable with
\* its return and not before, or not at all.
AllOrNothing == CommitOnSuccess /\ NothingBeforeCommit

\* Whatever the bodies did, when an outermost call is over the registry holds
\* no session for its scope, so the next block cannot meet leftover state.
SessionsReleased ==
    \A t \in Scopes : result[t] # "none" => registry[t] = NoSession

\* Sessions are never abandoned in a transaction: one that the registry does
\* not hold has nothing pending and holds no connection.
NoAbandonedTransaction ==
    \A s \in Sessions : (\A t \in Scopes : registry[t] # s)
                           => pending[s] = {} /\ txn[s] # "active"

\* Scopes never share a session, neither through the registry nor through the
\* calls that are under way.
SessionIsolation ==
    \A t, u \in Scopes : t # u =>
        /\ registry[t] = registry[u] => registry[t] = NoSession
        /\ \A i \in DOMAIN stack[t] :
             /\ stack[t][i].sess # registry[u]
             /\ \A j \in DOMAIN stack[u] : stack[t][i].sess # stack[u][j].sess

\* Nested atomic calls reuse the open session, and only the outermost one
\* owns the transaction.
NestedReuse ==
    \A t \in Scopes : taint[t] = {} =>
        \A i \in DOMAIN stack[t] :
            /\ stack[t][i].sess = stack[t][1].sess
            /\ Commits(stack[t][i]) <=> i = 1

\* A session serves the calls of one scope and all of them, and when the
\* outermost one is over nothing of it is left behind.
SessionDiscipline ==
    SessionIsolation /\ NestedReuse /\ SessionsReleased /\ NoAbandonedTransaction

\* The promise of the decorator's documentation without the condition on the
\* bodies.
CommitOnSuccessAlways ==
    \A t \in Scopes : result[t] = "ok" => work[t] \subseteq db

\* The abstract block: what is pending in the scope's session is its buffer.
Block == INSTANCE AtomicBlock WITH
    buffer <- [t \in Scopes |-> IF registry[t] = NoSession THEN {} ELSE pending[registry[t]]],
    mode <- [t \in Scopes |-> IF stack[t] = <<>> THEN "idle" ELSE "open"],
    doomed <- [t \in Scopes |-> \/ pc[t] = "raising"
                                \/ registry[t] # NoSession /\ txn[registry[t]] = "deactive"]

\* Without faults the wrapper implements the abstract block: all the rows of
\* an outermost call, nested calls included, are committed by one step.
ImplementsBlock == Block!Spec
=============================================================================

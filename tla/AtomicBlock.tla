---------------------------- MODULE AtomicBlock ----------------------------
(***************************************************************************)
(* What an atomic block promises, as the documentation of                  *)
(* sqlalchemy_atomic_decorator states it: the writes a function issues     *)
(* while it runs in the block become durable together when the function    *)
(* succeeds, and none of them does when it raises.  Nested blocks, the     *)
(* session registry and the transaction states of SQLAlchemy are invisible *)
(* here; AtomicTransaction implements this module as long as the body does *)
(* not swallow an exception.                                               *)
(***************************************************************************)
EXTENDS Naturals

CONSTANTS Scopes,   \* threads, or asyncio tasks: each has its own session
          Writes    \* rows that a body may write

VARIABLES db,       \* the rows that are durable
          buffer,   \* per scope: the rows written and not yet durable
          mode,     \* per scope: "idle" outside a block, "open" inside one
          doomed,   \* per scope: an error was raised, only an abort may follow
          result    \* per scope: how the last block ended

vars == <<db, buffer, mode, doomed, result>>

Init == /\ db = {}
        /\ buffer = [t \in Scopes |-> {}]
        /\ mode = [t \in Scopes |-> "idle"]
        /\ doomed = [t \in Scopes |-> FALSE]
        /\ result = [t \in Scopes |-> "none"]

\* The outermost block is entered; what was written before it joins it.
Open(t) == /\ mode[t] = "idle"
           /\ mode' = [mode EXCEPT ![t] = "open"]
           /\ result' = [result EXCEPT ![t] = "none"]
           /\ UNCHANGED <<db, buffer, doomed>>

\* Rows are written through the scope's session, inside a block or before one.
Issue(t, rows) == /\ ~doomed[t]
                  /\ rows \cap db = {}
                  /\ \A u \in Scopes : rows \cap buffer[u] = {}
                  /\ buffer' = [buffer EXCEPT ![t] = @ \cup rows]
                  /\ \/ result' = result
                     \/ mode[t] = "idle" /\ result' = [result EXCEPT ![t] = "none"]
                  /\ UNCHANGED <<db, mode, doomed>>

\* Something raised: what was written is given up.
Doom(t) == /\ doomed' = [doomed EXCEPT ![t] = TRUE]
           /\ \E kept \in {buffer[t], {}} : buffer' = [buffer EXCEPT ![t] = kept]
           /\ \/ result' = result
              \/ mode[t] = "idle" /\ result' = [result EXCEPT ![t] = "none"]
           /\ UNCHANGED <<db, mode>>

\* The function succeeded: everything it wrote becomes durable at once.
Commit(t) == /\ mode[t] = "open"
             /\ ~doomed[t]
             /\ db' = db \cup buffer[t]
             /\ buffer' = [buffer EXCEPT ![t] = {}]
             /\ mode' = [mode EXCEPT ![t] = "idle"]
             /\ result' = [result EXCEPT ![t] = "ok"]
             /\ UNCHANGED doomed

\* The function, or the commit, failed: nothing of the block is kept.
Abort(t) == /\ mode[t] = "open"
            /\ buffer' = [buffer EXCEPT ![t] = {}]
            /\ mode' = [mode EXCEPT ![t] = "idle"]
            /\ doomed' = [doomed EXCEPT ![t] = FALSE]
            /\ result' = [result EXCEPT ![t] = "error"]
            /\ UNCHANGED db

Next == \E t \in Scopes : \/ Open(t) \/ Doom(t) \/ Commit(t) \/ Abort(t)
                          \/ \E rows \in SUBSET Writes : Issue(t, rows)

Spec == Init /\ [][Next]_vars
=============================================================================

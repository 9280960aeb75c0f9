----------------------------- MODULE EmailPool -----------------------------
(***************************************************************************)
(* EmailAdapter.send_email() over its pool of SMTP connections.            *)
(*                                                                         *)
(* Threads send mails.  A call takes a connection manager from a blocking  *)
(* queue of fixed size, refreshes it if it is unconnected or old, tries to *)
(* send MAX_RETRIES times, reconnecting after every failure, and puts the  *)
(* manager back in a finally clause.  A call whose tries are used up       *)
(* returns like one that sent its mail.                                    *)
(*                                                                         *)
(* The SMTP server is external: a connection may fail to open, may break   *)
(* before a mail is accepted, and may break after it was accepted.  What   *)
(* smtplib raises then is an SMTPException or an OSError, which the code   *)
(* swallows, or another exception, which it does not.                      *)
(***************************************************************************)
EXTENDS Naturals, Sequences, FiniteSets

CONSTANTS Mails,        \* calls of send_email(), one per mail
          Managers,     \* the EmailConnectionManager objects: POOL_SIZE of them
          NoManager,    \* a call holds none
          MaxRetries,   \* MAX_RETRIES
          Servers       \* servers met: "none", SMTP_SERVER is not set; "usual",
                        \* connections fail with what connect() catches; "any",
                        \* they may fail with another exception

ASSUME ConstantsAssumption == /\ Managers # {}
                              /\ NoManager \notin Managers
                              /\ IsFiniteSet(Managers)
                              /\ MaxRetries \in Nat \ {0}
                              /\ Servers \subseteq {"none", "usual", "any"}

VARIABLES server,     \* one of Servers, fixed
          pool,       \* the queue of idle managers
          open,       \* manager -> smtp_connection is not None
          old,        \* manager -> last_used is more than 300 s ago
          pc,         \* mail -> "new", "refresh", "send", "reconnect",
                      \* "return" or "done"
          conn,       \* mail -> the manager its call holds
          tries,      \* mail -> loop iterations begun
          outcome,    \* mail -> "none", "sent", "gave_up", "raised" or "dropped"
          accepted,   \* history: mail -> times the server accepted it so far
          failures,   \* history: mail -> failures its call met so far
          unheard,    \* history: mail -> acceptances whose answer was lost
          lost        \* history: managers whose get_connection() raised

history == <<accepted, failures, unheard>>
vars == <<server, pool, open, old, pc, conn, tries, outcome, history, lost>>

TypeOK == /\ server \in Servers
          /\ pool \in Seq(Managers)
          /\ Len(pool) <= Cardinality(Managers)
          /\ open \in [Managers -> BOOLEAN]
          /\ old \in [Managers -> BOOLEAN]
          /\ pc \in [Mails -> {"new", "refresh", "send", "reconnect", "return", "done"}]
          /\ conn \in [Mails -> Managers \cup {NoManager}]
          /\ tries \in [Mails -> 0..MaxRetries]
          /\ outcome \in [Mails -> {"none", "sent", "gave_up", "raised", "dropped"}]
          /\ accepted \in [Mails -> 0..MaxRetries]
          /\ failures \in [Mails -> 0..(2 * MaxRetries + 1)]
          /\ unheard \in [Mails -> 0..MaxRetries]
          /\ lost \subseteq Managers

\* _initialize_pool(): every manager is idle and not connected.
Init == /\ server \in Servers
        /\ pool \in {q \in [1..Cardinality(Managers) -> Managers] :
                        \A i, j \in DOMAIN q : q[i] = q[j] => i = j}
        /\ open = [c \in Managers |-> FALSE]
        /\ old = [c \in Managers |-> FALSE]
        /\ pc = [m \in Mails |-> "new"]
        /\ conn = [m \in Mails |-> NoManager]
        /\ tries = [m \in Mails |-> 0]
        /\ outcome = [m \in Mails |-> "none"]
        /\ accepted = [m \in Mails |-> 0]
        /\ failures = [m \in Mails |-> 0]
        /\ unheard = [m \in Mails |-> 0]
        /\ lost = {}

-----------------------------------------------------------------------------
\* EmailConnectionManager

Fail(m) == failures' = [failures EXCEPT ![m] = @ + 1]

\* connect() returns: the failure that it swallows leaves the manager unconnected.
Connect(m, c) ==
    \/ /\ open' = [open EXCEPT ![c] = TRUE]
       /\ UNCHANGED failures
    \/ /\ open' = [open EXCEPT ![c] = FALSE]
       /\ Fail(m)

-----------------------------------------------------------------------------
\* EmailConnectionPool

\* The call ends, and what it counted is gone with it.
Over(m) == /\ pc' = [pc EXCEPT ![m] = "done"]
           /\ conn' = [conn EXCEPT ![m] = NoManager]
           /\ tries' = [tries EXCEPT ![m] = 0]
           /\ outcome' = [outcome EXCEPT ![m] = "none"]
           /\ accepted' = [accepted EXCEPT ![m] = 0]
           /\ failures' = [failures EXCEPT ![m] = 0]
           /\ unheard' = [unheard EXCEPT ![m] = 0]

\* get_connection(), first half: pool.get() blocks while the queue is empty.
Take(m) == /\ pc[m] = "new"
           /\ pool # <<>>
           /\ pool' = Tail(pool)
           /\ conn' = [conn EXCEPT ![m] = Head(pool)]
           /\ pc' = [pc EXCEPT ![m] = "refresh"]
           /\ UNCHANGED <<server, lost, open, old, tries, outcome, history>>

\* The loop of send_email() after n iterations: another one, or none is left.
\* Mutants: one iteration too few, one too many.
LoopShort(m, n) == IF n + 1 < MaxRetries
                   THEN pc' = [pc EXCEPT ![m] = "send"] /\ UNCHANGED outcome
                   ELSE /\ pc' = [pc EXCEPT ![m] = "return"]
                        /\ outcome' = [outcome EXCEPT ![m] = "gave_up"]
LoopLong(m, n) == IF n <= MaxRetries
                  THEN pc' = [pc EXCEPT ![m] = "send"] /\ UNCHANGED outcome
                  ELSE /\ pc' = [pc EXCEPT ![m] = "return"]
                       /\ outcome' = [outcome EXCEPT ![m] = "gave_up"]
Loop(m, n) == IF n < MaxRetries
              THEN pc' = [pc EXCEPT ![m] = "send"] /\ UNCHANGED outcome
              ELSE /\ pc' = [pc EXCEPT ![m] = "return"]
                   /\ outcome' = [outcome EXCEPT ![m] = "gave_up"]

\* get_connection(), second half: refresh_if_needed(), then the message is
\* made.  A manager that is connected and not old is used as it is.
Refresh(m) ==
    /\ pc[m] = "refresh"
    /\ LET c == conn[m] IN
         IF open[c] /\ ~old[c] THEN UNCHANGED <<open, failures>>
                               ELSE server # "none" /\ Connect(m, c)
    /\ old' = [old EXCEPT ![conn[m]] = FALSE]
    /\ Loop(m, tries[m])
    /\ UNCHANGED <<server, lost, pool, conn, tries, accepted, unheard>>

\* connect() raises InvalidArgumentError when no server is configured, and lets
\* through what SMTP(), starttls(), login() or the quit() before them raise and it
\* does not catch.  The call has not been given the manager yet, so nothing puts it
\* back; what is left of its connection goes with it.
RefreshRaises(m) ==
    /\ pc[m] = "refresh"
    /\ server # "usual"
    /\ ~open[conn[m]] \/ old[conn[m]]
    /\ open' = [open EXCEPT ![conn[m]] = FALSE]
    /\ old' = [old EXCEPT ![conn[m]] = FALSE]
    /\ lost' = lost \cup {conn[m]}
    /\ Over(m)
    /\ UNCHANGED <<server, pool>>

\* _create_message() raises: an attachment is too large or has no type.  An
\* OSError of a file that is read only now is swallowed like one of the server.
MessageRaises(m) ==
    /\ pc[m] = "send"
    /\ tries[m] = 0
    /\ pc' = [pc EXCEPT ![m] = "return"]
    /\ \E o \in {"raised", "dropped"} : outcome' = [outcome EXCEPT ![m] = o]
    /\ UNCHANGED <<server, lost, pool, open, old, conn, tries, history>>

-----------------------------------------------------------------------------
\* EmailAdapter.send_email(): one iteration of the loop

Try(m) == /\ pc[m] = "send"
          /\ tries' = [tries EXCEPT ![m] = @ + 1]

\* Mutant: the loop goes on after a mail was sent.
SendNoReturn(m) ==
    /\ Try(m)
    /\ open[conn[m]]
    /\ accepted' = [accepted EXCEPT ![m] = @ + 1]
    /\ IF tries[m] + 1 < MaxRetries
       THEN UNCHANGED <<pc, outcome>>
       ELSE /\ pc' = [pc EXCEPT ![m] = "return"]
            /\ outcome' = [outcome EXCEPT ![m] = "sent"]
    /\ UNCHANGED <<server, lost, pool, open, old, conn, failures, unheard>>
\* send_message() succeeds.
Send(m) ==
    /\ Try(m)
    /\ open[conn[m]]
    /\ accepted' = [accepted EXCEPT ![m] = @ + 1]
    /\ pc' = [pc EXCEPT ![m] = "return"]
    /\ outcome' = [outcome EXCEPT ![m] = "sent"]
    /\ UNCHANGED <<server, lost, pool, open, old, conn, failures, unheard>>

\* send_message() raises, before or after the server accepted the mail.
SendFails(m) ==
    /\ Try(m)
    /\ open[conn[m]]
    /\ \E n \in {0, 1} : /\ accepted' = [accepted EXCEPT ![m] = @ + n]
                         /\ unheard' = [unheard EXCEPT ![m] = @ + n]
    /\ Fail(m)
    /\ pc' = [pc EXCEPT ![m] = "reconnect"]
    /\ UNCHANGED <<server, lost, pool, open, old, conn, outcome>>

\* The except clause connects anew.
Reconnect(m) ==
    /\ pc[m] = "reconnect"
    /\ Connect(m, conn[m])
    /\ Loop(m, tries[m])
    /\ UNCHANGED <<server, lost, pool, old, conn, tries, accepted, unheard>>

\* The manager is not connected: this iteration connects and does not send.
ConnectInstead(m) ==
    /\ Try(m)
    /\ ~open[conn[m]]
    /\ Connect(m, conn[m])
    /\ Loop(m, tries[m] + 1)
    /\ UNCHANGED <<server, lost, pool, old, conn, accepted, unheard>>

\* What neither the loop nor send_email() catches ends the call; the manager is in
\* the call's hands by now, and the finally clause puts it back.
Raises(m) == /\ pc' = [pc EXCEPT ![m] = "return"]
             /\ outcome' = [outcome EXCEPT ![m] = "raised"]
             /\ UNCHANGED <<server, lost, pool, old, conn, history>>

\* send_message() raises it: the message cannot be encoded.
SendRaises(m) == Try(m) /\ open[conn[m]] /\ Raises(m) /\ UNCHANGED open

\* connect() raises it, in place of sending or in the except clause: the connection
\* it replaces stays, or the new one does, without encryption or login.
ConnectRaises(m) ==
    /\ server = "any"
    /\ \/ Try(m) /\ ~open[conn[m]]
       \/ pc[m] = "reconnect" /\ UNCHANGED tries
    /\ \E now \in {open[conn[m]], TRUE} : open' = [open EXCEPT ![conn[m]] = now]
    /\ Raises(m)

\* Mutant: the manager goes back only if the mail was sent.
ReturnIfSent(m) ==
    /\ pc[m] = "return"
    /\ IF outcome[m] = "sent" THEN pool' = Append(pool, conn[m]) ELSE UNCHANGED pool
    /\ old' = [old EXCEPT ![conn[m]] = FALSE]
    /\ Over(m)
    /\ UNCHANGED <<server, lost, open>>
\* finally: return_connection() marks the manager as just used.
Return(m) ==
    /\ pc[m] = "return"
    /\ pool' = Append(pool, conn[m])
    /\ old' = [old EXCEPT ![conn[m]] = FALSE]
    /\ Over(m)
    /\ UNCHANGED <<server, lost, open>>

\* Five minutes pass while a manager is idle.
Age(c) == /\ ~old[c]
          /\ open[c]
          /\ \A m \in Mails : conn[m] # c
          /\ old' = [old EXCEPT ![c] = TRUE]
          /\ UNCHANGED <<server, lost, pool, open, pc, conn, tries, outcome, history>>

Step(m) == \/ Take(m) \/ Refresh(m) \/ RefreshRaises(m) \/ MessageRaises(m)
           \/ Send(m) \/ SendFails(m) \/ Reconnect(m) \/ ConnectInstead(m)
           \/ SendRaises(m) \/ ConnectRaises(m) \/ Return(m)

Next == \/ \E m \in Mails : Step(m)
        \/ \E c \in Managers : Age(c)

\* A thread that can go on does; Queue.get() wakes a thread that waits.
Fairness == \A m \in Mails : WF_vars(Step(m))

Spec == Init /\ [][Next]_vars /\ Fairness

-----------------------------------------------------------------------------
\* Properties

Idle == {pool[i] : i \in DOMAIN pool}

\* No manager is handed out twice or forgotten, whatever fails: it is in the pool
\* once, or held by one call, or its get_connection() raised.  That happens only
\* without a server, or when a connection fails with an exception that connect() does
\* not catch.
PoolConserved ==
    /\ Len(pool) = Cardinality(Idle)
    /\ Idle \cap lost = {}
    /\ \A c \in Managers :
         Cardinality({m \in Mails : conn[m] = c}) = (IF c \in Idle \cup lost THEN 0 ELSE 1)
    /\ server = "usual" => lost = {}

\* Every call ends, also while more threads send than there are connections, unless
\* the last connection is lost: whoever holds a manager puts it back.
SendEnds(m) == pc[m] = "new" ~> pc[m] = "done" \/ lost = Managers

\* "Ensuring reliable delivery": a call gives its mail up only after as many
\* failures as it has tries (an iteration that reconnects instead of sending is
\* always paid for by a failed connection before it), and a mail is sent again
\* only when the answer to an earlier acceptance was lost.
TriesJustified ==
    \A m \in Mails :
        /\ outcome[m] = "gave_up" => failures[m] >= MaxRetries
        /\ accepted[m] <= unheard[m] + 1
        /\ outcome[m] = "sent" => accepted[m] = unheard[m] + 1
=============================================================================

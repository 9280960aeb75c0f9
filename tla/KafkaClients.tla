---------------------------- MODULE KafkaClients ----------------------------
(***************************************************************************)
(* The client object of a Kafka adapter, which its callers share.          *)
(*                                                                         *)
(* The async adapters make their client on the first call, and the         *)
(* consumer also subscribes it, an await: other tasks find the client in   *)
(* _adapter before it is subscribed.  close() awaits the client's close()  *)
(* and then forgets it; the next call makes another one.  The sync         *)
(* adapters make their client in the constructor and keep it; the close()  *)
(* of the sync producer only flushes.                                      *)
(*                                                                         *)
(* A step is what a task does between two awaits; a thread makes one call  *)
(* of the client per step.  The clients and the broker are external.       *)
(***************************************************************************)
EXTENDS Naturals, Sequences

CONSTANTS Tasks,       \* tasks of an async adapter, threads of a sync one
          None,
          Messages,    \* what is produced
          MaxClients   \* bound: clients made

VARIABLES kind,        \* the adapter, fixed
          clients,     \* the client objects made so far
          adapter,     \* _adapter, an index of clients
          stage,       \* task -> "idle", "subscribing", "using", "closing", "closed"
          operation,   \* task -> what it was called for
          held,        \* task -> the client its call works with
          place,       \* message -> None, the client it waits in, or Out
          due,         \* history: task -> messages accepted before its close() began
          failed,      \* history: clients whose subscription did not come about
          twice        \* history: two calls of close() overlapped

history == <<due, failed, twice>>
vars == <<kind, clients, adapter, stage, operation, held, place, history>>

Consumers == {"consumer", "async_consumer"}
Producers == {"producer", "async_producer"}
Async == kind \in {"async_consumer", "async_producer"}
Ids == DOMAIN clients
Out == 0  \* a message that is delivered or given up

TypeOK ==
    /\ kind \in Consumers \cup Producers
    /\ clients \in Seq([open : BOOLEAN, subscribed : BOOLEAN]) /\ Len(clients) <= MaxClients
    /\ adapter \in Ids \cup {None}
    /\ stage \in [Tasks -> {"idle", "subscribing", "using", "closing", "closed"}]
    /\ operation \in [Tasks -> {"none", "consume", "subscribe", "produce", "flush", "ask", "close"}]
    /\ held \in [Tasks -> Ids \cup {None}]
    /\ place \in [Messages -> Ids \cup {None, Out}]
    /\ due \in [Tasks -> SUBSET Messages] /\ failed \subseteq Ids /\ twice \in BOOLEAN

\* The constructors.  A sync consumer that cannot subscribe does not come about.
Init == /\ kind \in Consumers \cup Producers
        /\ clients = IF Async THEN << >>
                     ELSE <<[open |-> TRUE, subscribed |-> kind \in Consumers]>>
        /\ adapter = IF Async THEN None ELSE 1
        /\ stage = [p \in Tasks |-> "idle"]
        /\ operation = [p \in Tasks |-> "none"]
        /\ held = [p \in Tasks |-> None]
        /\ place = [m \in Messages |-> None]
        /\ due = [p \in Tasks |-> {}]
        /\ failed = {}
        /\ twice = FALSE

\* The operations of the adapters besides close(), and what the client is called for;
\* to "ask" the broker changes nothing here.
ConsumerOperations == [batch_consume |-> "consume", poll |-> "consume", commit |-> "consume",
                       subscribe |-> "subscribe", assign |-> "subscribe"]
AsyncConsumerOperations == ConsumerOperations
ProducerOperations == [produce |-> "produce", flush |-> "flush",
                       validate_healthiness |-> "ask", list_topics |-> "ask"]
AsyncProducerOperations == ProducerOperations

Operations ==
    LET offered == CASE kind = "consumer" -> ConsumerOperations
                     [] kind = "async_consumer" -> AsyncConsumerOperations
                     [] kind = "producer" -> ProducerOperations
                     [] kind = "async_producer" -> AsyncProducerOperations
    IN  {offered[o] : o \in DOMAIN offered}

Call(p, s, o, c) == /\ stage' = [stage EXCEPT ![p] = s]
                    /\ operation' = [operation EXCEPT ![p] = o]
                    /\ held' = [held EXCEPT ![p] = c]

End(p) == Call(p, "idle", "none", None)

-----------------------------------------------------------------------------
\* _get_adapter()

\* A client of the adapter is there.
Find(p) ==
    /\ stage[p] = "idle" /\ adapter # None
    /\ \E o \in Operations : Call(p, "using", o, adapter)
    /\ UNCHANGED <<kind, clients, adapter, place, history>>

MakeClient == /\ adapter = None /\ Len(clients) < MaxClients
              /\ clients' = Append(clients, [open |-> TRUE, subscribed |-> FALSE])

\* Mutant: the client is shown to the others only when it is subscribed.
MakeHidden(p) ==
    /\ stage[p] = "idle" /\ MakeClient
    /\ \E o \in Operations :
         Call(p, IF kind = "async_consumer" THEN "subscribing" ELSE "using", o, Len(clients'))
    /\ adapter' = IF kind = "async_consumer" THEN None ELSE Len(clients')
    /\ UNCHANGED <<kind, place, history>>
\* Mutant: the client is not subscribed.
MakeOnly(p) ==
    /\ stage[p] = "idle" /\ MakeClient
    /\ adapter' = Len(clients')
    /\ \E o \in Operations : Call(p, "using", o, adapter')
    /\ UNCHANGED <<kind, place, history>>
\* There is none: one is made, and the consumer goes on to subscribe it.  Where
\* making it fails nothing has happened.
Make(p) ==
    /\ stage[p] = "idle" /\ MakeClient
    /\ adapter' = Len(clients')
    /\ \E o \in Operations :
         Call(p, IF kind = "async_consumer" THEN "subscribing" ELSE "using", o, adapter')
    /\ UNCHANGED <<kind, place, history>>

\* "return self._adapter" reads the attribute again, which may be None by now.
Subscribed(p) ==
    /\ stage[p] = "subscribing" /\ clients[held[p]].open
    /\ clients' = [clients EXCEPT ![held[p]].subscribed = TRUE]
    /\ IF adapter = None THEN End(p) ELSE Call(p, "using", operation[p], adapter)
    /\ UNCHANGED <<kind, adapter, place, history>>

\* subscribe() or assign() raises or is cancelled: the client stays.
SubscriptionFails(p) ==
    /\ stage[p] = "subscribing"
    /\ failed' = failed \cup {held[p]}
    /\ End(p)
    /\ UNCHANGED <<kind, clients, adapter, place, due, twice>>

-----------------------------------------------------------------------------
\* The call of the client

\* What has been accepted by a client and waits in it.
Waiting(c) == {m \in Messages : place[m] = c}

Consume(p) ==
    /\ stage[p] = "using" /\ operation[p] \in {"consume", "ask"}
    /\ End(p)
    /\ UNCHANGED <<kind, clients, adapter, place, history>>

Resubscribe(p) ==
    /\ stage[p] = "using" /\ operation[p] = "subscribe" /\ clients[held[p]].open
    /\ clients' = [clients EXCEPT ![held[p]].subscribed = TRUE]
    /\ End(p)
    /\ UNCHANGED <<kind, adapter, place, history>>

\* The client takes the message; nobody waits for its delivery.
Produce(p) ==
    /\ stage[p] = "using" /\ operation[p] = "produce" /\ clients[held[p]].open
    /\ \E m \in Messages : place[m] = None /\ place' = [place EXCEPT ![m] = held[p]]
    /\ End(p)
    /\ UNCHANGED <<kind, clients, adapter, history>>

\* A flush() without a timeout, which the sync producer has, is over when
\* nothing waits; one with a timeout returns whatever is left, with a warning.
Flush(p) ==
    /\ stage[p] = "using" /\ operation[p] = "flush"
    /\ Waiting(held[p]) = {} \/ kind = "producer"
    /\ End(p)
    /\ UNCHANGED <<kind, clients, adapter, place, history>>

\* The client raises, because its queue is full or it was closed, or the task is
\* cancelled; its close() may have come about nevertheless.
Fails(p) ==
    /\ stage[p] \in {"using", "closing"}
    /\ End(p)
    /\ \/ UNCHANGED clients
       \/ /\ stage[p] = "closing" /\ kind # "producer"
          /\ clients' = [clients EXCEPT ![held[p]].open = FALSE]
    /\ due' = [due EXCEPT ![p] = {}]
    /\ UNCHANGED <<kind, adapter, place, failed, twice>>

\* A message is delivered, or its delivery is given up, which is only logged.
Deliver(m) ==
    /\ place[m] \in Ids
    /\ place' = [place EXCEPT ![m] = Out]
    /\ UNCHANGED <<kind, clients, adapter, stage, operation, held, history>>

-----------------------------------------------------------------------------
\* close()

Accepted == {m \in Messages : place[m] # None}

\* Without a client there is nothing to close.
Close(p) ==
    /\ stage[p] = "idle"
    /\ Call(p, IF adapter = None THEN "closed" ELSE "closing", "close", adapter)
    /\ due' = [due EXCEPT ![p] = Accepted]
    /\ twice' = (twice \/ \E q \in Tasks : stage[q] = "closing")
    /\ UNCHANGED <<kind, clients, adapter, place, failed>>

\* Mutant: the client is forgotten and left as it is.
CloseForgets(p) ==
    /\ stage[p] = "closing"
    /\ adapter' = IF Async THEN None ELSE adapter
    /\ Call(p, "closed", "close", None)
    /\ UNCHANGED <<kind, clients, place, history>>
\* The client has sent what waited in it and is closed; then _adapter is forgotten,
\* whatever it refers to by now.
CloseEnds(p) ==
    /\ stage[p] = "closing"
    /\ Waiting(held[p]) = {}
    /\ clients' = [clients EXCEPT ![held[p]].open = (kind = "producer")]
    /\ adapter' = IF Async THEN None ELSE adapter
    /\ Call(p, "closed", "close", None)
    /\ UNCHANGED <<kind, place, history>>

Closed(p) ==
    /\ stage[p] = "closed"
    /\ End(p)
    /\ due' = [due EXCEPT ![p] = {}]
    /\ UNCHANGED <<kind, clients, adapter, place, failed, twice>>

\* The client raises for certain: it was closed, or its queue is full, which here
\* means that every message is used.
Refused(p) ==
    \/ SubscriptionFails(p) /\ ~clients[held[p]].open
    \/ /\ operation[p] \in {"subscribe", "produce"}
       /\ \/ ~clients[held[p]].open
          \/ operation[p] = "produce" /\ \A m \in Messages : place[m] # None
       /\ Fails(p)

\* What a call that is under way does next, if nothing interferes.
Proceed(p) == \/ Subscribed(p) \/ Consume(p) \/ Resubscribe(p) \/ Produce(p) \/ Flush(p)
              \/ CloseEnds(p) \/ Closed(p) \/ Refused(p)

Next == \/ \E p \in Tasks : \/ Find(p) \/ Make(p) \/ Close(p)
                            \/ Proceed(p) \/ SubscriptionFails(p) \/ Fails(p)
        \/ \E m \in Messages : Deliver(m)

\* A task or thread that can go on does, and the client delivers what it accepted
\* or gives it up.  Nobody has to call anything, and nothing has to fail.
Fairness == /\ \A p \in Tasks : WF_vars(Proceed(p))
            /\ \A m \in Messages : WF_vars(Deliver(m))

Spec == Init /\ [][Next]_vars /\ Fairness

-----------------------------------------------------------------------------
\* Properties

\* Every call ends.  A flush() without a timeout and close() wait for the messages
\* of the client, which are delivered or given up.
CallEnds(p) == stage[p] # "idle" ~> stage[p] = "idle"

\* A client that is open is the one the adapter knows, so that a later close()
\* closes it, whatever is cancelled or fails; or somebody is closing it.  Calls of
\* close() that overlapped are the one exception: the later end forgets the client
\* that was made in between.
ClientsKept ==
    ~twice => \A c \in Ids : clients[c].open =>
                 c = adapter \/ \E p \in Tasks : stage[p] = "closing" /\ held[p] = c

\* A consumer reads from a client without a subscription, and so nothing, only
\* while the task that made the client subscribes it, or for good after that
\* failed: the client is kept, and no later call subscribes it.
ReadsSubscribed ==
    \A p \in Tasks :
        operation[p] = "consume" /\ stage[p] = "using" /\ ~clients[held[p]].subscribed
        => \/ held[p] \in failed
           \/ \E q \in Tasks : stage[q] = "subscribing" /\ held[q] = held[p]

\* "Closes the producer, flushing any remaining messages": when close() returns
\* no message waits that was accepted before it was called, unless calls of close()
\* overlapped, of which one may leave a client with messages behind.
CloseFlushes ==
    ~twice => \A p \in Tasks : stage[p] = "closed" =>
                 \A m \in due[p] : place[m] = Out
=============================================================================

--------------------------- MODULE KeycloakAdmin ---------------------------
(***************************************************************************)
(* The admin client that all operations of a Keycloak adapter share.  The  *)
(* admin_adapter property hands it out and logs in again when its token    *)
(* is about to expire; create_client() sets the realm of its connection    *)
(* and restores it.  Callers are threads for the sync adapter, which       *)
(* interleave anywhere, and tasks for the async one, whose property does   *)
(* not await: they interleave at requests only.                            *)
(*                                                                         *)
(* Admin mode is enabled.  What an operation does is its plan, see         *)
(* KeycloakOperations; the server's side of a request is left out.         *)
(***************************************************************************)
EXTENDS Integers, Sequences, SequencesExt, KeycloakOperations

CONSTANTS Callers,
          None,
          Home,         \* REALM_NAME
          OtherRealms,  \* realms that create_client() is asked to use
          Lifetime,     \* time until a login has to be renewed
          MaxRequests,  \* bound on the requests of an operation
          MaxTime,      \* bound on the clock
          MaxClients    \* bound on the logins

ASSUME ConstantsAssumption == /\ Lifetime \in Nat \ {0} /\ MaxTime \in Nat
                              /\ MaxRequests \in Nat \ {0} /\ MaxClients \in Nat \ {0}
                              /\ Home \notin OtherRealms
                              /\ None \notin OtherRealms \cup {Home} \cup 1..MaxClients

VARIABLES adapter,  \* "sync" or "async"
          login,    \* by "password" of the admin or by "secret" of the client
          now,      \* time.time()
          clients,  \* the KeycloakAdmin objects made so far: realm, when it is due for renewal
          admin,    \* _admin_adapter, an index of clients
          expiry,   \* _admin_token_expiry
          pc,       \* caller -> where it is
          plan,     \* caller -> what its operation has still to do
          target,   \* caller -> parameter realm of create_client(), unless it is the current one
          origin,   \* caller -> original_realm
          new,      \* caller -> the client it is making
          held,     \* caller -> the client the property handed out
          sent,     \* caller -> history: the realms its requests went to
          answer,   \* caller -> history: the realm in create_client()'s result
          since,    \* caller -> history: when it last asked for the client
          moved,    \* caller -> history: the client whose realm it has set
          raced,    \* caller -> history: another caller logged in meanwhile
          crossed,  \* caller -> history: another call changed the realm meanwhile
          mixed,    \* history: the latest logins overlapped
          tangled   \* history: calls that set the realm overlapped

shared == <<now, clients, admin, expiry>>
call == <<plan, target, origin, sent, answer>>
getter == <<new, held, since>>
histories == <<moved, raced, crossed, mixed, tangled>>
vars == <<adapter, login, shared, pc, call, getter, histories>>

RealmNames == {Home} \cup OtherRealms
MaybeRealm == RealmNames \cup {None}
Ids == 1..MaxClients
Plans == {todo \in PlansOf(IF adapter = "sync" THEN Operations ELSE AsyncOperations) :
              Len(SelectSeq(todo, LAMBDA step : step = "request")) <= MaxRequests}

\* A client that logged in as the admin renews its token itself.
TokenEnd == IF login = "secret" THEN now + Lifetime ELSE MaxTime + Lifetime + 1

TypeOK ==
    /\ adapter \in {"sync", "async"} /\ login \in {"password", "secret"}
    /\ now \in 0..MaxTime
    /\ clients \in Seq([realm : RealmNames, end : 0..MaxTime + Lifetime + 1])
    /\ Len(clients) <= MaxClients
    /\ admin \in DOMAIN clients \cup {None}
    /\ expiry \in 0..MaxTime + Lifetime
    /\ pc \in [Callers -> {"idle", "check", "login", "second", "failed", "test", "take",
                           "use", "await"}]
    /\ plan \in [Callers -> Seq({"request", "openid", "uma", "all", "origin", "switch",
                                "answer", "restore"})]
    /\ target \in [Callers -> MaybeRealm] /\ origin \in [Callers -> MaybeRealm]
    /\ new \in [Callers -> Ids \cup {None}] /\ held \in [Callers -> Ids \cup {None}]
    /\ sent \in [Callers -> SUBSET RealmNames] /\ answer \in [Callers -> MaybeRealm]
    /\ since \in [Callers -> 0..MaxTime] /\ moved \in [Callers -> Ids \cup {None}]
    /\ {raced, crossed} \subseteq [Callers -> BOOLEAN] /\ {mixed, tangled} \subseteq BOOLEAN

\* __init__ logs in and raises if it cannot.
Init == /\ adapter \in {"sync", "async"} /\ login \in {"password", "secret"}
        /\ now = 0
        /\ clients = <<[realm |-> Home, end |-> TokenEnd]>>
        /\ admin = 1 /\ expiry = Lifetime
        /\ pc = [p \in Callers |-> "idle"] /\ plan = [p \in Callers |-> << >>]
        /\ target = [p \in Callers |-> None] /\ origin = [p \in Callers |-> None]
        /\ new = [p \in Callers |-> None] /\ held = [p \in Callers |-> None]
        /\ sent = [p \in Callers |-> {}] /\ answer = [p \in Callers |-> None]
        /\ since = [p \in Callers |-> 0] /\ moved = [p \in Callers |-> None]
        /\ raced = [p \in Callers |-> FALSE] /\ crossed = [p \in Callers |-> FALSE]
        /\ mixed = FALSE /\ tangled = FALSE

Others(p) == Callers \ {p}
LoggingIn(q) == pc[q] \in {"login", "second", "failed"}
InGetter(q) == LoggingIn(q) \/ pc[q] \in {"test", "take"}

\* Between original_realm and its restoration.
Switching(q) == Contains(plan[q], "restore") /\ ~ Contains(plan[q], "origin")

\* A task runs until it awaits.
MayRun(p) == adapter = "async" => \A q \in Others(p) : pc[q] \in {"idle", "await"}

Goto(p, step) == pc' = [pc EXCEPT ![p] = step]
Mark(history, Q) == [q \in Callers |-> history[q] \/ q \in Q]
SetRealm(c, r) == clients' = [clients EXCEPT ![c].realm = r]

\* The caller has no further use for the client it was handed.
Drop(p) == /\ new' = [new EXCEPT ![p] = None] /\ held' = [held EXCEPT ![p] = None]
           /\ since' = [since EXCEPT ![p] = 0] /\ raced' = [raced EXCEPT ![p] = FALSE]

\* The call ends; its locals are gone.
Return(p) ==
    /\ Goto(p, "idle") /\ plan' = [plan EXCEPT ![p] = << >>]
    /\ target' = [target EXCEPT ![p] = None] /\ origin' = [origin EXCEPT ![p] = None]
    /\ sent' = [sent EXCEPT ![p] = {}] /\ answer' = [answer EXCEPT ![p] = None]
    /\ moved' = [moved EXCEPT ![p] = None] /\ crossed' = [crossed EXCEPT ![p] = FALSE]
    /\ Drop(p)
    /\ UNCHANGED <<mixed, tangled>>

\* The next thing to do, with a client of its own.
Continue(p, rest) ==
    IF rest = << >> THEN Return(p)
    ELSE /\ Goto(p, "check") /\ plan' = [plan EXCEPT ![p] = rest]
         /\ Drop(p)
         /\ UNCHANGED <<target, origin, sent, answer, moved, crossed, mixed, tangled>>

\* An exception: the finally of create_client(), once it is entered, is what is left.
Raise(p) == Continue(p, IF Switching(p) /\ plan[p] # <<"restore">> THEN <<"restore">> ELSE << >>)

-----------------------------------------------------------------------------
\* A call

Begin(p) ==
    /\ pc[p] = "idle" /\ MayRun(p)
    /\ \E todo \in Plans : plan' = [plan EXCEPT ![p] = todo]
    /\ Goto(p, "check")
    /\ crossed' = [crossed EXCEPT ![p] = \/ \E q \in Others(p) : Switching(q)
                                         \/ admin # None /\ clients[admin].realm # Home]
    /\ UNCHANGED <<adapter, login, shared, target, origin, sent, answer, getter, moved, raced,
                   mixed, tangled>>

-----------------------------------------------------------------------------
\* The property admin_adapter

\* Mutant: the token may be used up to its end.
CheckLate(p) ==
    /\ pc[p] = "check" /\ MayRun(p) /\ Head(plan[p]) \notin {"openid", "uma"}
    /\ Goto(p, IF admin = None \/ now > expiry THEN "login" ELSE "test")
    /\ since' = [since EXCEPT ![p] = now]
    /\ LET others == \E q \in Others(p) : LoggingIn(q)
       IN  /\ raced' = [raced EXCEPT ![p] = mixed \/ others]
           /\ mixed' = IF pc'[p] = "login" THEN others ELSE mixed
    /\ UNCHANGED <<adapter, login, shared, call, new, held, moved, crossed, tangled>>
Check(p) ==
    /\ pc[p] = "check" /\ MayRun(p) /\ Head(plan[p]) \notin {"openid", "uma"}
    /\ Goto(p, IF admin = None \/ now >= expiry THEN "login" ELSE "test")
    /\ since' = [since EXCEPT ![p] = now]
    /\ LET others == \E q \in Others(p) : LoggingIn(q)
       IN  /\ raced' = [raced EXCEPT ![p] = mixed \/ others]
           /\ mixed' = IF pc'[p] = "login" THEN others ELSE mixed
    /\ UNCHANGED <<adapter, login, shared, call, new, held, moved, crossed, tangled>>

Stored(p) == raced' = Mark(raced, {q \in Others(p) : InGetter(q)})

\* _initialize_admin_client(): a login as admin stores the client first, one with the
\* client's secret the expiry.
Login(p) ==
    /\ pc[p] = "login" /\ MayRun(p) /\ Len(clients) < MaxClients
    /\ clients' = Append(clients, [realm |-> Home, end |-> TokenEnd])
    /\ new' = [new EXCEPT ![p] = Len(clients')]
    /\ IF login = "password" THEN admin' = Len(clients') /\ UNCHANGED expiry
       ELSE expiry' = now + Lifetime /\ UNCHANGED admin
    /\ Stored(p)
    /\ Goto(p, "second")
    /\ UNCHANGED <<adapter, login, now, call, held, since, moved, crossed, mixed, tangled>>

\* ... and then the other.
LoginStores(p) ==
    /\ pc[p] = "second" /\ MayRun(p)
    /\ IF login = "password" THEN expiry' = now + Lifetime /\ UNCHANGED admin
       ELSE admin' = new[p] /\ UNCHANGED expiry
    /\ new' = [new EXCEPT ![p] = None]
    /\ Stored(p)
    /\ Goto(p, "test")
    /\ UNCHANGED <<adapter, login, now, clients, call, held, since, moved, crossed, mixed, tangled>>

LoginFails(p) ==
    /\ pc[p] = "login" /\ MayRun(p)
    /\ admin' = None
    /\ Stored(p)
    /\ Goto(p, "failed")
    /\ UNCHANGED <<adapter, login, now, clients, expiry, call, getter, moved, crossed, mixed,
                   tangled>>

LoginRaises(p) ==
    /\ pc[p] = "failed" /\ MayRun(p)
    /\ expiry' = 0
    /\ Raise(p)
    /\ UNCHANGED <<adapter, login, now, clients, admin>>

\* "if self._admin_adapter is None: raise UnavailableError"
Test(p) ==
    /\ pc[p] = "test" /\ MayRun(p)
    /\ IF admin = None THEN Raise(p)
       ELSE Goto(p, "take") /\ UNCHANGED <<call, getter, histories>>
    /\ UNCHANGED <<adapter, login, shared>>

\* "return self._admin_adapter" reads it once more.  A call that set the realm of
\* another client is on its own.
Take(p) ==
    /\ pc[p] = "take" /\ MayRun(p)
    /\ held' = [held EXCEPT ![p] = admin]
    /\ Goto(p, "use")
    /\ crossed' = IF moved[p] \notin {None, admin} THEN Mark(crossed, {p}) ELSE crossed
    /\ UNCHANGED <<adapter, login, shared, call, new, since, moved, raced, mixed, tangled>>

-----------------------------------------------------------------------------
\* What is done with the client

Using(p, step) == /\ pc[p] = "use" /\ MayRun(p)
                  /\ held[p] # None /\ Head(plan[p]) = step

\* "'NoneType' object has no attribute ..."
NoneType(p) ==
    /\ pc[p] = "use" /\ MayRun(p) /\ held[p] = None
    /\ Raise(p)
    /\ UNCHANGED <<adapter, login, shared>>

\* The library builds the address of a request from the connection's realm.
Request(p) ==
    /\ Using(p, "request")
    /\ sent' = [sent EXCEPT ![p] = IF crossed[p] THEN @ ELSE @ \cup {clients[held[p]].realm}]
    /\ Goto(p, "await")
    /\ Drop(p)
    /\ UNCHANGED <<adapter, login, shared, plan, target, origin, answer, moved, crossed, mixed,
                   tangled>>

\* A call of the clients for tokens and for user-managed access, which have
\* connections of their own.  The latter is made by its first call; threads may make
\* two, which are alike.
Outside(p) ==
    /\ pc[p] = "check" /\ MayRun(p) /\ Head(plan[p]) \in {"openid", "uma"}
    /\ sent' = [sent EXCEPT ![p] = @ \cup {Home}]
    /\ Goto(p, "await")
    /\ UNCHANGED <<adapter, login, shared, plan, target, origin, answer, getter, histories>>

Answer(p) == /\ pc[p] = "await" /\ MayRun(p)
             /\ Continue(p, Tail(plan[p]))
             /\ UNCHANGED <<adapter, login, shared>>

\* KeycloakError; create_client() goes on if the client exists and may.
Refused(p) == /\ pc[p] = "await" /\ MayRun(p)
              /\ Raise(p)
              /\ UNCHANGED <<adapter, login, shared>>

ClearAll(p) == /\ Using(p, "all")
               /\ Continue(p, Tail(plan[p]))
               /\ UNCHANGED <<adapter, login, shared>>

\* Mutant: the original realm is not kept.
OriginForgets(p, r) ==
    /\ Using(p, "origin")
    /\ LET here == clients[held[p]].realm
           switches == r \notin {None, here}
       IN  /\ plan' = [plan EXCEPT ![p] = IF switches THEN Tail(@) ELSE <<"request", "answer">>]
           /\ target' = [target EXCEPT ![p] = IF switches THEN r ELSE None]
           /\ origin' = origin
           /\ crossed' = IF switches THEN Mark(crossed, {q \in Others(p) : pc[q] # "idle"})
                         ELSE crossed
           /\ tangled' = \/ tangled
                         \/ switches /\ (here # Home \/ \E q \in Others(p) : Switching(q))
    /\ Goto(p, "check")
    /\ Drop(p)
    /\ UNCHANGED <<adapter, login, shared, sent, answer, moved, mixed>>
\* "original_realm = self.admin_adapter.connection.realm_name"; unless parameter realm
\* is another one there is nothing to switch or restore.
Origin(p, r) ==
    /\ Using(p, "origin")
    /\ LET here == clients[held[p]].realm
           switches == r \notin {None, here}
       IN  /\ plan' = [plan EXCEPT ![p] = IF switches THEN Tail(@) ELSE <<"request", "answer">>]
           /\ target' = [target EXCEPT ![p] = IF switches THEN r ELSE None]
           /\ origin' = [origin EXCEPT ![p] = IF switches THEN here ELSE None]
           /\ crossed' = IF switches THEN Mark(crossed, {q \in Others(p) : pc[q] # "idle"})
                         ELSE crossed
           /\ tangled' = \/ tangled
                         \/ switches /\ (here # Home \/ \E q \in Others(p) : Switching(q))
    /\ Goto(p, "check")
    /\ Drop(p)
    /\ UNCHANGED <<adapter, login, shared, sent, answer, moved, mixed>>

\* Mutant: the realm is not set.
SwitchNot(p) ==
    /\ Using(p, "switch")
    /\ Goto(p, "check") /\ plan' = [plan EXCEPT ![p] = Tail(@)]
    /\ moved' = [moved EXCEPT ![p] = IF crossed[p] THEN @ ELSE held[p]]
    /\ Drop(p)
    /\ UNCHANGED <<adapter, login, shared, target, origin, sent, answer,
                   crossed, mixed, tangled>>
Switch(p) ==
    /\ Using(p, "switch")
    /\ SetRealm(held[p], target[p])
    /\ Goto(p, "check") /\ plan' = [plan EXCEPT ![p] = Tail(@)]
    /\ moved' = [moved EXCEPT ![p] = IF crossed[p] THEN @ ELSE held[p]]
    /\ Drop(p)
    /\ UNCHANGED <<adapter, login, now, admin, expiry, target, origin, sent, answer,
                   crossed, mixed, tangled>>

\* "realm": self.admin_adapter.connection.realm_name
Report(p) ==
    /\ Using(p, "answer")
    /\ IF Switching(p)
       THEN /\ Goto(p, "check") /\ plan' = [plan EXCEPT ![p] = Tail(@)]
            /\ answer' = [answer EXCEPT ![p] = IF crossed[p] THEN @ ELSE clients[held[p]].realm]
            /\ Drop(p)
            /\ UNCHANGED <<target, origin, sent, moved, crossed, mixed, tangled>>
       ELSE Return(p)
    /\ UNCHANGED <<adapter, login, shared>>

\* Mutant: nothing is restored.
RestoreNot(p) == /\ Using(p, "restore")
                 /\ Return(p)
                 /\ UNCHANGED <<adapter, login, shared>>
\* "finally: # Always restore the original realm"
Restore(p) == /\ Using(p, "restore")
              /\ SetRealm(held[p], origin[p])
              /\ Return(p)
              /\ UNCHANGED <<adapter, login, now, admin, expiry>>

-----------------------------------------------------------------------------
Tick == /\ now < MaxTime
        /\ now' = now + 1
        /\ UNCHANGED <<adapter, login, clients, admin, expiry, pc, call, getter, histories>>

Next == \/ \E p \in Callers :
              \/ Begin(p)
              \/ Check(p) \/ Login(p) \/ LoginStores(p) \/ LoginFails(p) \/ LoginRaises(p)
              \/ Test(p) \/ Take(p) \/ NoneType(p)
              \/ Request(p) \/ Outside(p) \/ Answer(p) \/ Refused(p) \/ ClearAll(p)
              \/ \E r \in MaybeRealm : Origin(p, r)
              \/ Switch(p) \/ Report(p) \/ Restore(p)
        \/ Tick

Spec == Init /\ [][Next]_vars

-----------------------------------------------------------------------------
\* Properties

\* The property delivers a client that was not due for renewal when it was asked for.
\* The one exception are threads of which another stored a login, or the failure of
\* one, in the meantime; tasks always get one.
ClientHandedOut == \A p \in Callers : pc[p] = "use" /\ ~ raced[p] =>
                      held[p] # None /\ clients[held[p]].end > since[p]

\* The shared client is back in the configured realm when no call is in between.
RealmHome == admin # None /\ (\A q \in Callers : ~ Switching(q)) => clients[admin].realm = Home

\* All requests of a call go to the realm it is meant for, and create_client() reports
\* the realm of its request, whatever fails or is renewed during the calls, unless
\* another call that set the realm overlapped or left it set, or a login replaced the
\* client this call had set.  And the client goes home, unless such calls overlapped.
RightRealm == /\ \A p \in Callers : ~ crossed[p] =>
                    /\ sent[p] \subseteq {IF target[p] = None THEN Home ELSE target[p]}
                    /\ answer[p] # None => sent[p] = {answer[p]}
              /\ ~ tangled => RealmHome
=============================================================================

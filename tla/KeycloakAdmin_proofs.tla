------------------------ MODULE KeycloakAdmin_proofs ------------------------
(***************************************************************************)
(* Proofs about KeycloakAdmin: for any callers, threads or tasks, realms,  *)
(* lifetimes of a login and operations of any length, the admin client     *)
(* that the property hands out is in time, requests go to the realm they   *)
(* are meant for, and the client goes home.                                *)
(***************************************************************************)
EXTENDS KeycloakAdmin, TLAPS

-----------------------------------------------------------------------------
\* Plans

\* create_client(), and what is left of it step by step: to the end if it switches
\* to another realm ...
Whole == <<"origin", "switch", "request", "answer", "restore">>
ToSwitch == <<"switch", "request", "answer", "restore">>
ToRequest == <<"request", "answer", "restore">>
ToReport == <<"answer", "restore">>
ToRestore == <<"restore">>
\* ... and if it does not.
InPlace == <<"request", "answer">>
Told == <<"answer">>

Away == {ToRequest, ToReport, ToRestore}
Switches == Away \cup {ToSwitch}

\* All other operations.
Ordinary == Seq({"request", "openid", "uma", "all"})

Shape == Ordinary \cup Switches \cup {Whole, InPlace, Told}

-----------------------------------------------------------------------------
\* The inductive invariant

\* What a caller has still to do, and what it has noted, fit where it is.
Planned ==
    \A p \in Callers :
        /\ plan[p] \in Shape
        /\ pc[p] = "idle" <=> plan[p] = << >>
        /\ pc[p] = "await" => Head(plan[p]) \in {"request", "openid", "uma"}
        /\ IF plan[p] \in Switches THEN target[p] # None /\ origin[p] # None
           ELSE target[p] = None /\ moved[p] = None /\ answer[p] = None
        /\ plan[p] = ToSwitch => moved[p] = None /\ answer[p] = None
        /\ plan[p] \in {<< >>, Whole, ToSwitch} => sent[p] = {}

\* Clients that callers know of exist, and nobody has one that is still to be
\* stored: it is in the configured realm.
Made == \A p \in Callers : /\ held[p] \in DOMAIN clients \cup {None}
                           /\ moved[p] \in DOMAIN clients \cup {None}
                           /\ pc[p] = "second" => new[p] \in DOMAIN clients
                           /\ pc[p] # "use" => held[p] = None
Pending(p) == login = "secret" /\ pc[p] = "second"
Unshared == \A p \in Callers : Pending(p) =>
                /\ clients[new[p]].realm = Home
                /\ new[p] # admin
                /\ \A q \in Callers : held[q] # new[p]
                /\ \A q \in Others(p) : Pending(q) => new[q] # new[p]

\* A client that logged in with a password is never due.  Logins that do not overlap
\* leave the client and the expiry of the same login.
Orderly ==
    /\ login = "password" => \A c \in DOMAIN clients : clients[c].end = MaxTime + Lifetime + 1
    /\ ~mixed => /\ \A p, q \in Callers : LoggingIn(p) /\ LoggingIn(q) => p = q
                 /\ admin # None /\ (\A p \in Callers : ~LoggingIn(p))
                    => expiry <= clients[admin].end
                 /\ \A p \in Callers : Pending(p) => expiry <= clients[new[p]].end
                 /\ \A p \in Callers : pc[p] = "failed" => admin = None

\* A caller that nobody overtook finds the client it tested or made.
InTime(p) ==
    /\ since[p] <= now
    /\ ~raced[p] =>
         /\ Pending(p) => clients[new[p]].end > since[p]
         /\ pc[p] = "second" /\ login = "password" => admin # None
         /\ pc[p] \in {"test", "take"} => admin # None /\ clients[admin].end > since[p]
         /\ pc[p] = "use" => held[p] # None /\ clients[held[p]].end > since[p]
Renewed == \A p \in Callers : InTime(p)

\* Calls that set the realm one after the other start from the configured one, and
\* as long as the client is away the call that set it will restore it.
BringsBack(q) == /\ plan[q] \in Away
                 /\ pc[q] # "failed"
                 /\ pc[q] = "use" => held[q] = admin
Untangled ==
    ~tangled =>
        /\ \A p, q \in Callers : plan[p] \in Switches /\ plan[q] \in Switches => p = q
        /\ \A q \in Callers : plan[q] \in Switches => origin[q] = Home
        /\ admin # None /\ clients[admin].realm # Home => \E q \in Callers : BringsBack(q)

\* A call that no other one crosses is the only one that sets the realm.
Alone(p) == \A q \in Others(p) : plan[q] \notin Switches
AtHome(p) == /\ admin # None => clients[admin].realm = Home
             /\ held[p] # None => clients[held[p]].realm = Home
             /\ sent[p] \subseteq {Home}
Abroad(p) == /\ moved[p] # None => /\ clients[moved[p]].realm = target[p]
                                   /\ pc[p] = "use" => held[p] = moved[p]
             /\ plan[p] \in {ToRequest, ToReport} => moved[p] # None
             /\ sent[p] \subseteq {target[p]}
             /\ \/ plan[p] = ToReport
                \/ plan[p] = ToRequest /\ pc[p] = "await"
                => sent[p] = {target[p]}
             /\ answer[p] # None => sent[p] = {answer[p]}
Uncrossed == \A p \in Callers : ~crossed[p] /\ pc[p] # "idle" =>
                 /\ Alone(p)
                 /\ IF plan[p] \in Switches THEN Abroad(p) ELSE AtHome(p)

IInv == TypeOK /\ Planned /\ Made /\ Unshared /\ Orderly /\ Renewed /\ Untangled /\ Uncrossed
-----------------------------------------------------------------------------
\* What the operations do

\* Whatever an operation does it has something to do.
Offered == (Ordinary \cup {Whole}) \ {<< >>}

Fit(table) == \A o \in DOMAIN table : table[o] \subseteq Offered

LEMMA FitTogether ==
    ASSUME NEW f, NEW g, Fit(f), Fit(g)
    PROVE  Fit(f ++ g)
<1> SUFFICES ASSUME NEW o \in DOMAIN (f ++ g)
             PROVE  (f ++ g)[o] \subseteq Offered
    BY DEF Fit
<1>1. o \in DOMAIN f \cup DOMAIN g /\ (f ++ g)[o] = IF o \in DOMAIN f THEN f[o] ELSE g[o]
      BY DEF ++
<1> QED BY <1>1 DEF Fit

LEMMA FitJoined ==
    ASSUME NEW tables, \A table \in tables : Fit(table)
    PROVE  Fit(Joined(tables))
<1> SUFFICES ASSUME NEW o \in UNION {DOMAIN t : t \in tables}
             PROVE  (CHOOSE t \in tables : o \in DOMAIN t)[o] \subseteq Offered
    BY DEF Fit, Joined
<1>1. \E t \in tables : o \in DOMAIN t
      OBVIOUS
<1>2. /\ (CHOOSE t \in tables : o \in DOMAIN t) \in tables
      /\ o \in DOMAIN (CHOOSE t \in tables : o \in DOMAIN t)
      BY <1>1
<1> QED BY <1>2 DEF Fit

LEMMA FitRequests ==
    ASSUME NEW n \in Nat, n >= 1
    PROVE  Requests(n) \in Offered
<1>1. Requests(n) \in Seq({"request", "openid", "uma", "all"}) /\ Len(Requests(n)) = n
      BY DEF Requests
<1> QED BY <1>1 DEF Offered, Ordinary

LEMMA FitTables ==
    ASSUME NEW names
    PROVE  Fit(Single(names)) /\ Fit(OpenId(names)) /\ Fit(Uma(names))
<1>1. Fit(Single(names))
      BY FitRequests DEF Fit, Single
<1>2. <<"openid">> \in Offered /\ <<"uma">> \in Offered
      BY DEF Offered, Ordinary
<1>3. Fit(OpenId(names)) /\ Fit(Uma(names))
      BY <1>2 DEF Fit, OpenId, Uma
<1> QED BY <1>1, <1>3

LEMMA FitTokens ==
    /\ Fit(Tokens) /\ Fit(Endpoints) /\ Fit(Exchanges) /\ Fit(PermissionChecks)
    /\ Fit(RoleChecks) /\ Fit(ResourceSets) /\ Fit(UmaPolicies)
BY FitTables DEF Tokens, Endpoints, Exchanges, PermissionChecks, RoleChecks, ResourceSets,
                 UmaPolicies

LEMMA FitSingles ==
    /\ Fit(Realms) /\ Fit(Components) /\ Fit(Organizations) /\ Fit(GroupMembers)
    /\ Fit(GroupRoles) /\ Fit(AuthFlows) /\ Fit(Policies) /\ Fit(Permissions)
    /\ Fit(ScopesAndMappers) /\ Fit(DefaultScopes)
BY FitTables DEF Realms, Components, Organizations, GroupMembers, GroupRoles, AuthFlows,
                 Policies, Permissions, ScopesAndMappers, DefaultScopes

LEMMA FitUsers == Fit(UserChanges) /\ Fit(UserSearch)
<1>1. <<"request", "all">> \in Offered
      BY DEF Offered, Ordinary
<1>2. Fit([create_user |-> {<<"request", "all">>}, update_user |-> {<<"request", "all">>}])
      BY <1>1 DEF Fit
<1>3. Fit(UserChanges)
      BY <1>2, FitTables, FitTogether DEF UserChanges
<1>4. Fit([search_users |-> {Requests(n) : n \in 1..4}])
      BY FitRequests DEF Fit
<1> QED BY <1>3, <1>4, FitTables, FitTogether DEF UserSearch

LEMMA FitRoles == Fit(RoleAssignments) /\ Fit(RoleChanges) /\ Fit(CompositeRoles)
<1>1. Fit([assign_realm_role  |-> {Requests(2)},
           remove_realm_role  |-> {Requests(2)},
           assign_client_role |-> {Requests(3)}])
      BY FitRequests DEF Fit
<1>2. Fit([create_realm_role  |-> {Requests(2)},
           create_client_role |-> {Requests(3)},
           remove_client_role |-> {Requests(3)}])
      BY FitRequests DEF Fit
<1>3. Fit([add_realm_roles_to_composite  |-> {Requests(n) : n \in 1..MaxChildren + 1},
           add_client_roles_to_composite |-> {Requests(n) : n \in 1..MaxChildren + 2}])
      <2>1. {Requests(n) : n \in 1..MaxChildren + 1} \subseteq Offered
            BY FitRequests, MaxChildrenAssumption
      <2>2. {Requests(n) : n \in 1..MaxChildren + 2} \subseteq Offered
            BY FitRequests, MaxChildrenAssumption
      <2> QED BY <2>1, <2>2 DEF Fit
<1>4. Fit(RoleAssignments)
      BY <1>1, FitTables, FitTogether DEF RoleAssignments
<1>5. Fit(RoleChanges)
      BY <1>2, FitTables, FitTogether DEF RoleChanges
<1>6. Fit(CompositeRoles)
      BY <1>3, FitTables, FitTogether DEF CompositeRoles
<1> QED BY <1>4, <1>5, <1>6

LEMMA FitClients == Fit(Clients)
<1>1. Fit([get_service_account_id |-> {Requests(1), Requests(2)},
           create_client |-> {<<"origin", "switch", "request", "answer", "restore">>}])
      <2>1. {Requests(1), Requests(2)} \subseteq Offered
            BY FitRequests
      <2>2. <<"origin", "switch", "request", "answer", "restore">> \in Offered
            BY DEF Offered, Whole
      <2> QED BY <2>1, <2>2 DEF Fit
<1> QED BY <1>1, FitTables, FitTogether DEF Clients

LEMMA FitOperations == Fit(Operations)
<1> DEFINE tables == {Tokens, Endpoints, Exchanges, PermissionChecks, RoleChecks, ResourceSets,
                      UmaPolicies, UserChanges, UserSearch, RoleAssignments, RoleChanges,
                      CompositeRoles, Clients, Realms, Components, Organizations, GroupMembers,
                      GroupRoles, AuthFlows, Policies, Permissions, ScopesAndMappers,
                      DefaultScopes}
<1>1. \A table \in tables : Fit(table)
      BY FitTokens, FitSingles, FitUsers, FitRoles, FitClients
<1> HIDE DEF tables
<1>2. Fit(Joined(tables))
      BY <1>1, FitJoined
<1> QED BY <1>2 DEF Operations, tables

\* The async adapter does what the sync one does.
LEMMA AsyncAsSync == AsyncOperations = Operations
BY DEF AsyncOperations, Operations, AsyncTokens, AsyncEndpoints, AsyncExchanges,
       AsyncPermissionChecks, AsyncRoleChecks, AsyncResourceSets, AsyncUmaPolicies,
       AsyncUserChanges, AsyncUserSearch, AsyncRoleAssignments, AsyncRoleChanges,
       AsyncCompositeRoles, AsyncClients, AsyncRealms, AsyncComponents, AsyncOrganizations,
       AsyncGroupMembers, AsyncGroupRoles, AsyncAuthFlows, AsyncPolicies, AsyncPermissions,
       AsyncScopesAndMappers, AsyncDefaultScopes

LEMMA PlansFit == Plans \subseteq Offered
<1>1. PlansOf(Operations) \subseteq Offered
      BY FitOperations DEF PlansOf, Fit
<1> QED BY <1>1, AsyncAsSync DEF Plans

-----------------------------------------------------------------------------
\* What is left of a plan

LEMMA Distinct ==
    /\ << >> \notin Switches \cup {Whole, InPlace, Told}
    /\ Whole \notin Switches /\ InPlace \notin Switches /\ Told \notin Switches
    /\ ToSwitch \notin Away
    /\ ToRequest # ToReport /\ ToRequest # ToRestore /\ ToReport # ToRestore
    /\ Whole # InPlace /\ Whole # Told
<1>1. Whole \notin {ToSwitch, ToRequest, ToReport, ToRestore, InPlace, Told, << >>}
      BY DEF Whole, ToSwitch, ToRequest, ToReport, ToRestore, InPlace, Told
<1>2. InPlace \notin {ToSwitch, ToRequest, ToReport, ToRestore, << >>}
      BY DEF ToSwitch, ToRequest, ToReport, ToRestore, InPlace
<1>3. Told \notin {ToSwitch, ToRequest, ToReport, ToRestore, << >>}
      BY DEF ToSwitch, ToRequest, ToReport, ToRestore, Told
<1>4. << >> \notin {ToSwitch, ToRequest, ToReport, ToRestore}
      BY DEF ToSwitch, ToRequest, ToReport, ToRestore
<1>5. /\ ToSwitch \notin {ToRequest, ToReport, ToRestore}
      /\ ToRequest \notin {ToReport, ToRestore} /\ ToReport # ToRestore
      BY DEF ToSwitch, ToRequest, ToReport, ToRestore
<1> QED BY <1>1, <1>2, <1>3, <1>4, <1>5, Zenon DEF Switches, Away

LEMMA OrdinaryApart ==
    ASSUME NEW s \in Ordinary
    PROVE  s \notin Switches \cup {Whole, Told}
<1>1. \A i \in 1..Len(s) : s[i] \in {"request", "openid", "uma", "all"}
      BY DEF Ordinary
<1>2. s \notin {Whole, Told}
      BY <1>1 DEF Whole, Told
<1>3. s \notin {ToSwitch, ToRequest}
      BY <1>1 DEF ToSwitch, ToRequest
<1>4. s \notin {ToReport, ToRestore}
      BY <1>1 DEF ToReport, ToRestore
<1> QED BY <1>2, <1>3, <1>4, Zenon DEF Switches, Away

Steps == {"request", "openid", "uma", "all", "origin", "switch", "answer", "restore"}

LEMMA ShapesAreSequences == Shape \subseteq Seq(Steps)
<1>1. Ordinary \subseteq Seq(Steps)
      BY DEF Ordinary, Steps
<1>2. /\ Whole \in Seq(Steps) /\ ToSwitch \in Seq(Steps) /\ ToRequest \in Seq(Steps)
      /\ ToReport \in Seq(Steps) /\ ToRestore \in Seq(Steps) /\ InPlace \in Seq(Steps)
      /\ Told \in Seq(Steps)
      BY DEF Whole, ToSwitch, ToRequest, ToReport, ToRestore, InPlace, Told, Steps
<1> QED BY <1>1, <1>2 DEF Shape, Switches, Away

\* Who is between the original realm and its restoration.
LEMMA SwitchingIs ==
    ASSUME NEW p, plan[p] \in Shape
    PROVE  Switching(p) <=> plan[p] \in Switches
<1>1. CASE plan[p] \in Switches
      BY <1>1 DEF Switching, Contains, Switches, Away, ToSwitch, ToRequest, ToReport, ToRestore
<1>2. CASE plan[p] \in Ordinary
      <2>1. ~Contains(plan[p], "restore")
            BY <1>2 DEF Ordinary, Contains
      <2> QED BY <2>1, <1>2, OrdinaryApart DEF Switching
<1>3. CASE plan[p] \in {Whole, InPlace, Told}
      <2>1. Contains(Whole, "origin")
            <3>1. Whole[1] = "origin" /\ 1 \in 1..Len(Whole)
                  BY DEF Whole
            <3> QED BY <3>1 DEF Contains
      <2>2. ~Contains(InPlace, "restore") /\ ~Contains(Told, "restore")
            BY DEF Contains, InPlace, Told
      <2> QED BY <2>1, <2>2, <1>3, Distinct DEF Switching
<1> QED BY <1>1, <1>2, <1>3 DEF Shape

\* What a plan says is next, and what comes after it.
LEMMA Heads ==
    ASSUME NEW s \in Shape, s # << >>
    PROVE  /\ Head(s) = "origin" => s = Whole
           /\ Head(s) = "switch" => s = ToSwitch
           /\ Head(s) = "answer" => s \in {ToReport, Told}
           /\ Head(s) = "restore" => s = ToRestore
           /\ Head(s) \in {"request", "openid", "uma", "all"} =>
                \/ s = ToRequest
                \/ s \notin Switches \cup {Whole}
           /\ Head(s) \in {"openid", "uma", "all"} => s \notin Switches
<1>1. CASE s \in Ordinary
      <2>1. Head(s) \in {"request", "openid", "uma", "all"}
            BY <1>1 DEF Ordinary
      <2> QED BY <2>1, <1>1, OrdinaryApart
<1>2. /\ Head(Whole) = "origin" /\ Head(ToSwitch) = "switch" /\ Head(ToRequest) = "request"
      /\ Head(ToReport) = "answer" /\ Head(ToRestore) = "restore"
      /\ Head(InPlace) = "request" /\ Head(Told) = "answer"
      BY DEF Whole, ToSwitch, ToRequest, ToReport, ToRestore, InPlace, Told
<1> QED BY <1>1, <1>2, Distinct DEF Shape, Switches, Away

LEMMA Tails ==
    /\ Tail(Whole) = ToSwitch /\ Tail(ToSwitch) = ToRequest
    /\ Tail(ToRequest) = ToReport /\ Tail(ToReport) = ToRestore
BY DEF Whole, ToSwitch, ToRequest, ToReport, ToRestore

LEMMA TailIsShape ==
    ASSUME NEW s \in Shape \ Switches, s # << >>, s # Whole
    PROVE  Tail(s) \in Shape \ (Switches \cup {Whole})
<1>1. CASE s \in Ordinary
      <2>1. Tail(s) \in Ordinary
            BY <1>1 DEF Ordinary
      <2> QED BY <2>1, OrdinaryApart DEF Shape
<1>2. CASE s = InPlace
      <2>1. Tail(s) = Told
            BY <1>2 DEF InPlace, Told
      <2> QED BY <2>1, Distinct DEF Shape
<1>3. CASE s = Told
      <2>1. Tail(s) = << >>
            BY <1>3 DEF Told
      <2>2. << >> \in Ordinary
            BY DEF Ordinary
      <2> QED BY <2>1, <2>2, Distinct DEF Shape
<1> QED BY <1>1, <1>2, <1>3 DEF Shape

-----------------------------------------------------------------------------
\* Constants and the start

LEMMA NoneApart == None \notin RealmNames /\ None \notin Ids /\ Home \in RealmNames
BY ConstantsAssumption DEF RealmNames, Ids

LEMMA KnownClients ==
    ASSUME TypeOK
    PROVE  /\ DOMAIN clients \subseteq Ids
           /\ None \notin DOMAIN clients
           /\ \A c \in DOMAIN clients : /\ clients[c].realm \in RealmNames
                                        /\ clients[c].end \in 0..MaxTime + Lifetime + 1
<1>1. DOMAIN clients = 1..Len(clients) /\ Len(clients) \in Nat /\ Len(clients) <= MaxClients
      BY DEF TypeOK
<1>2. DOMAIN clients \subseteq Ids
      BY <1>1, ConstantsAssumption DEF Ids
<1>3. \A c \in DOMAIN clients : clients[c] \in [realm : RealmNames, end : 0..MaxTime + Lifetime + 1]
      <2> DEFINE R == [realm : RealmNames, end : 0..MaxTime + Lifetime + 1]
      <2>1. clients \in Seq(R)
            BY DEF TypeOK
      <2> HIDE DEF R
      <2>2. \A c \in DOMAIN clients : clients[c] \in R
            BY <2>1
      <2> QED BY <2>2 DEF R
<1> QED BY <1>2, <1>3, NoneApart

LEMMA EmptyPlan == << >> \in Shape
BY DEF Shape, Ordinary

LEMMA Start ==
    ASSUME Init
    PROVE  IInv
<1>1. TypeOK
      <2>1. Home \in RealmNames /\ None \in MaybeRealm /\ None \in Ids \cup {None}
            BY NoneApart DEF MaybeRealm
      <2>2. TokenEnd \in 0..MaxTime + Lifetime + 1
            BY ConstantsAssumption DEF Init, TokenEnd
      <2>3. /\ clients \in Seq([realm : RealmNames, end : 0..MaxTime + Lifetime + 1])
            /\ Len(clients) = 1 /\ DOMAIN clients = {1}
            BY <2>1, <2>2 DEF Init
      <2>4. now \in 0..MaxTime /\ expiry \in 0..MaxTime + Lifetime /\ Len(clients) <= MaxClients
            BY <2>3, ConstantsAssumption DEF Init
      <2>5. admin \in DOMAIN clients \cup {None}
            BY <2>3 DEF Init
      <2>6. << >> \in Seq(Steps)
            OBVIOUS
      <2>7. 0 \in 0..MaxTime
            BY ConstantsAssumption
      <2> QED BY <2>1, <2>3, <2>4, <2>5, <2>6, <2>7 DEF Init, TypeOK, Steps
<1>2. Planned
      BY EmptyPlan, Distinct DEF Init, Planned
<1>3. Made /\ Unshared
      BY DEF Init, Made, Unshared, Pending
<1>4. Orderly
      <2>1. DOMAIN clients = {1} /\ clients[1].end = TokenEnd
            BY DEF Init
      <2> QED BY <2>1, ConstantsAssumption DEF Init, Orderly, Pending, LoggingIn, TokenEnd
<1>5. Renewed
      BY DEF Init, Renewed, InTime, Pending
<1>6. Untangled /\ Uncrossed
      <2>1. clients[1].realm = Home
            BY DEF Init
      <2> QED BY <2>1, Distinct DEF Init, Untangled, Uncrossed
<1> QED BY <1>1, <1>2, <1>3, <1>4, <1>5, <1>6 DEF IInv

-----------------------------------------------------------------------------
\* What Return, Continue and Raise do

LEMMA RaiseIs ==
    ASSUME NEW p \in Callers, plan[p] \in Shape, Raise(p)
    PROVE  \/ plan[p] \notin Switches \ {ToRestore} /\ Return(p)
           \/ /\ plan[p] \in Switches \ {ToRestore}
              /\ Goto(p, "check") /\ plan' = [plan EXCEPT ![p] = ToRestore]
              /\ Drop(p)
              /\ UNCHANGED <<target, origin, sent, answer, moved, crossed, mixed, tangled>>
<1>1. Switching(p) <=> plan[p] \in Switches
      BY SwitchingIs
<1>2. CASE plan[p] \in Switches \ {ToRestore}
      <2>1. Continue(p, ToRestore)
            BY <1>1, <1>2 DEF Raise, ToRestore
      <2>2. ToRestore # << >>
            BY Distinct DEF Switches, Away
      <2> QED BY <1>2, <2>1, <2>2 DEF Continue
<1>3. CASE plan[p] \notin Switches \ {ToRestore}
      <2>1. Continue(p, << >>)
            BY <1>1, <1>3 DEF Raise, ToRestore
      <2> QED BY <1>3, <2>1 DEF Continue
<1> QED BY <1>2, <1>3

\* The types of a caller that has no further use for its client.
LEMMA DropTypes ==
    ASSUME TypeOK, NEW p \in Callers, Drop(p)
    PROVE  /\ new' \in [Callers -> Ids \cup {None}] /\ held' \in [Callers -> Ids \cup {None}]
           /\ since' \in [Callers -> 0..MaxTime] /\ raced' \in [Callers -> BOOLEAN]
           /\ new'[p] = None /\ held'[p] = None /\ since'[p] = 0 /\ raced'[p] = FALSE
           /\ \A q \in Callers \ {p} : /\ new'[q] = new[q] /\ held'[q] = held[q]
                                       /\ since'[q] = since[q] /\ raced'[q] = raced[q]
BY ConstantsAssumption DEF TypeOK, Drop

LEMMA ReturnTypes ==
    ASSUME TypeOK, NEW p \in Callers, Return(p)
    PROVE  /\ pc' = [pc EXCEPT ![p] = "idle"] /\ plan' = [plan EXCEPT ![p] = << >>]
           /\ plan' \in [Callers -> Seq(Steps)]
           /\ target' \in [Callers -> MaybeRealm] /\ origin' \in [Callers -> MaybeRealm]
           /\ sent' \in [Callers -> SUBSET RealmNames] /\ answer' \in [Callers -> MaybeRealm]
           /\ moved' \in [Callers -> Ids \cup {None}] /\ crossed' \in [Callers -> BOOLEAN]
           /\ target'[p] = None /\ sent'[p] = {} /\ answer'[p] = None /\ moved'[p] = None
           /\ \A q \in Callers \ {p} :
                 /\ target'[q] = target[q] /\ origin'[q] = origin[q] /\ sent'[q] = sent[q]
                 /\ answer'[q] = answer[q] /\ moved'[q] = moved[q] /\ crossed'[q] = crossed[q]
           /\ Drop(p) /\ UNCHANGED <<mixed, tangled>>
BY DEF TypeOK, Return, Goto, MaybeRealm, Steps

-----------------------------------------------------------------------------
\* Logins: most steps give up the client the caller was handed

Logins == Made /\ Unshared /\ Orderly /\ Renewed

\* What the steps that set a realm, and all others, leave of the clients.
SameClients(p) == /\ DOMAIN clients' = DOMAIN clients
                  /\ \A c \in DOMAIN clients : /\ clients'[c].end = clients[c].end
                                               /\ c # held[p] => clients'[c] = clients[c]

LEMMA SetRealmIs ==
    ASSUME TypeOK, NEW p, held[p] \in DOMAIN clients, NEW r \in RealmNames,
           SetRealm(held[p], r)
    PROVE  /\ SameClients(p)
           /\ clients'[held[p]].realm = r
           /\ clients' \in Seq([realm : RealmNames, end : 0..MaxTime + Lifetime + 1])
           /\ Len(clients') = Len(clients)
<1> DEFINE R == [realm : RealmNames, end : 0..MaxTime + Lifetime + 1]
           c == held[p]
<1>1. clients \in Seq(R)
      BY DEF TypeOK
<1>2. clients[c] \in R
      <2> HIDE DEF R
      <2> QED BY <1>1
<1>3. [clients[c] EXCEPT !.realm = r] \in R
      BY <1>2
<1>4. clients' = [clients EXCEPT ![c] = [clients[c] EXCEPT !.realm = r]]
      BY DEF SetRealm
<1>5. /\ DOMAIN clients' = DOMAIN clients
      /\ clients'[c] = [clients[c] EXCEPT !.realm = r]
      /\ \A d \in DOMAIN clients : d # c => clients'[d] = clients[d]
      BY <1>4
<1>6. clients' \in Seq(R) /\ Len(clients') = Len(clients)
      <2> HIDE DEF R
      <2> QED BY <1>1, <1>3, <1>4
<1>7. clients'[c].realm = r /\ clients'[c].end = clients[c].end
      BY <1>2, <1>5
<1> QED BY <1>5, <1>6, <1>7 DEF SameClients

LEMMA DropKeeps ==
    ASSUME IInv, NEW p \in Callers, Drop(p),
           NEW step \in {"idle", "check", "await"}, Goto(p, step),
           UNCHANGED <<login, now, admin, mixed>>, SameClients(p),
           \/ UNCHANGED expiry /\ ~LoggingIn(p)
           \/ expiry' = 0 /\ pc[p] = "failed",
           \A q \in Callers : moved'[q] \in {moved[q], held[p], None}
    PROVE  Logins'
<1>1. TypeOK /\ Made /\ Unshared /\ Orderly /\ Renewed
      BY DEF IInv
<1>2. /\ new'[p] = None /\ held'[p] = None /\ since'[p] = 0 /\ raced'[p] = FALSE
      /\ \A q \in Callers \ {p} : /\ new'[q] = new[q] /\ held'[q] = held[q]
                                  /\ since'[q] = since[q] /\ raced'[q] = raced[q]
      BY <1>1, DropTypes
<1>3. pc'[p] = step /\ \A q \in Callers \ {p} : pc'[q] = pc[q]
      BY <1>1 DEF TypeOK, Goto
<1>4. \A q \in Callers : /\ Pending(q)' => q # p /\ Pending(q) /\ new'[q] = new[q]
                         /\ pc'[q] = "second" => q # p /\ pc[q] = "second"
      BY <1>2, <1>3 DEF Pending
<1>5. Made'
      BY <1>1, <1>2, <1>3, <1>4 DEF Made, SameClients
<1>6. \A q \in Callers : Pending(q) =>
         new[q] \in DOMAIN clients /\ new[q] # held[p] /\ clients'[new[q]] = clients[new[q]]
      BY <1>1 DEF Made, Unshared, Pending, SameClients
<1>7. Unshared'
      <2> SUFFICES ASSUME NEW q \in Callers, Pending(q)'
                   PROVE  /\ clients'[new'[q]].realm = Home
                          /\ new'[q] # admin
                          /\ \A r \in Callers : held'[r] # new'[q]
                          /\ \A r \in Callers \ {q} : Pending(r)' => new'[r] # new'[q]
          BY DEF Unshared, Others
      <2>1. Pending(q) /\ new'[q] = new[q]
            BY <1>4
      <2>2. new[q] \in DOMAIN clients /\ new[q] # None
            BY <2>1, <1>1, <1>6, KnownClients
      <2>3. \A r \in Callers : held'[r] # new'[q]
            BY <2>1, <2>2, <1>1, <1>2 DEF Unshared
      <2>4. \A r \in Callers \ {q} : Pending(r)' => new'[r] # new'[q]
            BY <2>1, <1>1, <1>4 DEF Unshared, Others
      <2> QED BY <2>1, <2>3, <2>4, <1>1, <1>6 DEF Unshared
<1>8. Orderly'
      <2>1. login = "password" => \A c \in DOMAIN clients' : clients'[c].end = MaxTime + Lifetime + 1
            BY <1>1 DEF Orderly, SameClients
      <2>2. \A q \in Callers : LoggingIn(q)' => q # p /\ LoggingIn(q)
            BY <1>3 DEF LoggingIn
      <2>3. \A c \in DOMAIN clients : expiry <= clients[c].end => expiry' <= clients'[c].end
            <3>1. \A c \in DOMAIN clients : clients[c].end >= 0 /\ clients'[c].end = clients[c].end
                  BY <1>1, KnownClients DEF SameClients
            <3>2. expiry' = expiry \/ expiry' = 0
                  OBVIOUS
            <3> QED BY <3>1, <3>2
      <2>4. /\ admin # None => admin \in DOMAIN clients
            /\ \A q \in Callers : Pending(q) => new[q] \in DOMAIN clients
            BY <1>1, <1>6 DEF TypeOK
      <2>5. CASE UNCHANGED expiry /\ ~LoggingIn(p)
            <3>1. (\A q \in Callers : ~LoggingIn(q)') => \A q \in Callers : ~LoggingIn(q)
                  BY <2>5, <1>3 DEF LoggingIn
            <3>2. ASSUME ~mixed
                  PROVE  admin # None /\ (\A q \in Callers : ~LoggingIn(q)')
                          => expiry' <= clients'[admin].end
                  BY <3>1, <3>2, <2>3, <2>4, <1>1 DEF Orderly
            <3>3. ASSUME ~mixed
                  PROVE  \A q \in Callers : Pending(q)' => expiry' <= clients'[new'[q]].end
                  BY <3>3, <2>3, <2>4, <1>1, <1>4 DEF Orderly
            <3> QED BY <3>2, <3>3, <2>1, <2>2, <1>1, <1>3 DEF Orderly
      <2>6. CASE expiry' = 0 /\ pc[p] = "failed"
            <3>1. \A c \in DOMAIN clients : expiry' <= clients'[c].end
                  BY <2>6, <1>1, KnownClients, ConstantsAssumption DEF SameClients
            <3>2. ~mixed => \A q \in Callers : ~LoggingIn(q)'
                  BY <2>2, <2>6, <1>1 DEF Orderly, LoggingIn
            <3>3. \A q \in Callers : pc'[q] = "failed" \/ Pending(q)' => LoggingIn(q)'
                  BY DEF Pending, LoggingIn
            <3> QED BY <3>1, <3>2, <3>3, <2>1, <2>4 DEF Orderly
      <2> QED BY <2>5, <2>6
<1>9. Renewed'
      <2> SUFFICES ASSUME NEW q \in Callers PROVE InTime(q)'
          BY DEF Renewed
      <2>1. CASE q = p
            BY <2>1, <1>1, <1>2, <1>3 DEF InTime, Pending, TypeOK
      <2>2. CASE q # p
            <3>1. /\ new'[q] = new[q] /\ held'[q] = held[q] /\ since'[q] = since[q]
                  /\ raced'[q] = raced[q] /\ pc'[q] = pc[q]
                  BY <2>2, <1>2, <1>3
            <3>2. InTime(q) /\ (held[q] # None => held[q] \in DOMAIN clients)
                  /\ (admin # None => admin \in DOMAIN clients)
                  /\ (pc[q] = "second" => new[q] \in DOMAIN clients)
                  BY <1>1 DEF Renewed, Made, TypeOK
            <3> QED BY <3>1, <3>2 DEF InTime, Pending, SameClients
      <2> QED BY <2>1, <2>2
<1> QED BY <1>5, <1>7, <1>8, <1>9 DEF Logins

\* A caller goes on without touching a client.
LEMMA PassesKeep ==
    ASSUME IInv, NEW p \in Callers, NEW step, Goto(p, step),
           \/ pc[p] \in {"idle", "check"} /\ step \in {"check", "await"}
           \/ pc[p] = "test" /\ step = "take",
           UNCHANGED <<login, now, clients, admin, expiry, new, held, since, moved, raced, mixed>>
    PROVE  Logins'
<1>1. TypeOK /\ Made /\ Unshared /\ Orderly /\ Renewed
      BY DEF IInv
<1>2. pc'[p] = step /\ \A q \in Callers \ {p} : pc'[q] = pc[q]
      BY <1>1 DEF TypeOK, Goto
<1>3. \A q \in Callers : /\ Pending(q)' <=> Pending(q)
                         /\ LoggingIn(q)' <=> LoggingIn(q)
                         /\ pc'[q] = "second" <=> pc[q] = "second"
                         /\ pc'[q] = "failed" <=> pc[q] = "failed"
      BY <1>2 DEF Pending, LoggingIn
<1>4. Made'
      BY <1>1, <1>2, <1>3 DEF Made
<1>5. Unshared'
      BY <1>1, <1>3 DEF Unshared, Others
<1>6. Orderly'
      BY <1>1, <1>3 DEF Orderly
<1>7. Renewed'
      <2> SUFFICES ASSUME NEW q \in Callers PROVE InTime(q)'
          BY DEF Renewed
      <2>1. InTime(q)
            BY <1>1 DEF Renewed
      <2> QED BY <2>1, <1>2, <1>3 DEF InTime
<1> QED BY <1>4, <1>5, <1>6, <1>7 DEF Logins

LEMMA CheckLogins ==
    ASSUME IInv, NEW p \in Callers, Check(p)
    PROVE  Logins'
<1> DEFINE step == IF admin = None \/ now >= expiry THEN "login" ELSE "test"
           others == \E q \in Others(p) : LoggingIn(q)
<1>1. TypeOK /\ Made /\ Unshared /\ Orderly /\ Renewed
      BY DEF IInv
<1>2. /\ pc[p] = "check" /\ Goto(p, step)
      /\ since' = [since EXCEPT ![p] = now]
      /\ raced' = [raced EXCEPT ![p] = mixed \/ others]
      /\ mixed' = IF pc'[p] = "login" THEN others ELSE mixed
      /\ UNCHANGED <<login, now, clients, admin, expiry, new, held, moved>>
      BY DEF Check, shared
<1>3. pc'[p] = step /\ \A q \in Callers \ {p} : pc'[q] = pc[q]
      BY <1>1, <1>2 DEF TypeOK, Goto
<1>4. \A q \in Callers : /\ Pending(q)' <=> Pending(q)
                         /\ pc'[q] = "second" <=> pc[q] = "second"
                         /\ pc'[q] = "failed" <=> pc[q] = "failed"
      BY <1>2, <1>3 DEF Pending
<1>5. Made'
      BY <1>1, <1>2, <1>3, <1>4 DEF Made
<1>6. Unshared'
      BY <1>1, <1>2, <1>4 DEF Unshared, Others
<1>7. ~LoggingIn(p) /\ \A q \in Others(p) : LoggingIn(q)' <=> LoggingIn(q)
      BY <1>2, <1>3 DEF LoggingIn, Others
<1>8. Orderly'
      <2>1. CASE step = "login"
            <3>1. mixed' = others /\ LoggingIn(p)'
                  BY <2>1, <1>2, <1>3 DEF LoggingIn
            <3>2. ~mixed' => \A q \in Others(p) : ~LoggingIn(q)'
                  BY <3>1, <1>7
            <3>3. \A q \in Callers : pc'[q] = "failed" \/ Pending(q)' => LoggingIn(q)' /\ q # p
                  BY <2>1, <1>3 DEF Pending, LoggingIn
            <3> QED BY <3>1, <3>2, <3>3, <1>1, <1>2 DEF Orderly, Others
      <2>2. CASE step = "test"
            <3>1. mixed' = mixed /\ ~LoggingIn(p)'
                  BY <2>2, <1>2, <1>3 DEF LoggingIn
            <3>2. \A q \in Callers : LoggingIn(q)' <=> LoggingIn(q)
                  BY <3>1, <1>7 DEF Others
            <3> QED BY <3>1, <3>2, <1>1, <1>2, <1>4 DEF Orderly
      <2> QED BY <2>1, <2>2
<1>9. Renewed'
      <2> SUFFICES ASSUME NEW q \in Callers PROVE InTime(q)'
          BY DEF Renewed
      <2>1. CASE q # p
            <3>1. pc'[q] = pc[q] /\ since'[q] = since[q] /\ raced'[q] = raced[q]
                  BY <2>1, <1>1, <1>2, <1>3 DEF TypeOK
            <3> QED BY <3>1, <1>1, <1>2, <1>4 DEF Renewed, InTime
      <2>2. CASE q = p
            <3>1. since'[p] = now /\ now \in Nat
                  BY <1>1, <1>2 DEF TypeOK
            <3>2. CASE step = "login"
                  BY <2>2, <3>1, <3>2, <1>2, <1>3, <1>4 DEF InTime, Pending
            <3>3. CASE step = "test"
                  <4>1. admin # None /\ now < expiry
                        BY <3>3, <3>1, <1>1 DEF TypeOK
                  <4>2. raced'[p] <=> mixed \/ others
                        BY <1>1, <1>2 DEF TypeOK
                  <4>3. ~raced'[p] => clients[admin].end > now
                        <5> SUFFICES ASSUME ~raced'[p] PROVE clients[admin].end > now
                            OBVIOUS
                        <5>1. ~mixed /\ \A r \in Callers : ~LoggingIn(r)
                              BY <4>2, <1>7 DEF Others
                        <5>2. expiry <= clients[admin].end
                              BY <5>1, <4>1, <1>1 DEF Orderly
                        <5>3. clients[admin].end \in Int /\ expiry \in Int
                              BY <4>1, <1>1, KnownClients DEF TypeOK
                        <5> QED BY <5>2, <5>3, <4>1, <3>1
                  <4> QED BY <2>2, <3>1, <3>3, <4>1, <4>3, <1>2, <1>3 DEF InTime, Pending
            <3> QED BY <3>2, <3>3
      <2> QED BY <2>1, <2>2
<1> QED BY <1>5, <1>6, <1>8, <1>9 DEF Logins

LEMMA TakeLogins ==
    ASSUME IInv, NEW p \in Callers, Take(p)
    PROVE  Logins'
<1>1. TypeOK /\ Made /\ Unshared /\ Orderly /\ Renewed
      BY DEF IInv
<1>2. /\ pc[p] = "take" /\ Goto(p, "use")
      /\ held' = [held EXCEPT ![p] = admin]
      /\ UNCHANGED <<login, now, clients, admin, expiry, new, since, moved, raced, mixed>>
      BY DEF Take, shared
<1>3. /\ pc'[p] = "use" /\ held'[p] = admin
      /\ \A q \in Callers \ {p} : pc'[q] = pc[q] /\ held'[q] = held[q]
      BY <1>1, <1>2 DEF TypeOK, Goto
<1>4. \A q \in Callers : /\ Pending(q)' <=> Pending(q)
                         /\ LoggingIn(q)' <=> LoggingIn(q)
                         /\ pc'[q] = "second" <=> pc[q] = "second"
                         /\ pc'[q] = "failed" <=> pc[q] = "failed"
      BY <1>2, <1>3 DEF Pending, LoggingIn
<1>5. Made'
      BY <1>1, <1>2, <1>3, <1>4 DEF Made, TypeOK
<1>6. Unshared'
      BY <1>1, <1>2, <1>3, <1>4 DEF Unshared, Others
<1>7. Orderly'
      BY <1>1, <1>2, <1>4 DEF Orderly
<1>8. Renewed'
      <2> SUFFICES ASSUME NEW q \in Callers PROVE InTime(q)'
          BY DEF Renewed
      <2>1. InTime(q)
            BY <1>1 DEF Renewed
      <2>2. CASE q = p
            BY <2>1, <2>2, <1>2, <1>3 DEF InTime, Pending
      <2>3. CASE q # p
            BY <2>1, <2>3, <1>2, <1>3, <1>4 DEF InTime
      <2> QED BY <2>2, <2>3
<1> QED BY <1>5, <1>6, <1>7, <1>8 DEF Logins

LEMMA TickLogins ==
    ASSUME IInv, Tick
    PROVE  Logins'
<1>1. TypeOK /\ Made /\ Unshared /\ Orderly /\ Renewed
      BY DEF IInv
<1>2. /\ now' = now + 1
      /\ UNCHANGED <<login, clients, admin, expiry, pc, new, held, since, moved, raced, mixed>>
      BY DEF Tick, getter, histories
<1>3. \A q \in Callers : (Pending(q)' <=> Pending(q)) /\ (LoggingIn(q)' <=> LoggingIn(q))
      BY <1>2 DEF Pending, LoggingIn
<1>4. Made' /\ Unshared' /\ Orderly'
      BY <1>1, <1>2, <1>3 DEF Made, Unshared, Others, Orderly
<1>5. Renewed'
      <2> SUFFICES ASSUME NEW q \in Callers PROVE InTime(q)'
          BY DEF Renewed
      <2>1. InTime(q) /\ now \in Int /\ since[q] \in Int
            BY <1>1 DEF Renewed, TypeOK
      <2>2. since[q] <= now + 1
            BY <2>1 DEF InTime
      <2> QED BY <2>1, <2>2, <1>2, <1>3 DEF InTime
<1> QED BY <1>4, <1>5 DEF Logins

\* Whoever is in the property when a login, or its failure, is stored, is overtaken.
LEMMA StoredMarks ==
    ASSUME TypeOK, NEW p \in Callers, Stored(p)
    PROVE  /\ raced' \in [Callers -> BOOLEAN] /\ (raced'[p] <=> raced[p])
           /\ \A q \in Others(p) : raced'[q] <=> raced[q] \/ InGetter(q)
<1>1. raced' = [q \in Callers |-> raced[q] \/ q \in {r \in Others(p) : InGetter(r)}]
      BY DEF Stored, Mark
<1>2. raced \in [Callers -> BOOLEAN]
      BY DEF TypeOK
<1>3. raced' \in [Callers -> BOOLEAN]
      BY <1>1
<1>4. raced'[p] <=> raced[p]
      <2>1. raced'[p] = (raced[p] \/ p \in {r \in Others(p) : InGetter(r)})
            BY <1>1
      <2>2. p \notin {r \in Others(p) : InGetter(r)}
            BY DEF Others
      <2> QED BY <2>1, <2>2, Zenon
<1>5. ASSUME NEW q \in Others(p)
      PROVE  raced'[q] <=> raced[q] \/ InGetter(q)
      <2>1. q \in Callers
            BY DEF Others
      <2>2. raced'[q] = (raced[q] \/ q \in {r \in Others(p) : InGetter(r)})
            BY <1>1, <2>1
      <2>3. q \in {r \in Others(p) : InGetter(r)} <=> InGetter(q)
            OBVIOUS
      <2> QED BY <2>2, <2>3, Zenon
<1> QED BY <1>3, <1>4, <1>5

\* The others of whom a login or a failure does not overtake use the client they
\* were handed, which stays, or have yet to ask.
LEMMA OthersInTime ==
    ASSUME TypeOK, Made, Renewed, NEW p \in Callers, Stored(p),
           NEW q \in Others(p),
           UNCHANGED <<login, now, since, held>>, pc'[q] = pc[q], new'[q] = new[q],
           DOMAIN clients \subseteq DOMAIN clients',
           \A c \in DOMAIN clients : clients'[c] = clients[c]
    PROVE  InTime(q)'
<1>1. q \in Callers /\ InTime(q) /\ (raced'[q] <=> raced[q] \/ InGetter(q))
      BY StoredMarks DEF Others, Renewed
<1>2. /\ held[q] # None => held[q] \in DOMAIN clients
      /\ pc[q] = "second" => new[q] \in DOMAIN clients
      BY <1>1 DEF Made
<1>3. pc[q] \in {"second", "test", "take"} => raced'[q]
      BY <1>1 DEF InGetter, LoggingIn
<1> QED BY <1>1, <1>2, <1>3 DEF InTime, Pending

LEMMA LoginIs ==
    ASSUME IInv, NEW p \in Callers, Login(p)
    PROVE  /\ clients' \in Seq([realm : RealmNames, end : 0..MaxTime + Lifetime + 1])
           /\ Len(clients') <= MaxClients
           /\ new'[p] \notin DOMAIN clients
           /\ new'[p] # None
           /\ new' \in [Callers -> Ids \cup {None}]
           /\ DOMAIN clients' = DOMAIN clients \cup {new'[p]}
           /\ \A c \in DOMAIN clients : clients'[c] = clients[c]
           /\ clients'[new'[p]] = [realm |-> Home, end |-> TokenEnd]
           /\ \A q \in Callers \ {p} : new'[q] = new[q]
<1> DEFINE R == [realm : RealmNames, end : 0..MaxTime + Lifetime + 1]
           c == [realm |-> Home, end |-> TokenEnd]
           n == Len(clients) + 1
<1>1. TypeOK
      BY DEF IInv
<1>2. clients \in Seq(R) /\ Len(clients) \in Nat /\ DOMAIN clients = 1..Len(clients)
      BY <1>1 DEF TypeOK
<1>3. c \in R
      <2>1. TokenEnd \in 0..MaxTime + Lifetime + 1
            BY <1>1, ConstantsAssumption DEF TypeOK, TokenEnd
      <2> QED BY <2>1, NoneApart
<1>4. clients' = Append(clients, c) /\ Len(clients) < MaxClients
      BY DEF Login
<1>5. /\ clients' \in Seq(R) /\ Len(clients') = n
      /\ clients'[n] = c
      /\ \A i \in 1..Len(clients) : clients'[i] = clients[i]
      <2> HIDE DEF R, c
      <2> QED BY <1>2, <1>3, <1>4
<1>6. new'[p] = n /\ \A q \in Callers \ {p} : new'[q] = new[q]
      BY <1>1, <1>5 DEF Login, TypeOK
<1>7. n \in Ids
      BY <1>2, <1>4, ConstantsAssumption DEF Ids
<1>8. new' \in [Callers -> Ids \cup {None}]
      BY <1>1, <1>5, <1>7 DEF Login, TypeOK
<1>9. DOMAIN clients' = 1..n
      <2> HIDE DEF R, n
      <2> QED BY <1>5
<1>10. Len(clients') <= MaxClients
      BY <1>2, <1>4, <1>5, ConstantsAssumption
<1> QED BY <1>2, <1>5, <1>6, <1>7, <1>8, <1>9, <1>10, NoneApart

LEMMA LoginLogins ==
    ASSUME IInv, NEW p \in Callers, Login(p)
    PROVE  Logins'
<1> DEFINE n == new'[p]
<1>1. TypeOK /\ Made /\ Unshared /\ Orderly /\ Renewed
      BY DEF IInv
<1>2. /\ n \notin DOMAIN clients /\ n # None
      /\ DOMAIN clients' = DOMAIN clients \cup {n}
      /\ \A c \in DOMAIN clients : clients'[c] = clients[c]
      /\ clients'[n].realm = Home /\ clients'[n].end = TokenEnd
      /\ \A q \in Callers \ {p} : new'[q] = new[q]
      <2>1. clients'[n] = [realm |-> Home, end |-> TokenEnd]
            BY LoginIs
      <2>2. clients'[n].realm = Home /\ clients'[n].end = TokenEnd
            BY <2>1
      <2> QED BY <2>2, LoginIs
<1>3. /\ pc[p] = "login" /\ Goto(p, "second") /\ Stored(p)
      /\ IF login = "password" THEN admin' = n /\ UNCHANGED expiry
         ELSE expiry' = now + Lifetime /\ UNCHANGED admin
      /\ UNCHANGED <<login, now, held, since, moved, mixed>>
      <2>1. n = Len(clients')
            BY <1>1 DEF Login, TypeOK
      <2> QED BY <2>1 DEF Login
<1>4. pc'[p] = "second" /\ \A q \in Callers \ {p} : pc'[q] = pc[q]
      BY <1>1, <1>3 DEF TypeOK, Goto
<1>5. \A q \in Callers : LoggingIn(q)' <=> LoggingIn(q)
      BY <1>3, <1>4 DEF LoggingIn
<1>6. \A q \in Callers \ {p} : /\ Pending(q)' <=> Pending(q)
                               /\ Pending(q) => new[q] \in DOMAIN clients
      BY <1>1, <1>3, <1>4 DEF Pending, Made
<1>7. Made'
      BY <1>1, <1>2, <1>3, <1>4 DEF Made
<1>8. Unshared'
      <2>1. CASE login = "password"
            BY <2>1, <1>3 DEF Unshared, Pending
      <2>2. CASE login # "password"
            <3>1. \A q \in Callers : held[q] # n
                  BY <1>1, <1>2 DEF Made
            <3>2. admin' = admin /\ admin # n
                  BY <2>2, <1>1, <1>2, <1>3 DEF TypeOK
            <3>3. \A q \in Callers \ {p} : Pending(q) => new[q] # n
                  BY <1>2, <1>6
            <3> QED BY <3>1, <3>2, <3>3, <1>1, <1>2, <1>3, <1>6 DEF Unshared, Others
      <2> QED BY <2>1, <2>2
<1>9. now \in 0..MaxTime /\ expiry \in 0..MaxTime + Lifetime
        /\ Lifetime \in Nat \ {0} /\ MaxTime \in Nat
      BY <1>1, ConstantsAssumption DEF TypeOK
<1>10. Orderly'
      <2>1. login = "password" => \A c \in DOMAIN clients' : clients'[c].end = MaxTime + Lifetime + 1
            <3>1. login = "password" => TokenEnd = MaxTime + Lifetime + 1
                  BY DEF TokenEnd
            <3> QED BY <3>1, <1>1, <1>2 DEF Orderly
      <2>2. LoggingIn(p)
            BY <1>3 DEF LoggingIn
      <2>3. \A q \in Callers : Pending(q)' \/ pc'[q] = "failed" => LoggingIn(q)
            BY <1>5 DEF Pending, LoggingIn
      <2>4. Pending(p)' => expiry' <= clients'[n].end
            <3>1. login = "secret" => TokenEnd = now + Lifetime /\ expiry' = now + Lifetime
                  BY <1>3 DEF TokenEnd
            <3> QED BY <3>1, <1>2, <1>3, <1>9 DEF Pending
      <2>5. ~mixed => /\ \A q, r \in Callers : LoggingIn(q)' /\ LoggingIn(r)' => q = r
                      /\ ~ \A q \in Callers : ~LoggingIn(q)'
                      /\ \A q \in Callers : Pending(q)' => expiry' <= clients'[new'[q]].end
                      /\ \A q \in Callers : pc'[q] # "failed"
            <3> SUFFICES ASSUME ~mixed
                         PROVE  /\ \A q, r \in Callers : LoggingIn(q)' /\ LoggingIn(r)' => q = r
                                /\ ~ \A q \in Callers : ~LoggingIn(q)'
                                /\ \A q \in Callers : Pending(q)' => expiry' <= clients'[new'[q]].end
                                /\ \A q \in Callers : pc'[q] # "failed"
                OBVIOUS
            <3>1. \A q, r \in Callers : LoggingIn(q) /\ LoggingIn(r) => q = r
                  BY <1>1 DEF Orderly
            <3>2. \A q \in Callers : Pending(q)' \/ pc'[q] = "failed" => q = p
                  BY <3>1, <2>2, <2>3
            <3> QED BY <3>1, <3>2, <2>2, <2>4, <1>4, <1>5
      <2> QED BY <2>1, <2>5, <1>3 DEF Orderly
<1>11. Renewed'
      <2> SUFFICES ASSUME NEW q \in Callers PROVE InTime(q)'
          BY DEF Renewed
      <2>1. CASE q # p
            BY <2>1, <1>1, <1>2, <1>3, <1>4, OthersInTime DEF Others
      <2>2. CASE q = p
            <3>1. since[p] <= now /\ since[p] \in Nat
                  BY <1>1 DEF Renewed, InTime, TypeOK
            <3>2. Pending(p)' => clients'[n].end > since[p]
                  <4>1. login = "secret" => TokenEnd = now + Lifetime
                        BY DEF TokenEnd
                  <4> QED BY <4>1, <3>1, <1>2, <1>3, <1>9 DEF Pending
            <3>3. login = "password" => admin' # None
                  BY <1>2, <1>3
            <3> QED BY <2>2, <3>1, <3>2, <3>3, <1>3, <1>4 DEF InTime
      <2> QED BY <2>1, <2>2
<1> QED BY <1>7, <1>8, <1>10, <1>11 DEF Logins

LEMMA LoginStoresLogins ==
    ASSUME IInv, NEW p \in Callers, LoginStores(p)
    PROVE  Logins'
<1>1. TypeOK /\ Made /\ Unshared /\ Orderly /\ Renewed
      BY DEF IInv
<1>2. /\ pc[p] = "second" /\ Goto(p, "test") /\ Stored(p)
      /\ IF login = "password" THEN expiry' = now + Lifetime /\ UNCHANGED admin
         ELSE admin' = new[p] /\ UNCHANGED expiry
      /\ new' = [new EXCEPT ![p] = None]
      /\ UNCHANGED <<login, now, clients, held, since, moved, mixed>>
      BY DEF LoginStores
<1>3. /\ pc'[p] = "test" /\ new'[p] = None
      /\ \A q \in Callers \ {p} : pc'[q] = pc[q] /\ new'[q] = new[q]
      BY <1>1, <1>2 DEF TypeOK, Goto
<1>4. LoggingIn(p) /\ \A q \in Callers : LoggingIn(q)' <=> LoggingIn(q) /\ q # p
      BY <1>2, <1>3 DEF LoggingIn
<1>5. \A q \in Callers : /\ Pending(q)' <=> Pending(q) /\ q # p
                         /\ pc'[q] = "second" <=> pc[q] = "second" /\ q # p
      BY <1>2, <1>3 DEF Pending
<1>6. Made'
      BY <1>1, <1>2, <1>3, <1>5 DEF Made
<1>7. Unshared'
      <2>1. \A q \in Callers : Pending(q)' => new'[q] # admin'
            <3>1. CASE login = "password"
                  BY <3>1, <1>2 DEF Pending
            <3>2. CASE login # "password"
                  <4>1. login = "secret"
                        BY <3>2, <1>1 DEF TypeOK
                  <4> QED BY <4>1, <1>1, <1>2, <1>3, <1>5 DEF Unshared, Others, Pending
            <3> QED BY <3>1, <3>2
      <2> QED BY <2>1, <1>1, <1>2, <1>3, <1>5 DEF Unshared, Others
<1>8. now \in 0..MaxTime /\ expiry \in 0..MaxTime + Lifetime
        /\ Lifetime \in Nat \ {0} /\ MaxTime \in Nat
      BY <1>1, ConstantsAssumption DEF TypeOK
<1>9. Orderly'
      <2>1. ASSUME ~mixed
            PROVE  /\ \A q \in Callers : ~LoggingIn(q)'
                   /\ admin' # None => expiry' <= clients[admin'].end
            <3>1. \A q \in Callers : ~LoggingIn(q)'
                  BY <2>1, <1>1, <1>4 DEF Orderly
            <3>2. CASE login = "password"
                  <4>1. admin # None => clients[admin].end = MaxTime + Lifetime + 1
                        BY <3>2, <1>1 DEF Orderly, TypeOK
                  <4> QED BY <4>1, <3>1, <3>2, <1>2, <1>8
            <3>3. CASE login # "password"
                  <4>1. Pending(p)
                        BY <3>3, <1>1, <1>2 DEF Pending, TypeOK
                  <4> QED BY <4>1, <3>1, <3>3, <2>1, <1>1, <1>2 DEF Orderly
            <3> QED BY <3>2, <3>3
      <2>2. \A q \in Callers : Pending(q)' \/ pc'[q] = "failed" => LoggingIn(q)'
            BY DEF Pending, LoggingIn
      <2> QED BY <2>1, <2>2, <1>1, <1>2 DEF Orderly
<1>10. Renewed'
      <2> SUFFICES ASSUME NEW q \in Callers PROVE InTime(q)'
          BY DEF Renewed
      <2>1. CASE q # p
            BY <2>1, <1>1, <1>2, <1>3, OthersInTime DEF Others
      <2>2. CASE q = p
            <3>1. since[p] <= now /\ since[p] \in Nat /\ InTime(p) /\ (raced'[p] <=> raced[p])
                  BY <1>1, <1>2, StoredMarks DEF Renewed, InTime, TypeOK
            <3>2. ~raced[p] => admin' # None /\ clients[admin'].end > since[p]
                  <4>1. CASE login = "password"
                        <5>1. ~raced[p] => admin # None
                              BY <4>1, <3>1, <1>2 DEF InTime
                        <5>2. admin # None => clients[admin].end = MaxTime + Lifetime + 1
                              BY <4>1, <1>1 DEF Orderly, TypeOK
                        <5> QED BY <5>1, <5>2, <4>1, <3>1, <1>2, <1>8
                  <4>2. CASE login # "password"
                        <5>1. Pending(p)
                              BY <4>2, <1>1, <1>2 DEF Pending, TypeOK
                        <5>2. new[p] # None
                              BY <1>1, <1>2, KnownClients DEF Made
                        <5> QED BY <5>1, <5>2, <4>2, <3>1, <1>2 DEF InTime
                  <4> QED BY <4>1, <4>2
            <3> QED BY <2>2, <3>1, <3>2, <1>2, <1>3 DEF InTime, Pending
      <2> QED BY <2>1, <2>2
<1> QED BY <1>6, <1>7, <1>9, <1>10 DEF Logins

LEMMA LoginFailsLogins ==
    ASSUME IInv, NEW p \in Callers, LoginFails(p)
    PROVE  Logins'
<1>1. TypeOK /\ Made /\ Unshared /\ Orderly /\ Renewed
      BY DEF IInv
<1>2. /\ pc[p] = "login" /\ Goto(p, "failed") /\ Stored(p) /\ admin' = None
      /\ UNCHANGED <<login, now, clients, expiry, new, held, since, moved, mixed>>
      BY DEF LoginFails, getter
<1>3. pc'[p] = "failed" /\ \A q \in Callers \ {p} : pc'[q] = pc[q]
      BY <1>1, <1>2 DEF TypeOK, Goto
<1>4. \A q \in Callers : LoggingIn(q)' <=> LoggingIn(q)
      BY <1>2, <1>3 DEF LoggingIn
<1>5. \A q \in Callers : /\ Pending(q)' <=> Pending(q)
                         /\ pc'[q] = "second" <=> pc[q] = "second"
      BY <1>2, <1>3 DEF Pending
<1>6. Made'
      BY <1>1, <1>2, <1>3, <1>5 DEF Made
<1>7. Unshared'
      <2>1. \A q \in Callers : Pending(q) => new[q] # None
            BY <1>1, KnownClients DEF Pending, Made
      <2> QED BY <2>1, <1>1, <1>2, <1>5 DEF Unshared, Others
<1>8. Orderly'
      BY <1>1, <1>2, <1>4, <1>5 DEF Orderly
<1>9. Renewed'
      <2> SUFFICES ASSUME NEW q \in Callers PROVE InTime(q)'
          BY DEF Renewed
      <2>1. CASE q # p
            BY <2>1, <1>1, <1>2, <1>3, OthersInTime DEF Others
      <2>2. CASE q = p
            BY <2>2, <1>1, <1>2, <1>3 DEF Renewed, InTime, Pending
      <2> QED BY <2>1, <2>2
<1> QED BY <1>6, <1>7, <1>8, <1>9 DEF Logins

-----------------------------------------------------------------------------
\* Realms: plans, who brings the client back, and where requests go

Courses == Planned /\ Untangled /\ Uncrossed

\* A call ends: if it switches it has restored the realm, or lost the client.
LEMMA ReturnCourses ==
    ASSUME IInv, NEW p \in Callers, pc[p] # "idle", Return(p), UNCHANGED admin,
           plan[p] \notin Switches => UNCHANGED clients,
           plan[p] \in Switches /\ ~tangled /\ admin # None => clients'[admin].realm = Home
    PROVE  Courses'
<1>1. TypeOK /\ Planned /\ Untangled /\ Uncrossed
      BY DEF IInv
<1>2. /\ pc'[p] = "idle" /\ plan'[p] = << >>
      /\ target'[p] = None /\ sent'[p] = {} /\ answer'[p] = None /\ moved'[p] = None
      BY <1>1, ReturnTypes DEF TypeOK
<1>3. ASSUME NEW q \in Callers, q # p
      PROVE  /\ pc'[q] = pc[q] /\ plan'[q] = plan[q] /\ target'[q] = target[q]
             /\ origin'[q] = origin[q] /\ sent'[q] = sent[q] /\ answer'[q] = answer[q]
             /\ moved'[q] = moved[q] /\ crossed'[q] = crossed[q] /\ held'[q] = held[q]
      <2>1. Drop(p)
            BY DEF Return
      <2>2. held'[q] = held[q]
            BY <2>1, <1>1, <1>3, DropTypes
      <2>3. pc'[q] = pc[q] /\ plan'[q] = plan[q]
            BY <1>1, <1>3 DEF Return, Goto, TypeOK
      <2>4. /\ target'[q] = target[q] /\ origin'[q] = origin[q] /\ sent'[q] = sent[q]
            /\ answer'[q] = answer[q] /\ moved'[q] = moved[q] /\ crossed'[q] = crossed[q]
            BY <1>1, <1>3, ReturnTypes
      <2> QED BY <2>2, <2>3, <2>4
<1>4. UNCHANGED tangled /\ plan'[p] \notin Switches
      BY <1>1, <1>2, ReturnTypes, Distinct
<1>5. Planned'
      BY <1>1, <1>2, <1>3, EmptyPlan, Distinct DEF Planned
<1>6. Untangled'
      <2> SUFFICES ASSUME ~tangled PROVE
            /\ \A q, r \in Callers : plan'[q] \in Switches /\ plan'[r] \in Switches => q = r
            /\ \A q \in Callers : plan'[q] \in Switches => origin'[q] = Home
            /\ admin # None /\ clients'[admin].realm # Home => \E q \in Callers : BringsBack(q)'
          BY <1>4 DEF Untangled
      <2>1. \A q \in Callers : plan'[q] \in Switches => q # p /\ plan[q] \in Switches
            BY <1>3, <1>4
      <2>2. ASSUME admin # None, clients'[admin].realm # Home
            PROVE  \E q \in Callers : BringsBack(q)'
            <3>1. plan[p] \notin Switches /\ UNCHANGED clients
                  BY <2>2
            <3>2. PICK q \in Callers : BringsBack(q)
                  BY <2>2, <3>1, <1>1 DEF Untangled
            <3>3. q # p
                  BY <3>1, <3>2 DEF BringsBack, Switches
            <3> QED BY <3>2, <3>3, <1>3 DEF BringsBack
      <2> QED BY <2>1, <2>2, <1>1, <1>3 DEF Untangled
<1>7. Uncrossed'
      <2> SUFFICES ASSUME NEW q \in Callers, ~crossed'[q], pc'[q] # "idle"
                   PROVE  /\ Alone(q)'
                          /\ IF plan'[q] \in Switches THEN Abroad(q)' ELSE AtHome(q)'
          BY DEF Uncrossed
      <2>1. q # p
            BY <1>2
      <2>2. /\ Alone(q)
            /\ IF plan[q] \in Switches THEN Abroad(q) ELSE AtHome(q)
            BY <2>1, <1>1, <1>3 DEF Uncrossed
      <2>3. UNCHANGED clients
            BY <2>1, <2>2 DEF Alone, Others
      <2>4. Alone(q)'
            BY <2>2, <1>3, <1>4 DEF Alone, Others
      <2> QED BY <2>1, <2>2, <2>3, <2>4, <1>3 DEF Abroad, AtHome
<1> QED BY <1>5, <1>6, <1>7 DEF Courses

\* The finally of create_client() is what is left of it.
LEMMA FinallyCourses ==
    ASSUME IInv, NEW p \in Callers, plan[p] \in Switches \ {ToRestore},
           Goto(p, "check"), plan' = [plan EXCEPT ![p] = ToRestore], Drop(p),
           UNCHANGED <<clients, admin, target, origin, sent, moved, crossed, tangled>>,
           \A q \in Callers : \/ answer'[q] = answer[q]
                              \/ q = p /\ (~crossed[p] => sent[p] = {answer'[p]})
    PROVE  Courses'
<1>1. TypeOK /\ Planned /\ Untangled /\ Uncrossed
      BY DEF IInv
<1>2. pc'[p] = "check" /\ plan'[p] = ToRestore /\ ToRestore \in Switches
      BY <1>1 DEF Goto, TypeOK, Switches, Away
<1>3. ASSUME NEW q \in Callers, q # p
      PROVE  pc'[q] = pc[q] /\ plan'[q] = plan[q] /\ held'[q] = held[q] /\ answer'[q] = answer[q]
      BY <1>1, <1>3, DropTypes DEF Goto, TypeOK
<1>4. pc[p] # "idle"
      BY <1>1, Distinct DEF Planned
<1>5. Planned'
      <2>1. ToRestore \in Shape /\ ToRestore \notin {<< >>, Whole, ToSwitch}
            BY Distinct DEF Shape, Switches, Away
      <2>2. target[p] # None /\ origin[p] # None
            BY <1>1 DEF Planned
      <2> QED BY <2>1, <2>2, <1>1, <1>2, <1>3 DEF Planned
<1>6. Untangled'
      <2> SUFFICES ASSUME ~tangled PROVE
            /\ \A q, r \in Callers : plan'[q] \in Switches /\ plan'[r] \in Switches => q = r
            /\ \A q \in Callers : plan'[q] \in Switches => origin[q] = Home
            /\ admin # None /\ clients[admin].realm # Home => \E q \in Callers : BringsBack(q)'
          BY DEF Untangled
      <2>1. \A q \in Callers : plan'[q] \in Switches <=> plan[q] \in Switches
            BY <1>2, <1>3
      <2>2. ASSUME admin # None, clients[admin].realm # Home
            PROVE  BringsBack(p)'
            BY <1>2 DEF BringsBack, Away
      <2> QED BY <2>1, <2>2, <1>1 DEF Untangled
<1>7. Uncrossed'
      <2> SUFFICES ASSUME NEW q \in Callers, ~crossed[q], pc'[q] # "idle"
                   PROVE  /\ Alone(q)'
                          /\ IF plan'[q] \in Switches THEN Abroad(q)' ELSE AtHome(q)'
          BY DEF Uncrossed
      <2>1. q = p
            BY <1>1, <1>3 DEF Uncrossed, Alone, Others
      <2>2. Alone(p) /\ Abroad(p)
            BY <2>1, <1>1, <1>4 DEF Uncrossed
      <2>3. Alone(p)'
            BY <2>2, <1>3 DEF Alone, Others
      <2>4. Abroad(p)'
            <3>1. ToRestore \notin {ToRequest, ToReport}
                  BY Distinct
            <3>2. answer'[p] # None => sent[p] = {answer'[p]}
                  BY <2>1, <2>2 DEF Abroad
            <3> QED BY <3>1, <3>2, <2>2, <1>2 DEF Abroad
      <2> QED BY <2>1, <2>3, <2>4, <1>2
<1> QED BY <1>5, <1>6, <1>7 DEF Courses

\* Inside the property a caller keeps its course, whoever stores what.
LEMMA GetterCourses ==
    ASSUME IInv, NEW p \in Callers,
           pc[p] \in {"check", "login", "second", "test"},
           NEW step \in {"login", "second", "failed", "test", "take"}, Goto(p, step),
           UNCHANGED <<plan, target, origin, sent, answer, held, moved, crossed, tangled>>,
           \A c \in DOMAIN clients : clients'[c] = clients[c],
           \/ UNCHANGED admin /\ step # "failed"
           \/ admin' = None
           \/ clients'[admin'].realm = Home
    PROVE  Courses'
<1>1. TypeOK /\ Planned /\ Made /\ Untangled /\ Uncrossed
      BY DEF IInv
<1>2. pc'[p] = step /\ \A q \in Callers \ {p} : pc'[q] = pc[q]
      BY <1>1 DEF Goto, TypeOK
<1>3. /\ admin # None => admin \in DOMAIN clients
      /\ \A q \in Callers : /\ held[q] # None => held[q] \in DOMAIN clients
                            /\ moved[q] # None => moved[q] \in DOMAIN clients
      BY <1>1 DEF TypeOK, Made
<1>4. Planned'
      BY <1>1, <1>2 DEF Planned
<1>5. ASSUME admin' # None, clients'[admin'].realm # Home
      PROVE  admin' = admin /\ step # "failed" /\ admin # None /\ clients[admin].realm # Home
      BY <1>3, <1>5
<1>6. Untangled'
      <2>1. ASSUME ~tangled, admin' # None, clients'[admin'].realm # Home
            PROVE  \E q \in Callers : BringsBack(q)'
            <3>1. PICK q \in Callers : BringsBack(q)
                  BY <2>1, <1>1, <1>5 DEF Untangled
            <3>2. BringsBack(q)'
                  BY <3>1, <2>1, <1>2, <1>5 DEF BringsBack
            <3> QED BY <3>2
      <2> QED BY <2>1, <1>1 DEF Untangled
<1>7. Uncrossed'
      <2> SUFFICES ASSUME NEW q \in Callers, ~crossed[q], pc'[q] # "idle"
                   PROVE  /\ Alone(q)'
                          /\ IF plan[q] \in Switches THEN Abroad(q)' ELSE AtHome(q)'
          BY DEF Uncrossed
      <2>1. /\ Alone(q)
            /\ IF plan[q] \in Switches THEN Abroad(q) ELSE AtHome(q)
            BY <1>1, <1>2 DEF Uncrossed
      <2>2. Alone(q)'
            BY <2>1 DEF Alone, Others
      <2>3. AtHome(q) => AtHome(q)'
            BY <1>3, <1>5 DEF AtHome
      <2>4. Abroad(q) => Abroad(q)'
            BY <1>2, <1>3 DEF Abroad
      <2> QED BY <2>1, <2>2, <2>3, <2>4
<1> QED BY <1>4, <1>6, <1>7 DEF Courses

LEMMA TakeCourses ==
    ASSUME IInv, NEW p \in Callers, Take(p)
    PROVE  Courses'
<1>1. TypeOK /\ Planned /\ Made /\ Untangled /\ Uncrossed
      BY DEF IInv
<1>2. /\ pc[p] = "take" /\ Goto(p, "use") /\ held' = [held EXCEPT ![p] = admin]
      /\ crossed' = IF moved[p] \notin {None, admin} THEN Mark(crossed, {p}) ELSE crossed
      /\ UNCHANGED <<plan, target, origin, sent, answer, moved, tangled, clients, admin>>
      BY DEF Take, call, shared
<1>3. /\ pc'[p] = "use" /\ held'[p] = admin
      /\ \A q \in Callers \ {p} : pc'[q] = pc[q] /\ held'[q] = held[q]
      BY <1>1, <1>2 DEF Goto, TypeOK
<1>4. /\ \A q \in Callers : ~crossed'[q] => ~crossed[q]
      /\ ~crossed'[p] => moved[p] \in {None, admin}
      BY <1>2 DEF Mark
<1>5. Planned'
      BY <1>1, <1>2, <1>3 DEF Planned
<1>6. Untangled'
      <2>1. \A q \in Callers : BringsBack(q) => BringsBack(q)'
            BY <1>2, <1>3 DEF BringsBack
      <2> QED BY <2>1, <1>1, <1>2 DEF Untangled
<1>7. Uncrossed'
      <2> SUFFICES ASSUME NEW q \in Callers, ~crossed'[q], pc'[q] # "idle"
                   PROVE  /\ Alone(q)'
                          /\ IF plan[q] \in Switches THEN Abroad(q)' ELSE AtHome(q)'
          BY <1>2 DEF Uncrossed
      <2>1. /\ Alone(q)
            /\ IF plan[q] \in Switches THEN Abroad(q) ELSE AtHome(q)
            BY <1>1, <1>2, <1>3, <1>4 DEF Uncrossed
      <2>2. Alone(q)'
            BY <2>1, <1>2 DEF Alone, Others
      <2>3. AtHome(q) => AtHome(q)'
            BY <1>2, <1>3 DEF AtHome
      <2>4. Abroad(q) => Abroad(q)'
            BY <1>2, <1>3, <1>4 DEF Abroad
      <2> QED BY <2>1, <2>2, <2>3, <2>4
<1> QED BY <1>5, <1>6, <1>7 DEF Courses

\* An operation that switches nothing goes on: its requests stay in the configured
\* realm if nobody crosses it.
LEMMA OrdinaryCourses ==
    ASSUME IInv, NEW p \in Callers, pc[p] # "idle", plan[p] \notin Switches,
           NEW step \in {"check", "await"}, Goto(p, step),
           NEW rest \in Shape \ Switches, rest # << >>, plan' = [plan EXCEPT ![p] = rest],
           rest = Whole => plan[p] = Whole /\ sent'[p] = sent[p],
           step = "await" => Head(rest) \in {"request", "openid", "uma"},
           \A q \in Callers \ {p} : sent'[q] = sent[q] /\ held'[q] = held[q],
           sent'[p] = sent[p] \/ (~crossed[p] => sent'[p] = sent[p] \cup {Home}),
           held'[p] \in {held[p], None},
           \A q \in Callers \ {p} : origin'[q] = origin[q],
           UNCHANGED <<clients, admin, target, answer, moved, crossed, tangled>>
    PROVE  Courses'
<1>1. TypeOK /\ Planned /\ Untangled /\ Uncrossed
      BY DEF IInv
<1>2. /\ pc'[p] = step /\ plan'[p] = rest
      /\ \A q \in Callers \ {p} : pc'[q] = pc[q] /\ plan'[q] = plan[q]
      BY <1>1 DEF Goto, TypeOK
<1>3. \A q \in Callers : plan'[q] \in Switches <=> plan[q] \in Switches
      BY <1>2
<1>4. Planned'
      <2> SUFFICES ASSUME NEW q \in Callers
                   PROVE  /\ plan'[q] \in Shape
                          /\ pc'[q] = "idle" <=> plan'[q] = << >>
                          /\ pc'[q] = "await" => Head(plan'[q]) \in {"request", "openid", "uma"}
                          /\ IF plan'[q] \in Switches THEN target[q] # None /\ origin'[q] # None
                             ELSE target[q] = None /\ moved[q] = None /\ answer[q] = None
                          /\ plan'[q] = ToSwitch => moved[q] = None /\ answer[q] = None
                          /\ plan'[q] \in {<< >>, Whole, ToSwitch} => sent'[q] = {}
          BY DEF Planned
      <2>1. CASE q = p
            BY <2>1, <1>1, <1>2 DEF Planned, Switches
      <2>2. CASE q # p
            BY <2>2, <1>1, <1>2 DEF Planned
      <2> QED BY <2>1, <2>2
<1>5. Untangled'
      <2>1. \A q \in Callers : BringsBack(q) => BringsBack(q)'
            BY <1>2 DEF BringsBack, Switches
      <2>2. \A q \in Callers : plan'[q] \in Switches => origin'[q] = origin[q]
            BY <1>2
      <2> QED BY <2>1, <2>2, <1>1, <1>3 DEF Untangled
<1>6. Uncrossed'
      <2> SUFFICES ASSUME NEW q \in Callers, ~crossed[q], pc'[q] # "idle"
                   PROVE  /\ Alone(q)'
                          /\ IF plan'[q] \in Switches THEN Abroad(q)' ELSE AtHome(q)'
          BY DEF Uncrossed
      <2>1. /\ Alone(q)
            /\ IF plan[q] \in Switches THEN Abroad(q) ELSE AtHome(q)
            BY <1>1, <1>2 DEF Uncrossed
      <2>2. Alone(q)'
            BY <2>1, <1>3 DEF Alone, Others
      <2>3. CASE q = p
            BY <2>1, <2>2, <2>3, <1>2 DEF AtHome
      <2>4. CASE q # p
            BY <2>1, <2>2, <2>4, <1>2 DEF AtHome, Abroad
      <2> QED BY <2>3, <2>4
<1> QED BY <1>4, <1>5, <1>6 DEF Courses

LEMMA BeginCourses ==
    ASSUME IInv, NEW p \in Callers, Begin(p)
    PROVE  Courses'
<1>1. TypeOK /\ Planned /\ Made /\ Untangled /\ Uncrossed
      BY DEF IInv
<1>2. PICK todo \in Plans : plan' = [plan EXCEPT ![p] = todo]
      BY DEF Begin
<1>3. /\ pc[p] = "idle" /\ Goto(p, "check")
      /\ crossed' = [crossed EXCEPT ![p] = \/ \E q \in Others(p) : Switching(q)
                                           \/ admin # None /\ clients[admin].realm # Home]
      /\ UNCHANGED <<target, origin, sent, answer, held, moved, tangled, clients, admin>>
      BY DEF Begin, shared, getter
<1>4. /\ pc'[p] = "check" /\ plan'[p] = todo
      /\ \A q \in Callers \ {p} : pc'[q] = pc[q] /\ plan'[q] = plan[q] /\ crossed'[q] = crossed[q]
      BY <1>1, <1>2, <1>3 DEF Goto, TypeOK
<1>5. todo \in Shape \ Switches /\ todo # << >>
      BY <1>2, PlansFit, OrdinaryApart, Distinct DEF Offered, Shape
<1>6. plan[p] = << >> /\ plan[p] \notin Switches
      BY <1>1, <1>3, Distinct DEF Planned
<1>7. \A q \in Callers : plan'[q] \in Switches <=> plan[q] \in Switches
      BY <1>4, <1>5, <1>6
<1>8. Planned'
      <2> SUFFICES ASSUME NEW q \in Callers
                   PROVE  /\ plan'[q] \in Shape
                          /\ pc'[q] = "idle" <=> plan'[q] = << >>
                          /\ pc'[q] = "await" => Head(plan'[q]) \in {"request", "openid", "uma"}
                          /\ IF plan'[q] \in Switches THEN target[q] # None /\ origin[q] # None
                             ELSE target[q] = None /\ moved[q] = None /\ answer[q] = None
                          /\ plan'[q] = ToSwitch => moved[q] = None /\ answer[q] = None
                          /\ plan'[q] \in {<< >>, Whole, ToSwitch} => sent[q] = {}
          BY <1>3 DEF Planned
      <2>1. CASE q = p
            BY <2>1, <1>1, <1>4, <1>5, <1>6 DEF Planned, Switches
      <2>2. CASE q # p
            BY <2>2, <1>1, <1>4 DEF Planned
      <2> QED BY <2>1, <2>2
<1>9. Untangled'
      <2>1. \A q \in Callers : BringsBack(q) => BringsBack(q)'
            BY <1>3, <1>4, <1>6 DEF BringsBack, Switches
      <2> QED BY <2>1, <1>1, <1>3, <1>7 DEF Untangled
<1>10. Uncrossed'
      <2> SUFFICES ASSUME NEW q \in Callers, ~crossed'[q], pc'[q] # "idle"
                   PROVE  /\ Alone(q)'
                          /\ IF plan'[q] \in Switches THEN Abroad(q)' ELSE AtHome(q)'
          BY DEF Uncrossed
      <2>1. CASE q = p
            <3>1. crossed'[p] <=> \/ \E r \in Others(p) : Switching(r)
                                  \/ admin # None /\ clients[admin].realm # Home
                  BY <1>1, <1>3 DEF TypeOK
            <3>2. \A r \in Others(p) : plan[r] \notin Switches
                  BY <2>1, <3>1, <1>1, SwitchingIs DEF Others, Planned
            <3>3. held[p] = None /\ sent[p] = {}
                  BY <1>1, <1>3, <1>6 DEF Made, Planned
            <3> QED BY <2>1, <3>1, <3>2, <3>3, <1>3, <1>4, <1>5, <1>7 DEF Alone, AtHome, Others
      <2>2. CASE q # p
            <3>1. /\ Alone(q)
                  /\ IF plan[q] \in Switches THEN Abroad(q) ELSE AtHome(q)
                  BY <2>2, <1>1, <1>4 DEF Uncrossed
            <3>2. Alone(q)'
                  BY <3>1, <1>7 DEF Alone, Others
            <3> QED BY <2>2, <3>1, <3>2, <1>3, <1>4 DEF AtHome, Abroad
      <2> QED BY <2>1, <2>2
<1> QED BY <1>8, <1>9, <1>10 DEF Courses

-----------------------------------------------------------------------------
\* Whole steps

\* The types of what a step that gives up a client may change.
LEMMA DropTypeOK ==
    ASSUME TypeOK, NEW p \in Callers, Drop(p), NEW step \in {"idle", "check", "await"}, Goto(p, step),
           UNCHANGED <<adapter, login, now, admin>>, expiry' \in {expiry, 0},
           \/ UNCHANGED clients
           \/ /\ SameClients(p) /\ Len(clients') = Len(clients)
              /\ clients' \in Seq([realm : RealmNames, end : 0..MaxTime + Lifetime + 1]),
           plan' \in [Callers -> Seq(Steps)],
           target' \in [Callers -> MaybeRealm], origin' \in [Callers -> MaybeRealm],
           sent' \in [Callers -> SUBSET RealmNames], answer' \in [Callers -> MaybeRealm],
           moved' \in [Callers -> Ids \cup {None}], crossed' \in [Callers -> BOOLEAN],
           mixed' \in BOOLEAN, tangled' \in BOOLEAN
    PROVE  TypeOK'
<1>1. /\ new' \in [Callers -> Ids \cup {None}] /\ held' \in [Callers -> Ids \cup {None}]
      /\ since' \in [Callers -> 0..MaxTime] /\ raced' \in [Callers -> BOOLEAN]
      BY DropTypes
<1>2. pc' \in [Callers -> {"idle", "check", "login", "second", "failed", "test", "take",
                           "use", "await"}]
      BY DEF Goto, TypeOK
<1>3. /\ clients' \in Seq([realm : RealmNames, end : 0..MaxTime + Lifetime + 1])
      /\ Len(clients') <= MaxClients
      /\ admin' \in DOMAIN clients' \cup {None}
      BY DEF TypeOK, SameClients
<1>4. /\ adapter' \in {"sync", "async"} /\ login' \in {"password", "secret"}
      /\ now' \in 0..MaxTime /\ expiry' \in 0..MaxTime + Lifetime
      BY ConstantsAssumption DEF TypeOK
<1> QED BY <1>1, <1>2, <1>3, <1>4 DEF TypeOK, Steps

LEMMA Together == TypeOK' /\ Logins' /\ Courses' => IInv'
BY DEF IInv, Logins, Courses

LEMMA ReturnStep ==
    ASSUME IInv, NEW p \in Callers, pc[p] # "idle", Return(p),
           UNCHANGED <<adapter, login, now, admin>>,
           \/ UNCHANGED expiry /\ ~LoggingIn(p)
           \/ expiry' = 0 /\ pc[p] = "failed",
           \/ UNCHANGED clients
           \/ /\ plan[p] \in Switches
              /\ SameClients(p) /\ Len(clients') = Len(clients)
              /\ clients' \in Seq([realm : RealmNames, end : 0..MaxTime + Lifetime + 1]),
           plan[p] \in Switches /\ ~tangled /\ admin # None => clients'[admin].realm = Home
    PROVE  IInv'
<1>1. TypeOK /\ Goto(p, "idle") /\ Drop(p) /\ SameClients(p) /\ UNCHANGED <<mixed, tangled>>
      BY DEF IInv, Return, SameClients
<1>2. TypeOK'
      <2>1. /\ plan' \in [Callers -> Seq(Steps)]
            /\ target' \in [Callers -> MaybeRealm] /\ origin' \in [Callers -> MaybeRealm]
            /\ sent' \in [Callers -> SUBSET RealmNames] /\ answer' \in [Callers -> MaybeRealm]
            /\ moved' \in [Callers -> Ids \cup {None}] /\ crossed' \in [Callers -> BOOLEAN]
            BY <1>1, ReturnTypes
      <2>2. mixed' \in BOOLEAN /\ tangled' \in BOOLEAN /\ expiry' \in {expiry, 0}
            BY <1>1 DEF TypeOK
      <2> QED BY <1>1, <2>1, <2>2, DropTypeOK
<1>3. Logins'
      <2>1. \A q \in Callers : moved'[q] \in {moved[q], held[p], None}
            BY <1>1, ReturnTypes
      <2> QED BY <1>1, <2>1, DropKeeps
<1>4. Courses'
      BY ReturnCourses
<1> QED BY <1>2, <1>3, <1>4, Together

LEMMA FinallyStep ==
    ASSUME IInv, NEW p \in Callers, plan[p] \in Switches \ {ToRestore},
           Goto(p, "check"), plan' = [plan EXCEPT ![p] = ToRestore], Drop(p),
           UNCHANGED <<adapter, login, now, clients, admin, target, origin, sent, moved,
                       crossed, mixed, tangled>>,
           \/ UNCHANGED expiry /\ ~LoggingIn(p)
           \/ expiry' = 0 /\ pc[p] = "failed",
           answer' \in [Callers -> MaybeRealm],
           \A q \in Callers : \/ answer'[q] = answer[q]
                              \/ q = p /\ (~crossed[p] => sent[p] = {answer'[p]})
    PROVE  IInv'
<1>1. TypeOK /\ SameClients(p)
      BY DEF IInv, SameClients
<1>2. TypeOK'
      <2>1. plan' \in [Callers -> Seq(Steps)]
            <3>1. ToRestore \in Seq(Steps)
                  BY DEF ToRestore, Steps
            <3> QED BY <3>1, <1>1 DEF TypeOK, Steps
      <2>2. /\ target' \in [Callers -> MaybeRealm] /\ origin' \in [Callers -> MaybeRealm]
            /\ sent' \in [Callers -> SUBSET RealmNames]
            /\ moved' \in [Callers -> Ids \cup {None}] /\ crossed' \in [Callers -> BOOLEAN]
            /\ mixed' \in BOOLEAN /\ tangled' \in BOOLEAN /\ expiry' \in {expiry, 0}
            BY <1>1 DEF TypeOK
      <2> QED BY <1>1, <2>1, <2>2, DropTypeOK
<1>3. Logins'
      BY <1>1, DropKeeps
<1>4. Courses'
      BY FinallyCourses
<1> QED BY <1>2, <1>3, <1>4, Together

LEMMA RaiseStep ==
    ASSUME IInv, NEW p \in Callers, pc[p] # "idle", Raise(p),
           UNCHANGED <<adapter, login, now, clients, admin>>,
           \/ UNCHANGED expiry /\ ~LoggingIn(p)
           \/ expiry' = 0 /\ pc[p] = "failed",
           plan[p] = ToRestore /\ ~tangled /\ admin # None => clients[admin].realm = Home
    PROVE  IInv'
<1>1. plan[p] \in Shape /\ answer \in [Callers -> MaybeRealm]
      BY DEF IInv, Planned, TypeOK
<1>2. CASE plan[p] \notin Switches \ {ToRestore} /\ Return(p)
      BY <1>2, ReturnStep
<1>3. CASE /\ plan[p] \in Switches \ {ToRestore}
           /\ Goto(p, "check") /\ plan' = [plan EXCEPT ![p] = ToRestore]
           /\ Drop(p)
           /\ UNCHANGED <<target, origin, sent, answer, moved, crossed, mixed, tangled>>
      BY <1>1, <1>3, FinallyStep
<1> QED BY <1>1, <1>2, <1>3, RaiseIs

\* The next step of an operation that switches nothing.
LEMMA OrdinaryStep ==
    ASSUME IInv, NEW p \in Callers, plan[p] \notin Switches,
           pc[p] # "idle", ~LoggingIn(p), Drop(p),
           NEW step \in {"check", "await"}, Goto(p, step),
           NEW rest \in Shape \ Switches, rest # << >>, plan' = [plan EXCEPT ![p] = rest],
           rest = Whole => plan[p] = Whole /\ sent'[p] = sent[p],
           step = "await" => Head(rest) \in {"request", "openid", "uma"},
           sent' \in [Callers -> SUBSET RealmNames],
           \A q \in Callers \ {p} : sent'[q] = sent[q],
           sent'[p] = sent[p] \/ (~crossed[p] => sent'[p] = sent[p] \cup {Home}),
           origin' \in [Callers -> MaybeRealm],
           \A q \in Callers \ {p} : origin'[q] = origin[q],
           UNCHANGED <<adapter, login, now, clients, admin, expiry, target, answer, moved,
                       crossed, mixed, tangled>>
    PROVE  IInv'
<1>1. TypeOK /\ SameClients(p)
      BY DEF IInv, SameClients
<1>2. TypeOK'
      <2>1. plan' \in [Callers -> Seq(Steps)]
            <3>1. rest \in Seq(Steps)
                  BY ShapesAreSequences
            <3> QED BY <3>1, <1>1 DEF TypeOK, Steps
      <2>2. /\ target' \in [Callers -> MaybeRealm] /\ answer' \in [Callers -> MaybeRealm]
            /\ moved' \in [Callers -> Ids \cup {None}] /\ crossed' \in [Callers -> BOOLEAN]
            /\ mixed' \in BOOLEAN /\ tangled' \in BOOLEAN /\ expiry' \in {expiry, 0}
            BY <1>1 DEF TypeOK
      <2> QED BY <1>1, <2>1, <2>2, DropTypeOK
<1>3. Logins'
      BY <1>1, DropKeeps
<1>4. Courses'
      <2>1. held'[p] \in {held[p], None} /\ \A q \in Callers \ {p} : held'[q] = held[q]
            BY <1>1, DropTypes
      <2> QED BY <2>1, OrdinaryCourses
<1> QED BY <1>2, <1>3, <1>4, Together

LEMMA BeginStep ==
    ASSUME IInv, NEW p \in Callers, Begin(p)
    PROVE  IInv'
<1>1. TypeOK
      BY DEF IInv
<1>2. /\ pc[p] = "idle" /\ Goto(p, "check")
      /\ UNCHANGED <<adapter, login, now, clients, admin, expiry, target, origin, sent, answer,
                     new, held, since, moved, raced, mixed, tangled>>
      BY DEF Begin, shared, getter
<1>3. TypeOK'
      <2>1. plan' \in [Callers -> Seq(Steps)]
            <3>1. PICK todo \in Plans : plan' = [plan EXCEPT ![p] = todo]
                  BY DEF Begin
            <3>2. todo \in Seq(Steps)
                  BY PlansFit, ShapesAreSequences DEF Offered, Shape
            <3> QED BY <3>1, <3>2, <1>1 DEF TypeOK, Steps
      <2>2. crossed' \in [Callers -> BOOLEAN]
            BY <1>1 DEF Begin, TypeOK
      <2>3. pc' \in [Callers -> {"idle", "check", "login", "second", "failed", "test", "take",
                                 "use", "await"}]
            BY <1>1, <1>2 DEF Goto, TypeOK
      <2> QED BY <2>1, <2>2, <2>3, <1>1, <1>2 DEF TypeOK, Steps
<1>4. Logins'
      BY <1>2, PassesKeep
<1> QED BY <1>3, <1>4, BeginCourses, Together

LEMMA CheckStep ==
    ASSUME IInv, NEW p \in Callers, Check(p)
    PROVE  IInv'
<1> DEFINE step == IF admin = None \/ now >= expiry THEN "login" ELSE "test"
<1>1. TypeOK
      BY DEF IInv
<1>2. /\ pc[p] = "check" /\ Goto(p, step)
      /\ UNCHANGED <<adapter, login, now, clients, admin, expiry, plan, target, origin, sent,
                     answer, new, held, moved, crossed, tangled>>
      BY DEF Check, shared, call
<1>3. TypeOK'
      <2>1. since' \in [Callers -> 0..MaxTime]
            BY <1>1 DEF Check, TypeOK
      <2>2. raced' \in [Callers -> BOOLEAN] /\ mixed' \in BOOLEAN
            BY <1>1 DEF Check, TypeOK
      <2>3. pc' \in [Callers -> {"idle", "check", "login", "second", "failed", "test", "take",
                                 "use", "await"}]
            BY <1>1, <1>2 DEF Goto, TypeOK
      <2> QED BY <2>1, <2>2, <2>3, <1>1, <1>2 DEF TypeOK
<1>4. Courses'
      BY <1>2, GetterCourses
<1> QED BY <1>3, <1>4, CheckLogins, Together

LEMMA LoginStep ==
    ASSUME IInv, NEW p \in Callers, Login(p)
    PROVE  IInv'
<1>1. TypeOK
      BY DEF IInv
<1>2. /\ pc[p] = "login" /\ Goto(p, "second") /\ Stored(p)
      /\ UNCHANGED <<adapter, login, now, plan, target, origin, sent, answer, held, since, moved,
                     crossed, mixed, tangled>>
      BY DEF Login, call
<1>3. /\ clients' \in Seq([realm : RealmNames, end : 0..MaxTime + Lifetime + 1])
      /\ Len(clients') <= MaxClients
      /\ new' \in [Callers -> Ids \cup {None}]
      /\ new'[p] \in DOMAIN clients' /\ DOMAIN clients \subseteq DOMAIN clients'
      /\ \A c \in DOMAIN clients : clients'[c] = clients[c]
      /\ clients'[new'[p]].realm = Home
      <2>1. clients'[new'[p]] = [realm |-> Home, end |-> TokenEnd]
            BY LoginIs
      <2>2. clients'[new'[p]].realm = Home
            BY <2>1
      <2> QED BY <2>2, LoginIs
<1>4. admin' = admin \/ admin' = new'[p]
      BY <1>1 DEF Login, TypeOK
<1>5. TypeOK'
      <2>1. admin' \in DOMAIN clients' \cup {None}
            BY <1>1, <1>3, <1>4 DEF TypeOK
      <2>2. expiry' \in 0..MaxTime + Lifetime
            BY <1>1, ConstantsAssumption DEF Login, TypeOK
      <2>3. raced' \in [Callers -> BOOLEAN]
            BY <1>1, <1>2, StoredMarks
      <2>4. pc' \in [Callers -> {"idle", "check", "login", "second", "failed", "test", "take",
                                 "use", "await"}]
            BY <1>1, <1>2 DEF Goto, TypeOK
      <2> QED BY <2>1, <2>2, <2>3, <2>4, <1>1, <1>2, <1>3 DEF TypeOK
<1>6. Courses'
      BY <1>2, <1>3, <1>4, GetterCourses
<1> QED BY <1>5, <1>6, LoginLogins, Together

LEMMA LoginStoresStep ==
    ASSUME IInv, NEW p \in Callers, LoginStores(p)
    PROVE  IInv'
<1>1. TypeOK /\ Made /\ Unshared
      BY DEF IInv
<1>2. /\ pc[p] = "second" /\ Goto(p, "test") /\ Stored(p)
      /\ new' = [new EXCEPT ![p] = None]
      /\ UNCHANGED <<adapter, login, now, clients, plan, target, origin, sent, answer, held, since,
                     moved, crossed, mixed, tangled>>
      BY DEF LoginStores, call
<1>3. \/ UNCHANGED admin
      \/ admin' = new[p] /\ admin' \in DOMAIN clients /\ clients[admin'].realm = Home
      <2>1. CASE login = "password"
            BY <2>1 DEF LoginStores
      <2>2. CASE login # "password"
            <3>1. Pending(p)
                  BY <2>2, <1>1, <1>2 DEF Pending, TypeOK
            <3> QED BY <2>2, <3>1, <1>1, <1>2 DEF LoginStores, Made, Unshared
      <2> QED BY <2>1, <2>2
<1>4. TypeOK'
      <2>1. admin' \in DOMAIN clients' \cup {None}
            BY <1>1, <1>2, <1>3 DEF TypeOK
      <2>2. expiry' \in 0..MaxTime + Lifetime
            BY <1>1, ConstantsAssumption DEF LoginStores, TypeOK
      <2>3. raced' \in [Callers -> BOOLEAN] /\ new' \in [Callers -> Ids \cup {None}]
            BY <1>1, <1>2, StoredMarks DEF TypeOK
      <2>4. pc' \in [Callers -> {"idle", "check", "login", "second", "failed", "test", "take",
                                 "use", "await"}]
            BY <1>1, <1>2 DEF Goto, TypeOK
      <2> QED BY <2>1, <2>2, <2>3, <2>4, <1>1, <1>2 DEF TypeOK
<1>5. Courses'
      BY <1>2, <1>3, GetterCourses
<1> QED BY <1>4, <1>5, LoginStoresLogins, Together

LEMMA LoginFailsStep ==
    ASSUME IInv, NEW p \in Callers, LoginFails(p)
    PROVE  IInv'
<1>1. TypeOK
      BY DEF IInv
<1>2. /\ pc[p] = "login" /\ Goto(p, "failed") /\ Stored(p) /\ admin' = None
      /\ UNCHANGED <<adapter, login, now, clients, expiry, plan, target, origin, sent, answer,
                     new, held, since, moved, crossed, mixed, tangled>>
      BY DEF LoginFails, call, getter
<1>3. TypeOK'
      <2>1. raced' \in [Callers -> BOOLEAN]
            BY <1>1, <1>2, StoredMarks
      <2>2. pc' \in [Callers -> {"idle", "check", "login", "second", "failed", "test", "take",
                                 "use", "await"}]
            BY <1>1, <1>2 DEF Goto, TypeOK
      <2> QED BY <2>1, <2>2, <1>1, <1>2 DEF TypeOK
<1>4. Courses'
      BY <1>2, GetterCourses
<1> QED BY <1>3, <1>4, LoginFailsLogins, Together

\* A caller whose login failed is not the one that brings the client back.
LEMMA LoginRaisesStep ==
    ASSUME IInv, NEW p \in Callers, LoginRaises(p)
    PROVE  IInv'
<1>1. /\ pc[p] = "failed" /\ expiry' = 0 /\ Raise(p)
      /\ UNCHANGED <<adapter, login, now, clients, admin>>
      BY DEF LoginRaises
<1>2. ASSUME plan[p] = ToRestore, ~tangled, admin # None, clients[admin].realm # Home
      PROVE  FALSE
      <2>1. PICK q \in Callers : BringsBack(q)
            BY <1>2 DEF IInv, Untangled
      <2>2. q = p
            BY <1>2, <2>1 DEF IInv, Untangled, BringsBack, Switches, Away
      <2> QED BY <1>1, <2>1, <2>2 DEF BringsBack
<1> QED BY <1>1, <1>2, RaiseStep

LEMMA TestStep ==
    ASSUME IInv, NEW p \in Callers, Test(p)
    PROVE  IInv'
<1>1. /\ pc[p] = "test" /\ ~LoggingIn(p)
      /\ UNCHANGED <<adapter, login, now, clients, admin, expiry>>
      BY DEF Test, shared, LoggingIn
<1>2. CASE admin = None
      <2>1. Raise(p)
            BY <1>2 DEF Test
      <2> QED BY <1>1, <1>2, <2>1, RaiseStep
<1>3. CASE admin # None
      <2>1. /\ Goto(p, "take")
            /\ UNCHANGED <<plan, target, origin, sent, answer, new, held, since, moved, raced,
                           crossed, mixed, tangled>>
            BY <1>3 DEF Test, call, getter, histories
      <2>2. TypeOK'
            <3>1. pc' \in [Callers -> {"idle", "check", "login", "second", "failed", "test", "take",
                                       "use", "await"}]
                  BY <2>1 DEF Goto, IInv, TypeOK
            <3> QED BY <2>1, <3>1, <1>1 DEF IInv, TypeOK
      <2>3. Logins'
            BY <1>1, <2>1, PassesKeep
      <2>4. Courses'
            BY <1>1, <2>1, GetterCourses
      <2> QED BY <2>2, <2>3, <2>4, Together
<1> QED BY <1>2, <1>3

LEMMA TakeStep ==
    ASSUME IInv, NEW p \in Callers, Take(p)
    PROVE  IInv'
<1>1. TypeOK
      BY DEF IInv
<1>2. /\ Goto(p, "use") /\ held' = [held EXCEPT ![p] = admin]
      /\ crossed' = IF moved[p] \notin {None, admin} THEN Mark(crossed, {p}) ELSE crossed
      /\ UNCHANGED <<adapter, login, now, clients, admin, expiry, plan, target, origin, sent,
                     answer, new, since, moved, raced, mixed, tangled>>
      BY DEF Take, call, shared
<1>3. TypeOK'
      <2>1. held' \in [Callers -> Ids \cup {None}]
            BY <1>1, <1>2, KnownClients DEF TypeOK
      <2>2. crossed' \in [Callers -> BOOLEAN]
            BY <1>1, <1>2 DEF Mark, TypeOK
      <2>3. pc' \in [Callers -> {"idle", "check", "login", "second", "failed", "test", "take",
                                 "use", "await"}]
            BY <1>1, <1>2 DEF Goto, TypeOK
      <2> QED BY <2>1, <2>2, <2>3, <1>1, <1>2 DEF TypeOK
<1> QED BY <1>3, TakeLogins, TakeCourses, Together

LEMMA NoneTypeStep ==
    ASSUME IInv, NEW p \in Callers, NoneType(p)
    PROVE  IInv'
<1>1. /\ pc[p] = "use" /\ held[p] = None /\ Raise(p) /\ ~LoggingIn(p)
      /\ UNCHANGED <<adapter, login, now, clients, admin, expiry>>
      BY DEF NoneType, shared, LoggingIn
<1>2. ASSUME plan[p] = ToRestore, ~tangled, admin # None, clients[admin].realm # Home
      PROVE  FALSE
      <2>1. PICK q \in Callers : BringsBack(q)
            BY <1>2 DEF IInv, Untangled
      <2>2. q = p
            BY <1>2, <2>1 DEF IInv, Untangled, BringsBack, Switches, Away
      <2> QED BY <1>1, <1>2, <2>1, <2>2 DEF BringsBack
<1> QED BY <1>1, <1>2, RaiseStep

\* What a request and its answer leave of create_client() in another realm.
LEMMA AbroadStep ==
    ASSUME IInv, NEW p \in Callers, plan[p] = ToRequest, pc[p] \in {"use", "await"}, Drop(p),
           NEW step \in {"check", "await"}, Goto(p, step),
           NEW rest \in {ToRequest, ToReport}, plan' = [plan EXCEPT ![p] = rest],
           step = "await" => rest = ToRequest,
           sent' \in [Callers -> SUBSET RealmNames],
           \A q \in Callers \ {p} : sent'[q] = sent[q],
           ~crossed[p] => sent'[p] = {target[p]},
           UNCHANGED <<adapter, login, now, clients, admin, expiry, target, origin, answer, moved,
                       crossed, mixed, tangled>>
    PROVE  IInv'
<1>1. TypeOK /\ Planned /\ Untangled /\ Uncrossed /\ SameClients(p) /\ ~LoggingIn(p)
      BY DEF IInv, SameClients, LoggingIn
<1>2. /\ ToRequest \in Away /\ rest \in Away /\ Away \subseteq Switches
      /\ rest \notin {<< >>, Whole, ToSwitch} /\ rest \in Shape
      BY Distinct DEF Switches, Away, Shape
<1>3. /\ pc'[p] = step /\ plan'[p] = rest
      /\ \A q \in Callers \ {p} : pc'[q] = pc[q] /\ plan'[q] = plan[q] /\ held'[q] = held[q]
      BY <1>1, DropTypes DEF Goto, TypeOK
<1>4. \A q \in Callers : plan'[q] \in Switches <=> plan[q] \in Switches
      BY <1>2, <1>3
<1>5. TypeOK'
      <2>1. plan' \in [Callers -> Seq(Steps)]
            <3>1. rest \in Seq(Steps)
                  BY <1>2, ShapesAreSequences
            <3> QED BY <3>1, <1>1 DEF TypeOK, Steps
      <2>2. /\ target' \in [Callers -> MaybeRealm] /\ answer' \in [Callers -> MaybeRealm]
            /\ origin' \in [Callers -> MaybeRealm]
            /\ moved' \in [Callers -> Ids \cup {None}] /\ crossed' \in [Callers -> BOOLEAN]
            /\ mixed' \in BOOLEAN /\ tangled' \in BOOLEAN /\ expiry' \in {expiry, 0}
            BY <1>1 DEF TypeOK
      <2> QED BY <1>1, <2>1, <2>2, DropTypeOK
<1>6. Logins'
      BY <1>1, DropKeeps
<1>7. Planned'
      <2>1. Head(ToRequest) = "request"
            BY DEF ToRequest
      <2>2. /\ target[p] # None /\ origin[p] # None
            BY <1>1, <1>2 DEF Planned
      <2>3. pc'[p] # "idle" /\ (pc'[p] = "await" => Head(plan'[p]) \in {"request", "openid", "uma"})
            BY <1>3, <2>1
      <2> QED BY <1>1, <1>2, <1>3, <2>2, <2>3 DEF Planned
<1>8. Untangled'
      <2>1. \A q \in Callers : BringsBack(q) => BringsBack(q)'
            BY <1>2, <1>3 DEF BringsBack
      <2> QED BY <2>1, <1>1, <1>4 DEF Untangled
<1>9. Uncrossed'
      <2> SUFFICES ASSUME NEW q \in Callers, ~crossed[q], pc'[q] # "idle"
                   PROVE  /\ Alone(q)'
                          /\ IF plan'[q] \in Switches THEN Abroad(q)' ELSE AtHome(q)'
          BY DEF Uncrossed
      <2>1. q = p
            BY <1>1, <1>2, <1>3 DEF Uncrossed, Alone, Others
      <2>2. Alone(p) /\ Abroad(p)
            BY <2>1, <1>1, <1>2 DEF Uncrossed
      <2>3. Alone(p)'
            BY <2>2, <1>4 DEF Alone, Others
      <2>4. moved[p] # None
            BY <2>2 DEF Abroad
      <2>5. answer[p] # None => answer[p] = target[p]
            BY <2>2 DEF Abroad
      <2>6. Abroad(p)'
            BY <2>1, <2>2, <2>4, <2>5, <1>3 DEF Abroad
      <2> QED BY <2>1, <2>3, <2>6, <1>2, <1>3
<1>10. Courses'
      BY <1>7, <1>8, <1>9 DEF Courses
<1> QED BY <1>5, <1>6, <1>10, Together

LEMMA RequestStep ==
    ASSUME IInv, NEW p \in Callers, Request(p)
    PROVE  IInv'
<1>1. TypeOK /\ Planned /\ Made /\ Uncrossed
      BY DEF IInv
<1>2. /\ pc[p] = "use" /\ held[p] # None /\ Head(plan[p]) = "request"
      /\ sent' = [sent EXCEPT ![p] = IF crossed[p] THEN @ ELSE @ \cup {clients[held[p]].realm}]
      /\ Goto(p, "await") /\ Drop(p) /\ ~LoggingIn(p)
      /\ UNCHANGED <<adapter, login, now, clients, admin, expiry, plan, target, origin, answer,
                     moved, crossed, mixed, tangled>>
      BY DEF Request, Using, shared, LoggingIn
<1>3. /\ plan[p] \in Shape /\ plan[p] # << >>
      /\ plan[p] = ToRequest \/ plan[p] \notin Switches \cup {Whole}
      BY <1>1, <1>2, Heads DEF Planned
<1>4. clients[held[p]].realm \in RealmNames
      BY <1>1, <1>2, KnownClients DEF Made
<1>5. /\ sent' \in [Callers -> SUBSET RealmNames]
      /\ \A q \in Callers \ {p} : sent'[q] = sent[q]
      /\ sent'[p] = IF crossed[p] THEN sent[p] ELSE sent[p] \cup {clients[held[p]].realm}
      BY <1>1, <1>2, <1>4 DEF TypeOK
<1>6. plan' = [plan EXCEPT ![p] = plan[p]]
      BY <1>1, <1>2 DEF TypeOK
<1>7. CASE plan[p] = ToRequest
      <2>1. ~crossed[p] => sent'[p] = {target[p]}
            <3>1. ToRequest \in Switches
                  BY DEF Switches, Away
            <3>2. ~crossed[p] => Abroad(p)
                  BY <3>1, <1>1, <1>2, <1>7 DEF Uncrossed
            <3>3. Abroad(p) => clients[held[p]].realm = target[p] /\ sent[p] \subseteq {target[p]}
                  BY <1>2, <1>7 DEF Abroad
            <3> QED BY <3>2, <3>3, <1>5
      <2> QED BY <2>1, <1>2, <1>5, <1>6, <1>7, AbroadStep
<1>8. CASE plan[p] \notin Switches \cup {Whole}
      <2>1. ~crossed[p] => sent'[p] = sent[p] \cup {Home}
            BY <1>1, <1>2, <1>5, <1>8 DEF Uncrossed, AtHome
      <2>2. sent'[p] = sent[p] \/ (~crossed[p] => sent'[p] = sent[p] \cup {Home})
            BY <2>1
      <2>3. origin' \in [Callers -> MaybeRealm] /\ \A q \in Callers \ {p} : origin'[q] = origin[q]
            BY <1>1, <1>2 DEF TypeOK
      <2> QED BY <2>2, <2>3, <1>2, <1>3, <1>5, <1>6, <1>8, OrdinaryStep
<1> QED BY <1>3, <1>7, <1>8

LEMMA OutsideStep ==
    ASSUME IInv, NEW p \in Callers, Outside(p)
    PROVE  IInv'
<1>1. TypeOK /\ Planned
      BY DEF IInv
<1>2. /\ pc[p] = "check" /\ Head(plan[p]) \in {"openid", "uma"}
      /\ sent' = [sent EXCEPT ![p] = @ \cup {Home}] /\ Goto(p, "await")
      /\ UNCHANGED <<adapter, login, now, clients, admin, expiry, plan, target, origin, answer,
                     new, held, since, moved, raced, crossed, mixed, tangled>>
      BY DEF Outside, shared, getter, histories
<1>3. plan[p] \in Shape \ Switches /\ plan[p] # << >> /\ plan[p] # Whole
      <2>1. plan[p] \in Shape /\ plan[p] # << >>
            BY <1>1, <1>2 DEF Planned
      <2>2. ToRequest \in Switches
            BY DEF Switches, Away
      <2> QED BY <2>1, <2>2, <1>2, Heads
<1>4. /\ sent' \in [Callers -> SUBSET RealmNames] /\ sent'[p] = sent[p] \cup {Home}
      /\ \A q \in Callers \ {p} : sent'[q] = sent[q]
      BY <1>1, <1>2, NoneApart DEF TypeOK
<1>5. TypeOK'
      <2>1. pc' \in [Callers -> {"idle", "check", "login", "second", "failed", "test", "take",
                                 "use", "await"}]
            BY <1>1, <1>2 DEF Goto, TypeOK
      <2> QED BY <2>1, <1>1, <1>2, <1>4 DEF TypeOK
<1>6. Logins'
      BY <1>2, PassesKeep
<1>7. Courses'
      <2>1. plan' = [plan EXCEPT ![p] = plan[p]]
            BY <1>1, <1>2 DEF TypeOK
      <2>2. /\ held'[p] \in {held[p], None}
            /\ \A q \in Callers \ {p} : sent'[q] = sent[q] /\ held'[q] = held[q] /\ origin'[q] = origin[q]
            BY <1>2, <1>4
      <2> QED BY <2>1, <2>2, <1>2, <1>3, <1>4, OrdinaryCourses
<1> QED BY <1>5, <1>6, <1>7, Together

\* An operation that switches nothing has done its step.
LEMMA OrdinaryContinues ==
    ASSUME IInv, NEW p \in Callers, pc[p] # "idle", ~LoggingIn(p),
           plan[p] \notin Switches \cup {Whole},
           Continue(p, Tail(plan[p])),
           UNCHANGED <<adapter, login, now, clients, admin, expiry>>
    PROVE  IInv'
<1> DEFINE rest == Tail(plan[p])
<1>1. TypeOK /\ Planned
      BY DEF IInv
<1>2. rest \in Shape \ (Switches \cup {Whole})
      BY <1>1, TailIsShape DEF Planned
<1>3. CASE rest = << >>
      <2>1. Return(p)
            BY <1>3 DEF Continue
      <2>2. plan[p] \notin Switches
            OBVIOUS
      <2> QED BY <2>1, <2>2, ReturnStep
<1>4. CASE rest # << >>
      <2>1. /\ Goto(p, "check") /\ plan' = [plan EXCEPT ![p] = rest] /\ Drop(p)
            /\ UNCHANGED <<target, origin, sent, answer, moved, crossed, mixed, tangled>>
            BY <1>4 DEF Continue
      <2>2. /\ sent' \in [Callers -> SUBSET RealmNames] /\ origin' \in [Callers -> MaybeRealm]
            /\ \A q \in Callers \ {p} : sent'[q] = sent[q] /\ origin'[q] = origin[q]
            /\ sent'[p] = sent[p]
            BY <2>1, <1>1 DEF TypeOK
      <2> HIDE DEF rest
      <2> QED BY <2>1, <2>2, <1>2, <1>4, OrdinaryStep
<1> QED BY <1>3, <1>4

LEMMA ClearAllStep ==
    ASSUME IInv, NEW p \in Callers, ClearAll(p)
    PROVE  IInv'
<1>1. /\ pc[p] = "use" /\ ~LoggingIn(p) /\ Head(plan[p]) = "all" /\ Continue(p, Tail(plan[p]))
      /\ UNCHANGED <<adapter, login, now, clients, admin, expiry>>
      BY DEF ClearAll, Using, shared, LoggingIn
<1>2. plan[p] \in Shape /\ plan[p] # << >>
      BY <1>1 DEF IInv, Planned
<1>3. ToRequest \in Switches
      BY DEF Switches, Away
<1>4. plan[p] \notin Switches \cup {Whole}
      BY <1>1, <1>2, <1>3, Heads
<1> QED BY <1>1, <1>4, OrdinaryContinues

LEMMA AnswerStep ==
    ASSUME IInv, NEW p \in Callers, Answer(p)
    PROVE  IInv'
<1>1. /\ pc[p] = "await" /\ ~LoggingIn(p) /\ Continue(p, Tail(plan[p]))
      /\ UNCHANGED <<adapter, login, now, clients, admin, expiry>>
      BY DEF Answer, shared, LoggingIn
<1>2. /\ TypeOK /\ plan[p] \in Shape /\ plan[p] # << >>
      /\ Head(plan[p]) \in {"request", "openid", "uma"}
      BY <1>1 DEF IInv, Planned
<1>3. plan[p] = ToRequest \/ plan[p] \notin Switches \cup {Whole}
      BY <1>2, Heads
<1>4. CASE plan[p] = ToRequest
      <2>1. Tail(plan[p]) = ToReport /\ ToReport # << >> /\ ToRequest \in Switches
            BY <1>4, Tails, Distinct DEF Switches, Away
      <2>2. /\ Goto(p, "check") /\ plan' = [plan EXCEPT ![p] = ToReport] /\ Drop(p)
            /\ UNCHANGED <<target, origin, sent, answer, moved, crossed, mixed, tangled>>
            BY <1>1, <2>1 DEF Continue
      <2>3. ~crossed[p] => sent[p] = {target[p]}
            BY <1>1, <1>4, <2>1 DEF IInv, Uncrossed, Abroad
      <2>4. sent' \in [Callers -> SUBSET RealmNames] /\ \A q \in Callers \ {p} : sent'[q] = sent[q]
            BY <2>2, <1>2 DEF TypeOK
      <2> QED BY <2>2, <2>3, <2>4, <1>1, <1>4, AbroadStep
<1>5. CASE plan[p] \notin Switches \cup {Whole}
      BY <1>1, <1>5, OrdinaryContinues
<1> QED BY <1>3, <1>4, <1>5

LEMMA RefusedStep ==
    ASSUME IInv, NEW p \in Callers, Refused(p)
    PROVE  IInv'
<1>1. /\ pc[p] = "await" /\ ~LoggingIn(p) /\ Raise(p)
      /\ UNCHANGED <<adapter, login, now, clients, admin, expiry>>
      BY DEF Refused, shared, LoggingIn
<1>2. plan[p] # ToRestore
      <2>1. Head(plan[p]) \in {"request", "openid", "uma"}
            BY <1>1 DEF IInv, Planned
      <2>2. Head(ToRestore) = "restore"
            BY DEF ToRestore
      <2> QED BY <2>1, <2>2
<1> QED BY <1>1, <1>2, RaiseStep

LEMMA ReportStep ==
    ASSUME IInv, NEW p \in Callers, Report(p)
    PROVE  IInv'
<1>1. TypeOK /\ Planned /\ Made /\ Uncrossed
      BY DEF IInv
<1>2. /\ pc[p] = "use" /\ held[p] # None /\ Head(plan[p]) = "answer" /\ ~LoggingIn(p)
      /\ UNCHANGED <<adapter, login, now, clients, admin, expiry>>
      BY DEF Report, Using, shared, LoggingIn
<1>3. plan[p] \in Shape /\ plan[p] \in {ToReport, Told}
      BY <1>1, <1>2, Heads DEF Planned
<1>4. Switching(p) <=> plan[p] \in Switches
      BY <1>3, SwitchingIs
<1>5. CASE plan[p] = ToReport
      <2>1. ToReport \in Switches \ {ToRestore} /\ Tail(plan[p]) = ToRestore
            BY <1>5, Tails, Distinct DEF Switches, Away
      <2>2. /\ Goto(p, "check") /\ plan' = [plan EXCEPT ![p] = Tail(@)] /\ Drop(p)
            /\ answer' = [answer EXCEPT ![p] = IF crossed[p] THEN @ ELSE clients[held[p]].realm]
            /\ UNCHANGED <<target, origin, sent, moved, crossed, mixed, tangled>>
            BY <1>4, <1>5, <2>1 DEF Report
      <2>3. plan' = [plan EXCEPT ![p] = ToRestore]
            BY <2>1, <2>2
      <2>4. clients[held[p]].realm \in RealmNames
            BY <1>1, <1>2, KnownClients DEF Made
      <2>5. /\ answer' \in [Callers -> MaybeRealm]
            /\ answer'[p] = IF crossed[p] THEN answer[p] ELSE clients[held[p]].realm
            /\ \A q \in Callers \ {p} : answer'[q] = answer[q]
            BY <2>2, <2>4, <1>1 DEF TypeOK, MaybeRealm
      <2>6. ~crossed[p] => sent[p] = {clients[held[p]].realm}
            BY <2>1, <1>1, <1>2, <1>5 DEF Uncrossed, Abroad
      <2>7. \A q \in Callers : \/ answer'[q] = answer[q]
                               \/ q = p /\ (~crossed[p] => sent[p] = {answer'[p]})
            BY <2>5, <2>6
      <2> QED BY <2>1, <2>2, <2>3, <2>5, <2>7, <1>2, <1>5, FinallyStep
<1>6. CASE plan[p] = Told
      <2>1. plan[p] \notin Switches
            BY <1>6, Distinct
      <2>2. Return(p)
            BY <2>1, <1>4 DEF Report
      <2> QED BY <2>1, <2>2, <1>2, ReturnStep
<1> QED BY <1>3, <1>5, <1>6

\* The client is back in the configured realm if no other call set it meanwhile: it
\* is this one's, or has been replaced by one that is there.
LEMMA RestoreStep ==
    ASSUME IInv, NEW p \in Callers, Restore(p)
    PROVE  IInv'
<1>1. TypeOK /\ Planned /\ Made /\ Untangled
      BY DEF IInv
<1>2. /\ pc[p] = "use" /\ held[p] # None /\ Head(plan[p]) = "restore" /\ ~LoggingIn(p)
      /\ SetRealm(held[p], origin[p]) /\ Return(p)
      /\ UNCHANGED <<adapter, login, now, admin, expiry>>
      BY DEF Restore, Using, LoggingIn
<1>3. plan[p] = ToRestore /\ ToRestore \in Switches
      BY <1>1, <1>2, Heads DEF Planned, Switches, Away
<1>4. held[p] \in DOMAIN clients /\ origin[p] \in RealmNames
      BY <1>1, <1>2, <1>3 DEF Made, Planned, TypeOK, MaybeRealm
<1>5. /\ SameClients(p) /\ Len(clients') = Len(clients)
      /\ clients'[held[p]].realm = origin[p]
      /\ clients' \in Seq([realm : RealmNames, end : 0..MaxTime + Lifetime + 1])
      BY <1>1, <1>2, <1>4, SetRealmIs
<1>6. ASSUME ~tangled, admin # None
      PROVE  clients'[admin].realm = Home
      <2>1. origin[p] = Home
            BY <1>1, <1>3, <1>6 DEF Untangled
      <2>2. CASE admin = held[p]
            BY <2>1, <2>2, <1>5
      <2>3. CASE admin # held[p]
            <3>1. clients'[admin] = clients[admin]
                  BY <2>3, <1>1, <1>5, <1>6 DEF SameClients, TypeOK
            <3>2. ASSUME clients[admin].realm # Home
                  PROVE  FALSE
                  <4>1. PICK q \in Callers : BringsBack(q)
                        BY <3>2, <1>1, <1>6 DEF Untangled
                  <4>2. q = p
                        BY <4>1, <1>1, <1>3, <1>6 DEF Untangled, BringsBack, Switches
                  <4> QED BY <4>1, <4>2, <2>3, <1>2 DEF BringsBack
            <3> QED BY <3>1, <3>2
      <2> QED BY <2>2, <2>3
<1> QED BY <1>2, <1>3, <1>5, <1>6, ReturnStep

LEMMA SwitchStep ==
    ASSUME IInv, NEW p \in Callers, Switch(p)
    PROVE  IInv'
<1>1. TypeOK /\ Planned /\ Made /\ Untangled /\ Uncrossed
      BY DEF IInv
<1>2. /\ pc[p] = "use" /\ held[p] # None /\ Head(plan[p]) = "switch" /\ ~LoggingIn(p)
      /\ SetRealm(held[p], target[p]) /\ Goto(p, "check") /\ Drop(p)
      /\ plan' = [plan EXCEPT ![p] = Tail(@)]
      /\ moved' = [moved EXCEPT ![p] = IF crossed[p] THEN @ ELSE held[p]]
      /\ UNCHANGED <<adapter, login, now, admin, expiry, target, origin, sent, answer, crossed,
                     mixed, tangled>>
      BY DEF Switch, Using, LoggingIn
<1>3. plan[p] = ToSwitch
      BY <1>1, <1>2, Heads DEF Planned
<1>4. /\ ToSwitch \in Switches /\ ToRequest \in Away /\ ToRequest \in Switches /\ ToRequest \in Shape
      /\ ToRequest \notin {<< >>, Whole, ToSwitch}
      BY Distinct DEF Switches, Away, Shape
<1>5. held[p] \in DOMAIN clients /\ target[p] \in RealmNames
      BY <1>1, <1>2, <1>3, <1>4 DEF Made, Planned, TypeOK, MaybeRealm
<1>6. /\ SameClients(p) /\ Len(clients') = Len(clients)
      /\ clients'[held[p]].realm = target[p]
      /\ clients' \in Seq([realm : RealmNames, end : 0..MaxTime + Lifetime + 1])
      BY <1>1, <1>2, <1>5, SetRealmIs
<1>7. plan' = [plan EXCEPT ![p] = ToRequest]
      BY <1>2, <1>3, Tails
<1>8. /\ pc'[p] = "check" /\ plan'[p] = ToRequest
      /\ moved'[p] = IF crossed[p] THEN moved[p] ELSE held[p]
      /\ \A q \in Callers \ {p} : /\ pc'[q] = pc[q] /\ plan'[q] = plan[q] /\ held'[q] = held[q]
                                  /\ moved'[q] = moved[q]
      <2>1. pc'[p] = "check" /\ \A q \in Callers \ {p} : pc'[q] = pc[q]
            BY <1>1, <1>2 DEF Goto, TypeOK
      <2>2. plan'[p] = ToRequest /\ \A q \in Callers \ {p} : plan'[q] = plan[q]
            BY <1>1, <1>7 DEF TypeOK
      <2>3. /\ moved'[p] = IF crossed[p] THEN moved[p] ELSE held[p]
            /\ \A q \in Callers \ {p} : moved'[q] = moved[q]
            BY <1>1, <1>2 DEF TypeOK
      <2>4. \A q \in Callers \ {p} : held'[q] = held[q]
            BY <1>1, <1>2, DropTypes
      <2> QED BY <2>1, <2>2, <2>3, <2>4
<1>9. \A q \in Callers : plan'[q] \in Switches <=> plan[q] \in Switches
      BY <1>3, <1>4, <1>8
<1>10. TypeOK'
      <2>1. plan' \in [Callers -> Seq(Steps)]
            <3>1. ToRequest \in Seq(Steps)
                  BY <1>4, ShapesAreSequences
            <3> QED BY <3>1, <1>1, <1>7 DEF TypeOK, Steps
      <2>2. /\ target' \in [Callers -> MaybeRealm] /\ answer' \in [Callers -> MaybeRealm]
            /\ origin' \in [Callers -> MaybeRealm] /\ sent' \in [Callers -> SUBSET RealmNames]
            /\ moved' \in [Callers -> Ids \cup {None}] /\ crossed' \in [Callers -> BOOLEAN]
            /\ mixed' \in BOOLEAN /\ tangled' \in BOOLEAN /\ expiry' \in {expiry, 0}
            BY <1>1, <1>2 DEF TypeOK
      <2> QED BY <2>1, <2>2, <1>1, <1>2, <1>6, DropTypeOK
<1>11. Logins'
      <2>1. \A q \in Callers : moved'[q] \in {moved[q], held[p], None}
            BY <1>8
      <2> QED BY <2>1, <1>2, <1>6, DropKeeps
<1>12. Planned'
      <2> SUFFICES ASSUME NEW q \in Callers
                   PROVE  /\ plan'[q] \in Shape
                          /\ pc'[q] = "idle" <=> plan'[q] = << >>
                          /\ pc'[q] = "await" => Head(plan'[q]) \in {"request", "openid", "uma"}
                          /\ IF plan'[q] \in Switches THEN target[q] # None /\ origin[q] # None
                             ELSE target[q] = None /\ moved'[q] = None /\ answer[q] = None
                          /\ plan'[q] = ToSwitch => moved'[q] = None /\ answer[q] = None
                          /\ plan'[q] \in {<< >>, Whole, ToSwitch} => sent[q] = {}
          BY <1>2 DEF Planned
      <2>1. target[p] # None /\ origin[p] # None
            BY <1>1, <1>3, <1>4 DEF Planned
      <2>2. CASE q = p
            BY <2>1, <2>2, <1>4, <1>8
      <2>3. CASE q # p
            BY <2>3, <1>1, <1>8 DEF Planned
      <2> QED BY <2>2, <2>3
<1>13. Untangled'
      <2>1. BringsBack(p)'
            BY <1>4, <1>8 DEF BringsBack
      <2> QED BY <2>1, <1>1, <1>2, <1>9 DEF Untangled
<1>14. Uncrossed'
      <2> SUFFICES ASSUME NEW q \in Callers, ~crossed[q], pc'[q] # "idle"
                   PROVE  /\ Alone(q)'
                          /\ IF plan'[q] \in Switches THEN Abroad(q)' ELSE AtHome(q)'
          BY <1>2 DEF Uncrossed
      <2>1. q = p
            BY <1>1, <1>3, <1>4, <1>8 DEF Uncrossed, Alone, Others
      <2>2. Alone(p)'
            BY <2>1, <1>1, <1>2, <1>9 DEF Uncrossed, Alone, Others
      <2>3. sent[p] = {} /\ answer[p] = None /\ moved'[p] = held[p]
            BY <2>1, <1>1, <1>3, <1>8 DEF Planned
      <2>4. ToRequest # ToReport
            BY Distinct
      <2>5. Abroad(p)'
            BY <2>3, <2>4, <1>2, <1>6, <1>8 DEF Abroad
      <2> QED BY <2>1, <2>2, <2>5, <1>4, <1>8
<1>15. Courses'
      BY <1>12, <1>13, <1>14 DEF Courses
<1> QED BY <1>10, <1>11, <1>15, Together

\* create_client() notes the realm it finds, and what it is about to do to whoever is
\* inside a call.
LEMMA OriginSwitches ==
    ASSUME IInv, NEW p \in Callers, NEW r \in RealmNames, plan[p] = Whole, pc[p] = "use",
           held[p] \in DOMAIN clients, Goto(p, "check"), Drop(p),
           plan' = [plan EXCEPT ![p] = ToSwitch], target' = [target EXCEPT ![p] = r],
           origin' = [origin EXCEPT ![p] = clients[held[p]].realm],
           crossed' = Mark(crossed, {q \in Others(p) : pc[q] # "idle"}),
           tangled' = \/ tangled
                      \/ clients[held[p]].realm # Home
                      \/ \E q \in Others(p) : Switching(q),
           UNCHANGED <<adapter, login, now, clients, admin, expiry, sent, answer, moved, mixed>>
    PROVE  IInv'
<1> DEFINE here == clients[held[p]].realm
<1>1. TypeOK /\ Planned /\ Untangled /\ Uncrossed /\ SameClients(p) /\ ~LoggingIn(p)
      BY DEF IInv, SameClients, LoggingIn
<1>2. /\ ToSwitch \in Switches /\ ToSwitch \in Shape /\ Away \subseteq Switches
      /\ ToSwitch \notin {<< >>, ToRequest, ToReport} /\ Whole \notin Switches
      BY Distinct DEF Switches, Away, Shape
<1>3. here \in RealmNames /\ None \notin RealmNames
      BY <1>1, KnownClients, NoneApart
<1>4. pc'[p] = "check" /\ \A q \in Callers \ {p} : pc'[q] = pc[q]
      BY <1>1 DEF Goto, TypeOK
<1>5. plan'[p] = ToSwitch /\ \A q \in Callers \ {p} : plan'[q] = plan[q]
      BY <1>1 DEF TypeOK
<1>6. /\ target'[p] = r /\ \A q \in Callers \ {p} : target'[q] = target[q]
      /\ target' \in [Callers -> MaybeRealm]
      BY <1>1 DEF TypeOK, MaybeRealm
<1>7. /\ origin'[p] = here /\ \A q \in Callers \ {p} : origin'[q] = origin[q]
      /\ origin' \in [Callers -> MaybeRealm]
      BY <1>1, <1>3 DEF TypeOK, MaybeRealm
<1>8. /\ crossed' \in [Callers -> BOOLEAN]
      /\ \A q \in Callers \ {p} : pc[q] # "idle" => crossed'[q]
      /\ ~crossed'[p] => ~crossed[p]
      BY <1>1 DEF Mark, Others, TypeOK
<1>9. moved[p] = None /\ answer[p] = None /\ sent[p] = {}
      BY <1>1, <1>2 DEF Planned
<1>10. \A q \in Others(p) : Switching(q) <=> plan[q] \in Switches
      BY <1>1, SwitchingIs DEF Planned, Others
<1>11. TypeOK'
      <2>1. plan' \in [Callers -> Seq(Steps)]
            <3>1. ToSwitch \in Seq(Steps)
                  BY <1>2, ShapesAreSequences
            <3> QED BY <3>1, <1>1 DEF TypeOK, Steps
      <2>2. /\ sent' \in [Callers -> SUBSET RealmNames] /\ answer' \in [Callers -> MaybeRealm]
            /\ moved' \in [Callers -> Ids \cup {None}] /\ mixed' \in BOOLEAN
            /\ expiry' \in {expiry, 0}
            BY <1>1 DEF TypeOK
      <2>3. tangled' \in BOOLEAN
            BY <1>1 DEF TypeOK
      <2> QED BY <2>1, <2>2, <2>3, <1>1, <1>6, <1>7, <1>8, DropTypeOK
<1>12. Logins'
      BY <1>1, DropKeeps
<1>13. Planned'
      <2> SUFFICES ASSUME NEW q \in Callers
                   PROVE  /\ plan'[q] \in Shape
                          /\ pc'[q] = "idle" <=> plan'[q] = << >>
                          /\ pc'[q] = "await" => Head(plan'[q]) \in {"request", "openid", "uma"}
                          /\ IF plan'[q] \in Switches THEN target'[q] # None /\ origin'[q] # None
                             ELSE target'[q] = None /\ moved[q] = None /\ answer[q] = None
                          /\ plan'[q] = ToSwitch => moved[q] = None /\ answer[q] = None
                          /\ plan'[q] \in {<< >>, Whole, ToSwitch} => sent[q] = {}
          BY DEF Planned
      <2>1. CASE q = p
            BY <2>1, <1>2, <1>3, <1>4, <1>5, <1>6, <1>7, <1>9
      <2>2. CASE q # p
            BY <2>2, <1>1, <1>4, <1>5, <1>6, <1>7 DEF Planned
      <2> QED BY <2>1, <2>2
<1>14. Untangled'
      <2> SUFFICES ASSUME ~tangled'
                   PROVE  /\ \A q \in Others(p) : plan'[q] \notin Switches
                          /\ origin'[p] = Home
                          /\ admin # None => clients[admin].realm = Home
          BY DEF Untangled, Others
      <2>1. ~tangled /\ here = Home /\ \A q \in Others(p) : plan[q] \notin Switches
            BY <1>10
      <2>2. admin # None => clients[admin].realm = Home
            BY <2>1, <1>1, <1>2 DEF Untangled, BringsBack, Others
      <2> QED BY <2>1, <2>2, <1>5, <1>7 DEF Others
<1>15. Uncrossed'
      <2> SUFFICES ASSUME NEW q \in Callers, ~crossed'[q], pc'[q] # "idle"
                   PROVE  /\ Alone(q)'
                          /\ IF plan'[q] \in Switches THEN Abroad(q)' ELSE AtHome(q)'
          BY DEF Uncrossed
      <2>1. q = p
            BY <1>4, <1>8
      <2>2. Alone(p)
            BY <2>1, <1>1, <1>8 DEF Uncrossed
      <2>3. Alone(p)'
            BY <2>2, <1>5 DEF Alone, Others
      <2>4. Abroad(p)'
            BY <1>2, <1>5, <1>9 DEF Abroad
      <2> QED BY <2>1, <2>3, <2>4, <1>2, <1>5
<1>16. Courses'
      BY <1>13, <1>14, <1>15 DEF Courses
<1> QED BY <1>11, <1>12, <1>16, Together

LEMMA OriginStep ==
    ASSUME IInv, NEW p \in Callers, NEW r \in MaybeRealm, Origin(p, r)
    PROVE  IInv'
<1> DEFINE here == clients[held[p]].realm
           switches == r \notin {None, here}
<1>1. TypeOK /\ Planned /\ Made
      BY DEF IInv
<1>2. /\ pc[p] = "use" /\ held[p] # None /\ Head(plan[p]) = "origin" /\ ~LoggingIn(p)
      /\ plan' = [plan EXCEPT ![p] = IF switches THEN Tail(@) ELSE <<"request", "answer">>]
      /\ target' = [target EXCEPT ![p] = IF switches THEN r ELSE None]
      /\ origin' = [origin EXCEPT ![p] = IF switches THEN here ELSE None]
      /\ crossed' = IF switches THEN Mark(crossed, {q \in Others(p) : pc[q] # "idle"})
                    ELSE crossed
      /\ tangled' = \/ tangled
                    \/ switches /\ (here # Home \/ \E q \in Others(p) : Switching(q))
      /\ Goto(p, "check") /\ Drop(p)
      /\ UNCHANGED <<adapter, login, now, clients, admin, expiry, sent, answer, moved, mixed>>
      BY DEF Origin, Using, shared, LoggingIn
<1>3. plan[p] = Whole
      BY <1>1, <1>2, Heads DEF Planned
<1>4. held[p] \in DOMAIN clients
      BY <1>1, <1>2 DEF Made
<1>5. CASE switches
      <2>1. r \in RealmNames
            BY <1>5 DEF MaybeRealm
      <2>2. plan' = [plan EXCEPT ![p] = ToSwitch]
            BY <1>2, <1>3, <1>5, Tails
      <2>3. /\ target' = [target EXCEPT ![p] = r] /\ origin' = [origin EXCEPT ![p] = here]
            /\ crossed' = Mark(crossed, {q \in Others(p) : pc[q] # "idle"})
            BY <1>2, <1>5
      <2>4. tangled' = \/ tangled
                       \/ here # Home
                       \/ \E q \in Others(p) : Switching(q)
            BY <1>2, <1>5
      <2> QED BY <2>1, <2>2, <2>3, <2>4, <1>2, <1>3, <1>4, OriginSwitches
<1>6. CASE ~switches
      <2>1. plan' = [plan EXCEPT ![p] = InPlace]
            BY <1>2, <1>6 DEF InPlace
      <2>2. InPlace \in Shape \ Switches /\ InPlace # << >> /\ InPlace # Whole /\ Whole \notin Switches
            BY Distinct DEF Shape
      <2>3. target' = target
            <3>1. target[p] = None
                  BY <2>2, <1>1, <1>3 DEF Planned
            <3> QED BY <3>1, <1>1, <1>2, <1>6 DEF TypeOK
      <2>4. crossed' = crossed
            BY <1>2, <1>6
      <2>5. tangled' = tangled
            BY <1>1, <1>2, <1>6 DEF TypeOK
      <2>6. /\ origin' \in [Callers -> MaybeRealm]
            /\ \A q \in Callers \ {p} : origin'[q] = origin[q]
            BY <1>1, <1>2, <1>6 DEF TypeOK, MaybeRealm
      <2>7. sent' \in [Callers -> SUBSET RealmNames]
            BY <1>1, <1>2 DEF TypeOK
      <2> HIDE DEF switches
      <2> QED BY <2>1, <2>2, <2>3, <2>4, <2>5, <2>6, <2>7, <1>2, <1>3, OrdinaryStep
<1> QED BY <1>5, <1>6

LEMMA TickStep ==
    ASSUME IInv, Tick
    PROVE  IInv'
<1>1. /\ now < MaxTime /\ now' = now + 1
      /\ UNCHANGED <<adapter, login, clients, admin, expiry, pc, plan, target, origin, sent,
                     answer, new, held, since, moved, raced, crossed, mixed, tangled>>
      BY DEF Tick, call, getter, histories
<1>2. TypeOK'
      <2>1. now' \in 0..MaxTime
            BY <1>1, ConstantsAssumption DEF IInv, TypeOK
      <2> QED BY <2>1, <1>1 DEF IInv, TypeOK
<1>3. Courses'
      BY <1>1 DEF IInv, Courses, Planned, Untangled, BringsBack, Uncrossed, Alone, AtHome, Abroad,
                  Others
<1> QED BY <1>2, <1>3, TickLogins, Together

LEMMA Stutter ==
    ASSUME IInv, UNCHANGED vars
    PROVE  IInv'
<1>1. UNCHANGED <<adapter, login, now, clients, admin, expiry, pc, plan, target, origin, sent,
                  answer, new, held, since, moved, raced, crossed, mixed, tangled>>
      BY DEF vars, shared, call, getter, histories
<1>2. TypeOK'
      BY <1>1 DEF IInv, TypeOK
<1>3. Courses'
      BY <1>1 DEF IInv, Courses, Planned, Untangled, BringsBack, Uncrossed, Alone, AtHome, Abroad,
                  Others
<1>4. Logins'
      BY <1>1 DEF IInv, Logins, Made, Unshared, Pending, Others, Orderly, LoggingIn, Renewed, InTime
<1> QED BY <1>2, <1>3, <1>4, Together

LEMMA Step ==
    ASSUME IInv, [Next]_vars
    PROVE  IInv'
<1>1. ASSUME NEW p \in Callers,
             \/ Begin(p)
             \/ Check(p) \/ Login(p) \/ LoginStores(p) \/ LoginFails(p) \/ LoginRaises(p)
             \/ Test(p) \/ Take(p) \/ NoneType(p)
             \/ Request(p) \/ Outside(p) \/ Answer(p) \/ Refused(p) \/ ClearAll(p)
             \/ \E r \in MaybeRealm : Origin(p, r)
             \/ Switch(p) \/ Report(p) \/ Restore(p)
      PROVE  IInv'
      BY <1>1, BeginStep, CheckStep, LoginStep, LoginStoresStep, LoginFailsStep, LoginRaisesStep,
         TestStep, TakeStep, NoneTypeStep, RequestStep, OutsideStep, AnswerStep, RefusedStep,
         ClearAllStep, OriginStep, SwitchStep, ReportStep, RestoreStep
<1> QED BY <1>1, TickStep, Stutter DEF Next

-----------------------------------------------------------------------------
\* The theorems

\* The inductive invariant holds throughout.
THEOREM Invariance == Spec => []IInv
BY Start, Step, PTL DEF Spec

\* Type correctness, for any callers, realms and bounds.
THEOREM TypeCorrect == Spec => []TypeOK
<1>1. IInv => TypeOK
      BY DEF IInv
<1> QED BY <1>1, Invariance, PTL

\* The admin_adapter property delivers a client that was not due when it was asked
\* for, unless another thread stored a login or its failure in the meantime.
THEOREM HandedOut == Spec => []ClientHandedOut
<1>1. IInv => ClientHandedOut
      BY DEF IInv, Renewed, InTime, ClientHandedOut
<1> QED BY <1>1, Invariance, PTL

\* All requests of a call that no other one crosses go to its realm, create_client()
\* reports the one it was made in, and the client is brought home.
THEOREM Realm == Spec => []RightRealm
<1>1. ASSUME IInv, NEW p \in Callers, ~crossed[p]
      PROVE  /\ sent[p] \subseteq {IF target[p] = None THEN Home ELSE target[p]}
             /\ answer[p] # None => sent[p] = {answer[p]}
      <2>1. Planned /\ Uncrossed
            BY <1>1 DEF IInv
      <2>2. CASE pc[p] = "idle"
            <3>1. plan[p] = << >> /\ plan[p] \notin Switches
                  BY <2>1, <2>2, Distinct DEF Planned
            <3> QED BY <3>1, <2>1 DEF Planned
      <2>3. CASE pc[p] # "idle" /\ plan[p] \in Switches
            BY <2>1, <2>3, <1>1 DEF Planned, Uncrossed, Abroad
      <2>4. CASE pc[p] # "idle" /\ plan[p] \notin Switches
            BY <2>1, <2>4, <1>1 DEF Planned, Uncrossed, AtHome
      <2> QED BY <2>2, <2>3, <2>4
<1>2. ASSUME IInv, ~tangled
      PROVE  RealmHome
      <2>1. \A q \in Callers : Switching(q) <=> plan[q] \in Switches
            BY <1>2, SwitchingIs DEF IInv, Planned
      <2>2. \A q \in Callers : BringsBack(q) => plan[q] \in Switches
            BY DEF BringsBack, Switches
      <2> QED BY <2>1, <2>2, <1>2 DEF IInv, Untangled, RealmHome
<1>3. IInv => RightRealm
      BY <1>1, <1>2 DEF RightRealm
<1> QED BY <1>3, Invariance, PTL
=============================================================================

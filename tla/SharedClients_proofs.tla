------------------------ MODULE SharedClients_proofs ------------------------
(***************************************************************************)
(* Proofs about the adapters whose callers share connections, for any      *)
(* number of callers, connections and tries, whatever fails or is          *)
(* cancelled.                                                              *)
(*                                                                         *)
(* EmailPool: no connection is lent to two calls or forgotten, but by an   *)
(* exception of connect(), and mails are given up and repeated only for    *)
(* cause.                                                                  *)
(* KafkaClients: a client that is open is known to its adapter or being    *)
(* closed, consumers read from a client that is subscribed or about to be, *)
(* and close() leaves no message behind.  ScyllaSession: a health check    *)
(* gives back the timeout it lends, and prepare() returns a statement of a *)
(* keyspace that the session had meanwhile.  At the end, the three side by *)
(* side.                                                                   *)
(***************************************************************************)
EXTENDS MCSharedClients, TLAPS, FiniteSetTheorems

-----------------------------------------------------------------------------
\* EmailPool

\* TypeOK without the length of the queue, which follows from Injective.
Typed == /\ server \in Servers
         /\ pool \in Seq(Managers)
         /\ open \in [Managers -> BOOLEAN]
         /\ old \in [Managers -> BOOLEAN]
         /\ pc \in [Mails -> {"new", "refresh", "send", "reconnect", "return", "done"}]
         /\ conn \in [Mails -> Managers \cup {NoManager}]
         /\ tries \in [Mails -> Nat]
         /\ outcome \in [Mails -> {"none", "sent", "gave_up", "raised", "dropped"}]
         /\ accepted \in [Mails -> Nat]
         /\ failures \in [Mails -> Nat]
         /\ unheard \in [Mails -> Nat]
         /\ lost \subseteq Managers

\* A call holds a manager from Take until its end, and no other call holds it.
Holding == \A m \in Mails : pc[m] \in {"new", "done"} <=> conn[m] = NoManager
Alone == \A m, n \in Mails : conn[m] = conn[n] /\ conn[m] # NoManager => m = n

\* A manager is in the queue once, and then no call holds it.
Injective == \A i, j \in 1..Len(pool) : pool[i] = pool[j] => i = j
Apart == \A i \in 1..Len(pool), m \in Mails : pool[i] # conn[m]

\* Every manager is somewhere, and one that is lost is nowhere else.
Whole == \A c \in Managers : \/ \E i \in 1..Len(pool) : pool[i] = c
                             \/ \E m \in Mails : conn[m] = c
                             \/ c \in lost
Gone == /\ \A c \in lost : /\ \A i \in 1..Len(pool) : pool[i] # c
                           /\ \A m \in Mails : conn[m] # c
        /\ server = "usual" => lost = {}

\* What a call's iterations and failures say of one another.  A call that goes on
\* without a connection has met one failure more than it has begun iterations.
Tally(m) ==
    /\ pc[m] \in {"new", "refresh"} => tries[m] = 0 /\ failures[m] = 0
    /\ pc[m] = "send" => /\ tries[m] < MaxRetries
                         /\ failures[m] >= tries[m] + (IF open[conn[m]] THEN 0 ELSE 1)
    /\ pc[m] = "reconnect" => failures[m] >= tries[m] /\ failures[m] <= 2 * tries[m]
    /\ tries[m] <= MaxRetries
    /\ failures[m] <= 2 * tries[m] + 1
    /\ pc[m] \in {"new", "refresh", "send", "reconnect"} => outcome[m] = "none"
    /\ outcome[m] = "gave_up" => failures[m] >= MaxRetries
    /\ accepted[m] = unheard[m] + (IF outcome[m] = "sent" THEN 1 ELSE 0)
    /\ accepted[m] <= tries[m]
Tallied == \A m \in Mails : Tally(m)

PoolIInv == Typed /\ Holding /\ Alone /\ Injective /\ Apart /\ Whole /\ Gone /\ Tallied

-----------------------------------------------------------------------------
\* The actions of a call

\* What is in a queue after its first element is taken, or one is added.
LEMMA TailElements ==
    ASSUME NEW Kinds, NEW q \in Seq(Kinds), q # <<>>
    PROVE  /\ Head(q) = q[1] /\ Len(q) >= 1 /\ q[1] \in Kinds
           /\ Tail(q) \in Seq(Kinds)
           /\ Len(Tail(q)) = Len(q) - 1
           /\ \A i \in 1..Len(Tail(q)) : Tail(q)[i] = q[i + 1]
OBVIOUS

LEMMA AppendElements ==
    ASSUME NEW Kinds, NEW q \in Seq(Kinds), NEW c \in Kinds
    PROVE  /\ Append(q, c) \in Seq(Kinds)
           /\ Len(Append(q, c)) = Len(q) + 1
           /\ \A i \in 1..Len(q) : Append(q, c)[i] = q[i]
           /\ Append(q, c)[Len(q) + 1] = c
OBVIOUS

\* A manager leaves the queue for the call that takes it.
LEMMA TakeStep == ASSUME NEW m \in Mails, PoolIInv, Take(m) PROVE PoolIInv'
<1> USE ConstantsAssumption DEF PoolIInv, Take, history
<1> DEFINE c == Head(pool)
<1>1. /\ c = pool[1] /\ 1 \in 1..Len(pool) /\ c \in Managers
      /\ pool' \in Seq(Managers) /\ Len(pool') = Len(pool) - 1
      /\ \A i \in 1..Len(pool') : pool'[i] = pool[i + 1] /\ i + 1 \in 1..Len(pool)
      /\ Len(pool) \in Nat
      BY TailElements DEF Typed
<1>2. /\ conn' = [conn EXCEPT ![m] = c] /\ conn'[m] = c
      /\ \A n \in Mails : n # m => conn'[n] = conn[n]
      /\ \A n \in Mails : conn[n] # c
      BY <1>1 DEF Typed, Apart
<1>3. Typed'
      BY <1>1 DEF Typed
<1>4. Holding'
      BY <1>1, <1>2 DEF Typed, Holding
<1>5. Alone'
      BY <1>2 DEF Alone
<1>6. Injective'
      BY <1>1 DEF Injective
<1>7. Apart'
  <2> SUFFICES ASSUME NEW i \in 1..Len(pool'), NEW n \in Mails PROVE pool'[i] # conn'[n]
      BY DEF Apart
  <2>1. i + 1 \in 1..Len(pool) /\ pool'[i] = pool[i + 1] /\ i + 1 # 1
      BY <1>1
  <2> QED BY <2>1, <1>1, <1>2 DEF Apart, Injective
<1>8. Whole'
  <2> SUFFICES ASSUME NEW d \in Managers
               PROVE  \/ \E i \in 1..Len(pool') : pool'[i] = d
                      \/ \E n \in Mails : conn'[n] = d
                      \/ d \in lost'
      BY DEF Whole
  <2>1. CASE d = c BY <2>1, <1>2
  <2>2. CASE \E n \in Mails : conn[n] = d
        BY <2>2, <1>2, <1>1 DEF Holding
  <2>3. ASSUME NEW i \in 1..Len(pool), pool[i] = d, d # c
        PROVE  \E j \in 1..Len(pool') : pool'[j] = d
    <3>1. i - 1 \in 1..Len(pool') /\ (i - 1) + 1 = i
          BY <1>1, <2>3
    <3> QED BY <3>1, <1>1, <2>3
  <2> QED BY <2>1, <2>2, <2>3 DEF Whole
<1>9. Gone'
      BY <1>1, <1>2 DEF Gone
<1>10. Tallied'
      BY <1>2 DEF Typed, Tallied, Tally
<1> QED BY <1>3, <1>4, <1>5, <1>6, <1>7, <1>8, <1>9, <1>10

\* The call is over and its manager goes back.
LEMMA ReturnStep == ASSUME NEW m \in Mails, PoolIInv, Return(m) PROVE PoolIInv'
<1> USE ConstantsAssumption DEF PoolIInv, Return, Over, history
<1> DEFINE c == conn[m]
<1>1. c \in Managers /\ c # NoManager
      BY DEF Typed, Holding
<1>2. /\ pool' \in Seq(Managers) /\ Len(pool') = Len(pool) + 1 /\ Len(pool) \in Nat
      /\ \A i \in 1..Len(pool) : pool'[i] = pool[i] /\ i \in 1..Len(pool')
      /\ pool'[Len(pool) + 1] = c
      BY <1>1, AppendElements DEF Typed
<1>3. /\ conn'[m] = NoManager
      /\ \A n \in Mails : n # m => conn'[n] = conn[n] /\ conn[n] # c
      BY <1>1 DEF Typed, Alone
<1>4. Typed'
      BY <1>1, <1>2 DEF Typed
<1>5. Holding'
      BY <1>3 DEF Typed, Holding
<1>6. Alone'
      BY <1>3 DEF Alone
<1>7. Injective'
  <2> SUFFICES ASSUME NEW i \in 1..Len(pool'), NEW j \in 1..Len(pool'), pool'[i] = pool'[j]
               PROVE  i = j
      BY DEF Injective
  <2>1. \A k \in 1..Len(pool) : pool[k] # c
      BY DEF Apart
  <2>2. \A k \in 1..Len(pool') : k = Len(pool) + 1 \/ k \in 1..Len(pool)
      BY <1>2
  <2> QED BY <2>1, <2>2, <1>2 DEF Injective
<1>8. Apart'
  <2> SUFFICES ASSUME NEW i \in 1..Len(pool'), NEW n \in Mails PROVE pool'[i] # conn'[n]
      BY DEF Apart
  <2>1. i = Len(pool) + 1 \/ i \in 1..Len(pool)
      BY <1>2
  <2>2. pool'[i] \in Managers
      BY <1>2
  <2> QED BY <2>1, <2>2, <1>1, <1>2, <1>3 DEF Apart
<1>9. Whole'
  <2> SUFFICES ASSUME NEW d \in Managers
               PROVE  \/ \E i \in 1..Len(pool') : pool'[i] = d
                      \/ \E n \in Mails : conn'[n] = d
                      \/ d \in lost'
      BY DEF Whole
  <2>1. CASE d = c BY <2>1, <1>2
  <2>2. CASE d # c BY <2>2, <1>2, <1>3 DEF Whole
  <2> QED BY <2>1, <2>2
<1>10. Gone'
  <2> SUFFICES ASSUME NEW d \in lost
               PROVE  /\ \A i \in 1..Len(pool') : pool'[i] # d
                      /\ \A n \in Mails : conn'[n] # d
      BY DEF Gone
  <2>1. d # c /\ d # NoManager /\ \A i \in 1..Len(pool) : pool[i] # d
      BY DEF Gone, Typed
  <2>2. \A i \in 1..Len(pool') : i = Len(pool) + 1 \/ i \in 1..Len(pool)
      BY <1>2
  <2> QED BY <2>1, <2>2, <1>2, <1>3 DEF Gone
<1>11. Tallied'
  <2> SUFFICES ASSUME NEW n \in Mails PROVE Tally(n)'
      BY DEF Tallied
  <2>1. Tally(n)
      BY DEF Tallied
  <2>2. CASE n = m
      BY <2>1, <2>2 DEF Typed, Tally
  <2>3. CASE n # m
      BY <2>1, <2>3, <1>3 DEF Typed, Tally
  <2> QED BY <2>2, <2>3
<1> QED BY <1>4, <1>5, <1>6, <1>7, <1>8, <1>9, <1>10, <1>11

\* The managers stay where they are.
LEMMA InPlace ==
    ASSUME PoolIInv, UNCHANGED <<server, pool, conn, lost>>,
           \A m \in Mails : pc'[m] \in {"new", "done"} <=> pc[m] \in {"new", "done"}
    PROVE  Holding' /\ Alone' /\ Injective' /\ Apart' /\ Whole' /\ Gone'
BY DEF PoolIInv, Holding, Alone, Injective, Apart, Whole, Gone

\* The tallies of the other calls are not concerned.
LEMMA OthersTallied ==
    ASSUME NEW m \in Mails, PoolIInv, conn[m] \in Managers, conn' = conn,
           \A n \in Mails : n # m => /\ pc'[n] = pc[n] /\ tries'[n] = tries[n]
                                     /\ outcome'[n] = outcome[n] /\ accepted'[n] = accepted[n]
                                     /\ failures'[n] = failures[n] /\ unheard'[n] = unheard[n],
           \A c \in Managers : c # conn[m] => open'[c] = open[c]
    PROVE  \A n \in Mails : n # m => Tally(n)'
<1> SUFFICES ASSUME NEW n \in Mails, n # m PROVE Tally(n)'
    OBVIOUS
<1>1. pc[n] = "send" => conn[n] \in Managers /\ conn[n] # conn[m]
  <2>1. conn[n] \in Managers \cup {NoManager}
        BY DEF PoolIInv, Typed
  <2>2. pc[n] = "send" => conn[n] # NoManager
        BY DEF PoolIInv, Holding
  <2>3. conn[n] = conn[m] /\ conn[m] # NoManager => n = m
        BY DEF PoolIInv, Alone
  <2>4. conn[m] # NoManager
        BY ConstantsAssumption
  <2> QED BY <2>1, <2>2, <2>3, <2>4
<1>2. Tally(n)
      BY DEF PoolIInv, Tallied
<1> QED BY <1>1, <1>2 DEF Tally

LEMMA HoldsOne ==
    ASSUME NEW m \in Mails, PoolIInv, pc[m] \in {"refresh", "send", "reconnect", "return"}
    PROVE  conn[m] \in Managers
BY DEF PoolIInv, Typed, Holding

\* connect(): the connection is there, or one more failure is counted.
Connected(m) ==
    /\ open' \in [Managers -> BOOLEAN] /\ failures' \in [Mails -> Nat]
    /\ \A c \in Managers : c # conn[m] => open'[c] = open[c]
    /\ \A n \in Mails : n # m => failures'[n] = failures[n]
    /\ \/ open'[conn[m]] /\ failures'[m] = failures[m]
       \/ ~open'[conn[m]] /\ failures'[m] = failures[m] + 1

LEMMA Connects ==
    ASSUME NEW m \in Mails, Typed, conn[m] \in Managers,
           \/ Connect(m, conn[m])
           \/ open[conn[m]] /\ UNCHANGED <<open, failures>>
    PROVE  Connected(m)
<1>1. CASE open[conn[m]] /\ UNCHANGED <<open, failures>>
      BY <1>1 DEF Typed, Connected
<1>2. CASE open' = [open EXCEPT ![conn[m]] = TRUE] /\ UNCHANGED failures
      BY <1>2 DEF Typed, Connected
<1>3. CASE open' = [open EXCEPT ![conn[m]] = FALSE] /\ Fail(m)
      BY <1>3 DEF Typed, Connected, Fail
<1> QED BY <1>1, <1>2, <1>3 DEF Connect

\* The head of the loop: the call goes on to send, or gives up.
Looped(m, n) ==
    /\ pc' \in [Mails -> {"new", "refresh", "send", "reconnect", "return", "done"}]
    /\ outcome' \in [Mails -> {"none", "sent", "gave_up", "raised", "dropped"}]
    /\ \A i \in Mails : i # m => pc'[i] = pc[i] /\ outcome'[i] = outcome[i]
    /\ \/ n < MaxRetries /\ pc'[m] = "send" /\ outcome'[m] = outcome[m]
       \/ ~(n < MaxRetries) /\ pc'[m] = "return" /\ outcome'[m] = "gave_up"
    /\ pc[m] \in {"refresh", "send", "reconnect"}

LEMMA Loops ==
    ASSUME NEW m \in Mails, Typed, NEW n, Loop(m, n), pc[m] \in {"refresh", "send", "reconnect"}
    PROVE  Looped(m, n)
<1>1. CASE n < MaxRetries
      BY <1>1 DEF Typed, Loop, Looped
<1>2. CASE ~(n < MaxRetries)
      BY <1>2 DEF Typed, Loop, Looped
<1> QED BY <1>1, <1>2

LEMMA RefreshStep == ASSUME NEW m \in Mails, PoolIInv, Refresh(m) PROVE PoolIInv'
<1> USE ConstantsAssumption
<1>1. conn[m] \in Managers /\ Typed /\ Tally(m)
      BY HoldsOne DEF Refresh, PoolIInv, Tallied
<1>2. Connected(m)
      BY <1>1, Connects DEF Refresh, Connected, Typed
<1>3. Looped(m, tries[m])
      BY <1>1, Loops DEF Refresh, Typed
<1>4. UNCHANGED <<server, pool, conn, accepted, unheard, lost>>
      BY DEF Refresh
<1>5. pc[m] = "refresh" /\ tries' = tries /\ old' \in [Managers -> BOOLEAN]
      BY <1>1 DEF Refresh, Typed
<1>6. Typed'
      BY <1>1, <1>2, <1>3, <1>4, <1>5 DEF Typed, Connected, Looped
<1>7. Holding' /\ Alone' /\ Injective' /\ Apart' /\ Whole' /\ Gone'
      BY <1>3, <1>4, <1>5, InPlace DEF Looped
<1>8. Tally(m)'
  <2>1. /\ tries[m] \in Nat /\ failures[m] \in Nat /\ unheard[m] \in Nat /\ MaxRetries \in Nat
        /\ accepted'[m] = accepted[m] /\ unheard'[m] = unheard[m] /\ conn'[m] = conn[m]
        BY <1>1, <1>4 DEF Typed
  <2> QED BY <1>1, <1>2, <1>3, <1>5, <2>1 DEF Tally, Connected, Looped
<1>9. \A n \in Mails : n # m => Tally(n)'
      BY <1>1, <1>2, <1>3, <1>4, <1>5, OthersTallied DEF Connected, Looped
<1> QED BY <1>6, <1>7, <1>8, <1>9 DEF PoolIInv, Tallied

LEMMA ReconnectStep == ASSUME NEW m \in Mails, PoolIInv, Reconnect(m) PROVE PoolIInv'
<1> USE ConstantsAssumption
<1>1. conn[m] \in Managers /\ Typed /\ Tally(m)
      BY HoldsOne DEF Reconnect, PoolIInv, Tallied
<1>2. Connected(m)
      BY <1>1, Connects DEF Reconnect, Connected, Typed
<1>3. Looped(m, tries[m])
      BY <1>1, Loops DEF Reconnect, Typed
<1>4. UNCHANGED <<server, pool, conn, accepted, unheard, lost>>
      BY DEF Reconnect
<1>5. pc[m] = "reconnect" /\ tries' = tries /\ old' = old
      BY <1>1 DEF Reconnect, Typed
<1>6. Typed'
      BY <1>1, <1>2, <1>3, <1>4, <1>5 DEF Typed, Connected, Looped
<1>7. Holding' /\ Alone' /\ Injective' /\ Apart' /\ Whole' /\ Gone'
      BY <1>3, <1>4, <1>5, InPlace DEF Looped
<1>8. Tally(m)'
  <2>1. /\ tries[m] \in Nat /\ failures[m] \in Nat /\ unheard[m] \in Nat /\ MaxRetries \in Nat
        /\ accepted'[m] = accepted[m] /\ unheard'[m] = unheard[m] /\ conn'[m] = conn[m]
        BY <1>1, <1>4 DEF Typed
  <2> QED BY <1>1, <1>2, <1>3, <1>5, <2>1 DEF Tally, Connected, Looped
<1>9. \A n \in Mails : n # m => Tally(n)'
      BY <1>1, <1>2, <1>3, <1>4, <1>5, OthersTallied DEF Connected, Looped
<1> QED BY <1>6, <1>7, <1>8, <1>9 DEF PoolIInv, Tallied

LEMMA ConnectInsteadStep == ASSUME NEW m \in Mails, PoolIInv, ConnectInstead(m) PROVE PoolIInv'
<1> USE ConstantsAssumption
<1>1. conn[m] \in Managers /\ Typed /\ Tally(m)
      BY HoldsOne DEF ConnectInstead, Try, PoolIInv, Tallied
<1>2. Connected(m)
      BY <1>1, Connects DEF ConnectInstead, Connected, Typed
<1>3. Looped(m, tries[m] + 1)
      BY <1>1, Loops DEF ConnectInstead, Try, Typed
<1>4. UNCHANGED <<server, pool, conn, accepted, unheard, lost>>
      BY DEF ConnectInstead, Try
<1>5. /\ pc[m] = "send" /\ ~open[conn[m]] /\ old' = old
      /\ tries' \in [Mails -> Nat] /\ tries'[m] = tries[m] + 1
      /\ \A n \in Mails : n # m => tries'[n] = tries[n]
      BY <1>1 DEF ConnectInstead, Try, Typed
<1>6. Typed'
      BY <1>1, <1>2, <1>3, <1>4, <1>5 DEF Typed, Connected, Looped
<1>7. Holding' /\ Alone' /\ Injective' /\ Apart' /\ Whole' /\ Gone'
      BY <1>3, <1>4, <1>5, InPlace DEF Looped
<1>8. Tally(m)'
  <2>1. /\ tries[m] \in Nat /\ failures[m] \in Nat /\ unheard[m] \in Nat /\ MaxRetries \in Nat
        /\ accepted'[m] = accepted[m] /\ unheard'[m] = unheard[m] /\ conn'[m] = conn[m]
        BY <1>1, <1>4 DEF Typed
  <2> QED BY <1>1, <1>2, <1>3, <1>5, <2>1 DEF Tally, Connected, Looped
<1>9. \A n \in Mails : n # m => Tally(n)'
      BY <1>1, <1>2, <1>3, <1>4, <1>5, OthersTallied DEF Connected, Looped
<1> QED BY <1>6, <1>7, <1>8, <1>9 DEF PoolIInv, Tallied

LEMMA SendStep == ASSUME NEW m \in Mails, PoolIInv, Send(m) \/ SendFails(m) PROVE PoolIInv'
<1> USE ConstantsAssumption
<1>1. conn[m] \in Managers /\ Typed /\ Tally(m)
      BY HoldsOne DEF Send, SendFails, Try, PoolIInv, Tallied
<1>2. UNCHANGED <<server, pool, conn, open, old, lost>> /\ pc[m] = "send" /\ open[conn[m]]
      BY DEF Send, SendFails, Try
<1>3. /\ tries' \in [Mails -> Nat] /\ tries'[m] = tries[m] + 1
      /\ \A n \in Mails : n # m => tries'[n] = tries[n]
  <2>1. tries' = [tries EXCEPT ![m] = tries[m] + 1]
        BY DEF Send, SendFails, Try
  <2> QED BY <1>1, <2>1 DEF Typed
<1>4. CASE Send(m)
  <2>1. Typed'
        BY <1>1, <1>2, <1>3, <1>4 DEF Typed, Send
  <2>2. Holding' /\ Alone' /\ Injective' /\ Apart' /\ Whole' /\ Gone'
        BY <1>1, <1>2, <1>4, InPlace DEF Typed, Send
  <2>3. Tally(m)'
        BY <1>1, <1>2, <1>3, <1>4 DEF Typed, Tally, Send
  <2>4. \A n \in Mails : n # m => Tally(n)'
        BY <1>1, <1>2, <1>3, <1>4, OthersTallied DEF Typed, Send
  <2> QED BY <2>1, <2>2, <2>3, <2>4 DEF PoolIInv, Tallied
<1>5. CASE SendFails(m)
  <2>1. PICK n \in {0, 1} : /\ accepted' = [accepted EXCEPT ![m] = @ + n]
                            /\ unheard' = [unheard EXCEPT ![m] = @ + n]
        BY <1>5 DEF SendFails
  <2>2. /\ failures' = [failures EXCEPT ![m] = @ + 1]
        /\ pc' = [pc EXCEPT ![m] = "reconnect"] /\ outcome' = outcome
        BY <1>5 DEF SendFails, Fail
  <2>3. Typed'
    <3>1. \A i \in Nat : i + n \in Nat
          OBVIOUS
    <3>2. accepted' \in [Mails -> Nat] /\ unheard' \in [Mails -> Nat]
          BY <1>1, <2>1, <3>1 DEF Typed
    <3>3. failures' \in [Mails -> Nat]
          BY <1>1, <2>2 DEF Typed
    <3>4. pc' \in [Mails -> {"new", "refresh", "send", "reconnect", "return", "done"}]
          BY <1>1, <2>2 DEF Typed
    <3> QED BY <1>1, <1>2, <1>3, <2>2, <3>2, <3>3, <3>4 DEF Typed
  <2>4. Holding' /\ Alone' /\ Injective' /\ Apart' /\ Whole' /\ Gone'
        BY <1>1, <1>2, <2>2, InPlace DEF Typed
  <2>5. Tally(m)'
        BY <1>1, <1>2, <1>3, <2>1, <2>2 DEF Typed, Tally
  <2>6. \A i \in Mails : i # m => Tally(i)'
        BY <1>1, <1>2, <1>3, <2>1, <2>2, OthersTallied DEF Typed
  <2> QED BY <2>3, <2>4, <2>5, <2>6 DEF PoolIInv, Tallied
<1> QED BY <1>4, <1>5

LEMMA MessageStep == ASSUME NEW m \in Mails, PoolIInv, MessageRaises(m) PROVE PoolIInv'
<1> USE ConstantsAssumption DEF PoolIInv
<1>1. conn[m] \in Managers
      BY HoldsOne DEF MessageRaises
<1>2. Typed'
      BY <1>1 DEF Typed, MessageRaises, history
<1>3. Holding' /\ Alone' /\ Injective' /\ Apart' /\ Whole' /\ Gone'
      BY InPlace DEF Typed, MessageRaises
<1>4. Tally(m)'
      BY <1>1 DEF Typed, Tallied, Tally, MessageRaises, history
<1>5. \A n \in Mails : n # m => Tally(n)'
      BY <1>1, OthersTallied DEF Typed, MessageRaises, history
<1> QED BY <1>2, <1>3, <1>4, <1>5 DEF Tallied

\* What connect() lets through ends the call, which gives its manager back.
LEMMA RaisesStep ==
    ASSUME NEW m \in Mails, PoolIInv, SendRaises(m) \/ ConnectRaises(m)
    PROVE  PoolIInv'
<1> USE ConstantsAssumption
<1>1. conn[m] \in Managers /\ Typed /\ Tally(m)
      BY HoldsOne DEF SendRaises, ConnectRaises, Try, PoolIInv, Tallied
<1>2. /\ UNCHANGED <<server, pool, conn, old, lost, accepted, failures, unheard>>
      /\ pc' = [pc EXCEPT ![m] = "return"] /\ outcome' = [outcome EXCEPT ![m] = "raised"]
      /\ pc[m] \in {"send", "reconnect"}
      BY DEF SendRaises, ConnectRaises, Raises, Try, history
<1>3. /\ tries' \in [Mails -> Nat] /\ \A n \in Mails : n # m => tries'[n] = tries[n]
      /\ \/ tries'[m] = tries[m] + 1 /\ pc[m] = "send"
         \/ tries'[m] = tries[m] /\ pc[m] = "reconnect"
  <2>1. CASE tries' = [tries EXCEPT ![m] = tries[m] + 1] /\ pc[m] = "send"
        BY <1>1, <2>1 DEF Typed
  <2>2. CASE tries' = tries /\ pc[m] = "reconnect"
        BY <1>1, <2>2 DEF Typed
  <2> QED BY <2>1, <2>2 DEF SendRaises, ConnectRaises, Try
<1>4. /\ open' \in [Managers -> BOOLEAN]
      /\ \A c \in Managers : c # conn[m] => open'[c] = open[c]
  <2>1. PICK now \in BOOLEAN : open' = [open EXCEPT ![conn[m]] = now] \/ open' = open
        BY <1>1 DEF SendRaises, ConnectRaises, Typed
  <2> QED BY <1>1, <2>1 DEF Typed
<1>5. Typed'
      BY <1>1, <1>2, <1>3, <1>4 DEF Typed
<1>6. Holding' /\ Alone' /\ Injective' /\ Apart' /\ Whole' /\ Gone'
      BY <1>1, <1>2, InPlace DEF Typed
<1>7. Tally(m)'
  <2>1. /\ tries[m] \in Nat /\ failures[m] \in Nat /\ unheard[m] \in Nat /\ MaxRetries \in Nat
        /\ accepted'[m] = accepted[m] /\ unheard'[m] = unheard[m] /\ failures'[m] = failures[m]
        /\ pc'[m] = "return" /\ outcome'[m] = "raised"
        BY <1>1, <1>2 DEF Typed
  <2>2. tries[m] < MaxRetries \/ pc[m] = "reconnect"
        BY <1>1, <1>2 DEF Tally
  <2> QED BY <1>1, <1>2, <1>3, <2>1, <2>2 DEF Tally
<1>8. \A n \in Mails : n # m => Tally(n)'
      BY <1>1, <1>2, <1>3, <1>4, OthersTallied DEF Typed
<1> QED BY <1>5, <1>6, <1>7, <1>8 DEF PoolIInv, Tallied

\* The one step that loses a manager.
LEMMA RefreshRaisesStep == ASSUME NEW m \in Mails, PoolIInv, RefreshRaises(m) PROVE PoolIInv'
<1> USE ConstantsAssumption DEF PoolIInv, RefreshRaises, Over
<1>1. conn[m] \in Managers
      BY HoldsOne
<1>2. conn'[m] = NoManager /\ \A n \in Mails : n # m => conn'[n] = conn[n] /\ conn[n] # conn[m]
      BY <1>1 DEF Typed, Alone
<1>3. Typed' /\ Holding'
      BY <1>1, <1>2 DEF Typed, Holding
<1>4. Alone' /\ Injective' /\ Whole'
      BY <1>2 DEF Alone, Injective, Whole
<1>5. Apart'
  <2> SUFFICES ASSUME NEW i \in 1..Len(pool), NEW n \in Mails PROVE pool[i] # conn'[n]
      BY DEF Apart
  <2>1. pool[i] \in Managers
      BY DEF Typed
  <2> QED BY <2>1, <1>2 DEF Apart
<1>6. Gone'
  <2>1. \A i \in 1..Len(pool) : pool[i] # conn[m]
      BY DEF Apart
  <2>2. \A c \in lost : c # NoManager
      BY DEF Typed
  <2> QED BY <2>1, <2>2, <1>1, <1>2 DEF Gone
<1>7. Tallied'
  <2> SUFFICES ASSUME NEW n \in Mails PROVE Tally(n)'
      BY DEF Tallied
  <2>1. Tally(n)
        BY DEF Tallied
  <2>2. CASE n = m
        BY <2>1, <2>2 DEF Typed, Tally
  <2>3. CASE n # m
    <3>1. conn'[n] = conn[n] /\ conn[n] # conn[m]
          BY <2>3, <1>2
    <3>2. pc[n] = "send" => conn[n] \in Managers
          BY DEF Typed, Holding
    <3>3. \A c \in Managers : c # conn[m] => open'[c] = open[c]
          BY <1>1 DEF Typed
    <3>4. /\ pc'[n] = pc[n] /\ tries'[n] = tries[n] /\ outcome'[n] = outcome[n]
          /\ accepted'[n] = accepted[n] /\ failures'[n] = failures[n] /\ unheard'[n] = unheard[n]
          BY <2>3 DEF Typed
    <3> HIDE DEF PoolIInv, RefreshRaises, Over
    <3> QED BY <2>1, <3>1, <3>2, <3>3, <3>4 DEF Tally
  <2> QED BY <2>2, <2>3
<1> QED BY <1>3, <1>4, <1>5, <1>6, <1>7

LEMMA AgeStep == ASSUME NEW c \in Managers, PoolIInv, Age(c) PROVE PoolIInv'
BY DEF PoolIInv, Typed, Age, history, Holding, Alone, Injective, Apart, Whole, Gone, Tallied,
       Tally

-----------------------------------------------------------------------------
\* The initial queue has every manager: it has as many places as there are.
LEMMA PoolInitially == Init => PoolIInv
<1> SUFFICES ASSUME Init PROVE PoolIInv
    OBVIOUS
<1> USE ConstantsAssumption DEF Init
<1>1. /\ Cardinality(Managers) \in Nat
      /\ pool \in [1..Cardinality(Managers) -> Managers]
      /\ \A i, j \in 1..Cardinality(Managers) : pool[i] = pool[j] => i = j
      BY FS_CardinalityType
<1>2. pool \in Seq(Managers) /\ Len(pool) = Cardinality(Managers)
      BY <1>1
<1>3. \A c \in Managers : \E i \in 1..Len(pool) : pool[i] = c
  <2> DEFINE N == Cardinality(Managers)
  <2>1. pool \in Injection(1..N, Managers)
        BY <1>1 DEF Injection, IsInjective
  <2>2. Cardinality(1..N) = N
        BY <1>1, FS_Interval
  <2>3. pool \in Surjection(1..N, Managers)
        BY <2>1, <2>2, FS_Injection
  <2> QED BY <2>3, <1>2 DEF Surjection
<1>4. Typed
      BY <1>2 DEF Typed
<1>5. Holding /\ Alone /\ Tallied
      BY DEF Holding, Alone, Tallied, Tally
<1>6. Injective /\ Apart /\ Gone
      BY <1>1, <1>2 DEF Injective, Apart, Gone
<1> QED BY <1>3, <1>4, <1>5, <1>6 DEF PoolIInv, Whole

\* Every step preserves the invariant.
LEMMA PoolPreserved == PoolIInv /\ [Next]_vars => PoolIInv'
<1> SUFFICES ASSUME PoolIInv, [Next]_vars PROVE PoolIInv'
    OBVIOUS
<1>1. ASSUME NEW m \in Mails, Step(m) PROVE PoolIInv'
      BY <1>1, TakeStep, RefreshStep, RefreshRaisesStep, MessageStep, SendStep, ReconnectStep,
         ConnectInsteadStep, RaisesStep, ReturnStep DEF Step
<1>2. CASE UNCHANGED vars
      BY <1>2 DEF PoolIInv, vars, history, Typed, Holding, Alone, Injective, Apart, Whole,
         Gone, Tallied, Tally
<1> QED BY <1>1, <1>2, AgeStep DEF Next

\* What a pool is: the queue and the calls share the managers among them.
LEMMA Shared ==
    ASSUME PoolIInv
    PROVE  /\ Len(pool) = Cardinality(Idle)
           /\ Len(pool) <= Cardinality(Managers)
           /\ \A c \in Managers, m \in Mails :
                conn[m] = c => c \notin Idle \cup lost /\ {n \in Mails : conn[n] = c} = {m}
           /\ Idle \cap lost = {}
<1> USE ConstantsAssumption DEF PoolIInv
<1> DEFINE D == 1..Len(pool)
<1>1. /\ Len(pool) \in Nat /\ DOMAIN pool = D /\ pool \in [D -> Managers]
      BY DEF Typed
<1>2. Idle = {pool[i] : i \in D} /\ Idle \subseteq Managers
      BY <1>1 DEF Idle
<1>3. IsFiniteSet(D) /\ Cardinality(D) = Len(pool)
      BY <1>1, FS_Interval
<1>4. pool \in Surjection(D, Idle) /\ pool \in Injection(D, Idle)
  <2>1. pool \in [D -> Idle] /\ \A i, j \in D : pool[i] = pool[j] => i = j
        BY <1>1, <1>2 DEF Injective
  <2>2. \A c \in Idle : \E i \in D : pool[i] = c
        BY <1>2
  <2> HIDE DEF D
  <2> QED BY <2>1, <2>2 DEF Surjection, Injection, IsInjective
<1>5. Cardinality(Idle) = Cardinality(D)
      BY <1>3, <1>4, FS_Surjection
<1>6. Cardinality(Idle) <= Cardinality(Managers)
      BY <1>2, FS_Subset
<1>7. ASSUME NEW m \in Mails, conn[m] \in Managers
      PROVE  /\ conn[m] \notin Idle \cup lost
             /\ {n \in Mails : conn[n] = conn[m]} = {m}
      BY <1>7, <1>2 DEF Apart, Alone, Gone
<1>8. Idle \cap lost = {}
      BY <1>2 DEF Gone
<1> QED BY <1>3, <1>5, <1>6, <1>7, <1>8

-----------------------------------------------------------------------------
\* The strengthening holds in every reachable state of the pool.
THEOREM PoolInvariance == Spec => []PoolIInv
<1>1. Init => PoolIInv BY PoolInitially
<1>2. PoolIInv /\ [Next]_vars => PoolIInv' BY PoolPreserved
<1> QED BY <1>1, <1>2, PTL DEF Spec

LEMMA PoolTyped == ASSUME PoolIInv PROVE TypeOK
<1>1. Typed /\ Len(pool) <= Cardinality(Managers)
      BY Shared DEF PoolIInv
<1>2. ASSUME NEW m \in Mails
      PROVE  /\ tries[m] \in 0..MaxRetries /\ accepted[m] \in 0..MaxRetries
             /\ unheard[m] \in 0..MaxRetries
             /\ failures[m] \in 0..(2 * MaxRetries + 1)
  <2>1. /\ tries[m] \in Nat /\ accepted[m] \in Nat /\ unheard[m] \in Nat
        /\ failures[m] \in Nat /\ MaxRetries \in Nat
        BY ConstantsAssumption DEF PoolIInv, Typed
  <2>2. tries[m] <= MaxRetries /\ failures[m] <= 2 * tries[m] + 1 /\ accepted[m] <= tries[m]
        /\ unheard[m] <= accepted[m]
        BY <2>1 DEF PoolIInv, Tallied, Tally
  <2> QED BY <2>1, <2>2
<1> QED BY <1>1, <1>2 DEF TypeOK, Typed

\* The pool and its calls keep their types: no more managers queue than there
\* are, and no call counts past its tries.
THEOREM PoolTypeCorrect == Spec => []TypeOK
<1>1. PoolIInv => TypeOK BY PoolTyped
<1> QED BY <1>1, PoolInvariance, PTL

\* get_connection() and return_connection() of EmailConnectionPool, with the finally
\* clause of send_email(): a connection manager is in the queue once, or held by one
\* call, or its get_connection() raised, for any number of threads, connections and
\* tries.  With connections that fail as connect() expects none is lost.
THEOREM Conserved == Spec => []PoolConserved
<1>1. PoolIInv => PoolConserved
  <2> SUFFICES ASSUME PoolIInv PROVE PoolConserved
      OBVIOUS
  <2>1. ASSUME NEW c \in Managers
        PROVE  Cardinality({m \in Mails : conn[m] = c}) = (IF c \in Idle \cup lost THEN 0 ELSE 1)
    <3>1. CASE c \in Idle \cup lost
      <4>1. {m \in Mails : conn[m] = c} = {}
            BY <3>1, Shared
      <4> QED BY <3>1, <4>1, FS_EmptySet
    <3>2. CASE c \notin Idle \cup lost
      <4>1. PICK m \in Mails : conn[m] = c
        <5>1. \A i \in 1..Len(pool) : pool[i] \in Idle
              BY DEF PoolIInv, Idle, Typed
        <5> QED BY <3>2, <5>1 DEF PoolIInv, Whole
      <4>2. {n \in Mails : conn[n] = c} = {m}
            BY <4>1, Shared
      <4> QED BY <3>2, <4>2, FS_Singleton
    <3> QED BY <3>1, <3>2
  <2> QED BY <2>1, Shared DEF PoolConserved, PoolIInv, Gone
<1> QED BY <1>1, PoolInvariance, PTL

\* The loop of send_email(): a mail is given up only after as many failures as it
\* has tries, and sent again only when the answer to an acceptance was lost.
THEOREM Justified == Spec => []TriesJustified
<1>1. PoolIInv => TriesJustified
      BY DEF PoolIInv, Typed, Tallied, Tally, TriesJustified
<1> QED BY <1>1, PoolInvariance, PTL

-----------------------------------------------------------------------------
\* KafkaClients

\* What a call holds and does fits its stage.
Calling ==
    /\ \A p \in Tasks : stage[p] \in {"subscribing", "using", "closing"} => held[p] \in K!Ids
    /\ \A p \in Tasks : stage[p] = "using" /\ operation[p] = "consume" => kind \in K!Consumers

\* A sync adapter has the one client of its constructor.
Constructed == ~K!Async => adapter = 1 /\ Len(clients) = 1

\* Only the async consumer subscribes the client it makes.
Subscribing == \A p \in Tasks : stage[p] = "subscribing" => kind \in K!Consumers

\* While no calls of close() overlap, one closes at most, and what it closes is what
\* the adapter knows: nobody makes another client meanwhile.
Closing ==
    ~twice => \A p \in Tasks : stage[p] = "closing" =>
                 /\ held[p] = adapter
                 /\ \A q \in Tasks : stage[q] = "closing" => q = p

Kept == ~twice => \A c \in K!Ids : clients[c].open => c = adapter

\* A client is not subscribed only while its maker subscribes it or after that failed.
Reading ==
    kind \in K!Consumers =>
        \A c \in K!Ids : clients[c].subscribed
                       \/ c \in failed
                       \/ \E q \in Tasks : stage[q] = "subscribing" /\ held[q] = c

\* Messages wait in the client that the adapter knows, and nowhere else.
Flushing ==
    /\ ~twice => \A m \in Messages : place[m] \in {None, K!Out, adapter}
    /\ \A p \in Tasks : stage[p] \in {"closing", "closed"} =>
          \A m \in due[p] : /\ place[m] # None
                            /\ stage[p] = "closed" /\ ~twice => place[m] = K!Out

ClientIInv == K!TypeOK /\ Calling /\ Constructed /\ Closing /\ Kept /\ Reading /\ Subscribing
        /\ Flushing

-----------------------------------------------------------------------------
\* What a call may be about: only consumers consume.
LEMMA Offered ==
    ASSUME kind \in K!Consumers \cup K!Producers, NEW o \in K!Operations
    PROVE  /\ o \in {"consume", "subscribe", "produce", "flush", "ask"}
           /\ o = "consume" => kind \in K!Consumers
<1>1. CASE kind = "consumer"
      BY <1>1 DEF K!Operations, K!Consumers, K!ConsumerOperations
<1>2. CASE kind = "async_consumer"
      BY <1>2 DEF K!Operations, K!Consumers, K!ConsumerOperations, K!AsyncConsumerOperations
<1>3. CASE kind = "producer"
      BY <1>3 DEF K!Operations, K!Consumers, K!ProducerOperations
<1>4. CASE kind = "async_producer"
      BY <1>4 DEF K!Operations, K!Consumers, K!ProducerOperations, K!AsyncProducerOperations
<1> QED BY <1>1, <1>2, <1>3, <1>4 DEF K!Consumers, K!Producers

LEMMA ClientInitially == ASSUME K!Init PROVE ClientIInv
<1> DEFINE made == [open |-> TRUE, subscribed |-> kind \in K!Consumers]
           Clients == [open : BOOLEAN, subscribed : BOOLEAN]
<1>1. CASE K!Async
  <2>1. /\ clients = << >> /\ clients \in Seq(Clients) /\ Len(clients) = 0
        /\ K!Ids = {} /\ adapter = None
        BY <1>1 DEF K!Init, K!Ids
  <2>2. K!TypeOK
    <3>1. clients \in Seq([open : BOOLEAN, subscribed : BOOLEAN]) /\ Len(clients) <= MaxClients
          BY <2>1, ConstantsFit
    <3>2. adapter \in K!Ids \cup {None} /\ held \in [Tasks -> K!Ids \cup {None}]
          BY <2>1 DEF K!Init
    <3>3. place \in [Messages -> K!Ids \cup {None, K!Out}] /\ due \in [Tasks -> SUBSET Messages]
          BY <2>1 DEF K!Init
    <3>4. /\ stage \in [Tasks -> {"idle", "subscribing", "using", "closing", "closed"}]
          /\ operation \in [Tasks -> {"none", "consume", "subscribe", "produce", "flush",
                                      "ask", "close"}]
          /\ kind \in K!Consumers \cup K!Producers /\ failed \subseteq K!Ids /\ twice \in BOOLEAN
          BY DEF K!Init
    <3> QED BY <3>1, <3>2, <3>3, <3>4 DEF K!TypeOK
  <2> QED BY <1>1, <2>1, <2>2 DEF K!Init, ClientIInv, Calling, Constructed, Closing, Kept,
             Reading,
                                    Subscribing, Flushing
<1>2. CASE ~K!Async
  <2>1. clients = <<made>> /\ adapter = 1
        BY <1>2 DEF K!Init
  <2>2. made \in Clients
        OBVIOUS
  <2>3. clients \in Seq(Clients) /\ Len(clients) = 1 /\ clients[1] = made /\ K!Ids = {1}
        BY <2>1, <2>2 DEF K!Ids
  <2>4. K!TypeOK
    <3>1. clients \in Seq([open : BOOLEAN, subscribed : BOOLEAN]) /\ Len(clients) <= MaxClients
          BY <2>3, ConstantsFit
    <3>2. adapter \in K!Ids \cup {None} /\ held \in [Tasks -> K!Ids \cup {None}]
          BY <2>1, <2>3 DEF K!Init
    <3>3. place \in [Messages -> K!Ids \cup {None, K!Out}] /\ due \in [Tasks -> SUBSET Messages]
          BY <2>1 DEF K!Init
    <3>4. /\ stage \in [Tasks -> {"idle", "subscribing", "using", "closing", "closed"}]
          /\ operation \in [Tasks -> {"none", "consume", "subscribe", "produce", "flush",
                                      "ask", "close"}]
          /\ kind \in K!Consumers \cup K!Producers /\ failed \subseteq K!Ids /\ twice \in BOOLEAN
          BY DEF K!Init
    <3> QED BY <3>1, <3>2, <3>3, <3>4 DEF K!TypeOK
  <2>5. Kept
        BY <2>1, <2>3 DEF Kept
  <2>6. Reading
    <3>1. kind \in K!Consumers => made.subscribed
          OBVIOUS
    <3> QED BY <2>3, <3>1 DEF Reading
  <2> QED BY <1>2, <2>1, <2>3, <2>4, <2>5, <2>6 DEF K!Init, ClientIInv, Calling,
             Constructed, Closing,
                                                      Subscribing, Flushing
<1> QED BY <1>1, <1>2

-----------------------------------------------------------------------------
\* A new client is the last of the sequence, the others are as before.
LEMMA MadeClients ==
    ASSUME K!TypeOK, K!MakeClient
    PROVE  /\ clients' \in Seq([open : BOOLEAN, subscribed : BOOLEAN])
           /\ Len(clients') = Len(clients) + 1 /\ Len(clients) \in Nat
           /\ Len(clients') <= MaxClients
           /\ K!Ids = 1..Len(clients) /\ K!Ids' = K!Ids \cup {Len(clients')} /\ Len(clients') \notin K!Ids
           /\ \A c \in K!Ids : clients'[c] = clients[c]
           /\ clients'[Len(clients')] = [open |-> TRUE, subscribed |-> FALSE]
<1> DEFINE new == [open |-> TRUE, subscribed |-> FALSE]
           Kinds == [open : BOOLEAN, subscribed : BOOLEAN]
<1>1. /\ new \in Kinds /\ clients \in Seq(Kinds) /\ clients' = Append(clients, new)
      /\ Len(clients) < MaxClients
      BY DEF K!TypeOK, K!MakeClient
<1> HIDE DEF new, Kinds
<1>2. /\ clients' \in Seq(Kinds) /\ Len(clients') = Len(clients) + 1 /\ Len(clients) \in Nat
      /\ K!Ids = 1..Len(clients) /\ K!Ids' = 1..Len(clients')
      /\ \A c \in 1..Len(clients) : clients'[c] = clients[c]
      /\ clients'[Len(clients) + 1] = new
      BY <1>1 DEF K!Ids
<1> QED BY <1>1, <1>2, ConstantsFit DEF new, Kinds

\* What Call() records.
LEMMA Calls ==
    ASSUME K!TypeOK, NEW p \in Tasks,
           NEW s \in {"idle", "subscribing", "using", "closing", "closed"},
           NEW o \in {"none", "consume", "subscribe", "produce", "flush", "ask", "close"},
           NEW c \in K!Ids' \cup {None}, K!Ids \subseteq K!Ids', K!Call(p, s, o, c)
    PROVE  /\ stage' \in [Tasks -> {"idle", "subscribing", "using", "closing", "closed"}]
           /\ operation' \in [Tasks -> {"none", "consume", "subscribe", "produce", "flush",
                                        "ask", "close"}]
           /\ held' \in [Tasks -> K!Ids' \cup {None}]
           /\ stage'[p] = s /\ operation'[p] = o /\ held'[p] = c
           /\ \A q \in Tasks : q # p => /\ stage'[q] = stage[q] /\ operation'[q] = operation[q]
                                        /\ held'[q] = held[q]
BY DEF K!TypeOK, K!Call

\* A field of a client is set: there are as many clients as before.
LEMMA SetClient ==
    ASSUME K!TypeOK, NEW c \in K!Ids, NEW r \in [open : BOOLEAN, subscribed : BOOLEAN],
           clients' = [clients EXCEPT ![c] = r]
    PROVE  /\ clients' \in Seq([open : BOOLEAN, subscribed : BOOLEAN])
           /\ Len(clients') = Len(clients) /\ K!Ids' = K!Ids /\ clients'[c] = r
           /\ \A d \in K!Ids : d # c => clients'[d] = clients[d]
<1> DEFINE Kinds == [open : BOOLEAN, subscribed : BOOLEAN]
<1>1. clients \in Seq(Kinds) /\ r \in Kinds
      BY DEF K!TypeOK
<1> HIDE DEF Kinds
<1> QED BY <1>1 DEF K!Ids, Kinds

\* A client is a record of its two fields.
LEMMA Client ==
    ASSUME K!TypeOK, NEW c \in K!Ids
    PROVE  clients[c] \in [open : BOOLEAN, subscribed : BOOLEAN] /\ K!Ids = 1..Len(clients)
           /\ Len(clients) \in Nat
<1> DEFINE Kinds == [open : BOOLEAN, subscribed : BOOLEAN]
<1>1. clients \in Seq(Kinds)
      BY DEF K!TypeOK
<1> HIDE DEF Kinds
<1>2. clients[c] \in Kinds /\ K!Ids = 1..Len(clients) /\ Len(clients) \in Nat
      BY <1>1 DEF K!Ids
<1> QED BY <1>2 DEF Kinds

LEMMA SetOpen ==
    ASSUME K!TypeOK, NEW c \in K!Ids, NEW b \in BOOLEAN, clients' = [clients EXCEPT ![c].open = b]
    PROVE  /\ clients' \in Seq([open : BOOLEAN, subscribed : BOOLEAN])
           /\ Len(clients') = Len(clients) /\ K!Ids' = K!Ids
           /\ \A d \in K!Ids : d # c => clients'[d] = clients[d]
           /\ clients'[c].open = b /\ clients'[c].subscribed = clients[c].subscribed
<1> DEFINE r == [clients[c] EXCEPT !.open = b]
<1>1. /\ r \in [open : BOOLEAN, subscribed : BOOLEAN]
      /\ r.open = b /\ r.subscribed = clients[c].subscribed
      BY Client
<1>2. clients' = [clients EXCEPT ![c] = r]
      OBVIOUS
<1> HIDE DEF r
<1> QED BY <1>1, <1>2, SetClient

LEMMA SetSubscribed ==
    ASSUME K!TypeOK, NEW c \in K!Ids, clients' = [clients EXCEPT ![c].subscribed = TRUE]
    PROVE  /\ clients' \in Seq([open : BOOLEAN, subscribed : BOOLEAN])
           /\ Len(clients') = Len(clients) /\ K!Ids' = K!Ids
           /\ \A d \in K!Ids : d # c => clients'[d] = clients[d]
           /\ clients'[c].subscribed /\ clients'[c].open = clients[c].open
<1> DEFINE r == [clients[c] EXCEPT !.subscribed = TRUE]
<1>1. /\ r \in [open : BOOLEAN, subscribed : BOOLEAN]
      /\ r.subscribed /\ r.open = clients[c].open
      BY Client
<1>2. clients' = [clients EXCEPT ![c] = r]
      OBVIOUS
<1> HIDE DEF r
<1> QED BY <1>1, <1>2, SetClient

-----------------------------------------------------------------------------
\* The steps of _get_adapter()

LEMMA FindStep == ASSUME ClientIInv, NEW p \in Tasks, K!Find(p) PROVE ClientIInv'
<1>1. PICK o \in K!Operations : K!Call(p, "using", o, adapter)
      BY DEF K!Find
<1>2. /\ UNCHANGED <<kind, clients, adapter, place, due, failed, twice>> /\ K!Ids' = K!Ids
      /\ stage[p] = "idle" /\ adapter \in K!Ids /\ adapter # None
      BY DEF K!Find, K!history, ClientIInv, K!TypeOK, K!Ids
<1>3. /\ o \in {"consume", "subscribe", "produce", "flush", "ask"}
      /\ o = "consume" => kind \in K!Consumers
  <2>1. kind \in K!Consumers \cup K!Producers
        BY DEF ClientIInv, K!TypeOK
  <2> QED BY <2>1, Offered
<1>4. /\ stage' \in [Tasks -> {"idle", "subscribing", "using", "closing", "closed"}]
      /\ operation' \in [Tasks -> {"none", "consume", "subscribe", "produce", "flush",
                                   "ask", "close"}]
      /\ held' \in [Tasks -> K!Ids' \cup {None}]
      /\ stage'[p] = "using" /\ operation'[p] = o /\ held'[p] = adapter
      /\ \A q \in Tasks : q # p => /\ stage'[q] = stage[q] /\ operation'[q] = operation[q]
                                   /\ held'[q] = held[q]
      BY <1>1, <1>2, <1>3, Calls DEF ClientIInv
<1>5. K!TypeOK'
      BY <1>2, <1>4 DEF ClientIInv, K!TypeOK
<1>6. Calling' /\ Constructed' /\ Closing' /\ Kept' /\ Flushing'
      BY <1>2, <1>3, <1>4 DEF ClientIInv, Calling, Constructed, K!Async, Closing, Kept, Flushing
<1>7. Reading' /\ Subscribing'
      BY <1>2, <1>4 DEF ClientIInv, Reading, Subscribing
<1> QED BY <1>5, <1>6, <1>7 DEF ClientIInv

LEMMA MakeStep == ASSUME ClientIInv, NEW p \in Tasks, K!Make(p) PROVE ClientIInv'
<1> DEFINE n == Len(clients')
           s == IF kind = "async_consumer" THEN "subscribing" ELSE "using"
<1>1. PICK o \in K!Operations : K!Call(p, s, o, adapter')
      BY DEF K!Make
<1>2. /\ UNCHANGED <<kind, place, due, failed, twice>>
      /\ stage[p] = "idle" /\ adapter = None /\ adapter' = n /\ K!MakeClient
      BY DEF K!Make, K!MakeClient, K!history
<1>3. /\ o \in {"consume", "subscribe", "produce", "flush", "ask"}
      /\ o = "consume" => kind \in K!Consumers
  <2>1. kind \in K!Consumers \cup K!Producers
        BY DEF ClientIInv, K!TypeOK
  <2> QED BY <2>1, Offered
<1>4. /\ clients' \in Seq([open : BOOLEAN, subscribed : BOOLEAN]) /\ n <= MaxClients
      /\ K!Ids' = K!Ids \cup {n} /\ n \notin K!Ids /\ n \in Nat
      /\ \A c \in K!Ids : clients'[c] = clients[c] /\ c \in Nat
      /\ clients'[n] = [open |-> TRUE, subscribed |-> FALSE]
      BY <1>2, MadeClients DEF ClientIInv
<1> HIDE DEF n
<1>5. /\ stage' \in [Tasks -> {"idle", "subscribing", "using", "closing", "closed"}]
      /\ operation' \in [Tasks -> {"none", "consume", "subscribe", "produce", "flush",
                                   "ask", "close"}]
      /\ held' \in [Tasks -> K!Ids' \cup {None}]
      /\ stage'[p] = s /\ operation'[p] = o /\ held'[p] = n
      /\ \A q \in Tasks : q # p => /\ stage'[q] = stage[q] /\ operation'[q] = operation[q]
                                   /\ held'[q] = held[q]
  <2>1. s \in {"idle", "subscribing", "using", "closing", "closed"}
        OBVIOUS
  <2> HIDE DEF s
  <2> QED BY <1>1, <1>2, <1>3, <1>4, <2>1, Calls DEF ClientIInv
<1>6. K!Async /\ None \notin K!Ids'
      BY <1>2, <1>4, ConstantsFit DEF ClientIInv, Constructed
<1>7. K!TypeOK'
      BY <1>2, <1>4, <1>5 DEF ClientIInv, K!TypeOK, n
<1>8. Calling' /\ Constructed'
      BY <1>2, <1>3, <1>4, <1>5, <1>6 DEF ClientIInv, Calling, Constructed, K!Async
<1>9. Closing' /\ Kept'
      BY <1>2, <1>4, <1>5, <1>6 DEF ClientIInv, Calling, Closing, Kept
<1>10. Reading'
  <2> SUFFICES ASSUME kind \in K!Consumers, NEW c \in K!Ids'
               PROVE  \/ clients'[c].subscribed \/ c \in failed'
                      \/ \E q \in Tasks : stage'[q] = "subscribing" /\ held'[q] = c
      BY <1>2 DEF Reading
  <2>1. kind = "async_consumer"
        BY <1>6 DEF K!Consumers, K!Async
  <2>2. CASE c = n BY <2>1, <2>2, <1>5
  <2>3. CASE c \in K!Ids BY <2>3, <1>2, <1>4, <1>5 DEF ClientIInv, Reading
  <2> QED BY <2>2, <2>3, <1>4
<1>11. Subscribing' /\ Flushing'
       BY <1>2, <1>5, <1>6 DEF ClientIInv, Subscribing, K!Consumers, Flushing
<1> QED BY <1>7, <1>8, <1>9, <1>10, <1>11 DEF ClientIInv

LEMMA SubscribedStep == ASSUME ClientIInv, NEW p \in Tasks, K!Subscribed(p) PROVE ClientIInv'
<1> DEFINE h == held[p]
<1>1. /\ UNCHANGED <<kind, adapter, place, due, failed, twice>>
      /\ stage[p] = "subscribing" /\ h \in K!Ids
      /\ clients' = [clients EXCEPT ![h].subscribed = TRUE]
      BY DEF K!Subscribed, K!history, ClientIInv, Calling
<1>2. /\ clients' \in Seq([open : BOOLEAN, subscribed : BOOLEAN])
      /\ Len(clients') = Len(clients) /\ K!Ids' = K!Ids
      /\ \A c \in K!Ids : c # h => clients'[c] = clients[c]
      /\ clients'[h].subscribed /\ clients'[h].open = clients[h].open
      BY <1>1, SetSubscribed DEF ClientIInv
<1>3. /\ stage' \in [Tasks -> {"idle", "subscribing", "using", "closing", "closed"}]
      /\ operation' \in [Tasks -> {"none", "consume", "subscribe", "produce", "flush",
                                   "ask", "close"}]
      /\ held' \in [Tasks -> K!Ids' \cup {None}]
      /\ \A q \in Tasks : q # p => /\ stage'[q] = stage[q] /\ operation'[q] = operation[q]
                                   /\ held'[q] = held[q]
      /\ \/ stage'[p] = "idle"
         \/ stage'[p] = "using" /\ held'[p] = adapter /\ adapter \in K!Ids
            /\ operation'[p] = operation[p]
  <2>1. CASE adapter = None
        BY <1>2, <2>1, Calls DEF K!Subscribed, K!End, ClientIInv
  <2>2. CASE adapter # None
    <3>1. adapter \in K!Ids /\ operation[p] \in {"none", "consume", "subscribe", "produce", "flush",
                                               "ask", "close"}
          BY <2>2 DEF ClientIInv, K!TypeOK
    <3> QED BY <1>2, <2>2, <3>1, Calls DEF K!Subscribed, ClientIInv
  <2> QED BY <2>1, <2>2
<1>4. K!TypeOK'
      BY <1>1, <1>2, <1>3 DEF ClientIInv, K!TypeOK
<1>5. Calling'
  <2>1. stage'[p] = "using" /\ operation'[p] = "consume" => kind \in K!Consumers
        BY <1>1, <1>3 DEF ClientIInv, Subscribing
  <2> QED BY <1>1, <1>2, <1>3, <2>1 DEF ClientIInv, Calling
<1>6. Constructed' /\ Closing' /\ Kept' /\ Flushing'
      BY <1>1, <1>2, <1>3 DEF ClientIInv, Constructed, K!Async, Closing, Kept, Flushing
<1>7. Reading' /\ Subscribing'
      BY <1>1, <1>2, <1>3 DEF ClientIInv, Reading, Subscribing
<1> QED BY <1>4, <1>5, <1>6, <1>7 DEF ClientIInv

\* A call is over, at whatever stage, and the client is as it was.
Ending(p) ==
    /\ K!Ids' = K!Ids /\ UNCHANGED <<kind, adapter, twice>>
    /\ stage' \in [Tasks -> {"idle", "subscribing", "using", "closing", "closed"}]
    /\ operation' \in [Tasks -> {"none", "consume", "subscribe", "produce", "flush",
                                 "ask", "close"}]
    /\ held' \in [Tasks -> K!Ids' \cup {None}]
    /\ stage'[p] = "idle"
    /\ \A q \in Tasks : q # p => /\ stage'[q] = stage[q] /\ operation'[q] = operation[q]
                                 /\ held'[q] = held[q]

LEMMA Ends ==
    ASSUME ClientIInv, NEW p \in Tasks, K!End(p), K!Ids' = K!Ids, UNCHANGED <<kind, adapter, twice>>
    PROVE  Ending(p)
BY Calls DEF ClientIInv, K!End, Ending

LEMMA SubscriptionFailsStep ==
    ASSUME ClientIInv, NEW p \in Tasks, K!SubscriptionFails(p) PROVE ClientIInv'
<1>1. /\ UNCHANGED <<kind, clients, adapter, place, due, twice>> /\ K!Ids' = K!Ids
      /\ stage[p] = "subscribing" /\ held[p] \in K!Ids /\ failed' = failed \cup {held[p]}
      BY DEF K!SubscriptionFails, ClientIInv, Calling, K!Ids
<1>2. Ending(p)
      BY <1>1, Ends DEF K!SubscriptionFails
<1>3. K!TypeOK'
      BY <1>1, <1>2 DEF ClientIInv, K!TypeOK, Ending
<1>4. Calling' /\ Constructed' /\ Closing' /\ Kept' /\ Flushing'
      BY <1>1, <1>2 DEF ClientIInv, Calling, Constructed, K!Async, Closing, Kept, Flushing,
         Ending
<1>5. Reading' /\ Subscribing'
      BY <1>1, <1>2 DEF ClientIInv, Reading, Subscribing, Ending
<1> QED BY <1>3, <1>4, <1>5 DEF ClientIInv

-----------------------------------------------------------------------------
\* The calls of the client

LEMMA ResubscribeStep == ASSUME ClientIInv, NEW p \in Tasks, K!Resubscribe(p) PROVE ClientIInv'
<1> DEFINE h == held[p]
<1>1. /\ UNCHANGED <<kind, adapter, place, due, failed, twice>>
      /\ stage[p] = "using" /\ h \in K!Ids
      /\ clients' = [clients EXCEPT ![h].subscribed = TRUE]
      BY DEF K!Resubscribe, K!history, ClientIInv, Calling
<1>2. /\ clients' \in Seq([open : BOOLEAN, subscribed : BOOLEAN])
      /\ Len(clients') = Len(clients) /\ K!Ids' = K!Ids
      /\ \A c \in K!Ids : c # h => clients'[c] = clients[c]
      /\ clients'[h].subscribed /\ clients'[h].open = clients[h].open
      BY <1>1, SetSubscribed DEF ClientIInv
<1>3. Ending(p)
      BY <1>1, <1>2, Ends DEF K!Resubscribe
<1>4. K!TypeOK'
      BY <1>1, <1>2, <1>3 DEF ClientIInv, K!TypeOK, Ending
<1>5. Calling' /\ Constructed' /\ Closing' /\ Kept' /\ Flushing'
      BY <1>1, <1>2, <1>3 DEF ClientIInv, Calling, Constructed, K!Async, Closing, Kept,
         Flushing, Ending
<1>6. Reading' /\ Subscribing'
      BY <1>1, <1>2, <1>3 DEF ClientIInv, Reading, Subscribing, Ending
<1> QED BY <1>4, <1>5, <1>6 DEF ClientIInv

\* A call that changes nothing but, perhaps, where messages are.
LEMMA QuietStep ==
    ASSUME ClientIInv, NEW p \in Tasks, K!Consume(p) \/ K!Flush(p) \/ K!Produce(p)
    PROVE ClientIInv'
<1>1. /\ UNCHANGED <<kind, clients, adapter, due, failed, twice>> /\ K!Ids' = K!Ids
      /\ stage[p] = "using" /\ held[p] \in K!Ids
      BY DEF K!Consume, K!Flush, K!Produce, K!history, ClientIInv, Calling, K!Ids
<1>2. Ending(p)
      BY <1>1, Ends DEF K!Consume, K!Flush, K!Produce
<1>3. /\ place' \in [Messages -> K!Ids \cup {None, K!Out}]
      /\ \A m \in Messages : \/ place'[m] = place[m]
                             \/ place[m] = None /\ place'[m] = held[p] /\ clients[held[p]].open
  <2>1. CASE place' = place
        BY <2>1 DEF ClientIInv, K!TypeOK
  <2>2. CASE K!Produce(p)
        BY <1>1, <2>2 DEF K!Produce, ClientIInv, K!TypeOK
  <2> QED BY <2>1, <2>2 DEF K!Consume, K!Flush
<1>4. K!TypeOK'
      BY <1>1, <1>2, <1>3 DEF ClientIInv, K!TypeOK, Ending
<1>5. Calling' /\ Constructed' /\ Closing' /\ Kept'
      BY <1>1, <1>2 DEF ClientIInv, Calling, Constructed, K!Async, Closing, Kept, Ending
<1>6. Reading' /\ Subscribing'
      BY <1>1, <1>2 DEF ClientIInv, Reading, Subscribing, Ending
<1>7. Flushing'
  <2>1. ~twice /\ clients[held[p]].open => held[p] = adapter
        BY <1>1 DEF ClientIInv, Kept
  <2>2. ~twice' => \A m \in Messages : place'[m] \in {None, K!Out, adapter'}
        BY <1>1, <1>3, <2>1 DEF ClientIInv, Flushing
  <2>3. ASSUME NEW q \in Tasks, stage'[q] \in {"closing", "closed"}, NEW m \in due'[q]
        PROVE  place'[m] # None /\ (stage'[q] = "closed" /\ ~twice' => place'[m] = K!Out)
    <3>1. q # p /\ stage'[q] = stage[q] /\ m \in due[q] /\ m \in Messages
          BY <1>1, <1>2, <2>3 DEF Ending, ClientIInv, K!TypeOK
    <3>2. place[m] # None
          BY <2>3, <3>1 DEF ClientIInv, Flushing
    <3>3. place'[m] = place[m]
          BY <1>3, <3>1, <3>2
    <3> QED BY <1>1, <2>3, <3>1, <3>2, <3>3 DEF ClientIInv, Flushing
  <2> QED BY <2>2, <2>3 DEF Flushing
<1> QED BY <1>4, <1>5, <1>6, <1>7 DEF ClientIInv

LEMMA FailsStep == ASSUME ClientIInv, NEW p \in Tasks, K!Fails(p) PROVE ClientIInv'
<1> DEFINE h == held[p]
<1>1. /\ UNCHANGED <<kind, adapter, place, failed, twice>>
      /\ stage[p] \in {"using", "closing"} /\ h \in K!Ids
      /\ due' = [due EXCEPT ![p] = {}]
      BY DEF K!Fails, ClientIInv, Calling
<1>2. /\ clients' \in Seq([open : BOOLEAN, subscribed : BOOLEAN])
      /\ Len(clients') = Len(clients) /\ K!Ids' = K!Ids
      /\ \A c \in K!Ids : /\ clients'[c].open => clients[c].open
                        /\ clients'[c].subscribed = clients[c].subscribed
  <2>1. CASE clients' = clients
        BY <2>1 DEF ClientIInv, K!TypeOK, K!Ids
  <2>2. CASE clients' = [clients EXCEPT ![h].open = FALSE]
        BY <1>1, <2>2, SetOpen DEF ClientIInv
  <2> QED BY <2>1, <2>2 DEF K!Fails
<1>3. Ending(p)
      BY <1>1, <1>2, Ends DEF K!Fails
<1>4. K!TypeOK'
      BY <1>1, <1>2, <1>3 DEF ClientIInv, K!TypeOK, Ending
<1>5. Calling' /\ Constructed' /\ Closing' /\ Kept'
      BY <1>1, <1>2, <1>3 DEF ClientIInv, Calling, Constructed, K!Async, Closing, Kept, Ending
<1>6. Reading' /\ Subscribing'
      BY <1>1, <1>2, <1>3 DEF ClientIInv, Reading, Subscribing, Ending
<1>7. Flushing'
      BY <1>1, <1>3 DEF ClientIInv, K!TypeOK, Flushing, Ending
<1> QED BY <1>4, <1>5, <1>6, <1>7 DEF ClientIInv

LEMMA DeliverStep == ASSUME ClientIInv, NEW m \in Messages, K!Deliver(m) PROVE ClientIInv'
<1>1. /\ UNCHANGED <<kind, clients, adapter, stage, operation, held, due, failed, twice>>
      /\ K!Ids' = K!Ids
      /\ place' = [place EXCEPT ![m] = K!Out] /\ place[m] \in K!Ids
      BY DEF K!Deliver, K!history, K!Ids
<1>2. K!Out # None /\ place' \in [Messages -> K!Ids \cup {None, K!Out}]
      BY <1>1, ConstantsFit DEF K!Out, ClientIInv, K!TypeOK
<1>3. K!TypeOK'
      BY <1>1, <1>2 DEF ClientIInv, K!TypeOK
<1>4. Calling' /\ Constructed' /\ Closing' /\ Kept' /\ Reading' /\ Subscribing'
      BY <1>1 DEF ClientIInv, Calling, Constructed, K!Async, Closing, Kept, Reading, Subscribing
<1>5. \A n \in Messages : place'[n] = (IF n = m THEN K!Out ELSE place[n])
      BY <1>1 DEF ClientIInv, K!TypeOK
<1>6. \A q \in Tasks : due[q] \subseteq Messages
      BY DEF ClientIInv, K!TypeOK
<1>7. Flushing'
      BY <1>1, <1>2, <1>5, <1>6 DEF ClientIInv, Flushing
<1> QED BY <1>3, <1>4, <1>7 DEF ClientIInv

-----------------------------------------------------------------------------
\* The steps of close()

LEMMA CloseStep == ASSUME ClientIInv, NEW p \in Tasks, K!Close(p) PROVE ClientIInv'
<1> DEFINE s == IF adapter = None THEN "closed" ELSE "closing"
<1>1. /\ UNCHANGED <<kind, clients, adapter, place, failed>> /\ K!Ids' = K!Ids
      /\ stage[p] = "idle" /\ due' = [due EXCEPT ![p] = K!Accepted]
      /\ twice' = (twice \/ \E q \in Tasks : stage[q] = "closing")
      /\ K!Call(p, s, "close", adapter)
      BY DEF K!Close, K!Ids
<1>2. /\ stage' \in [Tasks -> {"idle", "subscribing", "using", "closing", "closed"}]
      /\ operation' \in [Tasks -> {"none", "consume", "subscribe", "produce", "flush",
                                   "ask", "close"}]
      /\ held' \in [Tasks -> K!Ids' \cup {None}]
      /\ stage'[p] = s /\ operation'[p] = "close" /\ held'[p] = adapter
      /\ \A q \in Tasks : q # p => /\ stage'[q] = stage[q] /\ operation'[q] = operation[q]
                                   /\ held'[q] = held[q]
  <2>1. s \in {"idle", "subscribing", "using", "closing", "closed"} /\ adapter \in K!Ids \cup {None}
        BY DEF ClientIInv, K!TypeOK
  <2> HIDE DEF s
  <2> QED BY <1>1, <2>1, Calls DEF ClientIInv
<1>3. K!Accepted \subseteq Messages /\ (\A m \in K!Accepted : place[m] # None)
      BY DEF K!Accepted
<1>4. K!TypeOK'
      BY <1>1, <1>2, <1>3 DEF ClientIInv, K!TypeOK
<1>5. Calling' /\ Constructed' /\ Closing' /\ Kept'
      BY <1>1, <1>2 DEF ClientIInv, K!TypeOK, Calling, Constructed, K!Async, Closing, Kept
<1>6. Reading' /\ Subscribing'
      BY <1>1, <1>2 DEF ClientIInv, Reading, Subscribing
<1>7. Flushing'
  <2>1. \A q \in Tasks : due'[q] = IF q = p THEN K!Accepted ELSE due[q]
        BY <1>1 DEF ClientIInv, K!TypeOK
  <2>2. ~twice' => \A m \in Messages : place'[m] \in {None, K!Out, adapter'}
        BY <1>1 DEF ClientIInv, Flushing
  <2>3. stage'[p] = "closed" => adapter = None
        BY <1>2
  <2>4. ASSUME NEW q \in Tasks, stage'[q] \in {"closing", "closed"}, NEW m \in due'[q]
        PROVE  place'[m] # None /\ (stage'[q] = "closed" /\ ~twice' => place'[m] = K!Out)
    <3>1. CASE q = p
      <4>1. m \in Messages /\ place[m] # None /\ place' = place
            BY <1>1, <1>3, <2>1, <2>4, <3>1
      <4>2. stage'[q] = "closed" /\ ~twice' => place[m] = K!Out
            BY <4>1, <3>1, <1>1, <2>2, <2>3
      <4> QED BY <4>1, <4>2
    <3>2. CASE q # p
      <4>1. stage'[q] = stage[q] /\ m \in due[q] /\ place' = place /\ (~twice' => ~twice)
            BY <1>1, <1>2, <2>1, <2>4, <3>2
      <4> QED BY <4>1, <2>4 DEF ClientIInv, Flushing
    <3> QED BY <3>1, <3>2
  <2> QED BY <2>2, <2>4 DEF Flushing
<1> QED BY <1>4, <1>5, <1>6, <1>7 DEF ClientIInv

LEMMA CloseEndsStep == ASSUME ClientIInv, NEW p \in Tasks, K!CloseEnds(p) PROVE ClientIInv'
<1> DEFINE h == held[p]
<1>1. /\ UNCHANGED <<kind, place, due, failed, twice>>
      /\ stage[p] = "closing" /\ h \in K!Ids /\ K!Waiting(h) = {}
      /\ clients' = [clients EXCEPT ![h].open = (kind = "producer")]
      /\ adapter' = IF K!Async THEN None ELSE adapter
      /\ K!Call(p, "closed", "close", None)
      BY DEF K!CloseEnds, K!history, ClientIInv, Calling
<1>2. /\ clients' \in Seq([open : BOOLEAN, subscribed : BOOLEAN])
      /\ Len(clients') = Len(clients) /\ K!Ids' = K!Ids
      /\ \A c \in K!Ids : c # h => clients'[c] = clients[c]
      /\ clients'[h].open = (kind = "producer") /\ clients'[h].subscribed = clients[h].subscribed
      BY <1>1, SetOpen DEF ClientIInv
<1>3. /\ stage' \in [Tasks -> {"idle", "subscribing", "using", "closing", "closed"}]
      /\ operation' \in [Tasks -> {"none", "consume", "subscribe", "produce", "flush",
                                   "ask", "close"}]
      /\ held' \in [Tasks -> K!Ids' \cup {None}]
      /\ stage'[p] = "closed"
      /\ \A q \in Tasks : q # p => /\ stage'[q] = stage[q] /\ operation'[q] = operation[q]
                                   /\ held'[q] = held[q]
      BY <1>1, <1>2, Calls DEF ClientIInv
<1>4. K!TypeOK'
      BY <1>1, <1>2, <1>3 DEF ClientIInv, K!TypeOK
<1>5. Calling' /\ Constructed'
      BY <1>1, <1>2, <1>3 DEF ClientIInv, Calling, Constructed, K!Async
<1>6. Closing'
      BY <1>1, <1>3 DEF ClientIInv, Closing
<1>7. Kept'
  <2> SUFFICES ASSUME ~twice, NEW c \in K!Ids, clients'[c].open PROVE c = adapter'
      BY <1>1, <1>2 DEF Kept
  <2>1. h = adapter
        BY <1>1 DEF ClientIInv, Closing
  <2>2. CASE c = h BY <2>1, <2>2, <1>1, <1>2 DEF K!Async
  <2>3. CASE c # h BY <2>1, <2>3, <1>2 DEF ClientIInv, Kept
  <2> QED BY <2>2, <2>3
<1>8. Reading' /\ Subscribing'
      BY <1>1, <1>2, <1>3 DEF ClientIInv, Reading, Subscribing
<1>9. Flushing'
  <2>1. ~twice => h = adapter /\ \A m \in Messages : place[m] \in {None, K!Out}
        BY <1>1 DEF ClientIInv, Closing, Flushing, K!Waiting
  <2>2. \A m \in due[p] : m \in Messages /\ place[m] # None
        BY <1>1 DEF ClientIInv, K!TypeOK, Flushing
  <2> QED BY <1>1, <1>3, <2>1, <2>2 DEF ClientIInv, Flushing
<1> QED BY <1>4, <1>5, <1>6, <1>7, <1>8, <1>9 DEF ClientIInv

LEMMA ClosedStep == ASSUME ClientIInv, NEW p \in Tasks, K!Closed(p) PROVE ClientIInv'
<1>1. /\ UNCHANGED <<kind, clients, adapter, place, failed, twice>> /\ K!Ids' = K!Ids
      /\ stage[p] = "closed" /\ due' = [due EXCEPT ![p] = {}]
      BY DEF K!Closed, K!Ids
<1>2. Ending(p)
      BY <1>1, Ends DEF K!Closed
<1>3. K!TypeOK'
      BY <1>1, <1>2 DEF ClientIInv, K!TypeOK, Ending
<1>4. Calling' /\ Constructed' /\ Closing' /\ Kept'
      BY <1>1, <1>2 DEF ClientIInv, Calling, Constructed, K!Async, Closing, Kept, Ending
<1>5. Reading' /\ Subscribing'
      BY <1>1, <1>2 DEF ClientIInv, Reading, Subscribing, Ending
<1>6. Flushing'
      BY <1>1, <1>2 DEF ClientIInv, K!TypeOK, Flushing, Ending
<1> QED BY <1>3, <1>4, <1>5, <1>6 DEF ClientIInv

-----------------------------------------------------------------------------
LEMMA ClientPreserved == ASSUME ClientIInv, [K!Next]_(K!vars) PROVE ClientIInv'
<1>1. ASSUME NEW p \in Tasks, K!Proceed(p) PROVE ClientIInv'
      BY <1>1, SubscribedStep, QuietStep, ResubscribeStep, CloseEndsStep, ClosedStep,
         SubscriptionFailsStep, FailsStep DEF K!Proceed, K!Refused
<1>2. CASE UNCHANGED K!vars
  <2>1. K!Ids' = K!Ids
        BY <1>2 DEF K!vars, K!Ids
  <2> QED BY <1>2, <2>1 DEF K!vars, K!history, ClientIInv, K!TypeOK, Calling, Constructed,
             K!Async, Closing, Kept,
                            Reading, Subscribing, Flushing
<1> QED BY <1>1, <1>2, FindStep, MakeStep, CloseStep, SubscriptionFailsStep, FailsStep,
           DeliverStep
        DEF K!Next

\* The strengthening holds in every reachable state of an adapter.
THEOREM ClientInvariance == K!Spec => []ClientIInv
<1>1. K!Init => ClientIInv BY ClientInitially
<1>2. ClientIInv /\ [K!Next]_(K!vars) => ClientIInv' BY ClientPreserved
<1> QED BY <1>1, <1>2, PTL DEF K!Spec

\* _get_adapter() and close() of the Kafka adapters: whatever fails or is cancelled, a
\* client that is open is the one its adapter knows or is being closed, so that none
\* is left behind with its connections, unless calls of close() overlapped.
THEOREM Known == K!Spec => []ClientsKept
<1>1. ClientIInv => ClientsKept
      BY DEF ClientsKept, ClientIInv, Kept, K!ClientsKept
<1> QED BY <1>1, ClientInvariance, PTL

\* _get_adapter() of the async consumer: a task reads from a client without a
\* subscription only while another one subscribes it, or after that failed.
THEOREM Subscriptions == K!Spec => []ReadsSubscribed
<1>1. ClientIInv => ReadsSubscribed
      BY DEF ReadsSubscribed, ClientIInv, Calling, Reading, K!ReadsSubscribed
<1> QED BY <1>1, ClientInvariance, PTL

\* close() of the producers: no message waits that was accepted before, for any
\* number of tasks, messages and failures, unless calls of close() overlapped.
THEOREM Flushed == K!Spec => []CloseFlushes
<1>1. ClientIInv => CloseFlushes
      BY DEF CloseFlushes, ClientIInv, Flushing, K!CloseFlushes
<1> QED BY <1>1, ClientInvariance, PTL

-----------------------------------------------------------------------------
\* ScyllaSession

\* A health check knows the timeout to restore, which is the usual one unless
\* checks overlapped, and has the short one in force when it asks; a task does so
\* even then, for nobody else runs in between.
Lends(p) ==
    /\ at[p] \in {"read", "set", "restore"} => doing[p] = "health_check"
    /\ S!Checking(p) => original[p] \in S!Timeouts /\ (tangled \/ original[p] = "full")
    /\ at[p] = "set" => timeout = "short" \/ (tangled /\ flavour = "sync")
    /\ at[p] = "sent" =>
         IF doing[p] = "health_check" THEN given[p] = "short" \/ (tangled /\ flavour = "sync")
                                      ELSE given[p] = "full" \/ hurried[p]

\* A statement is prepared in a keyspace of the session, and what leaves it says so.
\* The loader begins after the calls that await it, and so does so in a keyspace that
\* the session has during each of them.
Prepares(p) ==
    /\ at[p] \in {"sent", "answered"} /\ doing[p] \in {"prepare", "use_keyspace"}
          => space[p] \in Keyspaces
    /\ S!Preparing(p) => space[p] \in spaces[p] /\ (left[p] \/ space[p] = keyspace)
    /\ at[p] = "prepared" => space[p] \in spaces[p] \/ (caching /\ left[p])
    /\ at[p] \in {"joined", "woken"} => doing[p] = "prepare"
    /\ at[p] = "joined" =>
         /\ keyspace \in spaces[p]
         /\ at[Loader] \in {"sent", "answered"} => space[Loader] \in spaces[p]
    /\ at[p] = "woken" => space[p] = None \/ space[p] \in spaces[p]
    /\ p = Loader => /\ at[p] \in {"idle", "ready", "sent", "answered"}
                     /\ at[p] \in {"sent", "answered"} => doing[p] = "prepare"

\* Without overlaps one check is under way at most, and only then the timeout is short.
Lent == /\ ~tangled => \A p, q \in S!Everyone : S!Checking(p) /\ S!Checking(q) => p = q
        /\ timeout = "full" \/ tangled \/ \E p \in S!Everyone : S!Checking(p)

\* A kept statement is of the session's keyspace, or marked.
Marked == cached = None \/ cached.left \/ cached.space = keyspace

SessionIInv == S!TypeOK /\ Lent /\ Marked /\ \A p \in S!Everyone : Lends(p) /\ Prepares(p)

\* The calls other than that of p.
Same(q) == /\ at'[q] = at[q] /\ doing'[q] = doing[q] /\ driver'[q] = driver[q]
           /\ given'[q] = given[q] /\ original'[q] = original[q] /\ space'[q] = space[q]
           /\ left'[q] = left[q] /\ spaces'[q] = spaces[q] /\ hurried'[q] = hurried[q]
Elsewhere(p) == \A q \in S!Everyone : q # p => Same(q)

\* The functions of TypeOK.
SessionCalls ==
    /\ at \in [S!Everyone -> S!Places]
    /\ doing \in [S!Everyone -> {"none", "request"} \cup S!Special]
    /\ driver \in [S!Everyone -> {"none", "asked", "over"}]
    /\ given \in [S!Everyone -> S!Timeouts \cup {None}]
    /\ original \in [S!Everyone -> S!Timeouts \cup {None}]
    /\ space \in [S!Everyone -> Keyspaces \cup {None}]
    /\ left \in [S!Everyone -> BOOLEAN] /\ spaces \in [S!Everyone -> SUBSET Keyspaces]
    /\ hurried \in [S!Everyone -> BOOLEAN]

-----------------------------------------------------------------------------
\* A step of one call leaves the others as they are, if it leaves the session alone.
LEMMA OthersSound ==
    ASSUME SessionIInv, NEW p \in S!Everyone, Elsewhere(p),
           UNCHANGED <<flavour, caching, keyspace>>, tangled => tangled',
           \A q \in S!Everyone : q # p /\ at[q] = "set" =>
               timeout' \in {timeout, "short"} \/ (tangled' /\ flavour = "sync"),
           p = Loader /\ at'[p] \in {"sent", "answered"} =>
               \/ space'[p] = keyspace
               \/ at[p] \in {"sent", "answered"} /\ space'[p] = space[p]
    PROVE  \A q \in S!Everyone : q # p => /\ Lends(q)' /\ Prepares(q)'
                                          /\ S!Checking(q)' <=> S!Checking(q)
<1> SUFFICES ASSUME NEW q \in S!Everyone, q # p
             PROVE  Lends(q)' /\ Prepares(q)' /\ (S!Checking(q)' <=> S!Checking(q))
    OBVIOUS
<1>1. Same(q) /\ Lends(q) /\ Prepares(q)
      BY DEF Elsewhere, SessionIInv
<1>2. S!Checking(q)' <=> S!Checking(q)
      BY <1>1 DEF Same, S!Checking
<1>3. S!Preparing(q)' <=> S!Preparing(q)
      BY <1>1 DEF Same, S!Preparing
<1>4. Lends(q)'
      BY <1>1, <1>2 DEF Same, Lends
<1>5. at'[q] = "joined" /\ at'[Loader] \in {"sent", "answered"} => space'[Loader] \in spaces'[q]
  <2>1. CASE p = Loader
        BY <1>1, <2>1 DEF Same, Prepares
  <2>2. CASE p # Loader
    <3>1. Loader \in S!Everyone
          BY DEF S!Everyone
    <3>2. Same(Loader)
          BY <2>2, <3>1 DEF Elsewhere
    <3> QED BY <1>1, <3>2 DEF Same, Prepares
  <2> QED BY <2>1, <2>2
<1>6. Prepares(q)'
      BY <1>1, <1>3, <1>5 DEF Same, Prepares
<1> QED BY <1>2, <1>4, <1>6

\* The health checks that are under way stay the same.
LEMMA LentStill ==
    ASSUME SessionIInv, NEW p \in S!Everyone, UNCHANGED <<timeout, tangled>>,
           \A q \in S!Everyone : S!Checking(q)' <=> S!Checking(q)
    PROVE  Lent'
BY DEF SessionIInv, Lent

\* What the parts of an operation record.
LEMMA SessionEnds ==
    ASSUME S!TypeOK, NEW p \in S!Everyone, S!End(p)
    PROVE  SessionCalls' /\ at'[p] = "idle" /\ Elsewhere(p)
<1>1. SessionCalls
      BY DEF S!TypeOK, SessionCalls
<1>2. SessionCalls'
      BY <1>1 DEF SessionCalls, S!End, S!Goto, S!Places
<1>3. at'[p] = "idle"
      BY <1>1 DEF SessionCalls, S!End, S!Goto
<1>4. Elsewhere(p)
      BY <1>1 DEF SessionCalls, S!End, S!Goto, Elsewhere, Same
<1> QED BY <1>2, <1>3, <1>4

\* A call that is over has nothing to keep.
LEMMA EndSound ==
    ASSUME SessionIInv, NEW p \in S!Everyone, p # Loader, S!End(p),
           UNCHANGED <<flavour, caching, keyspace, tangled>>,
           timeout' \in S!Timeouts, cached' = cached, shut' = shut,
           \A q \in S!Everyone : q # p /\ at[q] = "set" =>
               timeout' = timeout \/ (tangled' /\ flavour = "sync"),
           ~S!Checking(p) => timeout' = timeout,
           S!Checking(p) => tangled \/ timeout' = "full"
    PROVE  SessionIInv'
<1>1. SessionCalls' /\ at'[p] = "idle" /\ Elsewhere(p)
      BY SessionEnds DEF SessionIInv
<1>2. ~S!Checking(p)' /\ Lends(p)' /\ Prepares(p)'
      BY <1>1 DEF S!Checking, S!Preparing, Lends, Prepares
<1>3. \A q \in S!Everyone : q # p => /\ Lends(q)' /\ Prepares(q)'
                                     /\ S!Checking(q)' <=> S!Checking(q)
      BY <1>1, OthersSound
<1>4. Lent'
      BY <1>2, <1>3 DEF SessionIInv, Lent
<1>5. S!TypeOK' /\ Marked'
      BY <1>1 DEF SessionIInv, S!TypeOK, SessionCalls, Marked
<1> QED BY <1>2, <1>3, <1>4, <1>5 DEF SessionIInv

LEMMA Sends ==
    ASSUME S!TypeOK, NEW p \in S!Everyone, S!Send(p),
           NEW d \in {"none", "request"} \cup S!Special, doing' = [doing EXCEPT ![p] = d]
    PROVE  /\ at' \in [S!Everyone -> S!Places]
           /\ doing' \in [S!Everyone -> {"none", "request"} \cup S!Special]
           /\ driver' \in [S!Everyone -> {"none", "asked", "over"}]
           /\ given' \in [S!Everyone -> S!Timeouts \cup {None}]
           /\ hurried' \in [S!Everyone -> BOOLEAN]
           /\ at'[p] = "sent" /\ doing'[p] = d /\ given'[p] = timeout
           /\ hurried'[p] <=> (tangled \/ \E q \in S!Others(p) : S!Checking(q))
           /\ \A q \in S!Everyone : q # p =>
                /\ at'[q] = at[q] /\ doing'[q] = doing[q] /\ driver'[q] = driver[q]
                /\ given'[q] = given[q] /\ hurried'[q] = hurried[q]
<1> DEFINE h == tangled \/ \E q \in S!Others(p) : S!Checking(q)
<1>1. h \in BOOLEAN /\ hurried' = [hurried EXCEPT ![p] = h]
      BY DEF S!TypeOK, S!Send
<1> HIDE DEF h
<1>2. /\ hurried' \in [S!Everyone -> BOOLEAN] /\ hurried'[p] = h
      /\ \A q \in S!Everyone : q # p => hurried'[q] = hurried[q]
      BY <1>1 DEF S!TypeOK
<1>3. /\ at' \in [S!Everyone -> S!Places]
      /\ driver' \in [S!Everyone -> {"none", "asked", "over"}]
      /\ at'[p] = "sent"
      /\ \A q \in S!Everyone : q # p => at'[q] = at[q] /\ driver'[q] = driver[q]
      BY DEF S!TypeOK, S!Send, S!Goto, S!Places
<1>4. /\ given' \in [S!Everyone -> S!Timeouts \cup {None}] /\ given'[p] = timeout
      /\ \A q \in S!Everyone : q # p => given'[q] = given[q]
      BY DEF S!TypeOK, S!Send
<1>5. /\ doing' \in [S!Everyone -> {"none", "request"} \cup S!Special] /\ doing'[p] = d
      /\ \A q \in S!Everyone : q # p => doing'[q] = doing[q]
      BY DEF S!TypeOK
<1> QED BY <1>2, <1>3, <1>4, <1>5 DEF h

\* A call that is not a health check begins: it is hurried if the timeout is short.
LEMMA RequestSound ==
    ASSUME SessionIInv, NEW p \in S!Everyone, at[p] \in {"idle", "ready"}, S!Send(p),
           NEW d \in {"request", "use_keyspace", "prepare"}, doing' = [doing EXCEPT ![p] = d],
           UNCHANGED <<flavour, caching, S!session, original, left, tangled>>,
           NEW s \in Keyspaces \cup {None}, space' = [space EXCEPT ![p] = s],
           NEW h \in SUBSET Keyspaces, spaces' = [spaces EXCEPT ![p] = h],
           d = "use_keyspace" => s \in Keyspaces,
           d = "prepare" => s = keyspace /\ s \in h,
           p = Loader => d = "prepare"
    PROVE  SessionIInv'
<1>1. d \in {"none", "request"} \cup S!Special
      BY DEF S!Special
<1>2. /\ at' \in [S!Everyone -> S!Places]
      /\ doing' \in [S!Everyone -> {"none", "request"} \cup S!Special]
      /\ driver' \in [S!Everyone -> {"none", "asked", "over"}]
      /\ given' \in [S!Everyone -> S!Timeouts \cup {None}]
      /\ hurried' \in [S!Everyone -> BOOLEAN]
      /\ at'[p] = "sent" /\ doing'[p] = d /\ given'[p] = timeout
      /\ hurried'[p] <=> (tangled \/ \E q \in S!Others(p) : S!Checking(q))
      /\ \A q \in S!Everyone : q # p =>
           /\ at'[q] = at[q] /\ doing'[q] = doing[q] /\ driver'[q] = driver[q]
           /\ given'[q] = given[q] /\ hurried'[q] = hurried[q]
      BY <1>1, Sends DEF SessionIInv
<1>3. /\ space' \in [S!Everyone -> Keyspaces \cup {None}] /\ space'[p] = s
      /\ spaces' \in [S!Everyone -> SUBSET Keyspaces] /\ spaces'[p] = h
      /\ \A q \in S!Everyone : q # p => space'[q] = space[q] /\ spaces'[q] = spaces[q]
      BY DEF SessionIInv, S!TypeOK
<1>4. UNCHANGED <<timeout, keyspace, shut, cached>>
      BY DEF S!session
<1>5. S!TypeOK' /\ Marked'
      BY <1>2, <1>3, <1>4 DEF SessionIInv, S!TypeOK, Marked
<1>6. Elsewhere(p)
      BY <1>2, <1>3 DEF Elsewhere, Same
<1>7. \A q \in S!Everyone : q # p => /\ Lends(q)' /\ Prepares(q)'
                                     /\ S!Checking(q)' <=> S!Checking(q)
      BY <1>3, <1>4, <1>6, OthersSound
<1>8. ~S!Checking(p) /\ ~S!Checking(p)'
      BY <1>2 DEF S!Checking
<1>9. Lent'
      BY <1>4, <1>7, <1>8, LentStill
<1>10. Lends(p)'
  <2>1. timeout = "full" \/ hurried'[p]
        BY <1>2, <1>8 DEF SessionIInv, Lent, S!Others
  <2> QED BY <1>2, <1>8, <2>1 DEF Lends
<1>11. Prepares(p)'
      BY <1>2, <1>3, <1>4 DEF Prepares, S!Preparing
<1> QED BY <1>5, <1>7, <1>9, <1>10, <1>11 DEF SessionIInv

LEMMA RequestStep ==
    ASSUME SessionIInv, NEW p \in S!Everyone, p # Loader, S!Request(p) \/ S!UseKeyspace(p)
    PROVE  SessionIInv'
<1>1. /\ at[p] = "idle" /\ S!Send(p)
      /\ space \in [S!Everyone -> Keyspaces \cup {None}]
      /\ spaces \in [S!Everyone -> SUBSET Keyspaces]
      BY DEF S!Request, S!UseKeyspace, SessionIInv, S!TypeOK
<1>2. CASE S!Request(p)
  <2>1. /\ doing' = [doing EXCEPT ![p] = "request"]
        /\ UNCHANGED <<flavour, caching, S!session, original, left, tangled>>
        BY <1>1, <1>2 DEF S!Request
  <2>2. PICK s \in Keyspaces \cup {None} : space' = [space EXCEPT ![p] = s]
        BY <1>1, <1>2 DEF S!Request
  <2>3. PICK h \in SUBSET Keyspaces : spaces' = [spaces EXCEPT ![p] = h]
        BY <1>1, <1>2 DEF S!Request
  <2> QED BY <1>1, <2>1, <2>2, <2>3, RequestSound
<1>3. CASE S!UseKeyspace(p)
  <2>1. PICK k \in Keyspaces : space' = [space EXCEPT ![p] = k]
        BY <1>3 DEF S!UseKeyspace
  <2>2. /\ doing' = [doing EXCEPT ![p] = "use_keyspace"]
        /\ UNCHANGED <<flavour, caching, S!session, original, left, tangled>>
        /\ spaces' = [spaces EXCEPT ![p] = spaces[p]] /\ spaces[p] \in SUBSET Keyspaces
        BY <1>1, <1>3 DEF S!UseKeyspace
  <2> QED BY <1>1, <2>1, <2>2, RequestSound
<1> QED BY <1>2, <1>3

\* prepare() is sent by the call itself or by the loader.
LEMMA PrepareStep ==
    ASSUME SessionIInv, NEW p \in S!Everyone, at[p] \in {"idle", "ready"}, S!AskPrepare(p),
           UNCHANGED <<flavour, caching, S!session, original, left, tangled>>
    PROVE  SessionIInv'
<1>1. S!Send(p) /\ doing' = [doing EXCEPT ![p] = "prepare"] /\ space' = [space EXCEPT ![p] = keyspace]
      BY DEF S!AskPrepare
<1>2. keyspace \in Keyspaces \cup {None} /\ {keyspace} \in SUBSET Keyspaces
      BY DEF SessionIInv, S!TypeOK
<1>3. spaces' = [spaces EXCEPT ![p] = {keyspace}] /\ keyspace \in {keyspace}
      BY DEF S!AskPrepare
<1> QED BY <1>1, <1>2, <1>3, RequestSound

\* A step of a call that is under way to another place: its request stays the same.
LEMMA Moves ==
    ASSUME S!TypeOK, NEW p \in S!Everyone,
           NEW w \in {"read", "set", "answered", "restore", "prepared"}, S!Goto(p, w),
           UNCHANGED <<doing, given, original, space, left, spaces, hurried>>,
           driver' \in [S!Everyone -> {"none", "asked", "over"}],
           \A q \in S!Everyone : q # p => driver'[q] = driver[q]
    PROVE  SessionCalls' /\ at'[p] = w /\ Elsewhere(p)
<1>1. SessionCalls
      BY DEF S!TypeOK, SessionCalls
<1> QED BY <1>1 DEF SessionCalls, S!Goto, Elsewhere, Same, S!Places

\* The answer arrives.
LEMMA AnswerStep == ASSUME SessionIInv, NEW p \in S!Everyone, S!Answer(p) PROVE SessionIInv'
<1>1. /\ driver' = [driver EXCEPT ![p] = "over"] /\ S!Goto(p, "answered") /\ at[p] = "sent"
      /\ UNCHANGED <<flavour, caching, timeout, keyspace, shut, cached, doing, given, original,
                     space, left, spaces, hurried, tangled>>
      BY DEF S!Answer, S!session, S!history
<1>2. /\ driver' \in [S!Everyone -> {"none", "asked", "over"}]
      /\ \A q \in S!Everyone : q # p => driver'[q] = driver[q]
      BY <1>1 DEF SessionIInv, S!TypeOK
<1>3. SessionCalls' /\ at'[p] = "answered" /\ Elsewhere(p)
      BY <1>1, <1>2, Moves DEF SessionIInv
<1>4. S!TypeOK' /\ Marked'
      BY <1>1, <1>3 DEF SessionIInv, S!TypeOK, SessionCalls, Marked
<1>5. \A q \in S!Everyone : q # p => /\ Lends(q)' /\ Prepares(q)'
                                     /\ S!Checking(q)' <=> S!Checking(q)
      BY <1>1, <1>3, OthersSound
<1>6. (S!Checking(p)' <=> S!Checking(p)) /\ (S!Preparing(p)' <=> S!Preparing(p))
      BY <1>1, <1>3 DEF S!Checking, S!Preparing
<1>7. Lent'
      BY <1>1, <1>5, <1>6, LentStill
<1>8. Lends(p) /\ Prepares(p)
      BY DEF SessionIInv
<1>9. Lends(p)'
      BY <1>1, <1>3, <1>6, <1>8 DEF Lends
<1>10. Prepares(p)'
      BY <1>1, <1>3, <1>6, <1>8 DEF Prepares
<1> QED BY <1>4, <1>5, <1>7, <1>9, <1>10 DEF SessionIInv

\* The steps of health_check() before it is over.
LEMMA CheckBeginsStep ==
    ASSUME SessionIInv, NEW p \in S!Everyone, p # Loader, S!CheckBegins(p)
    PROVE SessionIInv'
<1>1. /\ at[p] = "idle" /\ at' = [at EXCEPT ![p] = "read"]
      /\ doing' = [doing EXCEPT ![p] = "health_check"]
      /\ original' = [original EXCEPT ![p] = timeout]
      /\ tangled' = (tangled \/ \E q \in S!Others(p) : S!Checking(q))
      /\ UNCHANGED <<flavour, caching, timeout, keyspace, shut, cached, driver, given, space,
                     left, spaces, hurried>>
      BY DEF S!CheckBegins, S!Goto, S!session
<1>2. SessionCalls /\ timeout \in S!Timeouts /\ tangled' \in BOOLEAN
      BY <1>1 DEF SessionIInv, S!TypeOK, SessionCalls
<1>3. /\ SessionCalls' /\ at'[p] = "read" /\ doing'[p] = "health_check" /\ original'[p] = timeout
      /\ Elsewhere(p)
  <2>1. "health_check" \in S!Special
        BY DEF S!Special
  <2> QED BY <1>1, <1>2, <2>1 DEF SessionCalls, Elsewhere, Same, S!Places
<1>4. S!TypeOK' /\ Marked'
      BY <1>1, <1>2, <1>3 DEF SessionIInv, S!TypeOK, SessionCalls, Marked
<1>5. \A q \in S!Everyone : q # p => /\ Lends(q)' /\ Prepares(q)'
                                     /\ S!Checking(q)' <=> S!Checking(q)
      BY <1>1, <1>3, OthersSound
<1>6. ~S!Checking(p) /\ S!Checking(p)' /\ ~S!Preparing(p)'
      BY <1>1, <1>3 DEF S!Checking, S!Preparing
<1>7. Lent'
  <2>1. timeout' = "full" \/ tangled' \/ \E q \in S!Everyone : S!Checking(q)'
        BY <1>6
  <2>2. ~tangled' => \A q \in S!Everyone : S!Checking(q)' => q = p
        BY <1>1, <1>5 DEF S!Others
  <2> QED BY <2>1, <2>2 DEF Lent
<1>8. Lends(p)'
  <2>1. tangled' \/ timeout = "full"
        BY <1>1, <1>6 DEF SessionIInv, Lent, S!Others
  <2> QED BY <1>2, <1>3, <2>1 DEF Lends
<1>9. Prepares(p)'
      BY <1>3, <1>6 DEF Prepares
<1> QED BY <1>4, <1>5, <1>7, <1>8, <1>9 DEF SessionIInv

LEMMA CheckSetsStep ==
    ASSUME SessionIInv, NEW p \in S!Everyone, p # Loader, S!CheckSets(p)
    PROVE SessionIInv'
<1>1. /\ at[p] = "read" /\ S!Goto(p, "set") /\ timeout' = "short"
      /\ UNCHANGED <<flavour, caching, keyspace, shut, cached, doing, driver, given, original,
                     space, left, spaces, hurried, tangled>>
      BY DEF S!CheckSets, S!history
<1>2. SessionCalls' /\ at'[p] = "set" /\ Elsewhere(p)
      BY <1>1, Moves DEF SessionIInv, S!TypeOK
<1>3. S!TypeOK' /\ Marked'
      BY <1>1, <1>2 DEF SessionIInv, S!TypeOK, SessionCalls, Marked, S!Timeouts
<1>4. \A q \in S!Everyone : q # p => /\ Lends(q)' /\ Prepares(q)'
                                     /\ S!Checking(q)' <=> S!Checking(q)
      BY <1>1, <1>2, OthersSound
<1>5. Lends(p) /\ doing[p] = "health_check"
      BY <1>1 DEF SessionIInv, Lends
<1>6. S!Checking(p) /\ S!Checking(p)' /\ ~S!Preparing(p)'
      BY <1>1, <1>2, <1>5 DEF S!Checking, S!Preparing
<1>7. Lent'
      BY <1>1, <1>4, <1>6 DEF SessionIInv, Lent
<1>8. Lends(p)' /\ Prepares(p)'
      BY <1>1, <1>2, <1>5, <1>6 DEF Lends, Prepares
<1> QED BY <1>3, <1>4, <1>7, <1>8 DEF SessionIInv

\* Its request takes the short timeout with it.
LEMMA CheckSendsStep ==
    ASSUME SessionIInv, NEW p \in S!Everyone, p # Loader, S!CheckSends(p)
    PROVE SessionIInv'
<1>1. /\ at[p] = "set" /\ doing[p] = "health_check"
      /\ UNCHANGED <<flavour, caching, timeout, keyspace, shut, cached, doing, original, space,
                     left, spaces, tangled>>
      /\ Lends(p)
      BY DEF S!CheckSends, S!session, SessionIInv, Lends
<1>2. /\ SessionCalls' /\ Elsewhere(p) /\ at'[p] \in {"restore", "sent"}
      /\ at'[p] = "sent" => given'[p] = timeout
  <2>1. CASE shut
    <3>1. S!Goto(p, "restore") /\ UNCHANGED <<driver, given, hurried>>
          BY <2>1 DEF S!CheckSends
    <3> QED BY <1>1, <3>1, Moves DEF SessionIInv, S!TypeOK
  <2>2. CASE ~shut
    <3>1. S!Send(p)
          BY <2>2 DEF S!CheckSends
    <3>2. doing' = [doing EXCEPT ![p] = "health_check"] /\ "health_check" \in S!Special
          BY <1>1 DEF SessionIInv, S!TypeOK, S!Special
    <3>3. /\ at' \in [S!Everyone -> S!Places]
          /\ doing' \in [S!Everyone -> {"none", "request"} \cup S!Special]
          /\ driver' \in [S!Everyone -> {"none", "asked", "over"}]
          /\ given' \in [S!Everyone -> S!Timeouts \cup {None}]
          /\ hurried' \in [S!Everyone -> BOOLEAN]
          /\ at'[p] = "sent" /\ given'[p] = timeout
          /\ \A q \in S!Everyone : q # p =>
               /\ at'[q] = at[q] /\ doing'[q] = doing[q] /\ driver'[q] = driver[q]
               /\ given'[q] = given[q] /\ hurried'[q] = hurried[q]
          BY <3>1, <3>2, Sends DEF SessionIInv
    <3> QED BY <1>1, <3>3 DEF SessionIInv, S!TypeOK, SessionCalls, Elsewhere, Same
  <2> QED BY <2>1, <2>2
<1>3. S!TypeOK' /\ Marked'
      BY <1>1, <1>2 DEF SessionIInv, S!TypeOK, SessionCalls, Marked
<1>4. \A q \in S!Everyone : q # p => /\ Lends(q)' /\ Prepares(q)'
                                     /\ S!Checking(q)' <=> S!Checking(q)
      BY <1>1, <1>2, OthersSound
<1>5. S!Checking(p) /\ S!Checking(p)' /\ ~S!Preparing(p)'
      BY <1>1, <1>2 DEF S!Checking, S!Preparing
<1>6. Lent'
      BY <1>1, <1>4, <1>5, LentStill
<1>7. Lends(p)' /\ Prepares(p)'
      BY <1>1, <1>2, <1>5 DEF Lends, Prepares
<1> QED BY <1>3, <1>4, <1>6, <1>7 DEF SessionIInv

LEMMA CheckAnsweredStep ==
    ASSUME SessionIInv, NEW p \in S!Everyone, p # Loader, S!CheckAnswered(p)
    PROVE SessionIInv'
<1>1. /\ at[p] \in {"sent", "answered"} /\ doing[p] = "health_check" /\ S!Goto(p, "restore")
      /\ UNCHANGED <<flavour, caching, timeout, keyspace, shut, cached, doing, driver, given,
                     original, space, left, spaces, hurried, tangled>>
      /\ Lends(p)
      BY DEF S!CheckAnswered, S!session, S!history, SessionIInv
<1>2. SessionCalls' /\ at'[p] = "restore" /\ Elsewhere(p)
      BY <1>1, Moves DEF SessionIInv, S!TypeOK
<1>3. S!TypeOK' /\ Marked'
      BY <1>1, <1>2 DEF SessionIInv, S!TypeOK, SessionCalls, Marked
<1>4. \A q \in S!Everyone : q # p => /\ Lends(q)' /\ Prepares(q)'
                                     /\ S!Checking(q)' <=> S!Checking(q)
      BY <1>1, <1>2, OthersSound
<1>5. S!Checking(p) /\ S!Checking(p)' /\ ~S!Preparing(p)'
      BY <1>1, <1>2 DEF S!Checking, S!Preparing
<1>6. Lent'
      BY <1>1, <1>4, <1>5, LentStill
<1>7. Lends(p)' /\ Prepares(p)'
      BY <1>1, <1>2, <1>5 DEF Lends, Prepares
<1> QED BY <1>3, <1>4, <1>6, <1>7 DEF SessionIInv

\* A check gives back the timeout it found.  No task that is about to ask loses the
\* short one by it: while it is, no other task runs.
LEMMA CheckRestoresStep ==
    ASSUME SessionIInv, NEW p \in S!Everyone, p # Loader, S!CheckRestores(p)
    PROVE SessionIInv'
<1>1. /\ at[p] = "restore" /\ S!MayRun(p) /\ S!End(p) /\ timeout' = original[p]
      /\ UNCHANGED <<flavour, caching, keyspace, shut, cached, tangled>>
      BY DEF S!CheckRestores
<1>2. Lends(p) /\ S!Checking(p) /\ original[p] \in S!Timeouts /\ (tangled \/ original[p] = "full")
      BY <1>1 DEF SessionIInv, Lends, S!Checking
<1>3. ASSUME NEW q \in S!Everyone, q # p, at[q] = "set"
      PROVE  tangled /\ flavour = "sync"
  <2>1. S!Checking(q)
        BY <1>3 DEF SessionIInv, Lends, S!Checking
  <2>2. tangled
        BY <1>2, <1>3, <2>1 DEF SessionIInv, Lent
  <2>3. flavour # "async"
        BY <1>1, <1>3 DEF S!MayRun, S!Awaits, S!Others
  <2> QED BY <2>2, <2>3 DEF SessionIInv, S!TypeOK
<1> QED BY <1>1, <1>2, <1>3, EndSound

-----------------------------------------------------------------------------
\* Calls that end, and close()
LEMMA EndStep ==
    ASSUME SessionIInv, NEW p \in S!Everyone, p # Loader, S!RequestEnds(p) \/ S!Prepared(p) \/ S!RequestFails(p)
    PROVE  SessionIInv'
<1>1. /\ S!End(p) /\ UNCHANGED <<flavour, caching, timeout, keyspace, shut, cached, tangled>>
      /\ timeout \in S!Timeouts
      BY DEF S!RequestEnds, S!Prepared, S!RequestFails, S!session, SessionIInv, S!TypeOK
<1>2. ~S!Checking(p)
      BY DEF S!RequestEnds, S!Prepared, S!RequestFails, S!Checking
<1> QED BY <1>1, <1>2, EndSound

LEMMA SessionQuietStep ==
    ASSUME SessionIInv, (\E p \in Callers : S!Close(p)) \/ S!Expire PROVE SessionIInv'
<1>1. /\ UNCHANGED <<flavour, caching, timeout, keyspace, at, doing, driver, given, original, space,
                     left, spaces, hurried, tangled>>
      /\ shut' \in BOOLEAN /\ cached' \in {cached, None}
      BY DEF S!Close, S!Expire, S!call, S!history, SessionIInv, S!TypeOK
<1>2. S!TypeOK' /\ Marked'
      BY <1>1 DEF SessionIInv, S!TypeOK, Marked
<1>3. Lent'
      BY <1>1 DEF SessionIInv, Lent, S!Checking
<1>4. ASSUME NEW p \in S!Everyone PROVE Lends(p)' /\ Prepares(p)'
      BY <1>1 DEF SessionIInv, Lends, Prepares, S!Checking, S!Preparing
<1> QED BY <1>2, <1>3, <1>4 DEF SessionIInv

-----------------------------------------------------------------------------
\* prepare() and use_keyspace()

LEMMA PrepareHitStep ==
    ASSUME SessionIInv, NEW p \in S!Everyone, p # Loader, S!PrepareHit(p)
    PROVE SessionIInv'
<1>1. /\ at[p] = "idle" /\ at' = [at EXCEPT ![p] = "prepared"] /\ caching /\ cached # None
      /\ doing' = [doing EXCEPT ![p] = "prepare"]
      /\ space' = [space EXCEPT ![p] = cached.space] /\ left' = [left EXCEPT ![p] = cached.left]
      /\ spaces' = [spaces EXCEPT ![p] = {keyspace}]
      /\ UNCHANGED <<flavour, caching, timeout, keyspace, shut, cached, driver, given, original,
                     hurried, tangled>>
      BY DEF S!PrepareHit, S!Goto, S!session
<1>2. /\ SessionCalls /\ keyspace \in Keyspaces /\ cached.space \in Keyspaces /\ cached.left \in BOOLEAN
      /\ cached.left \/ cached.space = keyspace
      BY <1>1 DEF SessionIInv, S!TypeOK, SessionCalls, Marked
<1>3. /\ SessionCalls' /\ at'[p] = "prepared" /\ doing'[p] = "prepare" /\ space'[p] = cached.space
      /\ left'[p] = cached.left /\ spaces'[p] = {keyspace} /\ Elsewhere(p)
  <2>1. "prepare" \in S!Special
        BY DEF S!Special
  <2> QED BY <1>1, <1>2, <2>1 DEF SessionCalls, Elsewhere, Same, S!Places
<1>4. S!TypeOK' /\ Marked'
      BY <1>1, <1>3 DEF SessionIInv, S!TypeOK, SessionCalls, Marked
<1>5. \A q \in S!Everyone : q # p => /\ Lends(q)' /\ Prepares(q)'
                                     /\ S!Checking(q)' <=> S!Checking(q)
      BY <1>1, <1>3, OthersSound
<1>6. ~S!Checking(p) /\ ~S!Checking(p)' /\ ~S!Preparing(p)'
      BY <1>1, <1>3 DEF S!Checking, S!Preparing
<1>7. Lent'
      BY <1>1, <1>5, <1>6, LentStill
<1>8. Lends(p)' /\ Prepares(p)'
      BY <1>1, <1>2, <1>3, <1>6 DEF Lends, Prepares
<1> QED BY <1>4, <1>5, <1>7, <1>8 DEF SessionIInv

LEMMA PrepareEndsStep ==
    ASSUME SessionIInv, NEW p \in S!Everyone, p # Loader, S!PrepareEnds(p)
    PROVE SessionIInv'
<1>1. /\ at[p] = "answered" /\ doing[p] = "prepare" /\ S!Goto(p, "prepared")
      /\ cached' = IF caching THEN [space |-> space[p], left |-> left[p]] ELSE None
      /\ UNCHANGED <<flavour, caching, timeout, keyspace, shut, doing, driver, given, original,
                     space, left, spaces, hurried, tangled>>
      BY DEF S!PrepareEnds, S!history
<1>2. SessionCalls' /\ at'[p] = "prepared" /\ Elsewhere(p)
      BY <1>1, Moves DEF SessionIInv, S!TypeOK
<1>3. /\ S!Preparing(p) /\ space[p] \in Keyspaces /\ left[p] \in BOOLEAN
      /\ space[p] \in spaces[p] /\ (left[p] \/ space[p] = keyspace)
      BY <1>1 DEF SessionIInv, S!TypeOK, Prepares, S!Preparing
<1>4. S!TypeOK' /\ Marked'
      BY <1>1, <1>2, <1>3 DEF SessionIInv, S!TypeOK, SessionCalls, Marked
<1>5. \A q \in S!Everyone : q # p => /\ Lends(q)' /\ Prepares(q)'
                                     /\ S!Checking(q)' <=> S!Checking(q)
      BY <1>1, <1>2, OthersSound
<1>6. ~S!Checking(p) /\ ~S!Checking(p)' /\ ~S!Preparing(p)'
      BY <1>1, <1>2 DEF S!Checking, S!Preparing
<1>7. Lent'
      BY <1>1, <1>5, <1>6, LentStill
<1>8. Lends(p)' /\ Prepares(p)'
      BY <1>1, <1>2, <1>3, <1>6 DEF Lends, Prepares
<1> QED BY <1>4, <1>5, <1>7, <1>8 DEF SessionIInv

\* The session moves on: statements that are kept or being prepared are marked.
Switched(k) ==
    /\ left' \in [S!Everyone -> BOOLEAN] /\ spaces' \in [S!Everyone -> SUBSET Keyspaces]
    /\ \A q \in S!Everyone : /\ left[q] => left'[q]
                             /\ spaces[q] \subseteq spaces'[q]
                             /\ doing[q] = "prepare" => k \in spaces'[q]
                             /\ S!Preparing(q) => left'[q] \/ space[q] = k
    /\ cached' = None \/ cached' \in [space : Keyspaces, left : BOOLEAN]
    /\ cached' = None \/ cached'.left \/ cached'.space = k
    /\ keyspace' = k

LEMMA Switches == ASSUME S!TypeOK, NEW k \in Keyspaces, S!Switch(k) PROVE Switched(k)
<1>1. /\ left' = [q \in S!Everyone |-> left[q] \/ (S!Preparing(q) /\ space[q] # k)]
      /\ spaces' = [q \in S!Everyone |-> IF doing[q] = "prepare" THEN spaces[q] \cup {k}
                                                                  ELSE spaces[q]]
      BY DEF S!Switch
<1>2. /\ left' \in [S!Everyone -> BOOLEAN] /\ spaces' \in [S!Everyone -> SUBSET Keyspaces]
      /\ \A q \in S!Everyone : /\ left[q] => left'[q]
                               /\ spaces[q] \subseteq spaces'[q]
                               /\ doing[q] = "prepare" => k \in spaces'[q]
                               /\ S!Preparing(q) => left'[q] \/ space[q] = k
      BY <1>1 DEF S!TypeOK
<1>3. /\ cached' = None \/ cached' \in [space : Keyspaces, left : BOOLEAN]
      /\ cached' = None \/ cached'.left \/ cached'.space = k
  <2>1. CASE cached = None
        BY <2>1 DEF S!Switch
  <2>2. CASE cached # None
    <3>1. cached \in [space : Keyspaces, left : BOOLEAN]
          BY <2>2 DEF S!TypeOK
    <3>2. cached' = [cached EXCEPT !.left = cached.left \/ cached.space # k]
          BY <2>2 DEF S!Switch
    <3>3. cached' \in [space : Keyspaces, left : BOOLEAN]
          BY <3>1, <3>2
    <3>4. cached'.left <=> (cached.left \/ cached.space # k)
          BY <3>1, <3>2
    <3>5. cached'.space = cached.space
          BY <3>1, <3>2
    <3> QED BY <3>3, <3>4, <3>5
  <2> QED BY <2>1, <2>2
<1> QED BY <1>2, <1>3 DEF S!Switch, Switched

\* The calls that go on are sound in the keyspace that comes.
LEMMA SwitchSound ==
    ASSUME SessionIInv, NEW k \in Keyspaces, Switched(k), NEW q \in S!Everyone,
           UNCHANGED <<flavour, caching, timeout, tangled>>,
           /\ at'[q] = at[q] /\ doing'[q] = doing[q] /\ given'[q] = given[q]
           /\ original'[q] = original[q] /\ space'[q] = space[q] /\ hurried'[q] = hurried[q],
           at'[Loader] = at[Loader] /\ space'[Loader] = space[Loader]
    PROVE  Lends(q)' /\ Prepares(q)' /\ (S!Checking(q)' <=> S!Checking(q))
<1>1. (S!Checking(q)' <=> S!Checking(q)) /\ (S!Preparing(q)' <=> S!Preparing(q))
      BY DEF S!Checking, S!Preparing
<1>2. Lends(q) /\ Prepares(q)
      BY DEF SessionIInv
<1>3. /\ left[q] => left'[q]
      /\ spaces[q] \subseteq spaces'[q]
      /\ doing[q] = "prepare" => k \in spaces'[q]
      /\ S!Preparing(q) => left'[q] \/ space[q] = k
      /\ keyspace' = k
      BY DEF Switched
<1>4. Lends(q)'
      BY <1>1, <1>2 DEF Lends
<1>5. Prepares(q)'
      BY <1>1, <1>2, <1>3 DEF Prepares
<1> QED BY <1>1, <1>4, <1>5

LEMMA UseKeyspaceEndsStep ==
    ASSUME SessionIInv, NEW p \in S!Everyone, p # Loader, S!UseKeyspaceEnds(p)
    PROVE  SessionIInv'
<1> DEFINE k == space[p]
<1>1. /\ at[p] = "answered" /\ doing[p] = "use_keyspace" /\ at' = [at EXCEPT ![p] = "idle"]
      /\ doing' = [doing EXCEPT ![p] = "none"] /\ driver' = [driver EXCEPT ![p] = "none"]
      /\ given' = [given EXCEPT ![p] = None] /\ space' = [space EXCEPT ![p] = None]
      /\ hurried' = [hurried EXCEPT ![p] = FALSE]
      /\ UNCHANGED <<flavour, caching, timeout, shut, original, tangled>> /\ S!Switch(k)
      BY DEF S!UseKeyspaceEnds, S!Goto
<1>2. SessionCalls /\ k \in Keyspaces
      BY <1>1 DEF SessionIInv, S!TypeOK, SessionCalls, Prepares
<1> HIDE DEF k
<1>3. Switched(k)
      BY <1>1, <1>2, Switches DEF SessionIInv
<1>4. /\ at'[p] = "idle" /\ SessionCalls'
      /\ \A q \in S!Everyone : q # p =>
            /\ at'[q] = at[q] /\ doing'[q] = doing[q] /\ given'[q] = given[q]
            /\ original'[q] = original[q] /\ space'[q] = space[q] /\ hurried'[q] = hurried[q]
      BY <1>1, <1>2, <1>3 DEF SessionCalls, Switched, S!Places
<1>5. S!TypeOK' /\ Marked'
      BY <1>1, <1>2, <1>3, <1>4 DEF SessionIInv, S!TypeOK, SessionCalls, Marked, Switched
<1>6. ~S!Checking(p) /\ ~S!Checking(p)' /\ ~S!Preparing(p)'
      BY <1>1, <1>4 DEF S!Checking, S!Preparing
<1>7. Loader \in S!Everyone
      BY DEF S!Everyone
<1>8. \A q \in S!Everyone : q # p => /\ Lends(q)' /\ Prepares(q)'
                                     /\ S!Checking(q)' <=> S!Checking(q)
      BY <1>1, <1>2, <1>3, <1>4, <1>7, SwitchSound
<1>9. Lent'
      BY <1>1, <1>6, <1>8, LentStill
<1>10. Lends(p)' /\ Prepares(p)'
       BY <1>4, <1>6 DEF Lends, Prepares
<1> QED BY <1>5, <1>8, <1>9, <1>10 DEF SessionIInv

LEMMA UsedStep == ASSUME SessionIInv, S!Used PROVE SessionIInv'
<1>1. PICK k \in Keyspaces : S!Switch(k)
      BY DEF S!Used
<1>2. UNCHANGED <<flavour, caching, timeout, shut, at, doing, driver, given, original, space,
                  hurried, tangled>>
      BY DEF S!Used, S!call
<1>3. Switched(k)
      BY <1>1, Switches DEF SessionIInv
<1>4. S!TypeOK' /\ Marked'
      BY <1>2, <1>3 DEF SessionIInv, S!TypeOK, Marked, Switched
<1>5. \A q \in S!Everyone : Lends(q)' /\ Prepares(q)' /\ (S!Checking(q)' <=> S!Checking(q))
      BY <1>2, <1>3, SwitchSound
<1>6. Lent'
      BY <1>2, <1>5 DEF SessionIInv, Lent
<1> QED BY <1>4, <1>5, <1>6 DEF SessionIInv

-----------------------------------------------------------------------------
\* The calls that await the loader

\* A call joins before the loader begins: no statement of the loader is under way.
LEMMA PrepareAwaitsStep ==
    ASSUME SessionIInv, NEW p \in S!Everyone, p # Loader, S!PrepareAwaits(p)
    PROVE  SessionIInv'
<1>1. /\ at[p] = "idle" /\ S!MayRun(p) /\ flavour = "async"
      /\ at' = [at EXCEPT ![p] = "joined", ![Loader] = "ready"]
      /\ doing' = [doing EXCEPT ![p] = "prepare"] /\ spaces' = [spaces EXCEPT ![p] = {keyspace}]
      /\ UNCHANGED <<flavour, caching, timeout, keyspace, shut, cached, driver, given, original,
                     space, left, hurried, tangled>>
      BY DEF S!PrepareAwaits, S!session
<1>2. SessionCalls /\ keyspace \in Keyspaces /\ Loader \in S!Everyone
      BY DEF SessionIInv, S!TypeOK, SessionCalls, S!Everyone
<1>3. at[Loader] \in {"idle", "ready"}
  <2>1. at[Loader] \in {"idle", "ready", "sent", "answered"}
        BY <1>2 DEF SessionIInv, Prepares
  <2>2. at[Loader] \in {"sent", "answered"} => doing[Loader] = "prepare"
        BY <1>2 DEF SessionIInv, Prepares
  <2>3. S!Awaits(Loader)
        BY <1>1, <1>2 DEF S!MayRun, S!Others
  <2> QED BY <2>1, <2>2, <2>3 DEF S!Awaits
<1>4. /\ SessionCalls' /\ at'[p] = "joined" /\ at'[Loader] = "ready"
      /\ doing'[p] = "prepare" /\ spaces'[p] = {keyspace}
      /\ \A q \in S!Everyone : q # p => doing'[q] = doing[q] /\ spaces'[q] = spaces[q]
      /\ \A q \in S!Everyone : q # p /\ q # Loader => at'[q] = at[q]
  <2>1. "prepare" \in S!Special
        BY DEF S!Special
  <2> QED BY <1>1, <1>2, <2>1 DEF SessionCalls, S!Places
<1>5. S!TypeOK' /\ Marked'
      BY <1>1, <1>4 DEF SessionIInv, S!TypeOK, SessionCalls, Marked
<1>6. \A q \in S!Everyone : (S!Checking(q)' <=> S!Checking(q)) /\ (S!Preparing(q)' <=> S!Preparing(q))
      BY <1>1, <1>3, <1>4 DEF S!Checking, S!Preparing
<1>7. Lent'
      BY <1>1, <1>6 DEF SessionIInv, Lent
<1>8. ASSUME NEW q \in S!Everyone PROVE Lends(q)' /\ Prepares(q)'
  <2>1. Lends(q) /\ Prepares(q)
        BY DEF SessionIInv
  <2>2. CASE q = p
        BY <1>1, <1>4, <1>6, <2>2 DEF Lends, Prepares, S!Checking, S!Preparing
  <2>3. CASE q = Loader
        BY <1>1, <1>4, <1>6, <2>3 DEF Lends, Prepares, S!Checking, S!Preparing
  <2>4. CASE q # p /\ q # Loader
    <3>1. /\ at'[q] = at[q] /\ doing'[q] = doing[q] /\ spaces'[q] = spaces[q]
          /\ (S!Checking(q)' <=> S!Checking(q)) /\ (S!Preparing(q)' <=> S!Preparing(q))
          BY <1>4, <1>6, <2>4
    <3>2. Lends(q)'
          BY <1>1, <2>1, <3>1 DEF Lends
    <3>3. Prepares(q)'
          BY <1>1, <1>4, <2>1, <2>4, <3>1 DEF Prepares
    <3> QED BY <3>2, <3>3
  <2> QED BY <2>2, <2>3, <2>4
<1> QED BY <1>5, <1>7, <1>8 DEF SessionIInv

LEMMA LoaderDroppedStep == ASSUME SessionIInv, S!LoaderDropped PROVE SessionIInv'
<1>1. /\ at[Loader] = "ready" /\ at' = [at EXCEPT ![Loader] = "idle"]
      /\ UNCHANGED <<flavour, caching, timeout, keyspace, shut, cached, doing, driver, given,
                     original, space, left, spaces, hurried, tangled>>
      BY DEF S!LoaderDropped, S!Goto, S!session, S!history
<1>2. SessionCalls /\ Loader \in S!Everyone
      BY DEF SessionIInv, S!TypeOK, SessionCalls, S!Everyone
<1>3. /\ SessionCalls' /\ at'[Loader] = "idle"
      /\ \A q \in S!Everyone : q # Loader => at'[q] = at[q]
      BY <1>1, <1>2 DEF SessionCalls, S!Places
<1>4. S!TypeOK' /\ Marked'
      BY <1>1, <1>3 DEF SessionIInv, S!TypeOK, SessionCalls, Marked
<1>5. \A q \in S!Everyone : (S!Checking(q)' <=> S!Checking(q)) /\ (S!Preparing(q)' <=> S!Preparing(q))
      BY <1>1, <1>3 DEF S!Checking, S!Preparing
<1>6. Lent'
      BY <1>1, <1>5 DEF SessionIInv, Lent
<1>7. ASSUME NEW q \in S!Everyone PROVE Lends(q)' /\ Prepares(q)'
  <2>1. Lends(q) /\ Prepares(q)
        BY DEF SessionIInv
  <2>2. CASE q = Loader
        BY <1>1, <1>3, <1>5, <2>1, <2>2 DEF Lends, Prepares, S!Checking, S!Preparing
  <2>3. CASE q # Loader
        BY <1>1, <1>3, <1>5, <2>1, <2>3 DEF Lends, Prepares
  <2> QED BY <2>2, <2>3
<1> QED BY <1>4, <1>6, <1>7 DEF SessionIInv

\* What the loader gives the calls that await it.
LEMMA WakesStep == ASSUME SessionIInv, S!LoaderEnds \/ S!LoaderFails PROVE SessionIInv'
<1>1. Loader \in S!Everyone /\ SessionCalls /\ at[Loader] \in {"answered", "ready"}
      BY DEF S!LoaderEnds, S!LoaderFails, S!Everyone, SessionIInv, S!TypeOK, SessionCalls
<1>2. PICK s \in Keyspaces \cup {None} :
        /\ S!Wakes(s)
        /\ s = None \/ (at[Loader] = "answered" /\ s = space[Loader])
      BY <1>1 DEF S!LoaderEnds, S!LoaderFails, SessionCalls
<1>3. /\ UNCHANGED <<flavour, caching, timeout, keyspace, shut, original, tangled>>
      /\ at' = [q \in S!Everyone |-> IF q = Loader THEN "idle"
                                    ELSE IF at[q] = "joined" THEN "woken" ELSE at[q]]
      /\ space' = [q \in S!Everyone |-> IF q = Loader THEN None
                                       ELSE IF at[q] = "joined" THEN s ELSE space[q]]
      /\ doing' = [doing EXCEPT ![Loader] = "none"] /\ driver' = [driver EXCEPT ![Loader] = "none"]
      /\ given' = [given EXCEPT ![Loader] = None] /\ left' = [left EXCEPT ![Loader] = FALSE]
      /\ spaces' = [spaces EXCEPT ![Loader] = {}] /\ hurried' = [hurried EXCEPT ![Loader] = FALSE]
      BY <1>2 DEF S!Wakes
<1>4. /\ at'[Loader] = "idle"
      /\ \A q \in S!Everyone : q # Loader =>
            /\ at'[q] = (IF at[q] = "joined" THEN "woken" ELSE at[q])
            /\ space'[q] = (IF at[q] = "joined" THEN s ELSE space[q])
            /\ doing'[q] = doing[q] /\ given'[q] = given[q] /\ original'[q] = original[q]
            /\ left'[q] = left[q] /\ spaces'[q] = spaces[q] /\ hurried'[q] = hurried[q]
      BY <1>1, <1>3 DEF SessionCalls
<1>5. SessionCalls'
  <2>1. at' \in [S!Everyone -> S!Places] /\ space' \in [S!Everyone -> Keyspaces \cup {None}]
        BY <1>1, <1>3 DEF SessionCalls, S!Places
  <2>2. spaces' \in [S!Everyone -> SUBSET Keyspaces]
        BY <1>1, <1>3 DEF SessionCalls
  <2> QED BY <1>1, <1>3, <2>1, <2>2 DEF SessionCalls
<1>6. (cached' = None \/ cached' \in [space : Keyspaces, left : BOOLEAN]) /\ Marked'
  <2>1. CASE S!LoaderEnds
    <3>1. /\ at[Loader] = "answered" /\ cached' = [space |-> space[Loader], left |-> left[Loader]]
          /\ left[Loader] \in BOOLEAN /\ Prepares(Loader)
          BY <1>1, <2>1 DEF S!LoaderEnds, SessionIInv, SessionCalls
    <3>2. doing[Loader] = "prepare"
          BY <3>1 DEF Prepares
    <3>3. space[Loader] \in Keyspaces /\ (left[Loader] \/ space[Loader] = keyspace)
          BY <3>1, <3>2 DEF Prepares, S!Preparing
    <3> QED BY <1>3, <3>1, <3>3 DEF Marked
  <2>2. CASE S!LoaderFails
        BY <1>3, <2>2 DEF S!LoaderFails, SessionIInv, S!TypeOK, Marked
  <2> QED BY <2>1, <2>2
<1>7. S!TypeOK'
      BY <1>3, <1>5, <1>6 DEF SessionIInv, S!TypeOK, SessionCalls
<1>8. ASSUME NEW q \in S!Everyone
      PROVE  Lends(q)' /\ Prepares(q)' /\ (S!Checking(q)' <=> S!Checking(q))
  <2>1. Lends(q) /\ Prepares(q)
        BY DEF SessionIInv
  <2>2. CASE q = Loader
        BY <1>1, <1>4, <2>1, <2>2 DEF Lends, Prepares, S!Checking, S!Preparing
  <2>3. CASE q # Loader /\ at[q] = "joined"
        BY <1>2, <1>4, <2>1, <2>3 DEF Lends, Prepares, S!Checking, S!Preparing
  <2>4. CASE q # Loader /\ at[q] # "joined"
        BY <1>3, <1>4, <2>1, <2>4 DEF Lends, Prepares, S!Checking, S!Preparing
  <2> QED BY <2>2, <2>3, <2>4
<1>9. Lent'
      BY <1>3, <1>8 DEF SessionIInv, Lent
<1> QED BY <1>6, <1>7, <1>8, <1>9 DEF SessionIInv

LEMMA ResumesStep ==
    ASSUME SessionIInv, NEW p \in S!Everyone, p # Loader, S!Resumes(p)
    PROVE  SessionIInv'
<1>1. /\ at[p] = "woken" /\ timeout \in S!Timeouts
      /\ UNCHANGED <<flavour, caching, timeout, keyspace, shut, cached, tangled>>
      BY DEF S!Resumes, S!session, SessionIInv, S!TypeOK
<1>2. ~S!Checking(p)
      BY <1>1 DEF S!Checking
<1>3. CASE S!End(p)
      BY <1>1, <1>2, <1>3, EndSound
<1>4. CASE /\ S!Goto(p, "prepared") /\ space[p] # None
           /\ UNCHANGED <<doing, driver, given, original, space, left, spaces, hurried>>
  <2>1. SessionCalls' /\ at'[p] = "prepared" /\ Elsewhere(p)
        BY <1>4, Moves DEF SessionIInv, S!TypeOK
  <2>2. S!TypeOK' /\ Marked'
        BY <1>1, <2>1 DEF SessionIInv, S!TypeOK, SessionCalls, Marked
  <2>3. \A q \in S!Everyone : q # p => /\ Lends(q)' /\ Prepares(q)'
                                       /\ S!Checking(q)' <=> S!Checking(q)
        BY <1>1, <2>1, OthersSound
  <2>4. ~S!Checking(p)' /\ ~S!Preparing(p)'
        BY <2>1 DEF S!Checking, S!Preparing
  <2>5. Lent'
        BY <1>1, <1>2, <2>3, <2>4, LentStill
  <2>6. Prepares(p)
        BY DEF SessionIInv
  <2>7. Lends(p)' /\ Prepares(p)'
        BY <1>1, <1>4, <2>1, <2>4, <2>6 DEF Lends, Prepares
  <2> QED BY <2>2, <2>3, <2>5, <2>7 DEF SessionIInv
<1> QED BY <1>3, <1>4 DEF S!Resumes

-----------------------------------------------------------------------------
LEMMA SessionInitially == ASSUME S!Init PROVE SessionIInv
<1>1. S!TypeOK
      BY ConstantsFit DEF S!Init, S!TypeOK, S!Timeouts, S!Places
<1>2. Lent /\ Marked
      BY DEF S!Init, Lent, Marked, S!Checking
<1>3. ASSUME NEW p \in S!Everyone PROVE Lends(p) /\ Prepares(p)
      BY DEF S!Init, Lends, Prepares, S!Checking, S!Preparing
<1> QED BY <1>1, <1>2, <1>3 DEF SessionIInv

LEMMA SessionPreserved == ASSUME SessionIInv, [S!Next]_(S!vars) PROVE SessionIInv'
<1>1. CASE UNCHANGED S!vars
      BY <1>1 DEF S!vars, S!session, S!call, S!history, SessionIInv, S!TypeOK, Lent,
         Marked, Lends, Prepares,
                  S!Checking, S!Preparing
<1>2. \A p \in Callers : p \in S!Everyone /\ p # Loader
      BY ConstantsFit DEF S!Everyone
<1>3. Loader \in S!Everyone
      BY DEF S!Everyone
<1>4. ASSUME NEW p \in Callers, S!Proceed(p) PROVE SessionIInv'
      BY <1>2, <1>4, EndStep, UseKeyspaceEndsStep, PrepareEndsStep, CheckSetsStep, CheckSendsStep,
         CheckAnsweredStep, CheckRestoresStep, ResumesStep DEF S!Proceed
<1>5. ASSUME NEW p \in Callers, S!PrepareMiss(p) PROVE SessionIInv'
      BY <1>2, <1>5, PrepareStep DEF S!PrepareMiss
<1>6. CASE S!LoaderProceeds
  <2>1. CASE S!LoaderRuns
        BY <1>3, <2>1, PrepareStep DEF S!LoaderRuns
  <2> QED BY <1>6, <2>1, WakesStep DEF S!LoaderProceeds
<1>7. ASSUME NEW p \in Callers,
             \/ S!Request(p) \/ S!UseKeyspace(p) \/ S!PrepareHit(p) \/ S!PrepareAwaits(p)
             \/ S!CheckBegins(p) \/ S!Close(p) \/ S!RequestFails(p)
      PROVE  SessionIInv'
      BY <1>2, <1>7, RequestStep, PrepareHitStep, PrepareAwaitsStep, CheckBeginsStep, EndStep,
         SessionQuietStep
<1> QED BY <1>1, <1>4, <1>5, <1>6, <1>7, AnswerStep, SessionQuietStep, LoaderDroppedStep, UsedStep
        DEF S!Next

\* The strengthening holds in every reachable state of a session.
THEOREM SessionInvariance == S!Spec => []SessionIInv
<1>1. S!Init => SessionIInv BY SessionInitially
<1>2. SessionIInv /\ [S!Next]_(S!vars) => SessionIInv' BY SessionPreserved
<1> QED BY <1>1, <1>2, PTL DEF S!Spec

\* health_check() of the ScyllaDB adapters: for any number of callers, its short
\* timeout is that of the requests sent while it is under way, and of no others, and
\* it leaves the usual one behind, however it ends, unless health checks overlapped.
THEOREM InTime == S!Spec => []Deadlines
<1>1. ASSUME SessionIInv PROVE S!Deadlines
  <2>1. ASSUME NEW p \in S!Everyone, at[p] = "sent"
        PROVE  IF doing[p] = "health_check"
               THEN given[p] = "short" \/ (tangled /\ flavour = "sync")
               ELSE given[p] = "full" \/ hurried[p]
        BY <1>1, <2>1 DEF SessionIInv, Lends
  <2>2. ~S!Checking(Loader)
        BY <1>1 DEF SessionIInv, Prepares, S!Checking, S!Everyone
  <2>3. (\A p \in Callers : ~S!Checking(p)) /\ ~tangled => timeout = "full"
        BY <1>1, <2>2 DEF SessionIInv, Lent, S!Everyone
  <2> QED BY <2>1, <2>3 DEF S!Deadlines
<1>2. SessionIInv => Deadlines
      BY <1>1 DEF Deadlines
<1> QED BY <1>2, SessionInvariance, PTL

\* prepare() of the ScyllaDB adapters returns a statement of a keyspace that the
\* session had during the call, or one it kept from before use_keyspace().
THEOREM Current == S!Spec => []PreparedHere
<1>1. ASSUME SessionIInv PROVE S!PreparedHere
      BY <1>1 DEF SessionIInv, Prepares, S!PreparedHere, S!Everyone
<1>2. SessionIInv => PreparedHere
      BY <1>1 DEF PreparedHere
<1> QED BY <1>2, SessionInvariance, PTL

-----------------------------------------------------------------------------
\* The adapters side by side

EachIInv == which \in {"email", "kafka", "scylla"} /\ PoolIInv /\ ClientIInv /\ SessionIInv

\* A step is one of one adapter and leaves the others as they are.
LEMMA EachStep ==
    ASSUME [EachNext]_all
    PROVE  UNCHANGED which /\ [Next]_vars /\ [K!Next]_(K!vars) /\ [S!Next]_(S!vars)
BY DEF EachNext, all, vars, kafka, scylla, K!vars, K!history, S!vars, S!session, S!call,
   S!history

\* The strengthenings of the three hold of the adapters side by side.
THEOREM EachInvariance == EachSpec => []EachIInv
<1>1. EachInit => EachIInv
      BY PoolInitially, ClientInitially, SessionInitially DEF EachInit, EachIInv
<1>2. EachIInv /\ [EachNext]_all => EachIInv'
      BY EachStep, PoolPreserved, ClientPreserved, SessionPreserved DEF EachIInv
<1> QED BY <1>1, <1>2, PTL DEF EachSpec

\* The state of every adapter keeps its types.
THEOREM EachTypeCorrect == EachSpec => []EachType
<1>1. PoolIInv => TypeOK BY PoolTyped
<1>2. EachIInv => EachType
      BY <1>1 DEF EachIInv, ClientIInv, SessionIInv, EachType
<1> QED BY <1>2, EachInvariance, PTL
=============================================================================

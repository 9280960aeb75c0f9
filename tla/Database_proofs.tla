-------------------------- MODULE Database_proofs ---------------------------
(***************************************************************************)
(* Proofs about what the database adapters share.                          *)
(*                                                                         *)
(* AtomicTransaction: its properties hold for any number of scopes,        *)
(* sessions and rows, any nesting depth and any faults. The inductive      *)
(* invariant says who holds a session, what is pending in it, and, for a   *)
(* block in which no fault was met, how the stack of calls, the            *)
(* transaction and the rows of the block belong together; and the wrapper  *)
(* implements AtomicBlock when no fault is met.                            *)
(*                                                                         *)
(* ManagerRegistry: for every number of threads, registries and custom     *)
(* managers, a registry hands out one default manager at most, and None    *)
(* only after its slot was cleared.                                        *)
(***************************************************************************)
EXTENDS AtomicTransaction, MCManagerRegistry, SequenceTheorems, TLAPS

\* A scope is idle exactly when it is in no decorated call.
PcMatchesStack == \A t \in Scopes : pc[t] = "idle" <=> stack[t] = <<>>

\* Only a session in the registry has work, and a broken one has none.
PendingHeld ==
    \A s \in Sessions :
        /\ (\A t \in Scopes : registry[t] # s) => txn[s] = "none"
        /\ txn[s] # "active" => pending[s] = {}

\* A row is pending in one session at most, and not once it is committed.
PendingFresh ==
    /\ \A s \in Sessions : pending[s] \cap db = {}
    /\ \A s, r \in Sessions : s # r => pending[s] \cap pending[r] = {}

\* The rows of a block are pending nowhere but in its scope's session.
WorkHeld == \A t \in Scopes : \A s \in Sessions :
                registry[t] # s => work[t] \cap pending[s] = {}

\* The outermost call commits; a session used outside any call is not flagged.
OutermostOwns ==
    \A t \in Scopes :
        IF stack[t] = <<>>
        THEN registry[t] # NoSession => ~flag[registry[t]]
        ELSE /\ Commits(stack[t][1])
             /\ result[t] = "none"

\* A block in which no fault was met, while its innermost body runs: the calls
\* share the registered session, and its rows are that session's pending ones
\* unless the session was already broken when the block joined it.
CleanBody ==
    \A t \in Scopes : taint[t] = {} /\ pc[t] = "body" =>
        /\ registry[t] # NoSession
        /\ flag[registry[t]]
        /\ stack[t][1].sess = registry[t]
        /\ txn[registry[t]] # "none"
        /\ txn[registry[t]] = "active" => work[t] = pending[registry[t]]
        /\ txn[registry[t]] = "deactive" => stack[t][1].joined

IInv == /\ TypeOK
        /\ PcMatchesStack
        /\ SessionIsolation
        /\ PendingHeld
        /\ PendingFresh
        /\ WorkHeld
        /\ OutermostOwns
        /\ SessionsReleased
        /\ NestedReuse
        /\ CleanBody
        /\ CommitOnSuccess
        /\ NothingBeforeCommit

-----------------------------------------------------------------------------
\* The stack of calls of a scope.

LEMMA StackFacts ==
    ASSUME TypeOK, NEW t \in Scopes
    PROVE  /\ Len(stack[t]) \in Nat
           /\ DOMAIN stack[t] = 1..Len(stack[t])
           /\ stack[t] = <<>> <=> Len(stack[t]) = 0
           /\ \A i \in DOMAIN stack[t] : stack[t][i] \in Frame
<1>1. stack[t] \in Seq(Frame)
  BY DEF TypeOK
<1>2. \A i \in 1..Len(stack[t]) : stack[t][i] \in Frame
  BY <1>1, ElementOfSeq
<1> QED BY <1>1, <1>2, LenProperties, EmptySeq

\* All but the last element of a sequence.
LEMMA FrontFacts ==
    ASSUME NEW S, NEW q \in Seq(S), q # <<>>
    PROVE  LET p == SubSeq(q, 1, Len(q) - 1) IN
           /\ p \in Seq(S)
           /\ Len(p) = Len(q) - 1
           /\ DOMAIN p = 1..(Len(q) - 1)
           /\ p = <<>> <=> Len(q) = 1
           /\ \A i \in 1..(Len(q) - 1) : p[i] = q[i]
<1> DEFINE n == Len(q) - 1
           p == SubSeq(q, 1, n)
<1>1. n \in Nat
  BY EmptySeq
<1>2. \A i \in 1..n : q[i] \in S
  BY ElementOfSeq
<1> HIDE DEF n
<1>3. p \in Seq(S)
  BY <1>1, <1>2, SubSeqProperties
<1>4. Len(p) = IF 1 <= n THEN n - 1 + 1 ELSE 0
  BY <1>1, <1>2, SubSeqProperties
<1>5. \A i \in 1..n-1+1 : p[i] = q[1 + i - 1]
  BY <1>1, <1>2, SubSeqProperties
<1> HIDE DEF p
<1>6. Len(p) = n
  BY <1>1, <1>4
<1>7. \A i \in 1..n : p[i] = q[i]
  BY <1>1, <1>5
<1>8. DOMAIN p = 1..n /\ (p = <<>> <=> n = 0)
  BY <1>3, <1>6, LenProperties, EmptySeq
<1>9. n = 0 <=> Len(q) = 1
  BY LenProperties DEF n
<1> QED BY <1>3, <1>6, <1>7, <1>8, <1>9 DEF n, p

LEMMA PopFacts ==
    ASSUME TypeOK, NEW t \in Scopes, stack[t] # <<>>, Pop(t)
    PROVE  /\ stack' \in [Scopes -> Seq(Frame)]
           /\ \A u \in Scopes : u # t => stack'[u] = stack[u]
           /\ Len(stack'[t]) = Len(stack[t]) - 1
           /\ DOMAIN stack'[t] = 1..(Len(stack[t]) - 1)
           /\ stack'[t] = <<>> <=> Len(stack[t]) = 1
           /\ \A i \in DOMAIN stack'[t] : stack'[t][i] = stack[t][i]
<1> DEFINE p == SubSeq(stack[t], 1, Len(stack[t]) - 1)
<1>1. stack[t] \in Seq(Frame)
  BY DEF TypeOK
<1>2. /\ p \in Seq(Frame)
      /\ Len(p) = Len(stack[t]) - 1
      /\ DOMAIN p = 1..(Len(stack[t]) - 1)
      /\ p = <<>> <=> Len(stack[t]) = 1
      /\ \A i \in 1..(Len(stack[t]) - 1) : p[i] = stack[t][i]
  BY <1>1, FrontFacts
<1>3. stack' = [stack EXCEPT ![t] = p]
  BY DEF Pop
<1> HIDE DEF p
<1>4. stack'[t] = p /\ \A u \in Scopes : u # t => stack'[u] = stack[u]
  BY <1>3 DEF TypeOK
<1>5. stack' \in [Scopes -> Seq(Frame)]
  BY <1>2, <1>3 DEF TypeOK
<1> QED BY <1>2, <1>4, <1>5

LEMMA PushFacts ==
    ASSUME TypeOK, NEW t \in Scopes, NEW f \in Frame,
           stack' = [stack EXCEPT ![t] = Append(@, f)]
    PROVE  /\ stack' \in [Scopes -> Seq(Frame)]
           /\ \A u \in Scopes : u # t => stack'[u] = stack[u]
           /\ stack'[t] # <<>>
           /\ Len(stack'[t]) = Len(stack[t]) + 1
           /\ DOMAIN stack'[t] = 1..(Len(stack[t]) + 1)
           /\ stack'[t][Len(stack[t]) + 1] = f
           /\ \A i \in DOMAIN stack[t] : stack'[t][i] = stack[t][i]
<1> DEFINE q == stack[t]
           p == Append(q, f)
<1>1. q \in Seq(Frame)
  BY DEF TypeOK
<1>2. /\ p \in Seq(Frame)
      /\ p # <<>>
      /\ Len(p) = Len(q) + 1
      /\ \A i \in 1..Len(q) : p[i] = q[i]
      /\ p[Len(q) + 1] = f
  BY <1>1, AppendProperties
<1>3. DOMAIN q = 1..Len(q) /\ DOMAIN p = 1..Len(p)
  BY <1>1, <1>2, LenProperties
<1>4. stack'[t] = p /\ \A u \in Scopes : u # t => stack'[u] = stack[u]
  BY DEF TypeOK
<1>5. stack' \in [Scopes -> Seq(Frame)]
  BY <1>2 DEF TypeOK
<1> QED BY <1>2, <1>3, <1>4, <1>5

-----------------------------------------------------------------------------
\* Every action that ends a call pops it, and either settles its session,
\* with or without committing what was pending, or leaves all sessions alone.
Leaves(t) ==
    /\ stack[t] # <<>>
    /\ Pop(t)
    /\ flag' = flag
    /\ work' = work
    /\ taint' \in [Scopes -> SUBSET {"swallow", "lost_ack"}]
    /\ \A u \in Scopes : taint[u] \subseteq taint'[u]
    /\ \/ Settle(t, Top(t).sess) /\ db' \in {db, db \cup pending[Top(t).sess]}
       \/ UNCHANGED <<txn, pending, registry, db>>

LEMMA LeavesType ==
    ASSUME IInv, NEW t \in Scopes, Leaves(t)
    PROVE  /\ registry' \in [Scopes -> Sessions \cup {NoSession}]
           /\ flag' \in [Sessions -> BOOLEAN]
           /\ txn' \in [Sessions -> {"none", "active", "deactive"}]
           /\ pending' \in [Sessions -> SUBSET Writes]
           /\ stack' \in [Scopes -> Seq(Frame)]
           /\ db' \in SUBSET Writes
           /\ work' \in [Scopes -> SUBSET Writes]
           /\ Top(t) \in Frame
<1>1. TypeOK
  BY DEF IInv
<1>2. Top(t) \in Frame
  <2>1. Len(stack[t]) \in DOMAIN stack[t]
    BY <1>1, StackFacts DEF Leaves
  <2> QED BY <1>1, <2>1, StackFacts DEF Top
<1>3. stack' \in [Scopes -> Seq(Frame)]
  BY <1>1, PopFacts DEF Leaves
<1>4. Top(t).sess \in Sessions
  BY <1>2 DEF Frame
<1>5. registry' \in [Scopes -> Sessions \cup {NoSession}]
  BY <1>1 DEF TypeOK, Leaves, Settle
<1>6. txn' \in [Sessions -> {"none", "active", "deactive"}]
  BY <1>1 DEF TypeOK, Leaves, Settle
<1>7. pending' \in [Sessions -> SUBSET Writes]
  <2>1. pending \in [Sessions -> SUBSET Writes]
    BY <1>1 DEF TypeOK
  <2>2. CASE Settle(t, Top(t).sess)
    BY <2>1, <2>2 DEF Settle
  <2> QED BY <2>1, <2>2 DEF Leaves
<1>8. db' \in SUBSET Writes
  BY <1>1, <1>4 DEF TypeOK, Leaves
<1> QED BY <1>1, <1>2, <1>3, <1>5, <1>6, <1>7, <1>8 DEF TypeOK, Leaves

LEMMA LeavesSessions ==
    ASSUME IInv, NEW t \in Scopes, Leaves(t)
    PROVE  SessionIsolation' /\ PendingHeld' /\ PendingFresh' /\ WorkHeld' /\ NestedReuse'
<1>1. TypeOK /\ SessionIsolation /\ PendingHeld /\ PendingFresh /\ WorkHeld /\ NestedReuse
  BY DEF IInv
<1> DEFINE s == Top(t).sess
<1>2. s \in Sessions /\ \E i \in DOMAIN stack[t] : s = stack[t][i].sess
  <2>1. Len(stack[t]) \in DOMAIN stack[t]
    BY <1>1, StackFacts DEF Leaves
  <2> QED BY <2>1, LeavesType DEF Top, Frame
<1>3. \A u \in Scopes : u # t => registry[u] # s
  BY <1>1, <1>2 DEF SessionIsolation
<1>4. \A u \in Scopes : u # t => registry'[u] = registry[u]
  BY <1>1 DEF Leaves, Settle, TypeOK
<1>5. registry'[t] = registry[t] \/ registry'[t] = NoSession
  BY <1>1 DEF Leaves, Settle, TypeOK
<1>6. \A u \in Scopes : \A i \in DOMAIN stack'[u] :
        i \in DOMAIN stack[u] /\ stack'[u][i] = stack[u][i]
  <2>1. \A i \in DOMAIN stack'[t] : i \in DOMAIN stack[t] /\ stack'[t][i] = stack[t][i]
    BY <1>1, StackFacts, PopFacts DEF Leaves
  <2>2. \A u \in Scopes : u # t => stack'[u] = stack[u]
    BY <1>1, PopFacts DEF Leaves
  <2> QED BY <2>1, <2>2
<1>7. SessionIsolation'
  <2>1. \A u \in Scopes : \A i \in DOMAIN stack[u] : stack[u][i].sess # NoSession
    BY <1>1, StackFacts, ConstantsAssumption DEF Frame
  <2> SUFFICES ASSUME NEW u \in Scopes, NEW v \in Scopes, u # v
               PROVE  /\ registry'[u] = registry'[v] => registry'[u] = NoSession
                      /\ \A i \in DOMAIN stack'[u] :
                           /\ stack'[u][i].sess # registry'[v]
                           /\ \A j \in DOMAIN stack'[v] : stack'[u][i].sess # stack'[v][j].sess
    BY DEF SessionIsolation
  <2>2. registry'[u] = registry'[v] => registry'[u] = NoSession
    BY <1>1, <1>4, <1>5 DEF SessionIsolation
  <2>3. ASSUME NEW i \in DOMAIN stack'[u]
        PROVE  /\ stack'[u][i].sess # registry'[v]
               /\ \A j \in DOMAIN stack'[v] : stack'[u][i].sess # stack'[v][j].sess
    BY <1>1, <1>4, <1>5, <1>6, <2>1, <2>3 DEF SessionIsolation
  <2> QED BY <2>2, <2>3
<1>8. PendingHeld'
  <2>1. CASE Settle(t, s)
    <3> SUFFICES ASSUME NEW x \in Sessions
                 PROVE  /\ (\A u \in Scopes : registry'[u] # x) => txn'[x] = "none"
                        /\ txn'[x] # "active" => pending'[x] = {}
      BY DEF PendingHeld
    <3>1. CASE x \in {s, registry[t]}
      BY <2>1, <3>1 DEF Settle
    <3>2. CASE x \notin {s, registry[t]}
      BY <1>1, <1>4, <2>1, <3>2 DEF Settle, PendingHeld
    <3> QED BY <3>1, <3>2
  <2>2. CASE UNCHANGED <<txn, pending, registry, db>>
    BY <1>1, <2>2 DEF PendingHeld
  <2> QED BY <2>1, <2>2 DEF Leaves
<1>9. PendingFresh'
  BY <1>1, <1>2 DEF PendingFresh, Leaves, Settle
<1>10. WorkHeld'
  <2> SUFFICES ASSUME NEW u \in Scopes, NEW x \in Sessions, registry'[u] # x
               PROVE  work[u] \cap pending'[x] = {}
    BY DEF WorkHeld, Leaves
  <2>1. CASE registry[u] # x
    BY <1>1, <2>1 DEF WorkHeld, Leaves, Settle
  <2>2. CASE registry[u] = x
    BY <1>4, <2>2 DEF Leaves, Settle
  <2> QED BY <2>1, <2>2
<1>11. NestedReuse'
  <2> SUFFICES ASSUME NEW u \in Scopes, taint'[u] = {}, NEW i \in DOMAIN stack'[u]
               PROVE  /\ stack'[u][i].sess = stack'[u][1].sess
                      /\ Commits(stack'[u][i]) <=> i = 1
    BY DEF NestedReuse
  <2>1. taint[u] = {}
    BY DEF Leaves
  <2>2. 1 \in DOMAIN stack'[u]
    BY <1>1, StackFacts, PopFacts DEF Leaves
  <2> QED BY <1>1, <1>6, <2>1, <2>2 DEF NestedReuse
<1> QED BY <1>7, <1>8, <1>9, <1>10, <1>11

\* What the control flow of such an action does: the outermost call ends the
\* block and settles its session; an inner one returns to its caller, which
\* runs on without having met a fault only if nothing was touched.  Rows of a
\* block without faults are committed only by the step that ends it well.
ControlOf(t) ==
    /\ pc' \in [Scopes -> {"idle", "body", "raising"}]
    /\ result' \in [Scopes -> {"none", "ok", "error"}]
    /\ \A u \in Scopes : u # t => /\ pc'[u] = pc[u]
                                  /\ result'[u] = result[u]
                                  /\ taint'[u] = taint[u]
    /\ IF Len(stack[t]) = 1
       THEN pc'[t] = "idle" /\ result'[t] # "none" /\ registry'[t] = NoSession
       ELSE pc'[t] # "idle" /\ result'[t] = result[t]
    /\ Len(stack[t]) # 1 /\ pc'[t] = "body" /\ taint'[t] = {}
         => pc[t] = "body" /\ UNCHANGED <<txn, pending, registry>>
    /\ taint'[t] = {}
         => IF Len(stack[t]) = 1 /\ result'[t] = "ok" THEN work[t] \subseteq db' ELSE db' = db

LEMMA LeavesInv ==
    ASSUME IInv, NEW t \in Scopes, Leaves(t), ControlOf(t)
    PROVE  IInv'
<1>1. /\ TypeOK /\ PcMatchesStack /\ SessionIsolation /\ WorkHeld /\ OutermostOwns
      /\ SessionsReleased /\ CleanBody /\ CommitOnSuccess /\ NothingBeforeCommit
  BY DEF IInv
<1> DEFINE s == Top(t).sess
<1>2. s \in Sessions /\ \A u \in Scopes : u # t => registry[u] # s
  <2>1. Len(stack[t]) \in DOMAIN stack[t]
    BY <1>1, StackFacts DEF Leaves
  <2> QED BY <1>1, <2>1, LeavesType DEF Top, Frame, SessionIsolation
<1>3. \A u \in Scopes : u # t => /\ stack'[u] = stack[u]
                                 /\ registry'[u] = registry[u]
                                 /\ pc'[u] = pc[u]
                                 /\ result'[u] = result[u]
                                 /\ taint'[u] = taint[u]
  BY <1>1, PopFacts DEF Leaves, ControlOf, Settle, TypeOK
<1>4. \A u \in Scopes : u # t /\ registry[u] # NoSession
        => txn'[registry[u]] = txn[registry[u]] /\ pending'[registry[u]] = pending[registry[u]]
  BY <1>1, <1>2 DEF Leaves, Settle, TypeOK, SessionIsolation
<1>5. \A u \in Scopes : u # t => work[u] \cap db' = work[u] \cap db
  BY <1>1, <1>2 DEF Leaves, WorkHeld
<1>6. db \subseteq db'
  BY DEF Leaves
<1>7. /\ stack'[t] = <<>> <=> Len(stack[t]) = 1
      /\ stack'[t] # <<>> => stack'[t][1] = stack[t][1]
  <2>1. stack'[t] # <<>> => 1 \in DOMAIN stack'[t]
    BY <1>1, StackFacts, PopFacts DEF Leaves
  <2> QED BY <1>1, <2>1, PopFacts DEF Leaves
<1>8. TypeOK'
  BY LeavesType DEF TypeOK, Leaves, ControlOf
<1>9. PcMatchesStack'
  BY <1>1, <1>3, <1>7 DEF PcMatchesStack, ControlOf
<1>10. OutermostOwns'
  <2> SUFFICES ASSUME NEW u \in Scopes
               PROVE  IF stack'[u] = <<>>
                      THEN registry'[u] # NoSession => ~flag[registry'[u]]
                      ELSE Commits(stack'[u][1]) /\ result'[u] = "none"
    BY DEF OutermostOwns, Leaves
  <2>1. CASE u # t
    BY <1>1, <1>3, <2>1 DEF OutermostOwns
  <2>2. CASE u = t
    BY <1>1, <1>7, <2>2 DEF OutermostOwns, ControlOf, Leaves
  <2> QED BY <2>1, <2>2
<1>11. SessionsReleased'
  BY <1>1, <1>3 DEF SessionsReleased, ControlOf, OutermostOwns, Leaves
<1>12. CleanBody'
  <2> SUFFICES ASSUME NEW u \in Scopes, taint'[u] = {}, pc'[u] = "body"
               PROVE  /\ registry'[u] # NoSession
                      /\ flag[registry'[u]]
                      /\ stack'[u][1].sess = registry'[u]
                      /\ txn'[registry'[u]] # "none"
                      /\ txn'[registry'[u]] = "active" => work[u] = pending'[registry'[u]]
                      /\ txn'[registry'[u]] = "deactive" => stack'[u][1].joined
    BY DEF CleanBody, Leaves
  <2>1. CASE u # t
    BY <1>1, <1>3, <1>4, <2>1 DEF CleanBody
  <2>2. CASE u = t
    <3>1. taint[t] = {} /\ Len(stack[t]) # 1 /\ pc[t] = "body"
          /\ UNCHANGED <<txn, pending, registry>>
      BY <2>2 DEF ControlOf, Leaves
    <3> QED BY <1>1, <1>7, <2>2, <3>1 DEF CleanBody
  <2> QED BY <2>1, <2>2
<1>13. CommitOnSuccess'
  <2> SUFFICES ASSUME NEW u \in Scopes, result'[u] = "ok", taint'[u] = {}
               PROVE  work[u] \subseteq db'
    BY DEF CommitOnSuccess, Leaves
  <2>1. CASE u # t
    BY <1>1, <1>3, <1>6, <2>1 DEF CommitOnSuccess
  <2>2. CASE u = t
    BY <1>1, <2>2 DEF ControlOf, OutermostOwns, Leaves
  <2> QED BY <2>1, <2>2
<1>14. NothingBeforeCommit'
  <2> SUFFICES ASSUME NEW u \in Scopes, taint'[u] = {},
                      stack'[u] # <<>> \/ result'[u] = "error"
               PROVE  work[u] \cap db' = {}
    BY DEF NothingBeforeCommit, Leaves
  <2>1. CASE u # t
    BY <1>1, <1>3, <1>5, <2>1 DEF NothingBeforeCommit
  <2>2. CASE u = t
    BY <1>1, <1>7, <2>2 DEF NothingBeforeCommit, ControlOf, Leaves
  <2> QED BY <2>1, <2>2
<1> QED BY <1>8, <1>9, <1>10, <1>11, <1>12, <1>13, <1>14, LeavesSessions DEF IInv

-----------------------------------------------------------------------------
\* The actions, one lemma each.

LEMMA TopFacts ==
    ASSUME IInv, NEW t \in Scopes, pc[t] # "idle"
    PROVE  /\ stack[t] # <<>>
           /\ Len(stack[t]) \in DOMAIN stack[t] /\ 1 \in DOMAIN stack[t]
           /\ Top(t) \in Frame
           /\ Len(stack[t]) = 1 => Commits(Top(t)) /\ Top(t) = stack[t][1]
           /\ Commits(Top(t)) /\ taint[t] = {} => Len(stack[t]) = 1
           /\ taint[t] = {} => Top(t).sess = stack[t][1].sess
<1>1. TypeOK /\ PcMatchesStack /\ OutermostOwns /\ NestedReuse
  BY DEF IInv
<1>2. stack[t] # <<>>
  BY <1>1 DEF PcMatchesStack
<1>3. Len(stack[t]) \in DOMAIN stack[t] /\ 1 \in DOMAIN stack[t]
  BY <1>1, <1>2, StackFacts
<1> QED BY <1>1, <1>2, <1>3, StackFacts DEF Top, OutermostOwns, NestedReuse

LEMMA LeaveErrorFacts ==
    ASSUME TypeOK, NEW t \in Scopes, NEW met \in SUBSET {"swallow", "lost_ack"},
           LeaveError(t, met)
    PROVE  /\ Pop(t)
           /\ pc' \in [Scopes -> {"idle", "body", "raising"}]
           /\ taint' \in [Scopes -> SUBSET {"swallow", "lost_ack"}]
           /\ result' \in [Scopes -> {"none", "ok", "error"}]
           /\ \A u \in Scopes : taint[u] \subseteq taint'[u]
           /\ met \subseteq taint'[t]
           /\ \A u \in Scopes : u # t => /\ pc'[u] = pc[u]
                                         /\ result'[u] = result[u]
                                         /\ taint'[u] = taint[u]
           /\ IF Len(stack[t]) = 1 THEN pc'[t] = "idle" /\ result'[t] = "error"
              ELSE pc'[t] # "idle" /\ result'[t] = result[t]
           /\ Len(stack[t]) # 1 /\ pc'[t] = "body" => taint'[t] # {}
<1>1. PICK more \in SUBSET {"swallow", "lost_ack"} :
        /\ met \subseteq more
        /\ taint' = [taint EXCEPT ![t] = @ \cup more]
        /\ Len(stack[t]) # 1 /\ pc'[t] = "body" => more # {}
  <2>1. CASE Len(stack[t]) = 1
    BY <2>1 DEF LeaveError
  <2>2. CASE Len(stack[t]) # 1 /\ taint' = [taint EXCEPT ![t] = @ \cup met]
                               /\ pc' = [pc EXCEPT ![t] = "raising"]
    BY <2>2 DEF TypeOK
  <2>3. CASE Len(stack[t]) # 1 /\ taint' = [taint EXCEPT ![t] = @ \cup met \cup {"swallow"}]
    <3>1. taint' = [taint EXCEPT ![t] = @ \cup (met \cup {"swallow"})]
      BY <2>3 DEF TypeOK
    <3> QED BY <2>3, <3>1
  <2> QED BY <2>1, <2>2, <2>3 DEF LeaveError, Throw
<1>2. /\ taint' \in [Scopes -> SUBSET {"swallow", "lost_ack"}]
      /\ \A u \in Scopes : taint[u] \subseteq taint'[u]
      /\ \A u \in Scopes : u # t => taint'[u] = taint[u]
      /\ more \subseteq taint'[t]
  BY <1>1 DEF TypeOK
<1>3. /\ pc' \in [Scopes -> {"idle", "body", "raising"}]
      /\ \A u \in Scopes : u # t => pc'[u] = pc[u]
      /\ IF Len(stack[t]) = 1 THEN pc'[t] = "idle" ELSE pc'[t] # "idle"
  BY DEF LeaveError, Throw, TypeOK
<1>4. /\ result' \in [Scopes -> {"none", "ok", "error"}]
      /\ \A u \in Scopes : u # t => result'[u] = result[u]
      /\ IF Len(stack[t]) = 1 THEN result'[t] = "error" ELSE result'[t] = result[t]
  BY DEF LeaveError, TypeOK
<1>5. Pop(t)
  BY DEF LeaveError
<1> QED BY <1>1, <1>2, <1>3, <1>4, <1>5

LEMMA ReturnNestedInv ==
    ASSUME IInv, NEW t \in Scopes, ReturnNested(t)
    PROVE  IInv'
<1>1. TypeOK
  BY DEF IInv
<1>2. Len(stack[t]) # 1 /\ stack[t] # <<>>
  BY TopFacts DEF ReturnNested
<1>3. Leaves(t)
  BY <1>1, <1>2 DEF ReturnNested, LeaveOk, Leaves, TypeOK
<1>4. taint[t] = {} => UNCHANGED <<txn, pending, registry>>
  BY TopFacts DEF IInv, CleanBody, ReturnNested
<1>5. ControlOf(t)
  BY <1>1, <1>2, <1>4 DEF ReturnNested, LeaveOk, ControlOf, TypeOK
<1> QED BY <1>3, <1>5, LeavesInv

LEMMA ReturnCommitInv ==
    ASSUME IInv, NEW t \in Scopes, ReturnCommit(t)
    PROVE  IInv'
<1>1. TypeOK
  BY DEF IInv
<1>2. stack[t] # <<>> /\ (taint[t] = {} => Len(stack[t]) = 1)
  BY TopFacts DEF ReturnCommit
<1>3. Leaves(t)
  BY <1>1, <1>2 DEF ReturnCommit, LeaveOk, Leaves, TypeOK
<1>4. taint[t] = {} => work[t] = pending[Top(t).sess]
  BY TopFacts DEF IInv, CleanBody, ReturnCommit
<1>5. ControlOf(t)
  BY <1>1, <1>2, <1>4 DEF ReturnCommit, LeaveOk, ControlOf, TypeOK, Settle
<1> QED BY <1>3, <1>5, LeavesInv

LEMMA ReturnInactiveInv ==
    ASSUME IInv, NEW t \in Scopes, ReturnInactive(t)
    PROVE  IInv'
<1>1. TypeOK
  BY DEF IInv
<1>2. stack[t] # <<>> /\ (taint[t] = {} => Len(stack[t]) = 1)
  BY TopFacts DEF ReturnInactive
<1>3. ASSUME taint[t] = {}
      PROVE  Top(t).joined /\ txn[Top(t).sess] = "deactive"
  <2>1. Top(t) = stack[t][1] /\ Top(t).sess = registry[t] /\ registry[t] \in Sessions
    BY <1>1, <1>2, <1>3, TopFacts DEF IInv, CleanBody, ReturnInactive, TypeOK
  <2> QED BY <1>1, <1>3, <2>1 DEF IInv, CleanBody, ReturnInactive, TypeOK
<1>4. registry'[t] = NoSession
  BY <1>1 DEF ReturnInactive, Settle, TypeOK
<1>5. Leaves(t) /\ ControlOf(t)
  <2>1. CASE Top(t).joined /\ txn[Top(t).sess] = "deactive"
    <3>1. LeaveError(t, {})
      BY <2>1 DEF ReturnInactive
    <3> QED BY <1>1, <1>2, <1>4, <3>1, LeaveErrorFacts DEF ReturnInactive, Leaves, ControlOf
  <2>2. CASE ~(Top(t).joined /\ txn[Top(t).sess] = "deactive")
    <3>1. LeaveOk(t) /\ taint[t] # {}
      BY <1>3, <2>2 DEF ReturnInactive
    <3> QED BY <1>1, <1>2, <1>4, <3>1 DEF ReturnInactive, LeaveOk, Leaves, ControlOf, TypeOK
  <2> QED BY <2>1, <2>2
<1> QED BY <1>5, LeavesInv

LEMMA CommitRejectedInv ==
    ASSUME IInv, NEW t \in Scopes, CommitRejected(t)
    PROVE  IInv'
<1>1. TypeOK
  BY DEF IInv
<1>2. stack[t] # <<>>
  BY TopFacts DEF CommitRejected
<1>3. LeaveError(t, {})
  BY DEF CommitRejected
<1>4. Leaves(t)
  BY <1>1, <1>2, <1>3, LeaveErrorFacts DEF CommitRejected, Leaves
<1>5. registry'[t] = NoSession
  BY <1>1 DEF CommitRejected, Settle, TypeOK
<1>6. ControlOf(t)
  BY <1>1, <1>3, <1>5, LeaveErrorFacts DEF CommitRejected, ControlOf
<1> QED BY <1>4, <1>6, LeavesInv

LEMMA CommitAckLostInv ==
    ASSUME IInv, NEW t \in Scopes, CommitAckLost(t)
    PROVE  IInv'
<1>1. TypeOK
  BY DEF IInv
<1>2. stack[t] # <<>>
  BY TopFacts DEF CommitAckLost
<1>3. LeaveError(t, {"lost_ack"})
  BY DEF CommitAckLost
<1>4. Leaves(t)
  BY <1>1, <1>2, <1>3, LeaveErrorFacts DEF CommitAckLost, Leaves
<1>5. registry'[t] = NoSession
  BY <1>1 DEF CommitAckLost, Settle, TypeOK
<1>6. ControlOf(t)
  BY <1>1, <1>3, <1>5, LeaveErrorFacts DEF CommitAckLost, ControlOf
<1> QED BY <1>4, <1>6, LeavesInv

LEMMA ExitRaiseInv ==
    ASSUME IInv, NEW t \in Scopes, ExitRaise(t)
    PROVE  IInv'
<1>1. TypeOK
  BY DEF IInv
<1>2. stack[t] # <<>>
  BY TopFacts DEF ExitRaise
<1>3. LeaveError(t, {})
  BY DEF ExitRaise
<1>4. Leaves(t)
  BY <1>1, <1>2, <1>3, LeaveErrorFacts DEF ExitRaise, Leaves
<1>5. registry'[t] = NoSession
  BY <1>1 DEF ExitRaise, Settle, TypeOK
<1>6. ControlOf(t)
  BY <1>1, <1>3, <1>5, LeaveErrorFacts DEF ExitRaise, ControlOf
<1> QED BY <1>4, <1>6, LeavesInv

LEMMA RaiseInv ==
    ASSUME IInv, NEW t \in Scopes, Raise(t)
    PROVE  IInv'
<1>1. TypeOK'
  BY DEF IInv, Raise, TypeOK
<1>2. PcMatchesStack' /\ CleanBody'
  BY DEF IInv, Raise, TypeOK, PcMatchesStack, CleanBody
<1>3. SessionIsolation' /\ NestedReuse' /\ OutermostOwns'
  BY DEF IInv, Raise, SessionIsolation, NestedReuse, OutermostOwns
<1> QED BY <1>1, <1>2, <1>3 DEF IInv, Raise, PendingHeld, PendingFresh, WorkHeld,
           SessionsReleased, CommitOnSuccess, NothingBeforeCommit

\* The session a scope fetches is its own or one that nothing refers to.
LEMMA SessionFacts ==
    ASSUME IInv, NEW t \in Scopes, NEW s \in SessionsFor(t)
    PROVE  /\ s \in Sessions /\ s # NoSession
           /\ \A u \in Scopes : u # t => registry[u] # s
           /\ \A u \in Scopes : u # t => \A i \in DOMAIN stack[u] : stack[u][i].sess # s
           /\ registry[t] # s => /\ registry[t] = NoSession
                                 /\ txn[s] = "none" /\ pending[s] = {}
<1>1. TypeOK /\ SessionIsolation /\ PendingHeld
  BY DEF IInv
<1>2. CASE registry[t] # NoSession
  <2>1. s = registry[t] /\ s \in Sessions
    BY <1>1, <1>2 DEF SessionsFor, TypeOK
  <2> QED BY <1>1, <1>2, <2>1, ConstantsAssumption DEF SessionIsolation
<1>3. CASE registry[t] = NoSession
  <2>1. s \in Sessions /\ ~Held(s)
    BY <1>3 DEF SessionsFor
  <2> QED BY <1>1, <1>3, <2>1, ConstantsAssumption DEF Held, PendingHeld
<1> QED BY <1>2, <1>3

LEMMA EnterInv ==
    ASSUME IInv, NEW t \in Scopes, Enter(t)
    PROVE  IInv'
<1>1. /\ TypeOK /\ PcMatchesStack /\ SessionIsolation /\ PendingHeld /\ PendingFresh
      /\ WorkHeld /\ OutermostOwns /\ SessionsReleased /\ NestedReuse /\ CleanBody
      /\ CommitOnSuccess /\ NothingBeforeCommit
  BY DEF IInv
<1>2. PICK s \in SessionsFor(t) :
        /\ registry' = [registry EXCEPT ![t] = s]
        /\ flag' = [flag EXCEPT ![s] = TRUE]
        /\ txn' = [txn EXCEPT ![s] = IF @ = "none" THEN "active" ELSE @]
        /\ stack' = [stack EXCEPT ![t] =
                       Append(@, [sess |-> s, nested |-> Flagged(t, s),
                                  joined |-> txn[s] # "none"])]
        /\ IF stack[t] = <<>>
           THEN /\ work' = [work EXCEPT ![t] = pending[s]]
                /\ taint' = [taint EXCEPT ![t] = {}]
                /\ result' = [result EXCEPT ![t] = "none"]
           ELSE UNCHANGED <<work, taint, result>>
  BY DEF Enter
<1>3. /\ s \in Sessions /\ s # NoSession
      /\ \A u \in Scopes : u # t => registry[u] # s
      /\ \A u \in Scopes : u # t => \A i \in DOMAIN stack[u] : stack[u][i].sess # s
      /\ registry[t] # s => /\ registry[t] = NoSession
                            /\ txn[s] = "none" /\ pending[s] = {}
  BY SessionFacts
<1> DEFINE f == [sess |-> s, nested |-> Flagged(t, s), joined |-> txn[s] # "none"]
           n == Len(stack[t])
<1>4. f \in Frame
  BY <1>1, <1>3 DEF Frame, Flagged, TypeOK
<1>5. /\ stack' \in [Scopes -> Seq(Frame)]
      /\ \A u \in Scopes : u # t => stack'[u] = stack[u]
      /\ stack'[t] # <<>>
      /\ DOMAIN stack'[t] = 1..(n + 1)
      /\ stack'[t][n + 1] = f
      /\ \A i \in DOMAIN stack[t] : stack'[t][i] = stack[t][i]
  BY <1>1, <1>2, <1>4, PushFacts
<1>6. /\ n \in Nat
      /\ DOMAIN stack[t] = 1..n
      /\ stack[t] = <<>> <=> n = 0
  BY <1>1, StackFacts
<1>7. \A i \in DOMAIN stack'[t] : \/ i \in DOMAIN stack[t] /\ stack'[t][i] = stack[t][i]
                                  \/ i = n + 1 /\ stack'[t][i] = f
  BY <1>5, <1>6
<1>8. f.sess = s /\ f.nested = Flagged(t, s) /\ f.joined = (txn[s] # "none")
  OBVIOUS
<1> HIDE DEF f, n
<1>9. /\ UNCHANGED <<pending, db>> /\ pc' = [pc EXCEPT ![t] = "body"]
      /\ pc[t] # "raising"
  BY DEF Enter
<1>10. /\ registry'[t] = s
       /\ \A u \in Scopes : u # t => /\ registry'[u] = registry[u]
                                     /\ pc'[u] = pc[u]
                                     /\ work'[u] = work[u]
                                     /\ taint'[u] = taint[u]
                                     /\ result'[u] = result[u]
  BY <1>1, <1>2, <1>9 DEF TypeOK
<1>11. TypeOK'
  <2>1. /\ registry' \in [Scopes -> Sessions \cup {NoSession}]
        /\ flag' \in [Sessions -> BOOLEAN]
        /\ txn' \in [Sessions -> {"none", "active", "deactive"}]
    BY <1>1, <1>2, <1>3 DEF TypeOK
  <2>2. pending' \in [Sessions -> SUBSET Writes] /\ db' \in SUBSET Writes
        /\ pc' \in [Scopes -> {"idle", "body", "raising"}]
    BY <1>1, <1>9 DEF TypeOK
  <2>3. pending[s] \in SUBSET Writes
    BY <1>1, <1>3 DEF TypeOK
  <2>4. /\ work' \in [Scopes -> SUBSET Writes]
        /\ taint' \in [Scopes -> SUBSET {"swallow", "lost_ack"}]
        /\ result' \in [Scopes -> {"none", "ok", "error"}]
    BY <1>1, <1>2, <2>3 DEF TypeOK
  <2> QED BY <1>5, <2>1, <2>2, <2>4 DEF TypeOK
<1>12. PcMatchesStack'
  BY <1>1, <1>5, <1>9 DEF PcMatchesStack, TypeOK
<1>13. SessionIsolation'
  <2> SUFFICES ASSUME NEW u \in Scopes, NEW v \in Scopes, u # v
               PROVE  /\ registry'[u] = registry'[v] => registry'[u] = NoSession
                      /\ \A i \in DOMAIN stack'[u] :
                           /\ stack'[u][i].sess # registry'[v]
                           /\ \A j \in DOMAIN stack'[v] : stack'[u][i].sess # stack'[v][j].sess
    BY DEF SessionIsolation
  <2>1. registry'[u] = registry'[v] => registry'[u] = NoSession
    BY <1>1, <1>3, <1>10 DEF SessionIsolation
  <2>2. ASSUME NEW i \in DOMAIN stack'[u]
        PROVE  stack'[u][i].sess # registry'[v]
    <3>1. CASE u = t
      BY <1>1, <1>3, <1>7, <1>8, <1>10, <2>2, <3>1 DEF SessionIsolation
    <3>2. CASE u # t
      BY <1>1, <1>3, <1>5, <1>10, <2>2, <3>2 DEF SessionIsolation
    <3> QED BY <3>1, <3>2
  <2>3. ASSUME NEW i \in DOMAIN stack'[u], NEW j \in DOMAIN stack'[v]
        PROVE  stack'[u][i].sess # stack'[v][j].sess
    <3>1. CASE u = t
      BY <1>1, <1>3, <1>5, <1>7, <1>8, <2>3, <3>1 DEF SessionIsolation
    <3>2. CASE v = t
      <4>1. stack'[u][i] = stack[u][i] /\ i \in DOMAIN stack[u]
        BY <1>5, <2>3, <3>2
      <4>2. stack[u][i].sess # s
        BY <1>3, <3>2, <4>1
      <4>3. CASE j = n + 1 /\ stack'[v][j] = f
        BY <1>8, <4>1, <4>2, <4>3
      <4>4. CASE j \in DOMAIN stack[v] /\ stack'[v][j] = stack[v][j]
        BY <1>1, <4>1, <4>4 DEF SessionIsolation
      <4> QED BY <1>7, <2>3, <3>2, <4>3, <4>4
    <3>3. CASE u # t /\ v # t
      <4>1. stack'[u] = stack[u] /\ stack'[v] = stack[v]
        BY <1>5, <3>3
      <4> QED BY <1>1, <2>3, <4>1 DEF SessionIsolation
    <3> QED BY <3>1, <3>2, <3>3
  <2> QED BY <2>1, <2>2, <2>3
<1>14. PendingHeld' /\ PendingFresh'
  <2>1. PendingFresh'
    BY <1>1, <1>9 DEF PendingFresh
  <2>2. ASSUME NEW x \in Sessions
        PROVE  /\ (\A u \in Scopes : registry'[u] # x) => txn'[x] = "none"
               /\ txn'[x] # "active" => pending'[x] = {}
    <3>1. CASE x = s
      BY <1>1, <1>2, <1>3, <1>9, <1>10, <3>1 DEF PendingHeld, TypeOK
    <3>2. CASE x # s
      <4>1. txn'[x] = txn[x] /\ pending'[x] = pending[x]
        BY <1>1, <1>2, <1>9, <3>2 DEF TypeOK
      <4>2. registry[t] # x \/ registry[t] = s
        BY <1>3, <2>2, ConstantsAssumption
      <4> QED BY <1>1, <1>10, <3>2, <4>1, <4>2 DEF PendingHeld
    <3> QED BY <3>1, <3>2
  <2> QED BY <2>1, <2>2 DEF PendingHeld
<1>15. WorkHeld'
  <2> SUFFICES ASSUME NEW u \in Scopes, NEW x \in Sessions, registry'[u] # x
               PROVE  work'[u] \cap pending[x] = {}
    BY <1>9 DEF WorkHeld
  <2>1. CASE u # t
    BY <1>1, <1>10, <2>1 DEF WorkHeld
  <2>2. CASE u = t /\ stack[t] = <<>>
    BY <1>1, <1>2, <1>3, <1>10, <2>2 DEF PendingFresh, TypeOK
  <2>3. CASE u = t /\ stack[t] # <<>>
    BY <1>1, <1>2, <1>3, <1>10, <2>3, ConstantsAssumption DEF WorkHeld
  <2> QED BY <2>1, <2>2, <2>3
<1>16. flag' \in [Sessions -> BOOLEAN] /\ flag'[s]
       /\ \A u \in Scopes : u # t /\ registry[u] # NoSession => flag'[registry[u]] = flag[registry[u]]
  BY <1>1, <1>2, <1>3 DEF TypeOK
<1>17. stack'[t][1] = IF n = 0 THEN f ELSE stack[t][1]
  BY <1>5, <1>6
<1>18. n = 0 => Commits(f)
  BY <1>1, <1>3, <1>6, <1>8 DEF OutermostOwns, Commits, Flagged
<1>19. OutermostOwns'
  <2> SUFFICES ASSUME NEW u \in Scopes
               PROVE  IF stack'[u] = <<>>
                      THEN registry'[u] # NoSession => ~flag'[registry'[u]]
                      ELSE Commits(stack'[u][1]) /\ result'[u] = "none"
    BY DEF OutermostOwns
  <2>1. CASE u # t
    BY <1>1, <1>5, <1>10, <1>16, <2>1 DEF OutermostOwns
  <2>2. CASE u = t
    BY <1>1, <1>2, <1>5, <1>6, <1>17, <1>18, <2>2 DEF OutermostOwns, TypeOK
  <2> QED BY <2>1, <2>2
<1>20. SessionsReleased'
  BY <1>1, <1>2, <1>10 DEF SessionsReleased, OutermostOwns, TypeOK
\* A nested call in a block without faults finds the flagged session.
<1>21. ASSUME stack[t] # <<>>, taint[t] = {}
       PROVE  /\ s = registry[t] /\ s = stack[t][1].sess
              /\ ~Commits(f)
  BY <1>1, <1>3, <1>8, <1>9, <1>21 DEF CleanBody, PcMatchesStack, Commits, Flagged, TypeOK
<1>22. NestedReuse'
  <2> SUFFICES ASSUME NEW u \in Scopes, taint'[u] = {}, NEW i \in DOMAIN stack'[u]
               PROVE  /\ stack'[u][i].sess = stack'[u][1].sess
                      /\ Commits(stack'[u][i]) <=> i = 1
    BY DEF NestedReuse
  <2>1. CASE u # t
    BY <1>1, <1>5, <1>10, <2>1 DEF NestedReuse
  <2>2. CASE u = t /\ n = 0
    BY <1>6, <1>7, <1>17, <1>18, <2>2
  <2>3. CASE u = t /\ n # 0
    <3>1. taint[t] = {} /\ stack[t] # <<>>
      BY <1>2, <1>6, <2>3
    <3> QED BY <1>1, <1>6, <1>7, <1>8, <1>17, <1>21, <2>3, <3>1 DEF NestedReuse
  <2> QED BY <2>1, <2>2, <2>3
<1>23. CleanBody'
  <2> SUFFICES ASSUME NEW u \in Scopes, taint'[u] = {}, pc'[u] = "body"
               PROVE  /\ registry'[u] # NoSession
                      /\ flag'[registry'[u]]
                      /\ stack'[u][1].sess = registry'[u]
                      /\ txn'[registry'[u]] # "none"
                      /\ txn'[registry'[u]] = "active" => work'[u] = pending[registry'[u]]
                      /\ txn'[registry'[u]] = "deactive" => stack'[u][1].joined
    BY <1>9 DEF CleanBody
  <2>1. CASE u # t
    <3>1. registry[u] # NoSession /\ txn'[registry[u]] = txn[registry[u]]
      BY <1>1, <1>2, <1>3, <1>10, <2>1 DEF CleanBody, TypeOK
    <3> QED BY <1>1, <1>5, <1>10, <1>16, <2>1, <3>1 DEF CleanBody
  <2>2. CASE u = t /\ n = 0
    <3>1. work'[t] = pending[s]
      BY <1>1, <1>2, <1>6, <2>2 DEF TypeOK
    <3>2. txn'[s] # "none" /\ (txn'[s] = "deactive" => txn[s] # "none")
      BY <1>1, <1>2, <1>3 DEF TypeOK
    <3> QED BY <1>3, <1>8, <1>10, <1>16, <1>17, <2>2, <3>1, <3>2
  <2>3. CASE u = t /\ n # 0
    <3>1. taint[t] = {} /\ stack[t] # <<>> /\ pc[t] = "body" /\ work'[t] = work[t]
      BY <1>1, <1>2, <1>6, <1>9, <2>3 DEF PcMatchesStack, TypeOK
    <3>2. txn'[s] = txn[s]
      BY <1>1, <1>2, <1>3, <1>21, <3>1 DEF CleanBody, TypeOK
    <3> QED BY <1>1, <1>3, <1>10, <1>16, <1>17, <1>21, <2>3, <3>1, <3>2 DEF CleanBody
  <2> QED BY <2>1, <2>2, <2>3
<1>24. CommitOnSuccess'
  <2> SUFFICES ASSUME NEW u \in Scopes, result'[u] = "ok", taint'[u] = {}
               PROVE  work'[u] \subseteq db
    BY <1>9 DEF CommitOnSuccess
  <2>1. u # t
    BY <1>1, <1>2 DEF OutermostOwns, TypeOK
  <2> QED BY <1>1, <1>10, <2>1 DEF CommitOnSuccess
<1>25. NothingBeforeCommit'
  <2> SUFFICES ASSUME NEW u \in Scopes, taint'[u] = {},
                      stack'[u] # <<>> \/ result'[u] = "error"
               PROVE  work'[u] \cap db = {}
    BY <1>9 DEF NothingBeforeCommit
  <2>1. CASE u # t
    BY <1>1, <1>5, <1>10, <2>1 DEF NothingBeforeCommit
  <2>2. CASE u = t /\ stack[t] = <<>>
    BY <1>1, <1>2, <1>3, <2>2 DEF PendingFresh, TypeOK
  <2>3. CASE u = t /\ stack[t] # <<>>
    BY <1>1, <1>2, <2>3 DEF NothingBeforeCommit
  <2> QED BY <2>1, <2>2, <2>3
<1> QED BY <1>11, <1>12, <1>13, <1>14, <1>15, <1>19, <1>20, <1>22, <1>23, <1>24, <1>25 DEF IInv

\* What the two outcomes of a write have in common.
LEMMA WriteShared ==
    ASSUME IInv, NEW t \in Scopes, NEW s \in SessionsFor(t),
           registry' = [registry EXCEPT ![t] = s],
           flag' = [flag EXCEPT ![s] = Flagged(t, s)],
           stack' = stack
    PROVE  /\ SessionIsolation'
           /\ registry' \in [Scopes -> Sessions \cup {NoSession}]
           /\ flag' \in [Sessions -> BOOLEAN]
           /\ registry'[t] = s
           /\ \A u \in Scopes : u # t => registry'[u] = registry[u]
           /\ \A u \in Scopes : u # t /\ registry[u] # NoSession
                                   => flag'[registry[u]] = flag[registry[u]]
           /\ flag'[s] = Flagged(t, s)
           /\ \A x \in Sessions : x # s => registry[t] # x
           /\ stack[t] = <<>> => ~flag'[s]
<1>1. TypeOK /\ SessionIsolation /\ OutermostOwns
  BY DEF IInv
<1>2. /\ s \in Sessions /\ s # NoSession
      /\ \A u \in Scopes : u # t => registry[u] # s
      /\ \A u \in Scopes : u # t => \A i \in DOMAIN stack[u] : stack[u][i].sess # s
      /\ registry[t] # s => registry[t] = NoSession
  BY SessionFacts
<1>3. registry'[t] = s /\ \A u \in Scopes : u # t => registry'[u] = registry[u]
  BY <1>1 DEF TypeOK
<1>4. registry' \in [Scopes -> Sessions \cup {NoSession}]
  BY <1>1, <1>2 DEF TypeOK
<1>5. flag' \in [Sessions -> BOOLEAN] /\ flag'[s] = Flagged(t, s)
  BY <1>1, <1>2 DEF TypeOK, Flagged
<1>6. \A u \in Scopes : u # t /\ registry[u] # NoSession => flag'[registry[u]] = flag[registry[u]]
  BY <1>1, <1>2 DEF TypeOK
<1>7. SessionIsolation'
  <2> SUFFICES ASSUME NEW u \in Scopes, NEW v \in Scopes, u # v
               PROVE  /\ registry'[u] = registry'[v] => registry'[u] = NoSession
                      /\ \A i \in DOMAIN stack[u] :
                           /\ stack[u][i].sess # registry'[v]
                           /\ \A j \in DOMAIN stack[v] : stack[u][i].sess # stack[v][j].sess
    BY DEF SessionIsolation
  <2> QED BY <1>1, <1>2, <1>3 DEF SessionIsolation
<1>8. \A x \in Sessions : x # s => registry[t] # x
  BY <1>2, ConstantsAssumption
<1>9. stack[t] = <<>> => ~flag'[s]
  BY <1>1, <1>2, <1>5 DEF OutermostOwns, Flagged
<1> QED BY <1>3, <1>4, <1>5, <1>6, <1>7, <1>8, <1>9

LEMMA WriteInv ==
    ASSUME IInv, NEW t \in Scopes, NEW rows \in SUBSET Writes, Write(t, rows)
    PROVE  IInv'
<1>1. /\ TypeOK /\ PcMatchesStack /\ PendingHeld /\ PendingFresh
      /\ WorkHeld /\ OutermostOwns /\ SessionsReleased /\ NestedReuse /\ CleanBody
      /\ CommitOnSuccess /\ NothingBeforeCommit
  BY DEF IInv
<1>2. PICK s \in SessionsFor(t) :
        /\ txn[s] # "deactive"
        /\ registry' = [registry EXCEPT ![t] = s]
        /\ flag' = [flag EXCEPT ![s] = Flagged(t, s)]
        /\ txn' = [txn EXCEPT ![s] = "active"]
        /\ pending' = [pending EXCEPT ![s] = @ \cup rows]
  BY DEF Write
<1>3. /\ pc[t] # "raising" /\ rows \cap db = {}
      /\ \A x \in Sessions : rows \cap pending[x] = {}
      /\ \A u \in Scopes : rows \cap work[u] = {}
      /\ UNCHANGED <<stack, pc, db, taint>>
      /\ IF pc[t] = "body"
         THEN work' = [work EXCEPT ![t] = @ \cup rows] /\ UNCHANGED result
         ELSE work' = [work EXCEPT ![t] = {}] /\ result' = [result EXCEPT ![t] = "none"]
  BY DEF Write
<1>4. /\ s \in Sessions /\ s # NoSession
      /\ \A u \in Scopes : u # t => registry[u] # s
  BY SessionFacts
<1>5. /\ SessionIsolation'
      /\ registry' \in [Scopes -> Sessions \cup {NoSession}]
      /\ flag' \in [Sessions -> BOOLEAN]
      /\ registry'[t] = s
      /\ \A u \in Scopes : u # t => registry'[u] = registry[u]
      /\ \A u \in Scopes : u # t /\ registry[u] # NoSession
                              => flag'[registry[u]] = flag[registry[u]]
      /\ flag'[s] = Flagged(t, s)
      /\ \A x \in Sessions : x # s => registry[t] # x
      /\ stack[t] = <<>> => ~flag'[s]
  BY <1>2, <1>3, WriteShared
<1>6. \A x \in Sessions : x # s => txn'[x] = txn[x] /\ pending'[x] = pending[x]
  BY <1>1, <1>2 DEF TypeOK
<1>7. txn'[s] = "active" /\ pending'[s] = pending[s] \cup rows
  BY <1>1, <1>2, <1>4 DEF TypeOK
<1>8. \A u \in Scopes : u # t => work'[u] = work[u] /\ result'[u] = result[u]
  BY <1>1, <1>3 DEF TypeOK
<1>9. IF pc[t] = "body" THEN work'[t] = work[t] \cup rows /\ result'[t] = result[t]
                        ELSE work'[t] = {} /\ result'[t] = "none"
  BY <1>1, <1>3 DEF TypeOK
<1>10. TypeOK'
  <2>1. txn' \in [Sessions -> {"none", "active", "deactive"}]
        /\ pending' \in [Sessions -> SUBSET Writes]
    BY <1>1, <1>2, <1>4 DEF TypeOK
  <2>2. work' \in [Scopes -> SUBSET Writes] /\ result' \in [Scopes -> {"none", "ok", "error"}]
    <3>1. work[t] \cup rows \in SUBSET Writes /\ {} \in SUBSET Writes
      BY <1>1 DEF TypeOK
    <3>2. CASE pc[t] = "body"
      <4>1. work' = [work EXCEPT ![t] = work[t] \cup rows] /\ result' = result
        BY <1>3, <3>2
      <4>2. work \in [Scopes -> SUBSET Writes] /\ result \in [Scopes -> {"none", "ok", "error"}]
        BY <1>1 DEF TypeOK
      <4>3. work' \in [Scopes -> SUBSET Writes]
        BY <3>1, <4>1, <4>2
      <4>4. result' \in [Scopes -> {"none", "ok", "error"}]
        BY <4>1, <4>2
      <4> QED BY <4>3, <4>4
    <3>3. CASE pc[t] # "body"
      <4>1. work' = [work EXCEPT ![t] = {}] /\ result' = [result EXCEPT ![t] = "none"]
        BY <1>3, <3>3
      <4>2. work' \in [Scopes -> SUBSET Writes]
        BY <1>1, <3>1, <4>1 DEF TypeOK
      <4>3. result' \in [Scopes -> {"none", "ok", "error"}]
        BY <1>1, <4>1 DEF TypeOK
      <4> QED BY <4>2, <4>3
    <3> QED BY <3>2, <3>3
  <2> QED BY <1>1, <1>3, <1>5, <2>1, <2>2 DEF TypeOK
<1>11. PcMatchesStack' /\ NestedReuse'
  BY <1>1, <1>3 DEF PcMatchesStack, NestedReuse
<1>12. PendingHeld' /\ PendingFresh'
  BY <1>1, <1>3, <1>5, <1>6, <1>7 DEF PendingHeld, PendingFresh
<1>13. WorkHeld'
  <2> SUFFICES ASSUME NEW u \in Scopes, NEW x \in Sessions, registry'[u] # x
               PROVE  work'[u] \cap pending'[x] = {}
    BY DEF WorkHeld
  <2>1. CASE u = t
    BY <1>1, <1>3, <1>5, <1>6, <1>9, <2>1 DEF WorkHeld
  <2>2. CASE u # t
    BY <1>1, <1>3, <1>5, <1>6, <1>7, <1>8, <2>2 DEF WorkHeld
  <2> QED BY <2>1, <2>2
<1>14. OutermostOwns'
  <2> SUFFICES ASSUME NEW u \in Scopes
               PROVE  IF stack[u] = <<>>
                      THEN registry'[u] # NoSession => ~flag'[registry'[u]]
                      ELSE Commits(stack[u][1]) /\ result'[u] = "none"
    BY <1>3 DEF OutermostOwns
  <2>1. CASE u = t
    BY <1>1, <1>3, <1>5, <1>9, <2>1 DEF OutermostOwns, PcMatchesStack
  <2>2. CASE u # t
    BY <1>1, <1>5, <1>8, <2>2 DEF OutermostOwns
  <2> QED BY <2>1, <2>2
<1>15. SessionsReleased'
  <2>1. pc[t] = "body" => result[t] = "none"
    BY <1>1 DEF OutermostOwns, PcMatchesStack
  <2> QED BY <1>1, <1>5, <1>8, <1>9, <2>1 DEF SessionsReleased
<1>16. CleanBody'
  <2> SUFFICES ASSUME NEW u \in Scopes, taint[u] = {}, pc[u] = "body"
               PROVE  /\ registry'[u] # NoSession
                      /\ flag'[registry'[u]]
                      /\ stack[u][1].sess = registry'[u]
                      /\ txn'[registry'[u]] # "none"
                      /\ txn'[registry'[u]] = "active" => work'[u] = pending'[registry'[u]]
                      /\ txn'[registry'[u]] = "deactive" => stack[u][1].joined
    BY <1>3 DEF CleanBody
  <2>1. CASE u = t
    <3>1. registry[t] = s
      BY <1>1, <1>5, <2>1 DEF CleanBody, TypeOK
    <3> QED BY <1>1, <1>2, <1>4, <1>5, <1>7, <1>9, <2>1, <3>1 DEF CleanBody, Flagged, TypeOK
  <2>2. CASE u # t
    <3>1. registry[u] \in Sessions /\ registry[u] # s
      BY <1>1, <1>4, <2>2 DEF CleanBody, TypeOK
    <3> QED BY <1>1, <1>5, <1>6, <1>8, <2>2, <3>1 DEF CleanBody
  <2> QED BY <2>1, <2>2
<1>17. CommitOnSuccess' /\ NothingBeforeCommit'
  <2>1. pc[t] = "body" => result[t] = "none"
    BY <1>1 DEF OutermostOwns, PcMatchesStack
  <2>2. \A u \in Scopes : /\ rows \cap db = {}
                          /\ work'[u] = work[u] \/ work'[u] = {} \/ work'[u] = work[u] \cup rows
    BY <1>3, <1>8, <1>9
  <2>3. CommitOnSuccess'
    BY <1>1, <1>3, <1>8, <1>9, <2>1 DEF CommitOnSuccess
  <2>4. NothingBeforeCommit'
    <3> SUFFICES ASSUME NEW u \in Scopes, taint[u] = {}, stack[u] # <<>> \/ result'[u] = "error"
                 PROVE  work'[u] \cap db = {}
      BY <1>3 DEF NothingBeforeCommit
    <3>1. stack[u] # <<>> \/ result[u] = "error"
      BY <1>8, <1>9
    <3> QED BY <1>1, <2>2, <3>1 DEF NothingBeforeCommit
  <2> QED BY <2>3, <2>4
<1> QED BY <1>5, <1>10, <1>11, <1>12, <1>13, <1>14, <1>15, <1>16, <1>17 DEF IInv

LEMMA WriteFailsInv ==
    ASSUME IInv, NEW t \in Scopes, WriteFails(t)
    PROVE  IInv'
<1>1. /\ TypeOK /\ PcMatchesStack /\ PendingHeld /\ PendingFresh
      /\ WorkHeld /\ OutermostOwns /\ SessionsReleased /\ NestedReuse /\ CleanBody
      /\ CommitOnSuccess /\ NothingBeforeCommit
  BY DEF IInv
<1>2. PICK s \in SessionsFor(t) :
        /\ registry' = [registry EXCEPT ![t] = s]
        /\ flag' = [flag EXCEPT ![s] = Flagged(t, s)]
        /\ txn' = [txn EXCEPT ![s] = "deactive"]
        /\ pending' = [pending EXCEPT ![s] = {}]
  BY DEF WriteFails
<1>3. /\ pc[t] # "raising"
      /\ UNCHANGED <<stack, db>>
      /\ IF pc[t] = "body" THEN Throw(t, {}) /\ UNCHANGED <<work, result>>
         ELSE /\ work' = [work EXCEPT ![t] = {}]
              /\ result' = [result EXCEPT ![t] = "none"]
              /\ UNCHANGED <<pc, taint>>
  BY DEF WriteFails
<1>4. /\ s \in Sessions /\ s # NoSession
      /\ \A u \in Scopes : u # t => registry[u] # s
  BY SessionFacts
<1>5. /\ SessionIsolation'
      /\ registry' \in [Scopes -> Sessions \cup {NoSession}]
      /\ flag' \in [Sessions -> BOOLEAN]
      /\ registry'[t] = s
      /\ \A u \in Scopes : u # t => registry'[u] = registry[u]
      /\ \A u \in Scopes : u # t /\ registry[u] # NoSession
                              => flag'[registry[u]] = flag[registry[u]]
      /\ \A x \in Sessions : x # s => registry[t] # x
      /\ stack[t] = <<>> => ~flag'[s]
  BY <1>2, <1>3, WriteShared
<1>6. \A x \in Sessions : x # s => txn'[x] = txn[x] /\ pending'[x] = pending[x]
  BY <1>1, <1>2 DEF TypeOK
<1>7. txn'[s] = "deactive" /\ pending'[s] = {}
  BY <1>1, <1>2, <1>4 DEF TypeOK
<1>8. \A u \in Scopes : u # t => /\ work'[u] = work[u] /\ result'[u] = result[u]
                                 /\ pc'[u] = pc[u] /\ taint'[u] = taint[u]
  BY <1>1, <1>3 DEF Throw, TypeOK
<1>9. /\ work'[t] \in {work[t], {}}
      /\ IF pc[t] = "body" THEN result'[t] = result[t] ELSE result'[t] = "none"
      /\ pc'[t] = "idle" <=> pc[t] = "idle"
      /\ pc'[t] = "body" => taint'[t] # {}
      /\ taint'[t] = {} => taint[t] = {}
  <2>1. CASE pc[t] = "body"
    <3>1. UNCHANGED <<work, result>> /\ Throw(t, {})
      BY <1>3, <2>1
    <3>2. CASE pc' = [pc EXCEPT ![t] = "raising"] /\ taint' = [taint EXCEPT ![t] = @ \cup {}]
      BY <1>1, <2>1, <3>1, <3>2 DEF TypeOK
    <3>3. CASE pc' = [pc EXCEPT ![t] = "body"]
               /\ taint' = [taint EXCEPT ![t] = @ \cup {} \cup {"swallow"}]
      <4>1. pc'[t] = "body" /\ taint'[t] = (taint[t] \cup {}) \cup {"swallow"}
        BY <1>1, <3>3 DEF TypeOK
      <4> QED BY <2>1, <3>1, <4>1
    <3> QED BY <3>1, <3>2, <3>3 DEF Throw
  <2>2. CASE pc[t] # "body"
    BY <1>1, <1>3, <2>2 DEF TypeOK
  <2> QED BY <2>1, <2>2
<1>10. TypeOK'
  <2>1. txn' \in [Sessions -> {"none", "active", "deactive"}]
        /\ pending' \in [Sessions -> SUBSET Writes]
    BY <1>1, <1>2, <1>4 DEF TypeOK
  <2>2. work' \in [Scopes -> SUBSET Writes] /\ result' \in [Scopes -> {"none", "ok", "error"}]
    BY <1>1, <1>3 DEF TypeOK
  <2>3. /\ pc' \in [Scopes -> {"idle", "body", "raising"}]
        /\ taint' \in [Scopes -> SUBSET {"swallow", "lost_ack"}]
    <3>1. CASE UNCHANGED <<pc, taint>>
      BY <1>1, <3>1 DEF TypeOK
    <3>2. CASE Throw(t, {})
      <4>1. pc' \in [Scopes -> {"idle", "body", "raising"}]
        BY <1>1, <3>2 DEF Throw, TypeOK
      <4>2. PICK more \in SUBSET {"swallow", "lost_ack"} : taint' = [taint EXCEPT ![t] = @ \cup more]
        <5>1. CASE taint' = [taint EXCEPT ![t] = @ \cup {}]
          BY <5>1
        <5>2. CASE taint' = [taint EXCEPT ![t] = @ \cup {} \cup {"swallow"}]
          <6>1. taint' = [taint EXCEPT ![t] = @ \cup ({} \cup {"swallow"})]
            BY <1>1, <5>2 DEF TypeOK
          <6> QED BY <6>1
        <5> QED BY <3>2, <5>1, <5>2 DEF Throw
      <4>3. taint' \in [Scopes -> SUBSET {"swallow", "lost_ack"}]
        BY <1>1, <4>2 DEF TypeOK
      <4> QED BY <4>1, <4>3
    <3> QED BY <1>3, <3>1, <3>2
  <2> QED BY <1>1, <1>3, <1>5, <2>1, <2>2, <2>3 DEF TypeOK
<1>11. PcMatchesStack'
  BY <1>1, <1>3, <1>8, <1>9 DEF PcMatchesStack
<1>12. NestedReuse'
  BY <1>1, <1>3, <1>8, <1>9 DEF NestedReuse
<1>13. PendingHeld' /\ PendingFresh'
  BY <1>1, <1>3, <1>5, <1>6, <1>7 DEF PendingHeld, PendingFresh
<1>14. WorkHeld'
  BY <1>1, <1>4, <1>5, <1>6, <1>7, <1>8, <1>9 DEF WorkHeld
<1>15. OutermostOwns'
  <2> SUFFICES ASSUME NEW u \in Scopes
               PROVE  IF stack[u] = <<>>
                      THEN registry'[u] # NoSession => ~flag'[registry'[u]]
                      ELSE Commits(stack[u][1]) /\ result'[u] = "none"
    BY <1>3 DEF OutermostOwns
  <2>1. CASE u = t
    BY <1>1, <1>3, <1>5, <1>9, <2>1 DEF OutermostOwns, PcMatchesStack
  <2>2. CASE u # t
    BY <1>1, <1>5, <1>8, <2>2 DEF OutermostOwns
  <2> QED BY <2>1, <2>2
<1>16. SessionsReleased'
  <2>1. pc[t] = "body" => result[t] = "none"
    BY <1>1 DEF OutermostOwns, PcMatchesStack
  <2> QED BY <1>1, <1>5, <1>8, <1>9, <2>1 DEF SessionsReleased
<1>17. CleanBody'
  <2> SUFFICES ASSUME NEW u \in Scopes, taint'[u] = {}, pc'[u] = "body"
               PROVE  /\ registry'[u] # NoSession
                      /\ flag'[registry'[u]]
                      /\ stack[u][1].sess = registry'[u]
                      /\ txn'[registry'[u]] # "none"
                      /\ txn'[registry'[u]] = "active" => work'[u] = pending'[registry'[u]]
                      /\ txn'[registry'[u]] = "deactive" => stack[u][1].joined
    BY <1>3 DEF CleanBody
  <2>1. u # t
    BY <1>9
  <2>2. registry[u] \in Sessions /\ registry[u] # s
    BY <1>1, <1>4, <1>8, <2>1 DEF CleanBody, TypeOK
  <2> QED BY <1>1, <1>5, <1>6, <1>8, <2>1, <2>2 DEF CleanBody
<1>18. CommitOnSuccess' /\ NothingBeforeCommit'
  <2>1. pc[t] = "body" => result[t] = "none"
    BY <1>1 DEF OutermostOwns, PcMatchesStack
  <2>2. CommitOnSuccess'
    BY <1>1, <1>3, <1>8, <1>9, <2>1 DEF CommitOnSuccess
  <2>3. NothingBeforeCommit'
    BY <1>1, <1>3, <1>8, <1>9, <2>1 DEF NothingBeforeCommit
  <2> QED BY <2>2, <2>3
<1> QED BY <1>5, <1>10, <1>11, <1>12, <1>13, <1>14, <1>15, <1>16, <1>17, <1>18 DEF IInv

-----------------------------------------------------------------------------
\* The theorems

LEMMA InitInv == Init => IInv
<1> SUFFICES ASSUME Init PROVE IInv
  OBVIOUS
<1>1. TypeOK
  BY EmptySeq DEF Init, TypeOK
<1>2. \A t \in Scopes : stack[t] = <<>> /\ DOMAIN stack[t] = {} /\ registry[t] = NoSession
  <2>1. DOMAIN << >> = {}
    OBVIOUS
  <2>2. \A t \in Scopes : stack[t] = <<>> /\ registry[t] = NoSession
    BY DEF Init
  <2> QED BY <2>1, <2>2
<1>3. SessionIsolation /\ NestedReuse
  BY <1>2 DEF SessionIsolation, NestedReuse
<1> QED BY <1>1, <1>2, <1>3 DEF Init, IInv, PcMatchesStack, PendingHeld, PendingFresh,
           WorkHeld, OutermostOwns, SessionsReleased, CleanBody, CommitOnSuccess, NothingBeforeCommit

LEMMA StutterInv ==
    ASSUME IInv, UNCHANGED vars
    PROVE  IInv'
<1>1. UNCHANGED <<registry, flag, txn, pending, stack, pc, db, work, taint, result>>
  BY DEF vars
<1>2. TypeOK' /\ PcMatchesStack' /\ SessionIsolation'
  BY <1>1 DEF IInv, TypeOK, PcMatchesStack, SessionIsolation
<1>3. PendingHeld' /\ PendingFresh' /\ WorkHeld' /\ OutermostOwns'
  BY <1>1 DEF IInv, PendingHeld, PendingFresh, WorkHeld, OutermostOwns
<1>4. NestedReuse' /\ CleanBody'
  BY <1>1 DEF IInv, NestedReuse, CleanBody
<1>5. SessionsReleased' /\ CommitOnSuccess' /\ NothingBeforeCommit'
  BY <1>1 DEF IInv, SessionsReleased, CommitOnSuccess, NothingBeforeCommit
<1> QED BY <1>2, <1>3, <1>4, <1>5 DEF IInv

\* The invariant holds in every reachable state.
THEOREM Invariance == Spec => []IInv
<1>1. IInv /\ [Next]_vars => IInv'
  <2> SUFFICES ASSUME IInv, [Next]_vars PROVE IInv'
    OBVIOUS
  <2>1. CASE UNCHANGED vars
    BY <2>1, StutterInv
  <2>2. ASSUME NEW t \in Scopes,
               \/ Enter(t) \/ ReturnNested(t) \/ ReturnCommit(t) \/ ReturnInactive(t)
               \/ CommitRejected(t) \/ CommitAckLost(t) \/ ExitRaise(t) \/ Raise(t)
               \/ WriteFails(t)
               \/ \E rows \in SUBSET Writes : Write(t, rows)
        PROVE  IInv'
    BY <2>2, EnterInv, ReturnNestedInv, ReturnCommitInv, ReturnInactiveInv, CommitRejectedInv,
       CommitAckLostInv, ExitRaiseInv, RaiseInv, WriteFailsInv, WriteInv
  <2> QED BY <2>1, <2>2 DEF Next
<1> QED BY InitInv, <1>1, PTL DEF Spec

\* The variables keep their types: what the wrappers store is what they read.
THEOREM TypeCorrect == Spec => []TypeOK
BY Invariance, PTL DEF IInv

\* A block that returned, with no error swallowed on the way, has committed
\* all of its rows, those of nested calls included.
THEOREM Committed == Spec => []CommitOnSuccess
BY Invariance, PTL DEF IInv

\* A block that runs, or that raised, has committed none of its rows, with no
\* error swallowed and no answer to a commit lost.
THEOREM RolledBack == Spec => []NothingBeforeCommit
BY Invariance, PTL DEF IInv

\* Together: a block is atomic, for any number of scopes, sessions and rows.
THEOREM Atomicity == Spec => []AllOrNothing
BY Committed, RolledBack, PTL DEF AllOrNothing

\* When an outermost call is over the registry is empty for its scope,
\* whatever happened inside.
THEOREM Released == Spec => []SessionsReleased
BY Invariance, PTL DEF IInv

\* No session is shared between scopes.
THEOREM Isolated == Spec => []SessionIsolation
BY Invariance, PTL DEF IInv

\* Nested calls share the session of the outermost one, which alone commits.
THEOREM Reused == Spec => []NestedReuse
BY Invariance, PTL DEF IInv

\* A session that the registry does not hold has nothing pending and no open
\* transaction: the connection is back in the pool.
THEOREM NothingAbandoned == Spec => []NoAbandonedTransaction
<1>1. IInv => NoAbandonedTransaction
  BY DEF IInv, PendingHeld, NoAbandonedTransaction
<1> QED BY Invariance, <1>1, PTL

\* A session serves the calls of one scope, all of them share it, and the end
\* of the outermost one leaves nothing of it behind.
THEOREM Disciplined == Spec => []SessionDiscipline
BY Isolated, Reused, Released, NothingAbandoned, PTL DEF SessionDiscipline
-----------------------------------------------------------------------------
\* The wrapper implements the abstract block, step by step, when no body swallows
\* an error and no answer to a commit is lost.

\* The abstract state.
Buffer == [t \in Scopes |-> IF registry[t] = NoSession THEN {} ELSE pending[registry[t]]]
Mode == [t \in Scopes |-> IF stack[t] = <<>> THEN "idle" ELSE "open"]
Doomed == [t \in Scopes |-> \/ pc[t] = "raising"
                            \/ registry[t] # NoSession /\ txn[registry[t]] = "deactive"]

Untainted == \A t \in Scopes : taint[t] = {}

LEMMA StaysUntainted ==
    ASSUME Faults = {}
    PROVE  Spec => []Untainted
<1>1. Init => Untainted
  BY DEF Init, Untainted
<1>2. TypeOK /\ Untainted /\ [Next]_vars => Untainted'
  <2> SUFFICES ASSUME TypeOK, Untainted, [Next]_vars PROVE Untainted'
    OBVIOUS
  <2>1. ASSUME NEW t \in Scopes, UNCHANGED taint \/ taint' = [taint EXCEPT ![t] = {}]
                                 \/ taint' = [taint EXCEPT ![t] = @ \cup {}]
        PROVE  Untainted'
    BY <2>1 DEF Untainted, TypeOK
  <2>2. ASSUME NEW t \in Scopes, Throw(t, {}) PROVE Untainted'
    BY <2>1, <2>2 DEF Throw
  <2>3. ASSUME NEW t \in Scopes, LeaveError(t, {}) PROVE Untainted'
    BY <2>1, <2>2, <2>3 DEF LeaveError
  <2>4. ASSUME NEW t \in Scopes, Enter(t) PROVE Untainted'
    BY <2>1, <2>4 DEF Enter
  <2>5. ASSUME NEW t \in Scopes, ReturnNested(t) \/ ReturnCommit(t) \/ ReturnInactive(t)
        PROVE  Untainted'
    BY <2>1, <2>3, <2>5 DEF ReturnNested, ReturnCommit, ReturnInactive, LeaveOk
  <2>6. ASSUME NEW t \in Scopes,
               CommitRejected(t) \/ CommitAckLost(t) \/ ExitRaise(t) \/ Raise(t)
        PROVE  Untainted'
    BY <2>1, <2>3, <2>6 DEF CommitRejected, CommitAckLost, ExitRaise, Raise
  <2>7. ASSUME NEW t \in Scopes, WriteFails(t) \/ \E rows \in SUBSET Writes : Write(t, rows)
        PROVE  Untainted'
    BY <2>1, <2>2, <2>7 DEF WriteFails, Write
  <2>8. CASE UNCHANGED vars
    BY <2>8 DEF vars, Untainted
  <2> QED BY <2>4, <2>5, <2>6, <2>7, <2>8 DEF Next
<1> QED BY <1>1, <1>2, TypeCorrect, PTL DEF Spec

\* A step that concerns the session of one scope leaves the blocks of others alone.
Alone(t) == \A u \in Scopes : u # t =>
    /\ registry'[u] = registry[u] /\ stack'[u] = stack[u] /\ pc'[u] = pc[u]
    /\ registry[u] # NoSession => /\ txn'[registry[u]] = txn[registry[u]]
                                  /\ pending'[registry[u]] = pending[registry[u]]

LEMMA OtherBlocks ==
    ASSUME NEW t \in Scopes, Alone(t)
    PROVE  /\ Buffer' = [Buffer EXCEPT ![t] = Buffer'[t]]
           /\ Mode' = [Mode EXCEPT ![t] = Mode'[t]]
           /\ Doomed' = [Doomed EXCEPT ![t] = Doomed'[t]]
<1>1. Buffer' = [Buffer EXCEPT ![t] = Buffer'[t]]
  <2>1. ASSUME NEW u \in Scopes, u # t PROVE Buffer'[u] = Buffer[u]
    <3>1. CASE registry[u] = NoSession
      BY <2>1, <3>1 DEF Alone, Buffer
    <3>2. CASE registry[u] # NoSession
      BY <2>1, <3>2 DEF Alone, Buffer
    <3> QED BY <3>1, <3>2
  <2> QED BY <2>1 DEF Buffer
<1>2. Mode' = [Mode EXCEPT ![t] = Mode'[t]]
  BY DEF Alone, Mode
<1>3. Doomed' = [Doomed EXCEPT ![t] = Doomed'[t]]
  <2>1. ASSUME NEW u \in Scopes, u # t PROVE Doomed'[u] = Doomed[u]
    <3>1. CASE registry[u] = NoSession
      BY <2>1, <3>1 DEF Alone, Doomed
    <3>2. CASE registry[u] # NoSession
      BY <2>1, <3>2 DEF Alone, Doomed
    <3> QED BY <3>1, <3>2
  <2> QED BY <2>1 DEF Doomed
<1> QED BY <1>1, <1>2, <1>3

\* What a scope's block is.
LEMMA OwnBlock ==
    ASSUME NEW t \in Scopes
    PROVE  /\ Buffer[t] = IF registry[t] = NoSession THEN {} ELSE pending[registry[t]]
           /\ Mode[t] = IF stack[t] = <<>> THEN "idle" ELSE "open"
           /\ Doomed[t] = (\/ pc[t] = "raising"
                           \/ registry[t] # NoSession /\ txn[registry[t]] = "deactive")
           /\ Buffer'[t] = IF registry'[t] = NoSession THEN {} ELSE pending'[registry'[t]]
           /\ Mode'[t] = IF stack'[t] = <<>> THEN "idle" ELSE "open"
           /\ Doomed'[t] = (\/ pc'[t] = "raising"
                            \/ registry'[t] # NoSession /\ txn'[registry'[t]] = "deactive")
BY DEF Buffer, Mode, Doomed

\* The end of a call that settles its session ends no other scope's.
LEMMA SettledAlone ==
    ASSUME IInv, NEW t \in Scopes, pc[t] # "idle", Settle(t, Top(t).sess), Pop(t),
           \A u \in Scopes : u # t => pc'[u] = pc[u]
    PROVE  Alone(t) /\ registry'[t] = NoSession
<1> DEFINE s == Top(t).sess
<1>1. TypeOK /\ SessionIsolation /\ stack[t] # <<>> /\ Len(stack[t]) \in DOMAIN stack[t]
  BY TopFacts DEF IInv
<1>2. \A u \in Scopes : u # t => stack'[u] = stack[u]
  BY <1>1, PopFacts
<1>3. \A u \in Scopes : u # t => registry[u] # s
  BY <1>1 DEF SessionIsolation, Top
<1>4. registry' = [registry EXCEPT ![t] = NoSession]
  BY DEF Settle
<1>5. registry'[t] = NoSession /\ \A u \in Scopes : u # t => registry'[u] = registry[u]
  BY <1>1, <1>4 DEF TypeOK
<1>6. \A x \in Sessions : x # s /\ x # registry[t] => txn'[x] = txn[x] /\ pending'[x] = pending[x]
  BY DEF Settle
<1>7. \A u \in Scopes : u # t /\ registry[u] # NoSession
                          => registry[u] \in Sessions /\ registry[u] # registry[t]
  BY <1>1 DEF TypeOK, SessionIsolation
<1> HIDE DEF s
<1> QED BY <1>2, <1>3, <1>5, <1>6, <1>7 DEF Alone

\* A nested call changes nothing that the abstract block shows.
LEMMA EnterBlock ==
    ASSUME IInv, Untainted, NEW t \in Scopes, Enter(t)
    PROVE  Block!Open(t) \/ UNCHANGED Block!vars
<1>1. /\ TypeOK /\ PcMatchesStack /\ CleanBody
  BY DEF IInv
<1>2. PICK s \in SessionsFor(t) :
        /\ registry' = [registry EXCEPT ![t] = s]
        /\ txn' = [txn EXCEPT ![s] = IF @ = "none" THEN "active" ELSE @]
        /\ stack' = [stack EXCEPT ![t] =
                       Append(@, [sess |-> s, nested |-> Flagged(t, s),
                                  joined |-> txn[s] # "none"])]
        /\ IF stack[t] = <<>>
           THEN result' = [result EXCEPT ![t] = "none"]
           ELSE UNCHANGED result
  BY DEF Enter
<1>3. /\ s \in Sessions /\ s # NoSession
      /\ \A u \in Scopes : u # t => registry[u] # s
      /\ registry[t] # s => registry[t] = NoSession /\ txn[s] = "none" /\ pending[s] = {}
  BY SessionFacts
<1>4. /\ pc[t] # "raising" /\ pc' = [pc EXCEPT ![t] = "body"] /\ UNCHANGED <<pending, db>>
  BY DEF Enter
<1>5. /\ \A u \in Scopes : u # t => stack'[u] = stack[u]
      /\ stack'[t] # <<>>
  <2>1. [sess |-> s, nested |-> Flagged(t, s), joined |-> txn[s] # "none"] \in Frame
    BY <1>1, <1>3 DEF Frame, Flagged, TypeOK
  <2> QED BY <1>1, <1>2, <2>1, PushFacts
<1>6. /\ registry'[t] = s /\ pc'[t] = "body"
      /\ \A u \in Scopes : u # t => registry'[u] = registry[u] /\ pc'[u] = pc[u]
      /\ \A x \in Sessions : x # s => txn'[x] = txn[x]
      /\ txn'[s] = "deactive" <=> txn[s] = "deactive"
  BY <1>1, <1>2, <1>3, <1>4 DEF TypeOK
<1>7. Alone(t)
  BY <1>1, <1>3, <1>4, <1>5, <1>6 DEF Alone, TypeOK
<1>8. Buffer'[t] = Buffer[t] /\ Doomed'[t] = Doomed[t] /\ Mode'[t] = "open"
  <2>1. Mode'[t] = "open"
    BY <1>5, OwnBlock
  <2>2. CASE registry[t] = s
    <3>1. Buffer'[t] = Buffer[t]
      BY <1>3, <1>4, <1>6, <2>2 DEF Buffer
    <3>2. Doomed'[t] = Doomed[t]
      BY <1>3, <1>4, <1>6, <2>2 DEF Doomed
    <3> QED BY <2>1, <3>1, <3>2
  <2>3. CASE registry[t] # s
    <3>1. registry[t] = NoSession /\ txn'[s] # "deactive" /\ pending'[s] = {}
      BY <1>3, <1>4, <1>6, <2>3
    <3>2. Buffer'[t] = {} /\ Buffer[t] = {}
      BY <1>3, <1>6, <3>1, OwnBlock
    <3>3. Doomed'[t] = FALSE /\ Doomed[t] = FALSE
      BY <1>3, <1>4, <1>6, <3>1 DEF Doomed
    <3> QED BY <2>1, <3>2, <3>3
  <2> QED BY <2>2, <2>3
<1>9. Buffer' = Buffer /\ Doomed' = Doomed /\ Mode' = [Mode EXCEPT ![t] = "open"]
  <2>1. Buffer' = [Buffer EXCEPT ![t] = Buffer[t]] /\ Doomed' = [Doomed EXCEPT ![t] = Doomed[t]]
    BY <1>7, <1>8, OtherBlocks
  <2> QED BY <1>7, <1>8, <2>1, OtherBlocks DEF Buffer, Doomed
<1>10. CASE stack[t] = <<>>
  <2>1. Mode[t] = "idle" /\ result' = [result EXCEPT ![t] = "none"]
    BY <1>2, <1>10, OwnBlock
  <2> QED BY <1>4, <1>9, <2>1 DEF Block!Open, Buffer, Mode, Doomed
<1>11. CASE stack[t] # <<>>
  <2>1. Mode[t] = "open" /\ UNCHANGED result
    BY <1>2, <1>11, OwnBlock
  <2>2. Mode' = Mode
    BY <1>9, <2>1 DEF Mode
  <2> QED BY <1>4, <1>9, <2>1, <2>2 DEF Block!vars, Buffer, Mode, Doomed
<1> QED BY <1>10, <1>11

LEMMA ReturnNestedBlock ==
    ASSUME IInv, Untainted, NEW t \in Scopes, ReturnNested(t)
    PROVE  UNCHANGED Block!vars
<1>1. TypeOK /\ pc[t] = "body" /\ Len(stack[t]) # 1 /\ stack[t] # <<>>
  BY TopFacts DEF ReturnNested, IInv
<1>2. UNCHANGED <<txn, pending, registry>>
  BY TopFacts DEF IInv, CleanBody, ReturnNested, Untainted
<1>3. Pop(t) /\ UNCHANGED <<pc, result, db>>
  BY <1>1 DEF ReturnNested, LeaveOk
<1>4. \A u \in Scopes : stack'[u] = <<>> <=> stack[u] = <<>>
  BY <1>1, <1>3, PopFacts
<1>5. Mode' = Mode
  BY <1>4 DEF Mode
<1> QED BY <1>2, <1>3, <1>5 DEF Block!vars, Buffer, Mode, Doomed

\* A block that ends with an error gives up all it wrote.
LEMMA AbortBlock ==
    ASSUME IInv, NEW t \in Scopes, pc[t] # "idle", Len(stack[t]) = 1,
           Settle(t, Top(t).sess), LeaveError(t, {}), UNCHANGED db
    PROVE  Block!Abort(t)
<1>1. TypeOK /\ stack[t] # <<>>
  BY TopFacts DEF IInv
<1>2. /\ Pop(t) /\ pc'[t] = "idle"
      /\ \A u \in Scopes : u # t => pc'[u] = pc[u]
  BY <1>1, LeaveErrorFacts
<1>3. result' = [result EXCEPT ![t] = "error"]
  BY DEF LeaveError
<1>4. Alone(t) /\ registry'[t] = NoSession /\ stack'[t] = <<>>
  BY <1>1, <1>2, SettledAlone, PopFacts
<1>5. Mode[t] = "open" /\ Buffer'[t] = {} /\ Mode'[t] = "idle" /\ Doomed'[t] = FALSE
  BY <1>1, <1>2, <1>4, OwnBlock
<1>6. /\ Buffer' = [Buffer EXCEPT ![t] = {}]
      /\ Mode' = [Mode EXCEPT ![t] = "idle"]
      /\ Doomed' = [Doomed EXCEPT ![t] = FALSE]
  BY <1>4, <1>5, OtherBlocks
<1> QED BY <1>3, <1>5, <1>6 DEF Block!Abort, Buffer, Mode, Doomed

\* The one step by which rows become durable: all of the block's.
LEMMA ReturnCommitBlock ==
    ASSUME IInv, Untainted, NEW t \in Scopes, ReturnCommit(t)
    PROVE  Block!Commit(t)
<1>1. /\ TypeOK /\ stack[t] # <<>> /\ Len(stack[t]) = 1 /\ pc[t] = "body"
      /\ Top(t).sess = registry[t] /\ registry[t] # NoSession
  BY TopFacts DEF IInv, Untainted, CleanBody, ReturnCommit
<1>2. /\ txn[registry[t]] = "active" /\ db' = db \cup pending[registry[t]]
      /\ Settle(t, Top(t).sess) /\ Pop(t)
      /\ pc' = [pc EXCEPT ![t] = "idle"] /\ result' = [result EXCEPT ![t] = "ok"]
  BY <1>1 DEF ReturnCommit, LeaveOk
<1>3. pc'[t] = "idle" /\ \A u \in Scopes : u # t => pc'[u] = pc[u]
  BY <1>1, <1>2 DEF TypeOK
<1>4. Alone(t) /\ registry'[t] = NoSession /\ stack'[t] = <<>>
  BY <1>1, <1>2, <1>3, SettledAlone, PopFacts
<1>5. /\ Mode[t] = "open" /\ Doomed[t] = FALSE /\ Buffer[t] = pending[registry[t]]
      /\ Buffer'[t] = {} /\ Mode'[t] = "idle" /\ Doomed'[t] = FALSE
  BY <1>1, <1>2, <1>3, <1>4, OwnBlock
<1>6. /\ Buffer' = [Buffer EXCEPT ![t] = {}]
      /\ Mode' = [Mode EXCEPT ![t] = "idle"]
      /\ Doomed' = [Doomed EXCEPT ![t] = FALSE]
  BY <1>4, <1>5, OtherBlocks
<1>7. Doomed' = Doomed
  BY <1>5, <1>6 DEF Doomed
<1> QED BY <1>2, <1>5, <1>6, <1>7 DEF Block!Commit, Buffer, Mode, Doomed

LEMMA ReturnInactiveBlock ==
    ASSUME IInv, Untainted, NEW t \in Scopes, ReturnInactive(t)
    PROVE  Block!Abort(t)
<1>1. /\ TypeOK /\ Len(stack[t]) = 1 /\ pc[t] = "body"
      /\ Top(t) = stack[t][1] /\ Top(t).sess = registry[t] /\ registry[t] \in Sessions
  BY TopFacts DEF IInv, Untainted, CleanBody, ReturnInactive, TypeOK
<1>2. Top(t).joined /\ txn[Top(t).sess] = "deactive"
  BY <1>1 DEF IInv, Untainted, CleanBody, ReturnInactive, TypeOK
<1> QED BY <1>1, <1>2, AbortBlock DEF ReturnInactive

\* An error on its way out dooms the block until its outermost call has failed.
LEMMA ExitRaiseBlock ==
    ASSUME Faults = {}, IInv, NEW t \in Scopes, ExitRaise(t)
    PROVE  Block!Abort(t) \/ Block!Doom(t)
<1>1. /\ TypeOK /\ stack[t] # <<>> /\ pc[t] = "raising"
      /\ Settle(t, Top(t).sess) /\ LeaveError(t, {}) /\ UNCHANGED db
  BY TopFacts DEF IInv, ExitRaise
<1>2. CASE Len(stack[t]) = 1
  BY <1>1, <1>2, AbortBlock
<1>3. CASE Len(stack[t]) # 1
  <2>1. Pop(t) /\ pc' = [pc EXCEPT ![t] = "raising"] /\ UNCHANGED result
    BY <1>1, <1>3 DEF LeaveError, Throw
  <2>2. pc'[t] = "raising" /\ \A u \in Scopes : u # t => pc'[u] = pc[u]
    BY <1>1, <2>1 DEF TypeOK
  <2>3. Alone(t) /\ registry'[t] = NoSession /\ stack'[t] # <<>>
    BY <1>1, <1>3, <2>1, <2>2, SettledAlone, PopFacts
  <2>4. Mode'[t] = Mode[t] /\ Buffer'[t] = {} /\ Doomed'[t] = TRUE
    BY <1>1, <2>2, <2>3, OwnBlock
  <2>5. /\ Buffer' = [Buffer EXCEPT ![t] = {}] /\ Doomed' = [Doomed EXCEPT ![t] = TRUE]
        /\ Mode' = [Mode EXCEPT ![t] = Mode[t]]
    BY <2>3, <2>4, OtherBlocks
  <2>6. Mode' = Mode
    BY <2>5 DEF Mode
  <2> QED BY <1>1, <2>1, <2>5, <2>6 DEF Block!Doom, Buffer, Mode, Doomed
<1> QED BY <1>2, <1>3

LEMMA RaiseBlock ==
    ASSUME IInv, NEW t \in Scopes, Raise(t)
    PROVE  Block!Doom(t)
<1>1. /\ TypeOK /\ pc' = [pc EXCEPT ![t] = "raising"]
      /\ UNCHANGED <<registry, txn, pending, stack, db, result>>
  BY DEF IInv, Raise
<1>2. pc'[t] = "raising" /\ Alone(t)
  BY <1>1 DEF TypeOK, Alone
<1>3. UNCHANGED <<Buffer, Mode>>
  BY <1>1 DEF Buffer, Mode
<1>4. Doomed' = [Doomed EXCEPT ![t] = TRUE]
  BY <1>2, OtherBlocks, OwnBlock
<1>5. Buffer' = [Buffer EXCEPT ![t] = Buffer[t]]
  BY <1>3 DEF Buffer
<1> QED BY <1>1, <1>3, <1>4, <1>5 DEF Block!Doom, Buffer, Mode, Doomed

LEMMA WriteBlock ==
    ASSUME IInv, NEW t \in Scopes, NEW rows \in SUBSET Writes, Write(t, rows)
    PROVE  Block!Issue(t, rows)
<1>1. TypeOK /\ PcMatchesStack
  BY DEF IInv
<1>2. PICK s \in SessionsFor(t) :
        /\ txn[s] # "deactive"
        /\ registry' = [registry EXCEPT ![t] = s]
        /\ txn' = [txn EXCEPT ![s] = "active"]
        /\ pending' = [pending EXCEPT ![s] = @ \cup rows]
  BY DEF Write
<1>3. /\ pc[t] # "raising" /\ rows \cap db = {}
      /\ \A x \in Sessions : rows \cap pending[x] = {}
      /\ UNCHANGED <<stack, pc, db>>
      /\ UNCHANGED result \/ (pc[t] # "body" /\ result' = [result EXCEPT ![t] = "none"])
  BY DEF Write
<1>4. /\ s \in Sessions /\ s # NoSession
      /\ \A u \in Scopes : u # t => registry[u] # s
      /\ registry[t] # s => registry[t] = NoSession /\ txn[s] = "none" /\ pending[s] = {}
  BY SessionFacts
<1>5. /\ registry'[t] = s /\ txn'[s] = "active" /\ pending'[s] = pending[s] \cup rows
      /\ \A u \in Scopes : u # t => registry'[u] = registry[u]
      /\ \A x \in Sessions : x # s => txn'[x] = txn[x] /\ pending'[x] = pending[x]
  BY <1>1, <1>2, <1>4 DEF TypeOK
<1>6. Alone(t)
  BY <1>1, <1>3, <1>4, <1>5 DEF Alone, TypeOK
<1>7. /\ Buffer'[t] = Buffer[t] \cup rows /\ Doomed[t] = FALSE /\ Doomed'[t] = FALSE
      /\ Mode'[t] = Mode[t]
      /\ pc[t] # "body" => Mode[t] = "idle"
  <2>1. pc[t] # "body" => stack[t] = <<>>
    BY <1>1, <1>3 DEF TypeOK, PcMatchesStack
  <2>2. Buffer'[t] = Buffer[t] \cup rows
    <3>1. CASE registry[t] = s
      BY <1>4, <1>5, <3>1 DEF Buffer
    <3>2. CASE registry[t] # s
      BY <1>4, <1>5, <3>2, OwnBlock
    <3> QED BY <3>1, <3>2
  <2>3. Doomed[t] = FALSE
    BY <1>2, <1>3, <1>4 DEF Doomed
  <2>4. Doomed'[t] = FALSE
    BY <1>3, <1>5 DEF Doomed
  <2>5. Mode'[t] = Mode[t]
    BY <1>3, OwnBlock
  <2> QED BY <2>1, <2>2, <2>3, <2>4, <2>5, OwnBlock
<1>8. \A u \in Scopes : rows \cap Buffer[u] = {}
  BY <1>1, <1>3 DEF TypeOK, Buffer
<1>9. /\ Buffer' = [Buffer EXCEPT ![t] = Buffer[t] \cup rows]
      /\ Doomed' = [Doomed EXCEPT ![t] = FALSE]
  BY <1>6, <1>7, OtherBlocks
<1>10. Doomed' = Doomed /\ Mode' = Mode
  BY <1>3, <1>7, <1>9 DEF Doomed, Mode
<1> QED BY <1>3, <1>7, <1>8, <1>9, <1>10 DEF Block!Issue, Buffer, Mode, Doomed

LEMMA WriteFailsBlock ==
    ASSUME Faults = {}, IInv, NEW t \in Scopes, WriteFails(t)
    PROVE  Block!Doom(t)
<1>1. TypeOK /\ PcMatchesStack
  BY DEF IInv
<1>2. PICK s \in SessionsFor(t) :
        /\ registry' = [registry EXCEPT ![t] = s]
        /\ txn' = [txn EXCEPT ![s] = "deactive"]
        /\ pending' = [pending EXCEPT ![s] = {}]
  BY DEF WriteFails
<1>3. /\ pc[t] # "raising" /\ UNCHANGED <<stack, db>>
      /\ \/ pc[t] = "body" /\ pc' = [pc EXCEPT ![t] = "raising"] /\ UNCHANGED result
         \/ pc[t] # "body" /\ UNCHANGED pc /\ result' = [result EXCEPT ![t] = "none"]
  BY DEF WriteFails, Throw
<1>4. /\ s \in Sessions /\ s # NoSession
      /\ \A u \in Scopes : u # t => registry[u] # s
  BY SessionFacts
<1>5. /\ registry'[t] = s /\ txn'[s] = "deactive" /\ pending'[s] = {}
      /\ \A u \in Scopes : u # t => registry'[u] = registry[u] /\ pc'[u] = pc[u]
      /\ \A x \in Sessions : x # s => txn'[x] = txn[x] /\ pending'[x] = pending[x]
  BY <1>1, <1>2, <1>3, <1>4 DEF TypeOK
<1>6. Alone(t)
  BY <1>1, <1>3, <1>4, <1>5 DEF Alone, TypeOK
<1>7. /\ Buffer'[t] = {} /\ Doomed'[t] = TRUE
      /\ pc[t] # "body" => Mode[t] = "idle"
  <2>1. pc[t] # "body" => stack[t] = <<>>
    BY <1>1, <1>3 DEF TypeOK, PcMatchesStack
  <2> QED BY <1>4, <1>5, <2>1, OwnBlock
<1>8. /\ Buffer' = [Buffer EXCEPT ![t] = {}] /\ Doomed' = [Doomed EXCEPT ![t] = TRUE]
  BY <1>6, <1>7, OtherBlocks
<1>9. Mode' = Mode
  BY <1>3 DEF Mode
<1> QED BY <1>3, <1>7, <1>8, <1>9 DEF Block!Doom, Buffer, Mode, Doomed

\* The wrapper around bodies that let errors pass implements an atomic block: what a
\* function and the calls nested in it write becomes durable in one step, when the
\* outermost call returns, or not at all, for any number of scopes, sessions and rows
\* and any depth.
THEOREM Implementation ==
    ASSUME Faults = {}
    PROVE  Spec => ImplementsBlock
<1>1. Init => Block!Init
  <2> SUFFICES ASSUME Init PROVE Block!Init
    OBVIOUS
  <2>1. /\ db = {} /\ result = [t \in Scopes |-> "none"]
        /\ \A t \in Scopes : registry[t] = NoSession /\ stack[t] = <<>> /\ pc[t] = "idle"
    BY DEF Init
  <2>2. /\ Buffer = [t \in Scopes |-> {}] /\ Mode = [t \in Scopes |-> "idle"]
        /\ Doomed = [t \in Scopes |-> FALSE]
    BY <2>1 DEF Buffer, Mode, Doomed
  <2> QED BY <2>1, <2>2 DEF Block!Init, Buffer, Mode, Doomed
<1>2. IInv /\ Untainted /\ [Next]_vars => [Block!Next]_(Block!vars)
  <2> SUFFICES ASSUME IInv, Untainted, [Next]_vars
               PROVE  Block!Next \/ UNCHANGED Block!vars
    OBVIOUS
  <2>1. CASE UNCHANGED vars
    BY <2>1 DEF vars, Block!vars
  <2>2. ASSUME NEW t \in Scopes,
               \/ Enter(t) \/ ReturnNested(t) \/ ReturnCommit(t) \/ ReturnInactive(t)
               \/ ExitRaise(t) \/ Raise(t) \/ WriteFails(t)
        PROVE  Block!Next \/ UNCHANGED Block!vars
    BY <2>2, EnterBlock, ReturnNestedBlock, ReturnCommitBlock, ReturnInactiveBlock,
       ExitRaiseBlock, RaiseBlock, WriteFailsBlock DEF Block!Next
  <2>3. ASSUME NEW t \in Scopes, CommitRejected(t)
        PROVE  Block!Next
    <3>1. pc[t] # "idle" /\ Len(stack[t]) = 1
      BY <2>3, TopFacts DEF CommitRejected, Untainted
    <3>2. Block!Abort(t)
      BY <2>3, <3>1, AbortBlock DEF CommitRejected
    <3> QED BY <3>2 DEF Block!Next
  <2>4. ASSUME NEW t \in Scopes, CommitAckLost(t) PROVE FALSE
    BY <2>4 DEF CommitAckLost
  <2>5. ASSUME NEW t \in Scopes, NEW rows \in SUBSET Writes, Write(t, rows)
        PROVE  Block!Next
    BY <2>5, WriteBlock DEF Block!Next
  <2> QED BY <2>1, <2>2, <2>3, <2>4, <2>5 DEF Next
<1> QED BY <1>1, <1>2, Invariance, StaysUntainted, PTL DEF Spec, ImplementsBlock, Block!Spec

-----------------------------------------------------------------------------
\* ManagerRegistry

\* What is assumed of the constants of the registries.
LEMMA RegistryFit ==
    /\ Unchecked \subseteq Registries
    /\ Base \notin Registries
    /\ None \notin Threads \cup Customs \cup R!Defaults
    /\ Unset \notin Customs \cup R!Defaults \cup {None}
    /\ Customs \cap R!Defaults = {}
    /\ MaxFailures \in Nat
BY RegistryAssumption DEF R!ConstantsFit

\* The slot of the base class exists and never holds a default manager.
BaseSlot == slot[Base] # Unset /\ slot[Base] \notin R!Defaults

\* The lock protects the second test and the constructor.
Mutex == \A t \in Threads : at[t] \in {"recheck", "construct", "release"} => lock = t

\* A constructor has succeeded once if there is an instance, and never if not.
BuiltOnce == \A r \in Registries :
                 \/ instances[r] = None /\ built[r] = 0
                 \/ instances[r] = R!Default(r, 1) /\ built[r] = 1

\* Only the getters of the databases get past the first test of the slot.
InDatabase == \A t \in Threads :
                  at[t] \in R!Steps \ {"idle", "check", "read"} => reg[t] \in Registries

\* What each step of the metaclass knows of the instance of its class.
Progress ==
    \A t \in Threads :
        /\ at[t] = "construct" => instances[reg[t]] = None
        /\ at[t] \in {"release", "fetch", "publish"} => instances[reg[t]] # None
        /\ at[t] = "publish" => obj[t] = instances[reg[t]]

\* A default manager in a slot or in a result is the instance of its class.
Slots == \A r \in Registries : slot[r] \in R!Defaults => slot[r] = instances[r]
Results == \A t \in Threads : got[t] \in R!Defaults =>
               reg[t] \in Registries /\ got[t] = instances[reg[t]]

\* A thread about to read the slot finds a manager unless it was cleared.
Filled == \A t \in Threads :
              at[t] = "read" /\ ~cleared[t] => R!Lookup(reg[t]) # None

\* A custom manager in the slot of a call that is past its test was set since.
Overtaken == \A t \in Threads :
    slot[reg[t]] \in Customs /\ at[t] \notin {"idle", "check", "read"} => outrun[t]

RegistryIInv == /\ R!TypeOK /\ BaseSlot /\ Mutex /\ BuiltOnce /\ InDatabase /\ Progress
                /\ Slots /\ Results /\ Filled /\ R!NoneOnlyIfCleared /\ Overtaken

-----------------------------------------------------------------------------
\* The initial state satisfies the invariant.
LEMMA RegistryInitially == R!Init => RegistryIInv
BY RegistryFit
DEF R!Init, RegistryIInv, R!TypeOK, BaseSlot, Mutex, BuiltOnce, InDatabase, Progress, Slots,
    Results, Filled, R!NoneOnlyIfCleared, Overtaken, R!Lookup, R!Classes, R!Steps

\* Every step preserves the types.
LEMMA RegistryTypesPreserved ==
    R!TypeOK /\ InDatabase /\ Progress /\ [R!Next]_(R!vars) => R!TypeOK'
<1> SUFFICES ASSUME R!TypeOK, InDatabase, Progress, [R!Next]_(R!vars) PROVE R!TypeOK'
    OBVIOUS
<1> USE RegistryFit DEF R!TypeOK, R!Steps, R!Classes, R!Goto
<1>1. ASSUME NEW t \in Threads, NEW c \in R!Classes, R!Call(t, c) PROVE R!TypeOK'
      BY <1>1 DEF R!Call
<1>2. ASSUME NEW t \in Threads, R!Check(t) PROVE R!TypeOK'
      BY <1>2 DEF R!Check, R!Fail
<1>3. ASSUME NEW t \in Threads, R!FirstTest(t) PROVE R!TypeOK'
      BY <1>3 DEF R!FirstTest
<1>4. ASSUME NEW t \in Threads, R!Acquire(t) PROVE R!TypeOK'
      BY <1>4 DEF R!Acquire
<1>5. ASSUME NEW t \in Threads, R!SecondTest(t) PROVE R!TypeOK'
      BY <1>5 DEF R!SecondTest
<1>6. ASSUME NEW t \in Threads, R!Construct(t) PROVE R!TypeOK'
  <2>1. reg[t] \in Registries
        BY <1>6 DEF R!Construct, InDatabase
  <2>2. R!Default(reg[t], built[reg[t]] + 1) \in R!Defaults
        BY <2>1 DEF R!Default, R!Defaults
  <2> QED BY <1>6, <2>1, <2>2 DEF R!Construct
<1>7. ASSUME NEW t \in Threads, R!ConstructFails(t) PROVE R!TypeOK'
      BY <1>7 DEF R!ConstructFails, R!Fail
<1>8. ASSUME NEW t \in Threads, R!Release(t) PROVE R!TypeOK'
      BY <1>8 DEF R!Release
<1>9. ASSUME NEW t \in Threads, R!Fetch(t) PROVE R!TypeOK'
      BY <1>9 DEF R!Fetch, InDatabase
<1>10. ASSUME NEW t \in Threads, R!Publish(t) PROVE R!TypeOK'
      BY <1>10 DEF R!Publish, Progress
<1>11. ASSUME NEW t \in Threads, R!Read(t) PROVE R!TypeOK'
      BY <1>11 DEF R!Read, R!Lookup
<1>12. ASSUME NEW c \in R!Classes, R!Reset(c) PROVE R!TypeOK'
      BY <1>12 DEF R!Reset, R!Clear
<1>13. ASSUME NEW c \in R!Classes, NEW m \in Customs \cup {None}, R!Set(c, m) PROVE R!TypeOK'
  <2>1. slot' \in [R!Classes -> Customs \cup R!Defaults \cup {None, Unset}]
        BY <1>13 DEF R!Set
  <2>2. cleared' \in [Threads -> BOOLEAN]
    <3>1. CASE m = None
      <4>1. R!Clear(c)
            BY <1>13, <3>1, Zenon DEF R!Set
      <4> QED BY <4>1 DEF R!Clear
    <3>2. CASE m # None
          BY <1>13, <3>2 DEF R!Set
    <3> QED BY <3>1, <3>2
  <2>3. outrun' \in [Threads -> BOOLEAN]
    <3>1. CASE m = None
          BY <1>13, <3>1 DEF R!Set
    <3>2. CASE m # None
      <4>1. R!Outrun(c)
            BY <1>13, <3>2, Zenon DEF R!Set
      <4> QED BY <4>1 DEF R!Outrun
    <3> QED BY <3>1, <3>2
  <2> QED BY <1>13, <2>1, <2>2, <2>3 DEF R!Set
<1>14. CASE UNCHANGED R!vars
      BY <1>14 DEF R!vars
<1> QED BY <1>1, <1>2, <1>3, <1>4, <1>5, <1>6, <1>7, <1>8, <1>9, <1>10, <1>11,
           <1>12, <1>13, <1>14 DEF R!Next, R!Proceed

\* Every step preserves what the threads know of the lock and the instances.
LEMMA LockPreserved ==
    RegistryIInv /\ [R!Next]_(R!vars) => Mutex' /\ BuiltOnce' /\ InDatabase' /\ Progress'
<1> SUFFICES ASSUME RegistryIInv, [R!Next]_(R!vars)
             PROVE Mutex' /\ BuiltOnce' /\ InDatabase' /\ Progress'
    OBVIOUS
<1> DEFINE Goal == Mutex' /\ BuiltOnce' /\ InDatabase' /\ Progress'
<1> USE RegistryFit DEF RegistryIInv, R!TypeOK, Mutex, BuiltOnce, InDatabase, Progress,
        R!Steps, R!Classes, R!Goto
<1>1. ASSUME NEW t \in Threads, NEW c \in R!Classes, R!Call(t, c) PROVE Goal
      BY <1>1 DEF R!Call
<1>2. ASSUME NEW t \in Threads, R!Check(t) PROVE Goal
      BY <1>2 DEF R!Check, R!Fail
<1>3. ASSUME NEW t \in Threads, R!FirstTest(t) PROVE Goal
      BY <1>3 DEF R!FirstTest
<1>4. ASSUME NEW t \in Threads, R!Acquire(t) PROVE Goal
      BY <1>4 DEF R!Acquire
<1>5. ASSUME NEW t \in Threads, R!SecondTest(t) PROVE Goal
      BY <1>5 DEF R!SecondTest
<1>6. ASSUME NEW t \in Threads, R!Construct(t) PROVE Goal
  <2>1. reg[t] \in Registries /\ instances[reg[t]] = None /\ built[reg[t]] = 0
        BY <1>6 DEF R!Construct, R!Default, R!Defaults
  <2>2. instances' = [instances EXCEPT ![reg[t]] = R!Default(reg[t], 1)]
        BY <1>6, <2>1 DEF R!Construct
  <2>3. R!Default(reg[t], 1) # None
        BY <2>1 DEF R!Default, R!Defaults
  <2>4. BuiltOnce'
        BY <1>6, <2>1, <2>2 DEF R!Construct
  <2>5. Mutex' /\ InDatabase'
        BY <1>6 DEF R!Construct
  <2>6. ASSUME NEW u \in Threads, u # t
        PROVE ~(at[u] = "construct") /\ at'[u] = at[u] /\ at'[t] = "release"
        BY <1>6, <2>6 DEF R!Construct
  <2>7. Progress'
        BY <1>6, <2>1, <2>2, <2>3, <2>6 DEF R!Construct
  <2> QED BY <2>4, <2>5, <2>7
<1>7. ASSUME NEW t \in Threads, R!ConstructFails(t) PROVE Goal
      BY <1>7 DEF R!ConstructFails, R!Fail
<1>8. ASSUME NEW t \in Threads, R!Release(t) PROVE Goal
      BY <1>8 DEF R!Release
<1>9. ASSUME NEW t \in Threads, R!Fetch(t) PROVE Goal
      BY <1>9 DEF R!Fetch
<1>10. ASSUME NEW t \in Threads, R!Publish(t) PROVE Goal
      BY <1>10 DEF R!Publish
<1>11. ASSUME NEW t \in Threads, R!Read(t) PROVE Goal
      BY <1>11 DEF R!Read
<1>12. ASSUME NEW c \in R!Classes, R!Reset(c) PROVE Goal
      BY <1>12 DEF R!Reset
<1>13. ASSUME NEW c \in R!Classes, NEW m \in Customs \cup {None}, R!Set(c, m) PROVE Goal
      BY <1>13 DEF R!Set
<1>14. CASE UNCHANGED R!vars
      BY <1>14 DEF R!vars
<1> QED BY <1>1, <1>2, <1>3, <1>4, <1>5, <1>6, <1>7, <1>8, <1>9, <1>10, <1>11,
           <1>12, <1>13, <1>14 DEF R!Next, R!Proceed

\* Every step preserves what slots and results say of the instances.
LEMMA ManagersPreserved ==
    RegistryIInv /\ R!TypeOK' /\ BuiltOnce' /\ [R!Next]_(R!vars)
        => BaseSlot' /\ Slots' /\ Results'
<1> SUFFICES ASSUME RegistryIInv, R!TypeOK', BuiltOnce', [R!Next]_(R!vars)
             PROVE BaseSlot' /\ Slots' /\ Results'
    OBVIOUS
<1> DEFINE Goal == BaseSlot' /\ Slots' /\ Results'
<1> USE RegistryFit DEF RegistryIInv, R!TypeOK, BaseSlot, Slots, Results, R!Classes, R!Goto
<1>1. ASSUME NEW t \in Threads, NEW c \in R!Classes, R!Call(t, c) PROVE Goal
      BY <1>1 DEF R!Call
<1>2. ASSUME NEW t \in Threads, R!Check(t) PROVE Goal
      BY <1>2 DEF R!Check, R!Fail
<1>3. ASSUME NEW t \in Threads, R!FirstTest(t) PROVE Goal
      BY <1>3 DEF R!FirstTest
<1>4. ASSUME NEW t \in Threads, R!Acquire(t) PROVE Goal
      BY <1>4 DEF R!Acquire
<1>5. ASSUME NEW t \in Threads, R!SecondTest(t) PROVE Goal
      BY <1>5 DEF R!SecondTest
<1>6. ASSUME NEW t \in Threads, R!Construct(t) PROVE Goal
  <2>1. reg[t] \in Registries /\ instances[reg[t]] = None
        BY <1>6 DEF R!Construct, InDatabase, Progress, R!Steps
  <2>2. \A r \in Registries : slot[r] \in R!Defaults => r # reg[t]
        BY <2>1
  <2>3. \A u \in Threads : got[u] \in R!Defaults => reg[u] # reg[t]
        BY <2>1
  <2> QED BY <1>6, <2>1, <2>2, <2>3 DEF R!Construct
<1>7. ASSUME NEW t \in Threads, R!ConstructFails(t) PROVE Goal
      BY <1>7 DEF R!ConstructFails, R!Fail
<1>8. ASSUME NEW t \in Threads, R!Release(t) PROVE Goal
      BY <1>8 DEF R!Release
<1>9. ASSUME NEW t \in Threads, R!Fetch(t) PROVE Goal
      BY <1>9 DEF R!Fetch
<1>10. ASSUME NEW t \in Threads, R!Publish(t) PROVE Goal
      BY <1>10 DEF R!Publish, InDatabase, Progress, R!Steps
<1>11. ASSUME NEW t \in Threads, R!Read(t) PROVE Goal
      BY <1>11 DEF R!Read, R!Lookup
<1>12. ASSUME NEW c \in R!Classes, R!Reset(c) PROVE Goal
      BY <1>12 DEF R!Reset
<1>13. ASSUME NEW c \in R!Classes, NEW m \in Customs \cup {None}, R!Set(c, m) PROVE Goal
      BY <1>13 DEF R!Set
<1>14. CASE UNCHANGED R!vars
      BY <1>14 DEF R!vars
<1> QED BY <1>1, <1>2, <1>3, <1>4, <1>5, <1>6, <1>7, <1>8, <1>9, <1>10, <1>11,
           <1>12, <1>13, <1>14 DEF R!Next, R!Proceed

\* Every step preserves that an unfilled slot was cleared.
LEMMA FilledPreserved ==
    RegistryIInv /\ [R!Next]_(R!vars) => Filled' /\ R!NoneOnlyIfCleared'
<1> SUFFICES ASSUME RegistryIInv, [R!Next]_(R!vars) PROVE Filled' /\ R!NoneOnlyIfCleared'
    OBVIOUS
<1> DEFINE Goal == Filled' /\ R!NoneOnlyIfCleared'
<1> USE RegistryFit DEF RegistryIInv, R!TypeOK, BaseSlot, Filled, R!NoneOnlyIfCleared,
        R!Lookup, R!Classes, R!Goto
<1>1. ASSUME NEW t \in Threads, NEW c \in R!Classes, R!Call(t, c) PROVE Goal
      BY <1>1 DEF R!Call
<1>2. ASSUME NEW t \in Threads, R!Check(t) PROVE Goal
      BY <1>2 DEF R!Check, R!Fail
<1>3. ASSUME NEW t \in Threads, R!FirstTest(t) PROVE Goal
      BY <1>3 DEF R!FirstTest
<1>4. ASSUME NEW t \in Threads, R!Acquire(t) PROVE Goal
      BY <1>4 DEF R!Acquire
<1>5. ASSUME NEW t \in Threads, R!SecondTest(t) PROVE Goal
      BY <1>5 DEF R!SecondTest
<1>6. ASSUME NEW t \in Threads, R!Construct(t) PROVE Goal
      BY <1>6 DEF R!Construct
<1>7. ASSUME NEW t \in Threads, R!ConstructFails(t) PROVE Goal
      BY <1>7 DEF R!ConstructFails, R!Fail
<1>8. ASSUME NEW t \in Threads, R!Release(t) PROVE Goal
      BY <1>8 DEF R!Release
<1>9. ASSUME NEW t \in Threads, R!Fetch(t) PROVE Goal
      BY <1>9 DEF R!Fetch
<1>10. ASSUME NEW t \in Threads, R!Publish(t) PROVE Goal
  <2>1. reg[t] \in Registries /\ obj[t] \in R!Defaults
        BY <1>10 DEF R!Publish, InDatabase, Progress, R!Steps
  <2>2. slot' = [slot EXCEPT ![reg[t]] = obj[t]]
        BY <1>10 DEF R!Publish
  <2>3. \A c \in R!Classes : R!Lookup(c) # None => R!Lookup(c)' # None
        BY <2>1, <2>2
  <2>4. R!Lookup(reg[t])' # None
        BY <1>10, <2>1, <2>2 DEF R!Publish
  <2> QED BY <1>10, <2>3, <2>4 DEF R!Publish
<1>11. ASSUME NEW t \in Threads, R!Read(t) PROVE Goal
      BY <1>11 DEF R!Read
<1>12. ASSUME NEW c \in R!Classes, R!Reset(c) PROVE Goal
      BY <1>12 DEF R!Reset, R!Clear
<1>13. ASSUME NEW c \in R!Classes, NEW m \in Customs \cup {None}, R!Set(c, m) PROVE Goal
  <2>1. CASE m = None
    <3>1. R!Clear(c)
          BY <1>13, <2>1, Zenon DEF R!Set
    <3> QED BY <1>13, <2>1, <3>1 DEF R!Set, R!Clear
  <2>2. CASE m # None
        BY <1>13, <2>2 DEF R!Set
  <2> QED BY <2>1, <2>2
<1>14. CASE UNCHANGED R!vars
      BY <1>14 DEF R!vars
<1> QED BY <1>1, <1>2, <1>3, <1>4, <1>5, <1>6, <1>7, <1>8, <1>9, <1>10, <1>11,
           <1>12, <1>13, <1>14 DEF R!Next, R!Proceed

-----------------------------------------------------------------------------
\* Every step preserves that a slot found empty is set by hand only meanwhile.
LEMMA OvertakenPreserved == RegistryIInv /\ R!TypeOK' /\ [R!Next]_(R!vars) => Overtaken'
<1> SUFFICES ASSUME RegistryIInv, R!TypeOK', [R!Next]_(R!vars) PROVE Overtaken'
    OBVIOUS
<1> USE RegistryFit DEF RegistryIInv, R!TypeOK, Overtaken, R!Classes, R!Goto
<1>1. ASSUME NEW t \in Threads, NEW c \in R!Classes, R!Call(t, c) PROVE Overtaken'
      BY <1>1 DEF R!Call
<1>2. ASSUME NEW t \in Threads, R!Check(t) PROVE Overtaken'
      BY <1>2 DEF R!Check, R!Fail, R!Lookup
<1>3. ASSUME NEW t \in Threads, R!FirstTest(t) PROVE Overtaken'
      BY <1>3 DEF R!FirstTest
<1>4. ASSUME NEW t \in Threads, R!Acquire(t) PROVE Overtaken'
      BY <1>4 DEF R!Acquire
<1>5. ASSUME NEW t \in Threads, R!SecondTest(t) PROVE Overtaken'
      BY <1>5 DEF R!SecondTest
<1>6. ASSUME NEW t \in Threads, R!Construct(t) PROVE Overtaken'
      BY <1>6 DEF R!Construct
<1>7. ASSUME NEW t \in Threads, R!ConstructFails(t) PROVE Overtaken'
      BY <1>7 DEF R!ConstructFails, R!Fail
<1>8. ASSUME NEW t \in Threads, R!Release(t) PROVE Overtaken'
      BY <1>8 DEF R!Release
<1>9. ASSUME NEW t \in Threads, R!Fetch(t) PROVE Overtaken'
      BY <1>9 DEF R!Fetch
<1>10. ASSUME NEW t \in Threads, R!Publish(t) PROVE Overtaken'
      BY <1>10 DEF R!Publish
<1>11. ASSUME NEW t \in Threads, R!Read(t) PROVE Overtaken'
      BY <1>11 DEF R!Read
<1>12. ASSUME NEW c \in R!Classes, R!Reset(c) PROVE Overtaken'
      BY <1>12 DEF R!Reset
<1>13. ASSUME NEW c \in R!Classes, NEW m \in Customs \cup {None}, R!Set(c, m) PROVE Overtaken'
  <2>1. CASE m = None
        BY <1>13, <2>1 DEF R!Set
  <2>2. CASE m # None
    <3>1. R!Outrun(c)
          BY <1>13, <2>2, Zenon DEF R!Set
    <3> QED BY <1>13, <3>1 DEF R!Set, R!Outrun
  <2> QED BY <2>1, <2>2
<1>14. CASE UNCHANGED R!vars
      BY <1>14 DEF R!vars
<1> QED BY <1>1, <1>2, <1>3, <1>4, <1>5, <1>6, <1>7, <1>8, <1>9, <1>10, <1>11,
           <1>12, <1>13, <1>14 DEF R!Next, R!Proceed

-----------------------------------------------------------------------------
\* The invariant holds in every reachable state.
THEOREM RegistryInvariance == R!Spec => []RegistryIInv
<1>1. R!Init => RegistryIInv
      BY RegistryInitially
<1>2. RegistryIInv /\ [R!Next]_(R!vars) => RegistryIInv'
  <2> SUFFICES ASSUME RegistryIInv, [R!Next]_(R!vars) PROVE RegistryIInv'
      OBVIOUS
  <2>1. R!TypeOK'
        BY RegistryTypesPreserved DEF RegistryIInv
  <2>2. Mutex' /\ BuiltOnce' /\ InDatabase' /\ Progress'
        BY LockPreserved
  <2>3. BaseSlot' /\ Slots' /\ Results'
        BY <2>1, <2>2, ManagersPreserved
  <2>4. Filled' /\ R!NoneOnlyIfCleared'
        BY FilledPreserved
  <2>5. Overtaken'
        BY <2>1, OvertakenPreserved
  <2> QED BY <2>1, <2>2, <2>3, <2>4, <2>5 DEF RegistryIInv
<1> QED BY <1>1, <1>2, PTL DEF R!Spec

\* Every variable keeps its type.
THEOREM RegistryTypeCorrect == R!Spec => []RegistryType
<1>1. RegistryIInv => RegistryType
      BY DEF RegistryIInv, RegistryType
<1> QED BY <1>1, RegistryInvariance, PTL

\* The getter of a registry returns None only if its slot was cleared.
THEOREM NoneCleared == R!Spec => []R!NoneOnlyIfCleared
<1>1. RegistryIInv => R!NoneOnlyIfCleared
      BY DEF RegistryIInv
<1> QED BY <1>1, RegistryInvariance, PTL

\* The result of a getter is the instance of the getter's own class.
LEMMA OwnResults == RegistryIInv => R!OwnDefault
<1> SUFFICES ASSUME RegistryIInv, NEW t \in Threads, got[t] \in R!Defaults
             PROVE got[t].registry = reg[t]
    BY DEF R!OwnDefault
<1>1. reg[t] \in Registries /\ got[t] = instances[reg[t]]
      BY DEF RegistryIInv, Results
<1>2. instances[reg[t]] = R!Default(reg[t], 1)
      BY <1>1, RegistryFit DEF RegistryIInv, BuiltOnce
<1> QED BY <1>1, <1>2 DEF R!Default

\* The default manager of one database is never handed out by another's registry.
THEOREM DefaultsSeparate == R!Spec => []R!OwnDefault
BY RegistryInvariance, OwnResults, PTL

\* Singleton with its registries: there is one default manager per database,
\* whatever threads race for it, fail to build it or reset the registry.
THEOREM OneDefault == R!Spec => []OneManager
<1>1. RegistryIInv => OneManager
  <2> SUFFICES ASSUME RegistryIInv PROVE OneManager
      OBVIOUS
  <2> USE RegistryFit DEF RegistryIInv, R!TypeOK, R!Classes
  <2>1. \A r \in Registries : instances[r] \in R!Defaults => instances[r].registry = r
        BY DEF BuiltOnce, R!Default
  <2>2. \A r \in Registries : built[r] <= 1
        BY DEF BuiltOnce
  <2>3. \A t \in Threads : got[t] \in R!Defaults => got[t] = instances[got[t].registry]
        BY <2>1 DEF Results
  <2>4. \A c \in R!Classes : slot[c] \in R!Defaults => slot[c] = instances[slot[c].registry]
        BY <2>1 DEF Slots, BaseSlot
  <2> QED BY <2>2, <2>3, <2>4, OwnResults DEF OneManager, R!OneManager, RegistryIInv
<1> QED BY <1>1, RegistryInvariance, PTL

\* A manager that the application set is replaced by a default one only by a
\* call that found the slot empty before.
THEOREM CustomStays == R!Spec => CustomKept
<1>1. RegistryIInv /\ [R!Next]_(R!vars) =>
         [\A r \in Registries : slot[r] \in Customs /\ slot'[r] \in R!Defaults
            => \E t \in Threads : at[t] = "publish" /\ reg[t] = r /\ outrun[t]]_(R!vars)
  <2> SUFFICES ASSUME RegistryIInv, R!Next, NEW r \in Registries, slot[r] \in Customs,
                      slot'[r] \in R!Defaults
               PROVE \E t \in Threads : at[t] = "publish" /\ reg[t] = r /\ outrun[t]
      BY DEF R!vars
  <2> USE RegistryFit DEF RegistryIInv, R!TypeOK, R!Classes
  <2>1. slot'[r] # slot[r]
        OBVIOUS
  <2>2. ASSUME NEW c \in R!Classes, R!Reset(c) PROVE FALSE
        BY <2>2, <2>1 DEF R!Reset, R!Defaults, R!Default
  <2>3. ASSUME NEW c \in R!Classes, NEW m \in Customs \cup {None}, R!Set(c, m) PROVE FALSE
        BY <2>3, <2>1 DEF R!Set
  <2>4. ASSUME NEW t \in Threads, NEW c \in R!Classes, R!Call(t, c) PROVE FALSE
        BY <2>4, <2>1 DEF R!Call
  <2>5. PICK t \in Threads : R!Publish(t)
        BY <2>1, <2>2, <2>3, <2>4
        DEF R!Next, R!Proceed, R!Check, R!FirstTest, R!Acquire, R!SecondTest, R!Construct,
            R!ConstructFails, R!Release, R!Fetch, R!Read
  <2>6. at[t] = "publish" /\ reg[t] = r
        BY <2>1, <2>5 DEF R!Publish
  <2> QED BY <2>6 DEF Overtaken
<1> QED BY <1>1, RegistryInvariance, PTL DEF R!Spec, CustomKept, R!CustomKept
=============================================================================

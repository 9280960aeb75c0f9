-------------------------- MODULE Temporal_proofs ---------------------------
(***************************************************************************)
(* Proofs about the Temporal adapter.                                      *)
(*                                                                         *)
(* TemporalActivity: for any number of attempts, calls and worker          *)
(* processes, every kind of activity and every fault, what is reported of  *)
(* the activity agrees with the database, and its retries repeat nothing   *)
(* that was done where the code can prevent it.                            *)
(*                                                                         *)
(* TemporalWorkers: for any number of tasks, workers and calls, whatever   *)
(* times out, is cancelled or fails, the manager forgets no worker that    *)
(* was not told to shut down, if the settings leave workers time for it,   *)
(* and a shutdown that was not cancelled has told every worker of its      *)
(* snapshot, or says that it failed to.                                    *)
(***************************************************************************)
EXTENDS TemporalActivity, MCTemporalWorkers, FiniteSetTheorems, WellFoundedInduction, TLAPS

\* The rows of the first n calls, whether any row of an attempt is durable, and
\* whether one is of an attempt that did not return None.
Done(a, n) == {<<a, i>> : i \in 1..n}
Wrote(a) == Rows(a) \cap db # {}
Counted(a) == Wrote(a) /\ a \notin empty

\* An attempt that was not handed out, or has not come to its body, has done nothing.
Fresh(a) ==
    /\ a > last => stage[a] = "none"
    /\ stage[a] \in {"none", "before", "lookup"} => calls[a] = 0 /\ open[a] = {} /\ ~Wrote(a)
    /\ stage[a] # "none" => a <= last /\ process[a] \in Processes

\* In the body, its rows are durable at once, or all of them wait.
Writing(a) ==
    stage[a] = "body" =>
        /\ calls[a] < MaxCalls
        /\ Scope = "logic" => open[a] = {} /\ Done(a, calls[a]) \subseteq db
        /\ Scope # "logic" => open[a] = Done(a, calls[a]) /\ ~Wrote(a)

\* After the body all of them are durable or, in the whole scope, none.
Written(a) ==
    stage[a] \in {"store", "after"} =>
        /\ Scope # "whole" => open[a] = {} /\ Rows(a) \subseteq db
        /\ Scope = "whole" => open[a] = Rows(a) /\ ~Wrote(a)

\* An attempt ends with a result, its own or a cached one.
Ending(a) ==
    /\ stage[a] = "after" => returns[a] = a
    /\ stage[a] = "end" =>
          /\ returns[a] # 0
          /\ Scope # "whole" => open[a] = {}
          /\ Scope = "whole" => ~Wrote(a) /\ open[a] \in {{}, Rows(a)}
          /\ Scope = "whole" /\ ~Cacheable => open[a] = Rows(a) /\ returns[a] = a
    /\ stage[a] = "over" => open[a] = {}

\* What an attempt left behind.
Left(a) ==
    /\ Scope # "logic" => Rows(a) \subseteq db \/ ~Wrote(a)
    /\ reported[a] # "none" => stage[a] = "over"
    /\ Scope = "whole" /\ reported[a] = "error" /\ a \notin unsure => ~Wrote(a)
    /\ Scope # "whole" /\ returns[a] # 0 => Rows(returns[a]) \subseteq db

Attempt(a) == Fresh(a) /\ Writing(a) /\ Written(a) /\ Ending(a) /\ Left(a)

\* Results that others may get: their rows are durable, but in the whole scope.
Given ==
    /\ Scope # "whole" => \A k \in Keys : cache[k] # 0 => Rows(cache[k]) \subseteq db
    /\ task = "completed" /\ ~(Scope = "whole" /\ Cacheable) => Rows(answer) \subseteq db

\* While nothing is lost, the server knows the attempt that runs; in the whole scope
\* rows become durable with its report, and in the inner one its result, unless it is
\* None, is cached before it can be reported, so that no later attempt with its key
\* runs the body.
Once ==
    ~disturbed =>
        /\ \A a \in Attempts : stage[a] \in Stages => current = a
        /\ Scope = "whole" =>
              \A a \in Attempts : Wrote(a) =>
                 /\ task = "completed" /\ current = 0
                 /\ \A b \in Attempts : Wrote(b) => a = b
        /\ Scope = "inner" /\ Cacheable =>
              \A a \in Attempts : Counted(a) =>
                 /\ stage[a] = "store" \/ cache[KeyOf(a)] # 0
                 /\ \A b \in Attempts \ {a} :
                       Counted(b) \/ stage[b] = "body" => KeyOf(a) # KeyOf(b)

IInv == TypeOK /\ (\A a \in Attempts : Attempt(a)) /\ Given /\ Once

-----------------------------------------------------------------------------
LEMMA Kinds == ASSUME TypeOK PROVE Scope \in {"logic", "inner", "whole"}
BY ConstantsAssumption DEF TypeOK, Scope

LEMMA DoneRows ==
    ASSUME NEW a
    PROVE  /\ Done(a, 0) = {} /\ Done(a, MaxCalls) = Rows(a)
           /\ \A n \in 0..MaxCalls : Done(a, n) \subseteq Rows(a)
           /\ \A n \in Nat : Done(a, n) \cup {<<a, n + 1>>} = Done(a, n + 1)
<1>1. Done(a, 0) = {}
      BY DEF Done
<1>2. Done(a, MaxCalls) = Rows(a)
      BY DEF Done, Rows, Calls
<1>3. ASSUME NEW n \in 0..MaxCalls PROVE Done(a, n) \subseteq Rows(a)
  <2>1. 1..n \subseteq 1..MaxCalls
        BY ConstantsAssumption
  <2> QED BY <2>1 DEF Done, Rows, Calls
<1>4. ASSUME NEW n \in Nat PROVE Done(a, n) \cup {<<a, n + 1>>} = Done(a, n + 1)
  <2>1. 1..(n + 1) = 1..n \cup {n + 1}
        OBVIOUS
  <2> QED BY <2>1 DEF Done
<1> QED BY <1>1, <1>2, <1>3, <1>4

LEMMA RowsExist ==
    ASSUME NEW a PROVE Rows(a) # {} /\ (a \in Attempts => Rows(a) \subseteq Attempts \X Calls)
<1>1. 1 \in Calls
      BY ConstantsAssumption DEF Calls
<1>2. <<a, 1>> \in Rows(a)
      BY <1>1 DEF Rows
<1>3. a \in Attempts => Rows(a) \subseteq Attempts \X Calls
      BY DEF Rows
<1> QED BY <1>2, <1>3

\* Rows of one attempt are not rows of another.
LEMMA Apart ==
    ASSUME NEW a, NEW b, a # b, db \subseteq db', db' \subseteq db \cup Rows(a)
    PROVE  Wrote(b)' <=> Wrote(b)
<1>1. \A x \in Rows(a) : x \notin Rows(b)
      BY DEF Rows
<1>2. Rows(b)' = Rows(b)
      BY DEF Rows
<1> QED BY <1>1, <1>2 DEF Wrote

\* Whoever has rows was handed out, and has a key.
LEMMA KeyKnown ==
    ASSUME TypeOK, NEW a \in Attempts, Attempt(a), stage[a] # "none" \/ Wrote(a)
    PROVE  KeyOf(a) \in Keys /\ a <= last
<1>1. stage[a] # "none"
      BY DEF Attempt, Fresh
<1> QED BY <1>1 DEF Attempt, Fresh, KeyOf, Keys

-----------------------------------------------------------------------------
\* A step of attempt a leaves the other attempts where they were; of the rows, only
\* its own become durable.
Elsewhere(a) ==
    /\ UNCHANGED <<setup, process, last>>
    /\ db \subseteq db' /\ db' \subseteq db \cup Rows(a)
    /\ empty \subseteq empty' /\ empty' \subseteq empty \cup {a}
    /\ \A b \in Attempts \ {a} :
          /\ stage'[b] = stage[b] /\ calls'[b] = calls[b] /\ open'[b] = open[b]
          /\ returns'[b] = returns[b] /\ reported'[b] = reported[b]
          /\ b \in unsure' <=> b \in unsure

LEMMA Kind ==
    ASSUME setup' = setup
    PROVE  Scope' = Scope /\ (Cacheable' <=> Cacheable)
BY DEF Scope, Cacheable

LEMMA Others ==
    ASSUME \A b \in Attempts : Attempt(b), NEW a \in Attempts, Elsewhere(a), Attempt(a)'
    PROVE  (\A b \in Attempts : Attempt(b))'
<1> SUFFICES ASSUME NEW b \in Attempts, b # a PROVE Attempt(b)'
    BY DEF Attempts
<1>1. /\ stage'[b] = stage[b] /\ calls'[b] = calls[b] /\ open'[b] = open[b]
      /\ returns'[b] = returns[b] /\ reported'[b] = reported[b]
      /\ b \in unsure' <=> b \in unsure
      /\ process'[b] = process[b] /\ last' = last /\ db \subseteq db'
      BY DEF Elsewhere
<1>2. Wrote(b)' <=> Wrote(b)
      BY Apart DEF Elsewhere
<1>3. /\ Scope' = Scope /\ (Cacheable' <=> Cacheable)
      /\ Rows(b)' = Rows(b) /\ Rows(returns[b])' = Rows(returns[b])
      BY Kind DEF Elsewhere, Rows
<1>4. Fresh(b)'
      BY <1>1, <1>2 DEF Attempt, Fresh
<1>5. Writing(b)'
      BY <1>1, <1>2, <1>3 DEF Attempt, Writing, Done
<1>6. Written(b)'
      BY <1>1, <1>2, <1>3 DEF Attempt, Written
<1>7. Ending(b)'
      BY <1>1, <1>2, <1>3 DEF Attempt, Ending
<1>8. Left(b)'
      BY <1>1, <1>2, <1>3 DEF Attempt, Left
<1> QED BY <1>4, <1>5, <1>6, <1>7, <1>8 DEF Attempt

\* Rows that are durable stay so.
LEMMA GivenStays ==
    ASSUME Given, NEW a, Elsewhere(a),
           Scope # "whole" => \A k \in Keys :
              cache'[k] # 0 => cache'[k] = cache[k] \/ Rows(cache'[k]) \subseteq db',
           task' = "completed" =>
              \/ task = "completed" /\ answer' = answer
              \/ ~(Scope = "whole" /\ Cacheable) => Rows(answer') \subseteq db'
    PROVE  Given'
<1>1. db \subseteq db' /\ Scope' = Scope /\ (Cacheable' <=> Cacheable) /\ Keys' = Keys
      BY Kind DEF Elsewhere, Keys
<1>2. \A x : Rows(x)' = Rows(x)
      BY DEF Rows
<1>3. ASSUME Scope # "whole", NEW k \in Keys, cache'[k] # 0 PROVE Rows(cache'[k]) \subseteq db'
      BY <1>1, <1>3 DEF Given
<1>4. ASSUME task' = "completed", ~(Scope = "whole" /\ Cacheable)
      PROVE  Rows(answer') \subseteq db'
      BY <1>1, <1>4 DEF Given
<1> QED BY <1>1, <1>3, <1>4 DEF Given, Rows

\* The step of a running attempt, seen from the others while nothing is lost.
LEMMA OnceStays ==
    ASSUME IInv, TypeOK', NEW a \in Attempts, stage[a] \in Stages, Elsewhere(a),
           ~disturbed' => ~disturbed,
           stage'[a] \in Stages => current' = current,
           \A k \in Keys : cache[k] # 0 => cache'[k] # 0,
           ~disturbed' /\ stage[a] = "store" =>
              stage'[a] = "store" \/ a \in empty' \/ (Cacheable => cache'[KeyOf(a)] # 0),
           stage'[a] = "body" =>
              stage[a] = "body" \/ (Cacheable => cache[KeyOf(a)] = 0),
           Wrote(a)' =>
              \/ Wrote(a)
              \/ /\ Scope = "whole" => task' = "completed" /\ current' = 0
                 /\ Scope = "inner" => stage[a] = "body" /\ stage'[a] = "store"
    PROVE  Once'
<1> SUFFICES ASSUME ~disturbed' PROVE Once'
    BY DEF Once
<1>1. /\ Scope' = Scope /\ (Cacheable' <=> Cacheable)
      /\ \A b : KeyOf(b)' = KeyOf(b)
      BY Kind DEF Elsewhere, KeyOf
<1>2. \A b \in Attempts \ {a} : /\ stage'[b] = stage[b]
                                /\ Wrote(b)' <=> Wrote(b)
                                /\ Counted(b)' <=> Counted(b)
      BY Apart DEF Elsewhere, Counted
<1>3. current = a /\ a # 0 /\ \A b \in Attempts \ {a} : stage[b] \notin Stages
      BY DEF IInv, Once, Attempts
<1>4. \A b \in Attempts : stage'[b] \in Stages => current' = b
      BY <1>2, <1>3
<1>5. ASSUME Scope = "whole", NEW b \in Attempts, Wrote(b)'
      PROVE  /\ task' = "completed" /\ current' = 0
             /\ \A b2 \in Attempts : Wrote(b2)' => b = b2
  <2>1. \A x \in Attempts : ~Wrote(x)
        BY <1>3, <1>5 DEF IInv, Once
  <2> QED BY <1>2, <1>5, <2>1
<1>6. ASSUME Scope = "inner", Cacheable, NEW b \in Attempts, Counted(b)'
      PROVE  /\ stage'[b] = "store" \/ cache'[KeyOf(b)] # 0
             /\ \A b2 \in Attempts \ {b} :
                   Counted(b2)' \/ stage'[b2] = "body" => KeyOf(b) # KeyOf(b2)
  <2>1. \A x \in Attempts : Counted(x) =>
           /\ stage[x] = "store" \/ cache[KeyOf(x)] # 0
           /\ \A y \in Attempts \ {x} : Counted(y) \/ stage[y] = "body" => KeyOf(x) # KeyOf(y)
        BY <1>6 DEF IInv, Once
  <2>2. \A x \in Attempts : Counted(x) => KeyOf(x) \in Keys
        BY KeyKnown DEF IInv, Counted
  <2>3. "store" \in Stages /\ "body" \in Stages
        BY DEF Stages
  <2>0. Counted(a)' => a \notin empty' /\ (Counted(a) \/ (stage[a] = "body" /\ stage'[a] = "store"))
    <3>1. empty \subseteq empty'
          BY DEF Elsewhere
    <3>2. Counted(a)' <=> Wrote(a)' /\ a \notin empty'
          BY DEF Counted
    <3>3. Counted(a) <=> Wrote(a) /\ a \notin empty
          BY DEF Counted
    <3>4. Wrote(a)' => Wrote(a) \/ (stage[a] = "body" /\ stage'[a] = "store")
          BY <1>6
    <3> QED BY <3>1, <3>2, <3>3, <3>4
  <2>4. CASE b # a
    <3>1. Counted(b)
          BY <1>2, <1>6, <2>4
    <3>2. cache[KeyOf(b)] # 0 /\ cache'[KeyOf(b)] # 0
          BY <1>3, <2>1, <2>2, <2>3, <2>4, <3>1
    <3>3. ASSUME NEW y \in Attempts \ {b}, y # a, Counted(y)' \/ stage'[y] = "body"
          PROVE  KeyOf(b) # KeyOf(y)
          BY <1>2, <2>1, <3>1, <3>3
    <3>4. ASSUME Counted(a)' \/ stage'[a] = "body" PROVE KeyOf(b) # KeyOf(a)
      <4>1. CASE Counted(a) \/ stage[a] = "body"
            BY <2>1, <2>4, <3>1, <4>1
      <4>2. CASE ~(Counted(a) \/ stage[a] = "body")
            BY <1>6, <2>0, <3>2, <3>4, <4>2
      <4> QED BY <4>1, <4>2
    <3> QED BY <3>2, <3>3, <3>4
  <2>5. CASE b = a
    <3>1. ASSUME NEW y \in Attempts \ {a}, Counted(y)' \/ stage'[y] = "body"
          PROVE  KeyOf(a) # KeyOf(y)
      <4>1. Counted(y)
            BY <1>2, <1>3, <2>3, <3>1
      <4>2. CASE Counted(a)
            BY <2>1, <4>1, <4>2
      <4>3. CASE ~Counted(a)
            BY <1>6, <2>0, <2>1, <2>5, <4>1, <4>3
      <4> QED BY <4>2, <4>3
    <3>2. stage'[a] = "store" \/ cache'[KeyOf(a)] # 0
      <4>1. CASE ~Counted(a)
            BY <1>6, <2>0, <2>5, <4>1
      <4>2. CASE Counted(a) /\ stage[a] = "store"
            BY <1>6, <2>0, <2>5, <4>2
      <4>3. CASE Counted(a) /\ stage[a] # "store"
            BY <2>1, <2>2, <4>3
      <4> QED BY <4>1, <4>2, <4>3
    <3> QED BY <2>5, <3>1, <3>2
  <2> QED BY <2>4, <2>5
<1>7. (\A b \in Attempts : stage[b] \in Stages => current = b)'
      BY <1>4 DEF Attempts, Stages
<1>8. (Scope = "whole" => \A b \in Attempts : Wrote(b) =>
          /\ task = "completed" /\ current = 0
          /\ \A b2 \in Attempts : Wrote(b2) => b = b2)'
      BY <1>1, <1>5 DEF Attempts
<1>9. (Scope = "inner" /\ Cacheable => \A b \in Attempts : Counted(b) =>
          /\ stage[b] = "store" \/ cache[KeyOf(b)] # 0
          /\ \A b2 \in Attempts \ {b} :
                Counted(b2) \/ stage[b2] = "body" => KeyOf(b) # KeyOf(b2))'
      BY <1>1, <1>6 DEF Attempts
<1> QED BY <1>7, <1>8, <1>9 DEF Once

-----------------------------------------------------------------------------
\* The steps of an attempt

LEMMA BeginKeeps == ASSUME IInv, NEW a \in Attempts, Begin(a) PROVE IInv'
<1>1. /\ stage[a] = "before" /\ stage' = [stage EXCEPT ![a] = "lookup"]
      /\ UNCHANGED <<setup, process, dead, calls, open, db, cache, returns, empty, current, last, task,
                     answer, reported, unsure, disturbed>>
      BY DEF Begin, Go, hosts, server
<1>2. TypeOK'
      BY <1>1 DEF IInv, TypeOK, Stages, Keys
<1>3. stage'[a] = "lookup" /\ \A b \in Attempts \ {a} : stage'[b] = stage[b]
      BY <1>1 DEF IInv, TypeOK
<1>4. Elsewhere(a)
      BY <1>1, <1>3 DEF Elsewhere
<1>5. Attempt(a)'
      BY <1>1, <1>3 DEF IInv, Attempt, Fresh, Writing, Written, Ending, Left, Wrote, Rows, Scope
<1>6. Given'
      BY <1>1, <1>4, GivenStays DEF IInv
<1>7. Once'
  <2>1. stage[a] \in Stages /\ (Wrote(a)' => Wrote(a))
        BY <1>1 DEF Stages, Wrote, Rows
  <2> QED BY <1>1, <1>2, <1>3, <1>4, <2>1, OnceStays
<1> QED BY <1>2, <1>4, <1>5, <1>6, <1>7, Others DEF IInv

LEMMA LookupKeeps == ASSUME IInv, NEW a \in Attempts, Lookup(a) PROVE IInv'
<1> DEFINE hit == Cacheable /\ cache[KeyOf(a)] # 0
<1>1. /\ stage[a] = "lookup"
      /\ UNCHANGED <<setup, process, dead, calls, open, db, cache, empty, current, last, task,
                     answer, reported, unsure, disturbed>>
      /\ hit => /\ stage' = [stage EXCEPT ![a] = "end"]
                /\ returns' = [returns EXCEPT ![a] = cache[KeyOf(a)]]
      /\ ~hit => stage' = [stage EXCEPT ![a] = "body"] /\ returns' = returns
      BY DEF Lookup, Go, hosts, server
<1>2. KeyOf(a) \in Keys
      BY <1>1, KeyKnown DEF IInv
<1> HIDE DEF hit
<1>3. TypeOK'
  <2>1. stage' \in [Attempts -> Stages \cup {"none", "over"}]
        BY <1>1 DEF IInv, TypeOK, Stages
  <2>2. returns' \in [Attempts -> 0..MaxAttempts]
        BY <1>1, <1>2 DEF IInv, TypeOK
  <2> QED BY <1>1, <2>1, <2>2 DEF IInv, TypeOK
<1>4. /\ hit => stage'[a] = "end" /\ returns'[a] = cache[KeyOf(a)]
      /\ ~hit => stage'[a] = "body" /\ returns'[a] = returns[a]
      /\ \A b \in Attempts \ {a} : stage'[b] = stage[b] /\ returns'[b] = returns[b]
      BY <1>1 DEF IInv, TypeOK
<1>5. Elsewhere(a)
      BY <1>1, <1>4 DEF Elsewhere
<1>6. calls[a] = 0 /\ open[a] = {} /\ ~Wrote(a) /\ (~Wrote(a))'
      BY <1>1 DEF IInv, Attempt, Fresh, Wrote, Rows
<1>7. Attempt(a)'
  <2>1. CASE hit
    <3>1. Fresh(a)' /\ Writing(a)' /\ Written(a)' /\ Ending(a)'
          BY <1>1, <1>4, <1>6, <2>1 DEF hit, IInv, Attempt, Fresh, Writing, Written, Ending,
                                        Scope, Cacheable
    <3>2. Scope # "whole" => Rows(cache[KeyOf(a)]) \subseteq db
          BY <1>2, <2>1 DEF hit, IInv, Given
    <3>3. Left(a)'
          BY <1>1, <1>4, <1>6, <2>1, <3>2 DEF IInv, Attempt, Left, Scope, Rows
    <3> QED BY <3>1, <3>3 DEF Attempt
  <2>2. CASE ~hit
    <3>1. 0 < MaxCalls /\ Done(a, 0) = {} /\ Done(a, 0)' = {}
          BY ConstantsAssumption, DoneRows DEF Done
    <3>2. Fresh(a)' /\ Written(a)' /\ Ending(a)'
          BY <1>1, <1>4, <1>6, <2>2 DEF IInv, Attempt, Fresh, Written, Ending
    <3>3. Writing(a)'
          BY <1>1, <1>4, <1>6, <2>2, <3>1 DEF Writing
    <3>4. Left(a)'
          BY <1>1, <1>4, <1>6, <2>2 DEF IInv, Attempt, Left, Scope, Rows
    <3> QED BY <3>2, <3>3, <3>4 DEF Attempt
  <2> QED BY <2>1, <2>2
<1>8. Given'
      BY <1>1, <1>5, GivenStays DEF IInv
<1>9. Once'
  <2>1. /\ stage[a] \in Stages /\ stage[a] # "store"
        /\ stage'[a] = "body" => (Cacheable => cache[KeyOf(a)] = 0)
        BY <1>1, <1>4 DEF hit, Stages
  <2> QED BY <1>1, <1>3, <1>5, <1>6, <2>1, OnceStays
<1> QED BY <1>3, <1>5, <1>7, <1>8, <1>9, Others DEF IInv

LEMMA CallKeeps == ASSUME IInv, NEW a \in Attempts, Call(a) PROVE IInv'
<1> DEFINE n == calls[a] + 1
           rows == open[a] \cup {<<a, n>>}
<1>1. /\ stage[a] = "body" /\ calls' = [calls EXCEPT ![a] = @ + 1]
      /\ UNCHANGED <<setup, process, dead, cache, returns, empty, current, last, task, answer, reported,
                     unsure, disturbed>>
      /\ CommitsAt(a, "body") => db' = db \cup rows /\ open' = [open EXCEPT ![a] = {}]
      /\ ~CommitsAt(a, "body") => db' = db /\ open' = [open EXCEPT ![a] = rows]
      /\ stage' = [stage EXCEPT ![a] = IF n = MaxCalls THEN "store" ELSE "body"]
      BY DEF Call, Go, hosts, server
<1>2. /\ calls[a] \in Nat /\ n \in Nat /\ calls[a] < MaxCalls /\ n <= MaxCalls /\ n \in 0..MaxCalls
      /\ Scope = "logic" => open[a] = {} /\ Done(a, calls[a]) \subseteq db
      /\ Scope # "logic" => open[a] = Done(a, calls[a]) /\ ~Wrote(a)
      BY <1>1, ConstantsAssumption DEF IInv, TypeOK, Attempt, Writing
<1>3. Done(a, calls[a]) \cup {<<a, n>>} = Done(a, n) /\ Done(a, n) \subseteq Rows(a)
      BY <1>2, DoneRows
<1>4. /\ rows \subseteq Rows(a)
      /\ Scope # "logic" => rows = Done(a, n)
      /\ Scope = "logic" => rows \cup Done(a, calls[a]) = Done(a, n)
      BY <1>2, <1>3
<1>5. /\ Scope = "logic" => CommitsAt(a, "body")
      /\ Scope = "inner" => (CommitsAt(a, "body") <=> n = MaxCalls)
      /\ Scope = "whole" => ~CommitsAt(a, "body")
      BY DEF CommitsAt
<1>6. /\ calls'[a] = n
      /\ CommitsAt(a, "body") => open'[a] = {}
      /\ ~CommitsAt(a, "body") => open'[a] = rows
      /\ n = MaxCalls => stage'[a] = "store"
      /\ n # MaxCalls => stage'[a] = "body"
      /\ \A b \in Attempts \ {a} :
            stage'[b] = stage[b] /\ calls'[b] = calls[b] /\ open'[b] = open[b]
      BY <1>1 DEF IInv, TypeOK
<1> HIDE DEF rows
<1>7. TypeOK'
  <2>1. /\ stage' \in [Attempts -> Stages \cup {"none", "over"}]
        /\ calls' \in [Attempts -> 0..MaxCalls]
        BY <1>1, <1>2 DEF IInv, TypeOK, Stages
  <2>2. rows \subseteq Attempts \X Calls
        BY <1>4, RowsExist
  <2>3. db' \in SUBSET (Attempts \X Calls) /\ open' \in [Attempts -> SUBSET (Attempts \X Calls)]
        BY <1>1, <2>2 DEF IInv, TypeOK
  <2> QED BY <1>1, <2>1, <2>3 DEF IInv, TypeOK
<1>8. Elsewhere(a)
      BY <1>1, <1>4, <1>6 DEF Elsewhere
<1>9. /\ Rows(a)' = Rows(a) /\ Done(a, MaxCalls) = Rows(a)
      /\ Scope' = Scope /\ (Cacheable' <=> Cacheable)
      BY <1>1, DoneRows DEF Rows, Scope, Cacheable
<1>10. Attempt(a)'
  <2>1. Fresh(a)' /\ Ending(a)'
        BY <1>1, <1>6 DEF IInv, Attempt, Fresh, Ending
  <2>2. Writing(a)'
    <3> SUFFICES ASSUME n # MaxCalls PROVE Writing(a)'
        BY <1>6 DEF Writing
    <3>1. calls'[a] < MaxCalls /\ Done(a, calls[a])' = Done(a, n)
      <4>1. n < MaxCalls
            BY <1>2, ConstantsAssumption
      <4>2. Done(a, calls[a])' = {<<a, i>> : i \in 1..n}
            BY <1>6 DEF Done
      <4> QED BY <1>6, <4>1, <4>2 DEF Done
    <3>2. Scope = "logic" => open'[a] = {} /\ Done(a, n) \subseteq db'
          BY <1>1, <1>2, <1>4, <1>5, <1>6
    <3>3. Scope # "logic" => open'[a] = Done(a, n) /\ (~Wrote(a))'
          BY <1>1, <1>2, <1>4, <1>5, <1>6, <1>9, Kinds DEF Wrote, IInv
    <3> QED BY <1>9, <3>1, <3>2, <3>3 DEF Writing
  <2>3. Written(a)'
    <3> SUFFICES ASSUME n = MaxCalls PROVE Written(a)'
        BY <1>6 DEF Written
    <3>1. Scope # "whole" => open'[a] = {} /\ Rows(a) \subseteq db'
          BY <1>1, <1>2, <1>4, <1>5, <1>6, <1>9, Kinds DEF IInv
    <3>2. Scope = "whole" => open'[a] = Rows(a) /\ (~Wrote(a))'
          BY <1>1, <1>2, <1>4, <1>5, <1>6, <1>9 DEF Wrote
    <3> QED BY <1>9, <3>1, <3>2 DEF Written
  <2>4. Left(a)'
    <3>1. Scope # "logic" => Rows(a) \subseteq db' \/ (~Wrote(a))'
          BY <1>1, <1>2, <1>4, <1>5, <1>9, Kinds DEF Wrote, IInv
    <3>2. reported'[a] = "none"
          BY <1>1 DEF IInv, TypeOK, Attempt, Left
    <3>3. Scope # "whole" /\ returns'[a] # 0 => Rows(returns'[a]) \subseteq db'
          BY <1>1 DEF IInv, Attempt, Left
    <3>4. Rows(returns[a])' = Rows(returns'[a])
          BY DEF Rows
    <3> QED BY <1>9, <3>1, <3>2, <3>3, <3>4 DEF Left
  <2> QED BY <2>1, <2>2, <2>3, <2>4 DEF Attempt
<1>11. Given'
       BY <1>1, <1>8, GivenStays DEF IInv
<1>12. Once'
  <2>1. stage[a] \in Stages /\ stage[a] # "store" /\ stage'[a] \in {"store", "body"}
        BY <1>1, <1>6 DEF Stages
  <2>2. Wrote(a)' => \/ Wrote(a)
                     \/ /\ Scope = "whole" => task' = "completed" /\ current' = 0
                        /\ Scope = "inner" => stage[a] = "body" /\ stage'[a] = "store"
        BY <1>1, <1>5, <1>6, <1>9 DEF Wrote
  <2> QED BY <1>1, <1>7, <1>8, <2>1, <2>2, OnceStays
<1> QED BY <1>7, <1>8, <1>10, <1>11, <1>12, Others DEF IInv

LEMMA StoreKeeps == ASSUME IInv, NEW a \in Attempts, Store(a) PROVE IInv'
<1>1. /\ stage[a] = "store" /\ stage' = [stage EXCEPT ![a] = "after"]
      /\ returns' = [returns EXCEPT ![a] = a]
      /\ empty' \in {empty, empty \cup {a}}
      /\ cache' = IF Cacheable /\ a \notin empty'
                  THEN [cache EXCEPT ![KeyOf(a)] = a] ELSE cache
      /\ UNCHANGED <<setup, process, dead, calls, open, db, current, last, task, answer, reported,
                     unsure, disturbed>>
      BY DEF Store, Go, hosts, server
<1>2. KeyOf(a) \in Keys /\ a \in 0..MaxAttempts /\ a # 0
      BY <1>1, KeyKnown DEF IInv, Attempts
<1>3. TypeOK'
  <2>1. stage' \in [Attempts -> Stages \cup {"none", "over"}]
        BY <1>1 DEF IInv, TypeOK, Stages
  <2>2. returns' \in [Attempts -> 0..MaxAttempts] /\ cache' \in [Keys -> 0..MaxAttempts]
        BY <1>1, <1>2 DEF IInv, TypeOK
  <2> QED BY <1>1, <2>1, <2>2 DEF IInv, TypeOK
<1>4. /\ stage'[a] = "after" /\ returns'[a] = a
      /\ \A b \in Attempts \ {a} : stage'[b] = stage[b] /\ returns'[b] = returns[b]
      BY <1>1 DEF IInv, TypeOK
<1>5. Elsewhere(a)
      BY <1>1, <1>4 DEF Elsewhere
<1>6. /\ Scope # "whole" => open[a] = {} /\ Rows(a) \subseteq db
      /\ Scope = "whole" => open[a] = Rows(a) /\ ~Wrote(a)
      /\ Scope' = Scope /\ (Wrote(a)' <=> Wrote(a)) /\ Rows(a)' = Rows(a)
      BY <1>1 DEF IInv, Attempt, Written, Scope, Wrote, Rows
<1>7. Attempt(a)'
  <2>1. Rows(returns[a])' = Rows(a)
        BY <1>4 DEF Rows
  <2>2. Fresh(a)' /\ Writing(a)' /\ Written(a)' /\ Ending(a)'
        BY <1>1, <1>4, <1>6 DEF IInv, Attempt, Fresh, Writing, Written, Ending
  <2>3. Left(a)'
        BY <1>1, <1>4, <1>6, <2>1 DEF IInv, Attempt, Left
  <2> QED BY <2>2, <2>3 DEF Attempt
<1>8. /\ \A k \in Keys : cache'[k] = cache[k] \/ cache'[k] = a
      /\ Cacheable /\ a \notin empty' => cache'[KeyOf(a)] = a
      BY <1>1, <1>2 DEF IInv, TypeOK
<1>9. Given'
  <2>1. Scope # "whole" => \A k \in Keys :
           cache'[k] # 0 => cache'[k] = cache[k] \/ Rows(cache'[k]) \subseteq db'
        BY <1>1, <1>6, <1>8
  <2> QED BY <1>1, <1>5, <2>1, GivenStays DEF IInv
<1>10. Once'
  <2>1. stage[a] \in Stages /\ stage'[a] # "body"
        BY <1>1, <1>4 DEF Stages
  <2>2. /\ \A k \in Keys : cache[k] # 0 => cache'[k] # 0
        /\ a \in empty' \/ (Cacheable => cache'[KeyOf(a)] # 0)
        BY <1>2, <1>8
  <2> QED BY <1>1, <1>3, <1>5, <1>6, <2>1, <2>2, OnceStays
<1> QED BY <1>3, <1>5, <1>7, <1>9, <1>10, Others DEF IInv

LEMMA AfterKeeps == ASSUME IInv, NEW a \in Attempts, After(a) PROVE IInv'
<1>1. /\ stage[a] = "after" /\ stage' = [stage EXCEPT ![a] = "end"]
      /\ UNCHANGED <<setup, process, dead, calls, open, db, cache, returns, empty, current, last, task,
                     answer, reported, unsure, disturbed>>
      BY DEF After, Go, hosts, server
<1>2. TypeOK'
      BY <1>1 DEF IInv, TypeOK, Stages, Keys
<1>3. stage'[a] = "end" /\ \A b \in Attempts \ {a} : stage'[b] = stage[b]
      BY <1>1 DEF IInv, TypeOK
<1>4. Elsewhere(a)
      BY <1>1, <1>3 DEF Elsewhere
<1>5. /\ Scope # "whole" => open[a] = {} /\ Rows(a) \subseteq db
      /\ Scope = "whole" => open[a] = Rows(a) /\ ~Wrote(a)
      /\ Scope' = Scope /\ (Wrote(a)' <=> Wrote(a)) /\ Rows(a)' = Rows(a)
      /\ returns[a] = a /\ a # 0
      BY <1>1 DEF IInv, Attempt, Written, Ending, Scope, Wrote, Rows, Attempts
<1>6. Attempt(a)'
  <2>1. Rows(returns[a])' = Rows(a)
        BY <1>1, <1>5 DEF Rows
  <2>2. Fresh(a)' /\ Writing(a)' /\ Written(a)'
        BY <1>1, <1>3 DEF IInv, Attempt, Fresh, Writing, Written
  <2>3. Ending(a)'
        BY <1>1, <1>3, <1>5 DEF Ending
  <2>4. Left(a)'
        BY <1>1, <1>3, <1>5, <2>1 DEF IInv, Attempt, Left
  <2> QED BY <2>2, <2>3, <2>4 DEF Attempt
<1>7. Given'
      BY <1>1, <1>4, GivenStays DEF IInv
<1>8. Once'
  <2>1. stage[a] \in Stages /\ stage[a] # "store" /\ stage'[a] # "body" /\ (Wrote(a)' => Wrote(a))
        BY <1>1, <1>3 DEF Stages, Wrote, Rows
  <2> QED BY <1>1, <1>2, <1>4, <2>1, OnceStays
<1> QED BY <1>2, <1>4, <1>6, <1>7, <1>8, Others DEF IInv

LEMMA FinishKeeps == ASSUME IInv, NEW a \in Attempts, Finish(a) PROVE IInv'
<1>1. /\ stage[a] = "end" /\ stage' = [stage EXCEPT ![a] = "over"]
      /\ open' = [open EXCEPT ![a] = {}] /\ reported' = [reported EXCEPT ![a] = "ok"]
      /\ UNCHANGED <<setup, process, dead, calls, cache, returns, empty, last, unsure, disturbed>>
      /\ CommitsAt(a, "end") => db' = db \cup open[a]
      /\ ~CommitsAt(a, "end") => db' = db
      BY DEF Finish, Go, ReportOk, hosts
<1>2. \/ current = a /\ current' = 0 /\ task' = "completed" /\ answer' = returns[a]
      \/ current # a /\ UNCHANGED <<current, task, answer>>
      BY DEF Finish, ReportOk
<1>3. /\ stage'[a] = "over" /\ open'[a] = {} /\ reported'[a] = "ok"
      /\ \A b \in Attempts \ {a} :
            stage'[b] = stage[b] /\ open'[b] = open[b] /\ reported'[b] = reported[b]
      BY <1>1 DEF IInv, TypeOK
<1>4. CommitsAt(a, "end") <=> Scope = "whole"
      BY DEF CommitsAt
<1>5. /\ returns[a] # 0
      /\ Scope # "whole" => Rows(returns[a]) \subseteq db
      /\ Scope = "whole" => ~Wrote(a) /\ open[a] \in {{}, Rows(a)}
      /\ Scope = "whole" /\ ~Cacheable => open[a] = Rows(a) /\ returns[a] = a
      BY <1>1 DEF IInv, Attempt, Ending, Left
<1>6. /\ db \subseteq db' /\ db' \subseteq db \cup Rows(a)
      /\ Scope # "whole" => db' = db
      /\ Scope = "whole" => db' = db \cup open[a]
      BY <1>1, <1>4, <1>5
<1>7. TypeOK'
  <2>1. /\ stage' \in [Attempts -> Stages \cup {"none", "over"}]
        /\ reported' \in [Attempts -> {"none", "ok", "error"}]
        BY <1>1 DEF IInv, TypeOK
  <2>2. db' \in SUBSET (Attempts \X Calls) /\ open' \in [Attempts -> SUBSET (Attempts \X Calls)]
        BY <1>1 DEF IInv, TypeOK
  <2>3. /\ current' \in 0..MaxAttempts /\ answer' \in 0..MaxAttempts
        /\ task' \in {"open", "completed", "failed"}
        BY <1>2, ConstantsAssumption DEF IInv, TypeOK
  <2> QED BY <1>1, <2>1, <2>2, <2>3 DEF IInv, TypeOK
<1>8. Elsewhere(a)
      BY <1>1, <1>3, <1>6 DEF Elsewhere
<1>9. Scope' = Scope /\ Rows(a)' = Rows(a) /\ Rows(returns[a])' = Rows(returns[a])
      BY <1>1 DEF Scope, Rows
<1>10. Attempt(a)'
  <2>1. Fresh(a)' /\ Writing(a)' /\ Written(a)' /\ Ending(a)'
        BY <1>1, <1>3 DEF IInv, Attempt, Fresh, Writing, Written, Ending
  <2>2. Scope # "logic" => Rows(a) \subseteq db' \/ (~Wrote(a))'
        BY <1>5, <1>6, <1>9 DEF IInv, Attempt, Left, Wrote
  <2>3. Left(a)'
        BY <1>1, <1>3, <1>5, <1>6, <1>9, <2>2 DEF Left
  <2> QED BY <2>1, <2>3 DEF Attempt
<1>11. Given'
  <2>1. ~(Scope = "whole" /\ Cacheable) => Rows(returns[a]) \subseteq db'
        BY <1>5, <1>6
  <2> QED BY <1>1, <1>2, <1>8, <2>1, GivenStays DEF IInv
<1>12. Once'
  <2>1. stage[a] \in Stages /\ stage[a] # "store" /\ stage'[a] \notin Stages /\ stage'[a] # "body"
        BY <1>1, <1>3 DEF Stages
  <2>2. Scope # "whole" => (Wrote(a)' => Wrote(a))
        BY <1>6, <1>9 DEF Wrote
  <2>3. CASE disturbed
        BY <1>1, <2>3 DEF Once
  <2>4. CASE ~disturbed
    <3>1. current = a
          BY <2>1, <2>4 DEF IInv, Once
    <3>2. Wrote(a)' => \/ Wrote(a)
                       \/ /\ Scope = "whole" => task' = "completed" /\ current' = 0
                          /\ Scope = "inner" => stage[a] = "body" /\ stage'[a] = "store"
          BY <1>2, <2>2, <3>1
    <3> QED BY <1>1, <1>7, <1>8, <2>1, <3>2, OnceStays
  <2> QED BY <2>3, <2>4
<1> QED BY <1>7, <1>8, <1>10, <1>11, <1>12, Others DEF IInv

\* An error is reported, or ignored; it completes nothing.
LEMMA ReportsError ==
    ASSUME IInv, NEW a \in Attempts, ReportError(a)
    PROVE  /\ reported' = [reported EXCEPT ![a] = "error"] /\ answer' = answer
           /\ current' \in {0, current} /\ task' \in {"open", "failed", task}
           /\ current' \in 0..MaxAttempts /\ task' \in {"open", "completed", "failed"}
BY ConstantsAssumption DEF IInv, TypeOK, ReportError, AttemptFailed, NotRetried

LEMMA RaiseKeeps == ASSUME IInv, NEW a \in Attempts, Raise(a) PROVE IInv'
<1>1. /\ stage[a] \in Stages /\ stage' = [stage EXCEPT ![a] = "over"]
      /\ stage[a] = "end" => Scope = "whole"
      /\ open' = [open EXCEPT ![a] = {}] /\ ReportError(a)
      /\ disturbed' = (disturbed \/ stage[a] = "store")
      /\ UNCHANGED <<setup, process, dead, calls, db, cache, returns, empty, last, unsure>>
      BY DEF Raise, Go, hosts
<1>2. /\ reported' = [reported EXCEPT ![a] = "error"] /\ answer' = answer
      /\ current' \in {0, current} /\ task' \in {"open", "failed", task}
      /\ current' \in 0..MaxAttempts /\ task' \in {"open", "completed", "failed"}
      BY <1>1, ReportsError
<1>3. /\ stage'[a] = "over" /\ open'[a] = {} /\ reported'[a] = "error"
      /\ \A b \in Attempts \ {a} :
            stage'[b] = stage[b] /\ open'[b] = open[b] /\ reported'[b] = reported[b]
      BY <1>1, <1>2 DEF IInv, TypeOK
<1>4. TypeOK'
  <2>1. /\ stage' \in [Attempts -> Stages \cup {"none", "over"}]
        /\ reported' \in [Attempts -> {"none", "ok", "error"}]
        /\ open' \in [Attempts -> SUBSET (Attempts \X Calls)]
        BY <1>1, <1>2 DEF IInv, TypeOK
  <2>2. disturbed' \in BOOLEAN
        BY <1>1 DEF IInv, TypeOK
  <2> QED BY <1>1, <1>2, <2>1, <2>2 DEF IInv, TypeOK
<1>5. Elsewhere(a)
      BY <1>1, <1>3 DEF Elsewhere
<1>6. /\ Scope' = Scope /\ Rows(a)' = Rows(a) /\ Rows(returns[a])' = Rows(returns[a])
      /\ Wrote(a)' <=> Wrote(a)
      BY <1>1 DEF Scope, Rows, Wrote
<1>7. Attempt(a)'
  <2>1. Fresh(a)' /\ Writing(a)' /\ Written(a)' /\ Ending(a)'
        BY <1>1, <1>3 DEF IInv, Attempt, Fresh, Writing, Written, Ending, Stages
  <2>2. Scope = "whole" => ~Wrote(a)
        BY <1>1 DEF IInv, Attempt, Fresh, Writing, Written, Ending, Stages
  <2>3. Left(a)'
        BY <1>1, <1>3, <1>6, <2>2 DEF IInv, Attempt, Left
  <2> QED BY <2>1, <2>3 DEF Attempt
<1>8. Given'
      BY <1>1, <1>2, <1>5, GivenStays DEF IInv
<1>9. Once'
  <2>1. /\ stage'[a] \notin Stages /\ stage'[a] # "body" /\ (Wrote(a)' => Wrote(a))
        /\ ~disturbed' => ~disturbed /\ stage[a] # "store"
        BY <1>1, <1>3, <1>6 DEF Stages
  <2> QED BY <1>1, <1>4, <1>5, <2>1, OnceStays
<1> QED BY <1>4, <1>5, <1>7, <1>8, <1>9, Others DEF IInv

LEMMA CommitUnsureKeeps == ASSUME IInv, NEW a \in Attempts, CommitUnsure(a) PROVE IInv'
<1> DEFINE rows == open[a] \cup {<<a, calls[a] + 1>>}
<1>1. /\ stage' = [stage EXCEPT ![a] = "over"] /\ open' = [open EXCEPT ![a] = {}]
      /\ ReportError(a) /\ disturbed' = TRUE /\ unsure' = unsure \cup {a}
      /\ UNCHANGED <<setup, process, dead, calls, cache, returns, empty, last>>
      /\ \/ stage[a] = "body" /\ CommitsAt(a, "body") /\ db' = db \cup rows
         \/ stage[a] = "end" /\ Scope = "whole" /\ db' = db \cup open[a]
      BY DEF CommitUnsure, CommitsAt, Go, hosts
<1>2. /\ reported' = [reported EXCEPT ![a] = "error"] /\ answer' = answer
      /\ current' \in {0, current} /\ task' \in {"open", "failed", task}
      /\ current' \in 0..MaxAttempts /\ task' \in {"open", "completed", "failed"}
      BY <1>1, ReportsError
<1>3. /\ stage'[a] = "over" /\ open'[a] = {} /\ reported'[a] = "error" /\ a \in unsure'
      /\ \A b \in Attempts \ {a} :
            /\ stage'[b] = stage[b] /\ open'[b] = open[b] /\ reported'[b] = reported[b]
            /\ b \in unsure' <=> b \in unsure
      BY <1>1, <1>2 DEF IInv, TypeOK
<1>4. Scope' = Scope /\ Rows(a)' = Rows(a) /\ Rows(returns[a])' = Rows(returns[a])
      BY <1>1 DEF Scope, Rows
<1>5. /\ db \subseteq db' /\ db' \subseteq db \cup Rows(a)
      /\ Scope # "logic" => Rows(a) \subseteq db' \/ (~Wrote(a))'
  <2>1. CASE stage[a] = "body" /\ CommitsAt(a, "body") /\ db' = db \cup rows
    <3>1. /\ calls[a] \in Nat /\ calls[a] < MaxCalls
          /\ Scope = "logic" => open[a] = {}
          /\ Scope # "logic" => open[a] = Done(a, calls[a])
          BY <2>1, ConstantsAssumption DEF IInv, TypeOK, Attempt, Writing
    <3>2. /\ calls[a] + 1 \in 0..MaxCalls
          /\ Done(a, calls[a]) \cup {<<a, calls[a] + 1>>} = Done(a, calls[a] + 1)
          /\ Done(a, calls[a] + 1) \subseteq Rows(a)
          BY <3>1, ConstantsAssumption, DoneRows
    <3>3. rows \subseteq Rows(a)
          BY <3>1, <3>2
    <3>4. Scope # "logic" => rows = Rows(a)
          BY <2>1, <3>1, <3>2, DoneRows DEF CommitsAt
    <3> QED BY <2>1, <3>3, <3>4
  <2>2. CASE stage[a] = "end" /\ Scope = "whole" /\ db' = db \cup open[a]
    <3>1. ~Wrote(a) /\ open[a] \in {{}, Rows(a)}
          BY <2>2 DEF IInv, Attempt, Ending
    <3> QED BY <1>4, <2>2, <3>1 DEF Wrote
  <2> QED BY <1>1, <2>1, <2>2
<1>6. TypeOK'
  <2>1. /\ stage' \in [Attempts -> Stages \cup {"none", "over"}]
        /\ reported' \in [Attempts -> {"none", "ok", "error"}]
        /\ open' \in [Attempts -> SUBSET (Attempts \X Calls)]
        /\ unsure' \in SUBSET Attempts
        BY <1>1, <1>2 DEF IInv, TypeOK
  <2>2. db' \in SUBSET (Attempts \X Calls)
        BY <1>5, RowsExist DEF IInv, TypeOK
  <2> QED BY <1>1, <1>2, <2>1, <2>2 DEF IInv, TypeOK
<1>7. Elsewhere(a)
      BY <1>1, <1>3, <1>5 DEF Elsewhere
<1>8. Attempt(a)'
  <2>1. Fresh(a)' /\ Writing(a)' /\ Written(a)' /\ Ending(a)'
        BY <1>1, <1>3 DEF IInv, Attempt, Fresh, Writing, Written, Ending
  <2>2. Left(a)'
        BY <1>1, <1>3, <1>4, <1>5 DEF IInv, Attempt, Left
  <2> QED BY <2>1, <2>2 DEF Attempt
<1>9. Given'
      BY <1>1, <1>2, <1>7, GivenStays DEF IInv
<1>10. Once'
      BY <1>1 DEF Once
<1> QED BY <1>6, <1>7, <1>8, <1>9, <1>10, Others DEF IInv

-----------------------------------------------------------------------------
\* The steps of the server, and the death of a process

LEMMA ExpiresKeeps == ASSUME IInv, Expires PROVE IInv'
<1>1. /\ current' = 0 /\ task' \in {"open", "failed"} /\ disturbed' = TRUE
      /\ UNCHANGED <<setup, process, dead, stage, calls, open, db, cache, returns, empty, last, answer,
                     reported, unsure>>
      BY DEF Expires, AttemptFailed, hosts
<1>2. TypeOK'
      BY <1>1, ConstantsAssumption DEF IInv, TypeOK, Stages, Keys
<1>3. \A a \in Attempts : Attempt(a)'
      BY <1>1 DEF IInv, Attempt, Fresh, Writing, Written, Ending, Left, Wrote, Rows, Done, Scope,
                  Cacheable
<1>4. Given' /\ Once'
      BY <1>1 DEF IInv, Given, Once, Rows, Scope, Cacheable, Keys
<1> QED BY <1>2, <1>3, <1>4 DEF IInv, Attempts

LEMMA DieKeeps == ASSUME IInv, NEW p \in Processes, Die(p) PROVE IInv'
<1> DEFINE lost == {a \in Attempts : process[a] = p /\ stage[a] \in Stages}
<1>1. /\ stage' = [a \in Attempts |-> IF a \in lost THEN "over" ELSE stage[a]]
      /\ open' = [a \in Attempts |-> IF a \in lost THEN {} ELSE open[a]]
      /\ disturbed' = TRUE /\ dead' = dead \cup {p}
      /\ UNCHANGED <<setup, process, calls, db, cache, returns, empty, current, last, task, answer,
                     reported, unsure>>
      BY DEF Die, server
<1>2. TypeOK'
  <2>1. /\ stage' \in [Attempts -> Stages \cup {"none", "over"}]
        /\ open' \in [Attempts -> SUBSET (Attempts \X Calls)]
        /\ dead' \subseteq Processes
        BY <1>1 DEF IInv, TypeOK
  <2> QED BY <1>1, <2>1 DEF IInv, TypeOK
<1>3. ASSUME NEW a \in Attempts PROVE Attempt(a)'
  <2>1. /\ Scope' = Scope /\ (Cacheable' <=> Cacheable) /\ (Wrote(a)' <=> Wrote(a))
        /\ Rows(a)' = Rows(a) /\ Rows(returns[a])' = Rows(returns[a])
        /\ Done(a, calls[a])' = Done(a, calls[a])
        BY <1>1 DEF Scope, Cacheable, Wrote, Rows, Done
  <2>2. CASE a \in lost
    <3>1. stage'[a] = "over" /\ open'[a] = {} /\ stage[a] \in Stages
          BY <1>1, <2>2
    <3> HIDE DEF lost
    <3>2. Fresh(a)' /\ Writing(a)' /\ Written(a)' /\ Ending(a)'
          BY <1>1, <3>1 DEF IInv, Attempt, Fresh, Writing, Written, Ending, Stages
    <3>3. Left(a)'
          BY <1>1, <2>1, <3>1 DEF IInv, Attempt, Left, Stages
    <3> QED BY <3>2, <3>3 DEF Attempt
  <2>3. CASE a \notin lost
    <3>1. stage'[a] = stage[a] /\ open'[a] = open[a]
          BY <1>1, <2>3 DEF IInv, TypeOK
    <3> HIDE DEF lost
    <3>2. Fresh(a)' /\ Writing(a)' /\ Written(a)' /\ Ending(a)'
          BY <1>1, <2>1, <3>1 DEF IInv, Attempt, Fresh, Writing, Written, Ending
    <3>3. Left(a)'
          BY <1>1, <2>1, <3>1 DEF IInv, Attempt, Left
    <3> QED BY <3>2, <3>3 DEF Attempt
  <2> QED BY <2>2, <2>3
<1>4. Given' /\ Once'
      BY <1>1 DEF IInv, Given, Once, Rows, Scope, Cacheable, Keys
<1> QED BY <1>2, <1>3, <1>4 DEF IInv, Attempts

LEMMA DispatchKeeps == ASSUME IInv, Dispatch PROVE IInv'
<1>0. last \in Nat /\ last < MaxAttempts /\ last + 1 \in Attempts
      BY ConstantsAssumption DEF IInv, TypeOK, Dispatch, Attempts
<1> PICK a \in Attempts : a = last + 1
    BY <1>0
<1>1. /\ task = "open" /\ current = 0 /\ last < MaxAttempts /\ last' = a /\ current' = a
      /\ stage' = [stage EXCEPT ![a] = "before"]
      /\ UNCHANGED <<setup, dead, calls, open, db, cache, returns, empty, task, answer, reported, unsure,
                     disturbed>>
      BY DEF Dispatch
<1>2. PICK p \in Processes : process' = [process EXCEPT ![a] = p]
      BY DEF Dispatch
<1>3. last \in Nat /\ a \in Attempts /\ a > last /\ a <= MaxAttempts
      BY <1>0, ConstantsAssumption DEF Attempts
<1>4. stage[a] = "none" /\ calls[a] = 0 /\ open[a] = {} /\ ~Wrote(a)
      BY <1>3 DEF IInv, Attempt, Fresh
<1>5. /\ stage'[a] = "before" /\ process'[a] = p
      /\ \A b \in Attempts \ {a} : stage'[b] = stage[b] /\ process'[b] = process[b]
      BY <1>1, <1>2, <1>3 DEF IInv, TypeOK
<1>6. TypeOK'
  <2>1. /\ stage' \in [Attempts -> Stages \cup {"none", "over"}]
        /\ process' \in [Attempts -> Processes \cup {"none"}]
        BY <1>1, <1>2 DEF IInv, TypeOK, Stages
  <2>2. last' \in 0..MaxAttempts /\ current' \in 0..MaxAttempts
        BY <1>1, <1>3 DEF Attempts
  <2> QED BY <1>1, <2>1, <2>2 DEF IInv, TypeOK
<1>7. /\ Scope' = Scope /\ (Cacheable' <=> Cacheable)
      /\ \A b : (Wrote(b)' <=> Wrote(b)) /\ (Counted(b)' <=> Counted(b)) /\ Rows(b)' = Rows(b)
      BY <1>1 DEF Scope, Cacheable, Wrote, Counted, Rows
<1>8. ASSUME NEW b \in Attempts PROVE Attempt(b)'
  <2>1. CASE b = a
    <3>1. Fresh(a)' /\ Writing(a)' /\ Written(a)' /\ Ending(a)'
          BY <1>1, <1>3, <1>4, <1>5, <1>7 DEF Fresh, Writing, Written, Ending
    <3>2. Rows(returns[a])' = Rows(returns[a])
          BY <1>1 DEF Rows
    <3>3. Left(a)'
          BY <1>1, <1>3, <1>4, <1>5, <1>7, <3>2 DEF IInv, Attempt, Left
    <3> QED BY <2>1, <3>1, <3>3 DEF Attempt
  <2>2. CASE b # a
    <3>1. /\ stage'[b] = stage[b] /\ process'[b] = process[b]
          /\ b > last' => b > last
          /\ b <= last => b <= last'
          BY <1>1, <1>3, <1>5, <2>2 DEF Attempts
    <3>2. Fresh(b)'
          BY <1>1, <1>7, <3>1 DEF IInv, Attempt, Fresh
    <3>3. Done(b, calls[b])' = Done(b, calls[b]) /\ Rows(returns[b])' = Rows(returns[b])
          BY <1>1 DEF Done, Rows
    <3>4. Writing(b)' /\ Written(b)' /\ Ending(b)' /\ Left(b)'
          BY <1>1, <1>7, <3>1, <3>3 DEF IInv, Attempt, Writing, Written, Ending, Left
    <3> QED BY <3>2, <3>4 DEF Attempt
  <2> QED BY <2>1, <2>2
<1>9. Given'
      BY <1>1, <1>7 DEF IInv, Given, Rows, Keys
<1>10. Once'
  <2> SUFFICES ASSUME ~disturbed PROVE Once'
      BY <1>1 DEF Once
  <2>1. \A b \in Attempts : stage[b] \notin Stages
        BY <1>1 DEF IInv, Once, Attempts
  <2>2. \A b \in Attempts : stage'[b] \in Stages => current' = b
        BY <1>1, <1>5, <2>1
  <2>3. Scope = "whole" => \A b \in Attempts : ~Wrote(b)
        BY <1>1 DEF IInv, Once
  <2>4. ASSUME Scope = "inner", Cacheable, NEW b \in Attempts, Counted(b)
        PROVE  /\ stage'[b] = "store" \/ cache'[KeyOf(b)'] # 0
               /\ \A c \in Attempts \ {b} :
                     Counted(c) \/ stage'[c] = "body" => KeyOf(b)' # KeyOf(c)'
    <3>1. \A x \in Attempts : Counted(x) => x # a
          BY <1>4 DEF Counted
    <3>2. \A x \in Attempts \ {a} : KeyOf(x)' = KeyOf(x)
          BY <1>1, <1>5 DEF KeyOf
    <3>3. /\ stage[b] = "store" \/ cache[KeyOf(b)] # 0
          /\ \A c \in Attempts \ {b} :
                Counted(c) \/ stage[c] = "body" => KeyOf(b) # KeyOf(c)
          BY <2>4 DEF IInv, Once
    <3>4. stage'[a] # "body"
          BY <1>5
    <3> QED BY <1>1, <1>5, <2>4, <3>1, <3>2, <3>3, <3>4
  <2> QED BY <1>7, <2>2, <2>3, <2>4 DEF Once, Attempts, Stages
<1> QED BY <1>6, <1>8, <1>9, <1>10 DEF IInv, Attempts

-----------------------------------------------------------------------------
LEMMA Initially == ASSUME Init PROVE IInv
<1>1. TypeOK
  <2>1. /\ calls \in [Attempts -> 0..MaxCalls] /\ cache \in [Keys -> 0..MaxAttempts]
        /\ returns \in [Attempts -> 0..MaxAttempts]
        /\ current \in 0..MaxAttempts /\ last \in 0..MaxAttempts /\ answer \in 0..MaxAttempts
        BY ConstantsAssumption DEF Init
  <2>2. /\ setup \in Setups /\ stage \in [Attempts -> Stages \cup {"none", "over"}]
        /\ open \in [Attempts -> SUBSET (Attempts \X Calls)] /\ db \in SUBSET (Attempts \X Calls)
        /\ process \in [Attempts -> Processes \cup {"none"}] /\ dead \subseteq Processes
        /\ task \in {"open", "completed", "failed"}
        /\ reported \in [Attempts -> {"none", "ok", "error"}]
        /\ unsure \in SUBSET Attempts /\ disturbed \in BOOLEAN /\ empty \subseteq Attempts
        BY DEF Init
  <2> QED BY <2>1, <2>2 DEF TypeOK
<1>2. ASSUME NEW a \in Attempts PROVE Attempt(a)
      BY <1>1 DEF Init, Attempt, Fresh, Writing, Written, Ending, Left, Wrote
<1>3. Given /\ Once
      BY DEF Init, Given, Once, Wrote, Counted, Stages
<1> QED BY <1>1, <1>2, <1>3 DEF IInv

LEMMA Preserved == ASSUME IInv, [Next]_vars PROVE IInv'
<1>1. CASE UNCHANGED vars
  <2>1. UNCHANGED <<setup, process, dead, stage, calls, open, db, cache, returns, empty, current, last,
                    task, answer, reported, unsure, disturbed>>
        BY <1>1 DEF vars, hosts, server
  <2> QED BY <2>1 DEF IInv, TypeOK, Attempt, Fresh, Writing, Written, Ending, Left, Given, Once,
                      Wrote, Counted, Rows, Done, Scope, Cacheable, KeyOf
<1>2. ASSUME NEW a \in Attempts, Progress(a) \/ CommitUnsure(a) PROVE IInv'
      BY <1>2, BeginKeeps, LookupKeeps, CallKeeps, StoreKeeps, AfterKeeps, FinishKeeps, RaiseKeeps,
         CommitUnsureKeeps DEF Progress
<1> QED BY <1>1, <1>2, DispatchKeeps, ExpiresKeeps, DieKeeps DEF Next

THEOREM Invariance == Spec => []IInv
<1>1. Init => IInv
      BY Initially
<1>2. IInv /\ [Next]_vars => IInv'
      BY Preserved
<1> QED BY <1>1, <1>2, PTL DEF Spec

\* The variables have their types.
THEOREM TypeCorrect == Spec => []TypeOK
<1>1. IInv => TypeOK
      BY DEF IInv
<1> QED BY <1>1, Invariance, PTL

\* What is reported of an activity agrees with the database: a workflow that gets a
\* result gets one whose rows are all there, unless a cacheable execute_atomic() could
\* cache it before its commit; an attempt of execute_atomic() that reported an error
\* left nothing behind, unless the answer to its commit was lost; and no attempt in a
\* transaction leaves a part of its rows.
THEOREM Reported == Spec => []RowsAsReported
<1>1. ASSUME IInv PROVE RowsAsReported
  <2>1. task = "completed" /\ ~(Scope = "whole" /\ Cacheable) => Rows(answer) \subseteq db
        BY <1>1 DEF IInv, Given
  <2>2. Scope = "whole" =>
           \A a \in Attempts \ unsure : reported[a] = "error" => Rows(a) \cap db = {}
        BY <1>1 DEF IInv, Attempt, Left, Wrote
  <2>3. Scope # "logic" => \A a \in Attempts : Rows(a) \subseteq db \/ Rows(a) \cap db = {}
        BY <1>1 DEF IInv, Attempt, Left, Wrote
  <2> QED BY <2>1, <2>2, <2>3 DEF RowsAsReported
<1> QED BY <1>1, Invariance, PTL

\* A retry does not repeat what is done: while nothing is lost, at most one attempt
\* leaves rows, in one transaction around the template, or of those that did not return
\* None with the result of the inner one cached under a key that the attempts share.
THEOREM WrittenOnce == Spec => []RetriesWriteOnce
<1>1. ASSUME IInv, Scope = "whole" \/ (Scope = "inner" /\ Cacheable), ~disturbed,
             Scope = "inner" /\ setup.key = "hash" =>
                \A a, b \in 1..last : process[a] = process[b],
             NEW a \in Attempts, NEW b \in Attempts, Wrote(a), Wrote(b),
             Scope = "inner" => a \notin empty /\ b \notin empty
      PROVE  a = b
  <2>1. CASE Scope = "whole"
        BY <1>1, <2>1 DEF IInv, Once
  <2>2. CASE Scope = "inner" /\ Cacheable
    <3>1. a \in 1..last /\ b \in 1..last
          BY <1>1, KeyKnown DEF IInv, TypeOK, Attempts
    <3>2. setup.key \in {"own", "hash"}
          BY <1>1, <2>2, ConstantsAssumption DEF IInv, TypeOK, Cacheable
    <3>3. KeyOf(a) = KeyOf(b)
          BY <1>1, <2>2, <3>1, <3>2 DEF KeyOf
    <3> QED BY <1>1, <2>2, <3>3 DEF IInv, Once, Counted
  <2> QED BY <1>1, <2>1, <2>2
<1>2. ASSUME IInv PROVE RetriesWriteOnce
  <2> DEFINE S == IF Scope = "inner" THEN Writers \ empty ELSE Writers
  <2> SUFFICES ASSUME Scope = "whole" \/ (Scope = "inner" /\ Cacheable), ~disturbed,
                      Scope = "inner" /\ setup.key = "hash" =>
                         \A a, b \in 1..last : process[a] = process[b]
      PROVE  Cardinality(S) <= 1
      BY DEF RetriesWriteOnce
  <2>1. \A a, b \in S : a = b
        BY <1>1, <1>2 DEF Wrote, Writers
  <2> HIDE DEF S
  <2>2. CASE S = {}
        BY <2>2, FS_EmptySet
  <2>3. CASE S # {}
    <3>1. PICK a \in S : TRUE
          BY <2>3
    <3>2. S = {a}
          BY <2>1, <3>1
    <3>3. Cardinality(S) = 1
          BY <3>2, FS_Singleton
    <3> QED BY <3>3
  <2> QED BY <2>2, <2>3
<1> QED BY <1>2, Invariance, PTL

-----------------------------------------------------------------------------
\* TemporalWorkers

\* What is assumed of the constants of the worker manager.
LEMMA WorkersFit == MaxWorkers \in Nat /\ MaxCallsEach \in Nat
BY WorkersAssumption DEF W!ConstantsFit

\* A worker that is not registered was told to shut down, if there is a grace period;
\* one whose handle says that it does not run was told and did.
Told == /\ grace => \A w \in W!Made \ workers : signalled[w]
        /\ \A w \in W!Made : ~running[w] => state[w] = "done" /\ signalled[w]

\* A call waits for a client only to use it or to start a worker.
Connecting(c) == /\ pc[c] = "connect" => op[c] \in {"use", "start"}
                 /\ pc[c] = "using" => op[c] = "use"

\* A call that waits at all waits for a worker that it told to shut down.  What is still registered of
\* the snapshot of a shutdown is what it waits for or has yet to stop.
Stopping(c) ==
    pc[c] = "stopping" =>
        /\ op[c] \in {"handle", "hurry", "stop", "shutdown", "close"}
        /\ target[c] \in W!Made /\ (W!Patient(c) => signalled[target[c]])
        /\ op[c] \in {"shutdown", "close"} =>
              asked[c] \cap workers \subseteq queue[c] \cup {target[c]}

\* The snapshot of a shutdown that ended without being cancelled is out of the registry;
\* one that ended well found, without a grace period, only workers that had been told.
Ended(c) ==
    pc[c] = "idle" /\ op[c] \in {"shutdown", "close"} /\ outcome[c] # "cancelled" =>
        /\ asked[c] \cap workers = {}
        /\ ~grace /\ outcome[c] = "ok" => \A w \in asked[c] : signalled[w]

\* Snapshots hold workers that were made.
Known(c) == asked[c] \subseteq W!Made /\ queue[c] \subseteq W!Made

Managing(c) == Known(c) /\ Connecting(c) /\ Stopping(c) /\ Ended(c)

WorkersIInv == W!TypeOK /\ Told /\ \A c \in Callers : Managing(c)

LEMMA WorkersInitially == ASSUME W!Init PROVE WorkersIInv
<1>1. W!TypeOK
  <2>1. made \in 0..MaxWorkers /\ callsMade \in [Callers -> 0..MaxCallsEach]
        BY WorkersFit DEF W!Init
  <2>2. /\ grace \in BOOLEAN /\ client \in BOOLEAN /\ workers \in SUBSET (1..made)
        /\ state \in [W!Workers -> {"none", "new", "polling", "done", "dead"}]
        /\ signalled \in [W!Workers -> BOOLEAN] /\ running \in [W!Workers -> BOOLEAN]
        BY DEF W!Init
  <2>3. /\ pc \in [Callers -> {"idle", "connect", "using", "stopping"}]
        /\ op \in [Callers -> {"none", "use", "close_adapter", "start", "handle", "stop", "hurry",
                               "shutdown", "close"}]
        /\ target \in [Callers -> W!Workers \cup {W!NoWorker}]
        /\ queue \in [Callers -> SUBSET W!Workers]
        /\ failed \in [Callers -> BOOLEAN]
        /\ asked \in [Callers -> SUBSET W!Workers]
        /\ outcome \in [Callers -> {"none", "ok", "error", "cancelled"}]
        BY DEF W!Init
  <2> QED BY <2>1, <2>2, <2>3 DEF W!TypeOK
<1>2. Told
      BY DEF W!Init, Told, W!Made
<1>3. ASSUME NEW c \in Callers PROVE Managing(c)
      BY DEF W!Init, Managing, Connecting, Stopping, Ended, Known
<1> QED BY <1>1, <1>2, <1>3 DEF WorkersIInv

-----------------------------------------------------------------------------
\* Min() of a nonempty set of naturals is its least member.
LEMMA LeastOf ==
    ASSUME NEW S \in SUBSET Nat, S # {}
    PROVE  W!Min(S) \in S /\ \A x \in S : W!Min(S) <= x
<1> DEFINE less == OpToRel(<, Nat)
<1>0. ASSUME NEW x \in Nat, NEW y \in Nat, y < x PROVE <<y, x>> \in less
      BY <1>0 DEF OpToRel
<1>1. IsWellFoundedOn(less, Nat)
      BY NatLessThanWellFounded, Zenon
<1> HIDE DEF less
<1>2. \E x \in S : \A y \in S : ~ (<<y, x>> \in less)
      BY <1>1, WFMin, Zenon
<1>3. PICK x \in S : \A y \in S : ~ (<<y, x>> \in less)
      BY <1>2, Zenon
<1>4. ASSUME NEW y \in S PROVE x <= y
  <2>1. x \in Nat /\ y \in Nat
        OBVIOUS
  <2>2. ~ (y < x)
        BY <1>0, <1>3, <2>1, Zenon
  <2> QED BY <2>1, <2>2
<1>5. \E z \in S : \A y \in S : z <= y
      BY <1>4
<1> QED BY <1>5, Zenon DEF W!Min

-----------------------------------------------------------------------------
\* A step of caller c: the registry loses workers or gains new ones, no worker is told
\* to go on, and the other callers are where they were.
Moved(c) ==
    /\ made <= made' /\ grace' = grace
    /\ \A w \in W!Made : signalled[w] => signalled'[w]
    /\ workers' \cap W!Made \subseteq workers
    /\ \A q \in Callers \ {c} :
          /\ pc'[q] = pc[q] /\ op'[q] = op[q] /\ target'[q] = target[q]
          /\ queue'[q] = queue[q] /\ asked'[q] = asked[q] /\ outcome'[q] = outcome[q]

LEMMA OthersStay ==
    ASSUME W!TypeOK, W!TypeOK', \A q \in Callers : Managing(q),
           NEW c \in Callers, Moved(c), Managing(c)'
    PROVE  (\A q \in Callers : Managing(q))'
<1> SUFFICES ASSUME NEW q \in Callers, q # c PROVE Managing(q)'
    OBVIOUS
<1>1. /\ made \in Nat /\ made' \in Nat /\ made <= made'
      BY WorkersFit DEF W!TypeOK, Moved
<1>2. W!Made \subseteq W!Made'
      BY <1>1 DEF W!Made
<1>3. /\ pc'[q] = pc[q] /\ op'[q] = op[q] /\ target'[q] = target[q]
      /\ queue'[q] = queue[q] /\ asked'[q] = asked[q] /\ outcome'[q] = outcome[q]
      BY DEF Moved
<1>4. Connecting(q)'
      BY <1>3 DEF Managing, Connecting
<1>5. asked[q] \subseteq W!Made
      BY DEF Managing, Known
<1>6. asked[q] \cap workers' \subseteq asked[q] \cap workers
      BY <1>5 DEF Moved
<1>7. Stopping(q)'
      BY <1>2, <1>3, <1>6 DEF Managing, Stopping, Moved, W!Patient
<1>8. Ended(q)'
      BY <1>2, <1>3, <1>5, <1>6 DEF Managing, Ended, Moved
<1>9. Known(q)'
      BY <1>2, <1>3 DEF Managing, Known
<1> QED BY <1>4, <1>7, <1>8, <1>9 DEF Managing

\* The step of a call that leaves the workers alone.
LEMMA Aside ==
    ASSUME WorkersIInv, NEW c \in Callers, W!TypeOK', Managing(c)',
           UNCHANGED <<grace, made, state, signalled, running, workers>>,
           \A q \in Callers \ {c} :
              /\ pc'[q] = pc[q] /\ op'[q] = op[q] /\ target'[q] = target[q]
              /\ queue'[q] = queue[q] /\ asked'[q] = asked[q] /\ outcome'[q] = outcome[q]
    PROVE  WorkersIInv'
<1>1. made \in Nat
      BY WorkersFit DEF WorkersIInv, W!TypeOK
<1>2. Moved(c)
      BY <1>1 DEF Moved
<1>3. Told'
      BY DEF WorkersIInv, Told, W!Made
<1> QED BY <1>2, <1>3, OthersStay DEF WorkersIInv

LEMMA CallUseKeeps == ASSUME WorkersIInv, NEW c \in Callers, W!CallUse(c) PROVE WorkersIInv'
<1>1. W!TypeOK'
      BY WorkersFit DEF WorkersIInv, W!TypeOK, W!CallUse, W!Begin
<1>2. Managing(c)'
      BY DEF WorkersIInv, W!TypeOK, W!CallUse, W!Begin, Managing, Connecting, Stopping, Ended,
             Known, W!Made
<1> QED BY <1>1, <1>2, Aside DEF WorkersIInv, W!TypeOK, W!CallUse, W!Begin

LEMMA AnsweredKeeps == ASSUME WorkersIInv, NEW c \in Callers, W!Answered(c) PROVE WorkersIInv'
<1>1. W!TypeOK'
      BY WorkersFit DEF WorkersIInv, W!TypeOK, W!Answered, W!End
<1>2. Managing(c)'
      BY DEF WorkersIInv, W!TypeOK, W!Answered, W!End, Managing, Connecting, Stopping, Ended,
             Known, W!Made
<1> QED BY <1>1, <1>2, Aside DEF WorkersIInv, W!TypeOK, W!Answered, W!End

LEMMA CallCloseKeeps == ASSUME WorkersIInv, NEW c \in Callers, W!CallClose(c) PROVE WorkersIInv'
<1>1. W!TypeOK'
  <2>1. /\ callsMade[c] < MaxCallsEach /\ callsMade' = [callsMade EXCEPT ![c] = @ + 1]
        /\ callsMade \in [Callers -> 0..MaxCallsEach]
        BY DEF WorkersIInv, W!TypeOK, W!CallClose, W!Begin
  <2>2. callsMade' \in [Callers -> 0..MaxCallsEach]
        BY <2>1, WorkersFit
  <2> QED BY <2>2 DEF WorkersIInv, W!TypeOK, W!CallClose, W!Begin, W!End
<1>2. Managing(c)'
      BY DEF WorkersIInv, W!TypeOK, W!CallClose, W!Begin, W!End, Managing, Connecting, Stopping,
             Ended, Known, W!Made
<1> QED BY <1>1, <1>2, Aside DEF WorkersIInv, W!TypeOK, W!CallClose, W!Begin, W!End

LEMMA ConnectFailsKeeps ==
    ASSUME WorkersIInv, NEW c \in Callers, W!ConnectFails(c) PROVE WorkersIInv'
<1>1. W!TypeOK'
      BY WorkersFit DEF WorkersIInv, W!TypeOK, W!ConnectFails, W!End
<1>2. Managing(c)'
      BY DEF WorkersIInv, W!TypeOK, W!ConnectFails, W!End, Managing, Connecting, Stopping, Ended,
             Known, W!Made
<1> QED BY <1>1, <1>2, Aside DEF WorkersIInv, W!TypeOK, W!ConnectFails, W!End

LEMMA CancelledKeeps == ASSUME WorkersIInv, NEW c \in Callers, W!Cancelled(c) PROVE WorkersIInv'
<1>1. W!TypeOK'
      BY WorkersFit DEF WorkersIInv, W!TypeOK, W!Cancelled, W!End
<1>2. Managing(c)'
      BY DEF WorkersIInv, W!TypeOK, W!Cancelled, W!End, Managing, Connecting, Stopping, Ended,
             Known, W!Made
<1> QED BY <1>1, <1>2, Aside DEF WorkersIInv, W!TypeOK, W!Cancelled, W!End

-----------------------------------------------------------------------------
\* start_worker(): a new worker is registered.
LEMMA Starting ==
    ASSUME WorkersIInv, NEW c \in Callers, W!MakeWorker(c), UNCHANGED <<grace, signalled, asked>>,
           client' \in BOOLEAN, callsMade' \in [Callers -> 0..MaxCallsEach],
           op' = [op EXCEPT ![c] = "start"]
    PROVE  WorkersIInv'
<1> DEFINE new == made + 1
<1>1. /\ made \in Nat /\ new \in Nat /\ W!Made = 1..made
      /\ state \in [W!Workers -> {"none", "new", "polling", "done", "dead"}]
      /\ signalled \in [W!Workers -> BOOLEAN] /\ running \in [W!Workers -> BOOLEAN]
      /\ workers \subseteq W!Made
      BY WorkersFit DEF WorkersIInv, W!TypeOK, W!Made
<1>2. W!TypeOK'
  <2>0. grace' \in BOOLEAN
        BY DEF WorkersIInv, W!TypeOK
  <2>1. /\ pc' \in [Callers -> {"idle", "connect", "using", "stopping"}]
        /\ op' \in [Callers -> {"none", "use", "close_adapter", "start", "handle", "stop", "hurry",
                                "shutdown", "close"}]
        /\ target' \in [Callers -> W!Workers \cup {W!NoWorker}]
        /\ queue' \in [Callers -> SUBSET W!Workers]
        /\ failed' \in [Callers -> BOOLEAN]
        /\ asked' \in [Callers -> SUBSET W!Workers]
        /\ outcome' \in [Callers -> {"none", "ok", "error", "cancelled"}]
        BY DEF WorkersIInv, W!TypeOK, W!MakeWorker, W!End
  <2>2. /\ made' \in 0..MaxWorkers
        /\ state' \in [W!Workers -> {"none", "new", "polling", "done", "dead"}]
        /\ signalled' \in [W!Workers -> BOOLEAN]
        /\ running' \in [W!Workers -> BOOLEAN]
        /\ workers' \in SUBSET (1..made')
    <3>1. CASE UNCHANGED <<made, state, running, workers>>
          BY <3>1 DEF WorkersIInv, W!TypeOK
    <3>2. CASE /\ made < MaxWorkers /\ made' = new
               /\ state' = [state EXCEPT ![new] = "new"]
               /\ running' = [running EXCEPT ![new] = TRUE]
               /\ workers' = workers \cup {new}
      <4>1. made' \in 0..MaxWorkers /\ new \in 1..made' /\ 1..made \subseteq 1..made'
            BY <1>1, <3>2, WorkersFit
      <4>2. workers' \in SUBSET (1..made')
            BY <1>1, <3>2, <4>1 DEF W!Made
      <4> QED BY <1>1, <3>2, <4>1, <4>2
    <3> QED BY <3>1, <3>2 DEF W!MakeWorker
  <2> QED BY <2>0, <2>1, <2>2 DEF W!TypeOK
<1>3. Told' /\ made' \in Nat /\ made <= made' /\ workers' \cap W!Made \subseteq workers
  <2>1. CASE UNCHANGED <<made, state, running, workers>>
        BY <1>1, <2>1 DEF WorkersIInv, Told, W!Made
  <2>2. CASE /\ made < MaxWorkers /\ made' = new
             /\ state' = [state EXCEPT ![new] = "new"]
             /\ running' = [running EXCEPT ![new] = TRUE]
             /\ workers' = workers \cup {new}
    <3>1. /\ new \in W!Workers /\ W!Made' = W!Made \cup {new} /\ new \notin W!Made
          BY <1>1, <2>2, WorkersFit DEF W!Made, W!Workers
    <3>2. W!Made \subseteq W!Workers
          BY <1>1, <2>2, WorkersFit DEF W!Workers
    <3>3. /\ running'[new] /\ \A w \in W!Made : running'[w] = running[w] /\ state'[w] = state[w]
          BY <1>1, <2>2, <3>1, <3>2
    <3>4. Told'
          BY <2>2, <3>1, <3>3 DEF WorkersIInv, Told
    <3>5. workers' \cap W!Made \subseteq workers
          BY <2>2, <3>1
    <3> QED BY <1>1, <2>2, <3>4, <3>5
  <2> QED BY <2>1, <2>2 DEF W!MakeWorker
<1>4. pc'[c] = "idle" /\ op'[c] = "start" /\ queue'[c] = {}
      BY DEF WorkersIInv, W!TypeOK, W!MakeWorker, W!End
<1>5. asked[c] \subseteq W!Made /\ W!Made \subseteq W!Made'
      BY <1>1, <1>3 DEF W!Made, WorkersIInv, Managing, Known
<1>6. Managing(c)'
      BY <1>4, <1>5 DEF Managing, Connecting, Stopping, Ended, Known
<1>7. Moved(c)
  <2>1. \A q \in Callers \ {c} :
          /\ pc'[q] = pc[q] /\ op'[q] = op[q] /\ target'[q] = target[q]
          /\ queue'[q] = queue[q] /\ asked'[q] = asked[q] /\ outcome'[q] = outcome[q]
        BY DEF WorkersIInv, W!TypeOK, W!MakeWorker, W!End
  <2> QED BY <1>3, <2>1 DEF Moved
<1> QED BY <1>2, <1>3, <1>6, <1>7, OthersStay DEF WorkersIInv

LEMMA CallStartKeeps == ASSUME WorkersIInv, NEW c \in Callers, W!CallStart(c) PROVE WorkersIInv'
<1>1. callsMade' \in [Callers -> 0..MaxCallsEach] /\ client' \in BOOLEAN
      BY WorkersFit DEF WorkersIInv, W!TypeOK, W!CallStart, W!Begin
<1>2. CASE client
      BY <1>1, <1>2, Starting DEF W!CallStart, W!Begin
<1>3. CASE ~client
  <2>1. W!TypeOK'
        BY <1>1, <1>3 DEF WorkersIInv, W!TypeOK, W!CallStart, W!Begin
  <2>2. Managing(c)'
        BY <1>3 DEF WorkersIInv, W!TypeOK, W!CallStart, W!Begin, Managing, Connecting, Stopping,
                    Ended, Known, W!Made
  <2> QED BY <1>3, <2>1, <2>2, Aside DEF WorkersIInv, W!TypeOK, W!CallStart, W!Begin
<1> QED BY <1>2, <1>3

LEMMA ConnectedKeeps == ASSUME WorkersIInv, NEW c \in Callers, W!Connected(c) PROVE WorkersIInv'
<1>1. CASE op[c] = "start"
  <2>1. op' = [op EXCEPT ![c] = "start"]
        BY <1>1 DEF WorkersIInv, W!TypeOK, W!Connected
  <2> QED BY <1>1, <2>1, Starting DEF WorkersIInv, W!TypeOK, W!Connected
<1>2. CASE op[c] # "start"
  <2>1. W!TypeOK'
        BY <1>2 DEF WorkersIInv, W!TypeOK, W!Connected
  <2>2. Managing(c)'
        BY <1>2 DEF WorkersIInv, W!TypeOK, W!Connected, Managing, Connecting, Stopping, Ended,
                    Known, W!Made
  <2> QED BY <1>2, <2>1, <2>2, Aside DEF WorkersIInv, W!TypeOK, W!Connected
<1> QED BY <1>1, <1>2
-----------------------------------------------------------------------------
\* Advance(): the workers of rest are next.  The registry loses workers of rest, each
\* of which did not run or comes before the one that is told now; then the call is
\* over and none of rest is registered, or it waits for one of rest, and those that
\* are still registered come after it.
Over(c, o, rest, err) ==
    /\ W!End(c, IF err THEN "error" ELSE "ok")
    /\ client' = (client /\ (o # "close" \/ err))
    /\ signalled' = signalled
    /\ workers' \cap rest = {}

Later(rest, t) == {w \in rest : w > t}

Waits(c, rest, t, err) ==
    /\ signalled' = [signalled EXCEPT ![t] = @ \/ grace]
    /\ target' = [target EXCEPT ![c] = t]
    /\ queue' = [queue EXCEPT ![c] = Later(rest, t)]
    /\ failed' = [failed EXCEPT ![c] = err]
    /\ pc' = [pc EXCEPT ![c] = "stopping"]
    /\ client' = client /\ outcome' = outcome
    /\ workers' \cap rest \subseteq Later(rest, t) \cup {t}

LEMMA Advanced ==
    ASSUME NEW c \in Callers, NEW o, NEW rest \in SUBSET Nat, NEW ws, NEW run, NEW err,
           W!Advance(c, o, rest, ws, run, err)
    PROVE  /\ workers' \subseteq ws
           /\ \A w \in ws \ workers' : w \in rest /\ ~run[w]
           /\ \/ Over(c, o, rest, err)
              \/ \E t \in rest \cap ws : Waits(c, rest, t, err)
<1> DEFINE busy == {w \in rest \cap ws : run[w]}
<1>1. CASE busy = {}
  <2>1. /\ W!End(c, IF err THEN "error" ELSE "ok")
        /\ client' = (client /\ (o # "close" \/ err))
        /\ workers' = ws \ rest /\ signalled' = signalled
        BY <1>1 DEF W!Advance, W!EndStop
  <2> HIDE DEF busy
  <2>2. \A w \in rest \cap ws : ~run[w]
        BY <1>1 DEF busy
  <2>3. /\ workers' \subseteq ws /\ workers' \cap rest = {}
        /\ \A w \in ws \ workers' : w \in rest /\ ~run[w]
        BY <2>1, <2>2
  <2> QED BY <2>1, <2>3 DEF Over
<1>2. CASE busy # {}
  <2> DEFINE t == W!Min(busy)
  <2>1. /\ workers' = ws \ {w \in rest : w < t}
        /\ signalled' = [signalled EXCEPT ![t] = @ \/ grace]
        /\ target' = [target EXCEPT ![c] = t]
        /\ queue' = [queue EXCEPT ![c] = Later(rest, t)]
        /\ failed' = [failed EXCEPT ![c] = err]
        /\ pc' = [pc EXCEPT ![c] = "stopping"]
        /\ client' = client /\ outcome' = outcome
        BY <1>2 DEF W!Advance, Later
  <2>2. t \in busy /\ \A x \in busy : t <= x
    <3>1. busy \in SUBSET Nat
          OBVIOUS
    <3> HIDE DEF busy
    <3> QED BY <1>2, <3>1, LeastOf
  <2> HIDE DEF t
  <2>3. t \in rest \cap ws /\ run[t] /\ t \in Nat
        BY <2>2
  <2>4. \A w \in rest \cap ws : w < t => ~run[w]
        BY <2>2, <2>3
  <2>5. \A w \in ws \ workers' : w \in rest /\ ~run[w]
        BY <2>1, <2>4
  <2>6. workers' \subseteq ws
        BY <2>1
  <2>7. workers' \cap rest \subseteq Later(rest, t) \cup {t}
    <3>1. ASSUME NEW w \in workers' \cap rest PROVE w > t \/ w = t
      <4>1. w \in Nat /\ ~ (w < t)
            BY <2>1
      <4> QED BY <2>3, <4>1
    <3> QED BY <3>1 DEF Later
  <2>8. Waits(c, rest, t, err)
        BY <2>1, <2>7 DEF Waits
  <2> QED BY <2>3, <2>5, <2>6, <2>8
<1> QED BY <1>1, <1>2

\* A call goes on stopping workers, from the registry ws and the handles running': ws
\* may already be without a worker that was told to shut down, and running' may say of
\* one more worker that it does not run, which then is done.
LEMMA Advancing ==
    ASSUME WorkersIInv, NEW c \in Callers, NEW o \in {"stop", "shutdown", "close"},
           NEW rest \in SUBSET W!Made, NEW ws \in SUBSET workers, NEW err \in BOOLEAN,
           W!Advance(c, o, rest, ws, running', err),
           UNCHANGED <<grace, made, state>>, op' = [op EXCEPT ![c] = o],
           callsMade' \in [Callers -> 0..MaxCallsEach],
           running' \in [W!Workers -> BOOLEAN],
           \A w \in W!Made : ~running'[w] => state[w] = "done" /\ signalled[w],
           grace => \A w \in workers \ ws : signalled[w],
           asked' \in [Callers -> SUBSET W!Workers], asked'[c] \subseteq W!Made,
           \A q \in Callers \ {c} : asked'[q] = asked[q],
           o \in {"shutdown", "close"} => asked'[c] \cap ws \subseteq rest,
           o \in {"shutdown", "close"} /\ ~grace /\ ~err => asked'[c] \subseteq rest \cap ws
    PROVE  WorkersIInv'
<1>1. /\ made \in Nat /\ W!Made = 1..made /\ W!Made' = W!Made /\ W!Made \subseteq W!Workers
      /\ signalled \in [W!Workers -> BOOLEAN] /\ workers \subseteq W!Made /\ rest \in SUBSET Nat
      BY WorkersFit DEF WorkersIInv, W!TypeOK, W!Made, W!Workers
<1>2. /\ workers' \subseteq ws
      /\ \A w \in ws \ workers' : w \in rest /\ ~running'[w]
      /\ Over(c, o, rest, err) \/ \E t \in rest \cap ws : Waits(c, rest, t, err)
      BY <1>1, Advanced, Zenon
<1>3. \A w \in W!Workers : signalled[w] => signalled'[w]
      BY <1>1, <1>2 DEF Over, Waits
<1>4. signalled' \in [W!Workers -> BOOLEAN] /\ grace' \in BOOLEAN
      BY <1>1, <1>2 DEF Over, Waits, WorkersIInv, W!TypeOK
<1>5. Told'
  <2>1. grace => \A w \in W!Made \ workers' : signalled'[w]
    <3>1. ASSUME grace, NEW w \in W!Made \ workers' PROVE signalled[w]
      <4>1. CASE w \notin workers
            BY <3>1, <4>1 DEF WorkersIInv, Told
      <4>2. CASE w \in workers \ ws
            BY <3>1, <4>2
      <4>3. CASE w \in ws
            BY <1>2, <4>3
      <4> QED BY <4>1, <4>2, <4>3
    <3> QED BY <1>1, <1>3, <3>1
  <2>2. \A w \in W!Made : ~running'[w] => state'[w] = "done" /\ signalled'[w]
        BY <1>1, <1>3
  <2> QED BY <1>1, <2>1, <2>2 DEF Told
<1>6. Moved(c) /\ op'[c] = o
  <2>1. ASSUME NEW q \in Callers \ {c}
        PROVE  /\ pc'[q] = pc[q] /\ target'[q] = target[q]
               /\ queue'[q] = queue[q] /\ outcome'[q] = outcome[q]
        BY <1>2 DEF WorkersIInv, W!TypeOK, Over, Waits, W!End
  <2>2. op'[c] = o /\ \A q \in Callers \ {c} : op'[q] = op[q]
        BY DEF WorkersIInv, W!TypeOK
  <2> QED BY <1>1, <1>2, <1>3, <2>1, <2>2 DEF Moved
<1>7. CASE Over(c, o, rest, err)
  <2>1. W!TypeOK'
    <3>1. /\ client' \in BOOLEAN
          /\ pc' \in [Callers -> {"idle", "connect", "using", "stopping"}]
          /\ target' \in [Callers -> W!Workers \cup {W!NoWorker}]
          /\ queue' \in [Callers -> SUBSET W!Workers]
          /\ failed' \in [Callers -> BOOLEAN]
          /\ outcome' \in [Callers -> {"none", "ok", "error", "cancelled"}]
          BY <1>7 DEF WorkersIInv, W!TypeOK, Over, W!End
    <3>2. op' \in [Callers -> {"none", "use", "close_adapter", "start", "handle", "stop", "hurry",
                               "shutdown", "close"}]
          BY DEF WorkersIInv, W!TypeOK
    <3>3. /\ made' \in 0..MaxWorkers /\ workers' \in SUBSET (1..made')
          /\ state' \in [W!Workers -> {"none", "new", "polling", "done", "dead"}]
          BY <1>1, <1>2 DEF WorkersIInv, W!TypeOK
    <3> QED BY <1>4, <3>1, <3>2, <3>3 DEF W!TypeOK
  <2>2. pc'[c] = "idle" /\ queue'[c] = {}
        BY <1>7 DEF WorkersIInv, W!TypeOK, Over, W!End
  <2>3. o \in {"shutdown", "close"} => asked'[c] \cap workers' = {}
        BY <1>2, <1>7 DEF Over
  <2>5. outcome'[c] = "ok" => ~err
        BY <1>7 DEF WorkersIInv, W!TypeOK, Over, W!End
  <2>6. o \in {"shutdown", "close"} /\ ~grace' /\ outcome'[c] = "ok" =>
           \A w \in asked'[c] : signalled'[w]
    <3> SUFFICES ASSUME o \in {"shutdown", "close"}, ~grace, outcome'[c] = "ok",
                        NEW w \in asked'[c]
                 PROVE  signalled'[w]
        OBVIOUS
    <3>1. w \in rest \cap ws /\ w \in W!Made
          BY <2>5
    <3>2. w \notin workers'
          BY <1>7, <3>1 DEF Over
    <3> QED BY <1>1, <1>2, <1>3, <3>1, <3>2
  <2>4. Managing(c)'
        BY <1>1, <1>6, <2>2, <2>3, <2>6 DEF Managing, Connecting, Stopping, Ended, Known
  <2> QED BY <1>5, <1>6, <2>1, <2>4, OthersStay DEF WorkersIInv
<1>8. ASSUME NEW t \in rest \cap ws, Waits(c, rest, t, err) PROVE WorkersIInv'
  <2>1. t \in W!Made /\ t \in W!Workers /\ Later(rest, t) \subseteq W!Made
        BY <1>1 DEF Later
  <2>2. /\ pc'[c] = "stopping" /\ target'[c] = t /\ queue'[c] = Later(rest, t)
        /\ grace => signalled'[t]
        BY <1>1, <1>8, <2>1 DEF WorkersIInv, W!TypeOK, Waits
  <2>3. W!TypeOK'
    <3>1. /\ client' \in BOOLEAN
          /\ pc' \in [Callers -> {"idle", "connect", "using", "stopping"}]
          /\ target' \in [Callers -> W!Workers \cup {W!NoWorker}]
          /\ failed' \in [Callers -> BOOLEAN]
          /\ outcome' \in [Callers -> {"none", "ok", "error", "cancelled"}]
          BY <1>8, <2>1 DEF WorkersIInv, W!TypeOK, Waits
    <3>2. queue' \in [Callers -> SUBSET W!Workers]
          BY <1>1, <1>8, <2>1 DEF WorkersIInv, W!TypeOK, Waits
    <3>3. op' \in [Callers -> {"none", "use", "close_adapter", "start", "handle", "stop", "hurry",
                               "shutdown", "close"}]
          BY DEF WorkersIInv, W!TypeOK
    <3>4. /\ made' \in 0..MaxWorkers /\ workers' \in SUBSET (1..made')
          /\ state' \in [W!Workers -> {"none", "new", "polling", "done", "dead"}]
          BY <1>1, <1>2 DEF WorkersIInv, W!TypeOK
    <3> QED BY <1>4, <3>1, <3>2, <3>3, <3>4 DEF W!TypeOK
  <2>4. o \in {"shutdown", "close"} => asked'[c] \cap workers' \subseteq Later(rest, t) \cup {t}
        BY <1>2, <1>8 DEF Waits
  <2>5. Managing(c)'
        BY <1>1, <1>6, <2>1, <2>2, <2>4 DEF Managing, Connecting, Stopping, Ended, Known, W!Patient
  <2> QED BY <1>5, <1>6, <2>3, <2>5, OthersStay DEF WorkersIInv
<1> QED BY <1>2, <1>7, <1>8
LEMMA CallStopKeeps ==
    ASSUME WorkersIInv, NEW c \in Callers, NEW w \in W!Workers, W!CallStop(c, w) PROVE WorkersIInv'
<1>1. /\ w \in W!Made /\ {w} \in SUBSET W!Made /\ workers \in SUBSET workers
      BY WorkersFit DEF WorkersIInv, W!TypeOK, W!CallStop, W!Made, W!Workers
<1>2. callsMade' \in [Callers -> 0..MaxCallsEach] /\ op' = [op EXCEPT ![c] = "stop"]
      BY WorkersFit DEF WorkersIInv, W!TypeOK, W!CallStop, W!Begin
<1>3. running' \in [W!Workers -> BOOLEAN] /\ running' = running
      BY DEF WorkersIInv, W!TypeOK, W!CallStop
<1>4. \A x \in W!Made : ~running'[x] => state[x] = "done" /\ signalled[x]
      BY <1>3 DEF WorkersIInv, Told
<1>5. asked' \in [Callers -> SUBSET W!Workers] /\ asked' = asked /\ asked[c] \subseteq W!Made
      BY DEF WorkersIInv, W!TypeOK, W!CallStop, Managing, Known
<1>6. W!Advance(c, "stop", {w}, workers, running', FALSE) /\ UNCHANGED <<grace, made, state>>
      BY <1>3 DEF W!CallStop
<1>7. /\ "stop" \in {"stop", "shutdown", "close"} /\ FALSE \in BOOLEAN
      /\ grace => \A x \in workers \ workers : signalled[x]
      /\ "stop" \notin {"shutdown", "close"}
      OBVIOUS
<1>8. asked'[c] \subseteq W!Made /\ \A q \in Callers \ {c} : asked'[q] = asked[q]
      BY <1>5
<1> QED BY <1>1, <1>2, <1>3, <1>4, <1>5, <1>6, <1>7, <1>8, Advancing

LEMMA CallShutdownKeeps ==
    ASSUME WorkersIInv, NEW c \in Callers, NEW o \in {"shutdown", "close"}, W!CallShutdown(c, o)
    PROVE  WorkersIInv'
<1>1. workers \in SUBSET W!Made /\ workers \in SUBSET workers /\ workers \subseteq W!Workers
      BY WorkersFit DEF WorkersIInv, W!TypeOK, W!Made, W!Workers
<1>2. callsMade' \in [Callers -> 0..MaxCallsEach] /\ op' = [op EXCEPT ![c] = o]
      BY WorkersFit DEF WorkersIInv, W!TypeOK, W!CallShutdown, W!Begin
<1>3. running' \in [W!Workers -> BOOLEAN] /\ running' = running
      BY DEF WorkersIInv, W!TypeOK, W!CallShutdown
<1>4. \A x \in W!Made : ~running'[x] => state[x] = "done" /\ signalled[x]
      BY <1>3 DEF WorkersIInv, Told
<1>5. /\ asked' \in [Callers -> SUBSET W!Workers] /\ asked'[c] = workers
      /\ \A q \in Callers \ {c} : asked'[q] = asked[q]
      BY <1>1 DEF WorkersIInv, W!TypeOK, W!CallShutdown
<1>6. W!Advance(c, o, workers, workers, running', FALSE) /\ UNCHANGED <<grace, made, state>>
      BY <1>3 DEF W!CallShutdown
<1>7. /\ o \in {"stop", "shutdown", "close"} /\ FALSE \in BOOLEAN
      /\ grace => \A x \in workers \ workers : signalled[x]
      /\ asked'[c] \subseteq W!Made
      /\ o \in {"shutdown", "close"} => asked'[c] \cap workers \subseteq workers
      /\ o \in {"shutdown", "close"} /\ ~grace /\ ~FALSE => asked'[c] \subseteq workers \cap workers
      BY <1>1, <1>5
<1> QED BY <1>1, <1>2, <1>3, <1>4, <1>5, <1>6, <1>7, Advancing

\* The wait for a worker is over; only its handle may have been changed.
LEMMA ResumeKeeps ==
    ASSUME WorkersIInv, NEW c \in Callers, NEW late \in BOOLEAN,
           pc[c] = "stopping", W!Resume(c, running', late),
           running' \in [W!Workers -> BOOLEAN],
           \A w \in W!Made : ~running'[w] => state[w] = "done" /\ signalled[w],
           ~W!Patient(c) => late,
           UNCHANGED <<grace, made, state, op, callsMade, asked>>
    PROVE  WorkersIInv'
<1>1. /\ op[c] \in {"handle", "hurry", "stop", "shutdown", "close"}
      /\ target[c] \in W!Made /\ (W!Patient(c) => signalled[target[c]])
      /\ queue[c] \in SUBSET W!Made
      /\ op[c] \in {"shutdown", "close"} => asked[c] \cap workers \subseteq queue[c] \cup {target[c]}
      /\ asked[c] \subseteq W!Made
      BY DEF WorkersIInv, Managing, Stopping, Ended, Known
<1>2. CASE op[c] \in {"handle", "hurry"}
  <2>1. /\ W!End(c, IF late THEN "error" ELSE "ok")
        /\ UNCHANGED <<grace, client, made, state, signalled, workers, op, callsMade, asked>>
        BY <1>2 DEF W!Resume
  <2>2. W!TypeOK'
        BY <2>1 DEF WorkersIInv, W!TypeOK, W!End
  <2>3. Told'
        BY <2>1 DEF WorkersIInv, Told, W!Made
  <2>4. Managing(c)'
        BY <1>1, <1>2, <2>1 DEF WorkersIInv, W!TypeOK, W!End, Managing, Connecting, Stopping,
                                Ended, Known, W!Made
  <2>5. Moved(c)
    <3>1. made \in Nat
          BY WorkersFit DEF WorkersIInv, W!TypeOK
    <3> QED BY <2>1, <3>1 DEF WorkersIInv, W!TypeOK, W!End, Moved
  <2> QED BY <2>2, <2>3, <2>4, <2>5, OthersStay DEF WorkersIInv
<1>3. CASE op[c] \notin {"handle", "hurry"}
  <2> DEFINE ws == workers \ {target[c]}
             err == failed[c] \/ late \/ target[c] \notin workers
  <2>1. W!Advance(c, op[c], queue[c], ws, running', err)
        BY <1>3 DEF W!Resume
  <2>2. /\ op[c] \in {"stop", "shutdown", "close"} /\ op' = [op EXCEPT ![c] = op[c]]
        /\ callsMade' \in [Callers -> 0..MaxCallsEach]
        /\ asked' \in [Callers -> SUBSET W!Workers] /\ asked' = asked
        BY <1>1, <1>3 DEF WorkersIInv, W!TypeOK
  <2>3. /\ ws \in SUBSET workers /\ (grace => \A w \in workers \ ws : signalled[w])
        /\ op[c] \in {"shutdown", "close"} => asked[c] \cap ws \subseteq queue[c]
        BY <1>1, <1>3 DEF W!Patient
  <2>0. ~grace => err
        BY <1>3 DEF W!Patient
  <2>4. err \in BOOLEAN
        BY DEF WorkersIInv, W!TypeOK
  <2> DEFINE o == op[c]
             rest == queue[c]
  <2>5. W!Advance(c, o, rest, ws, running', err) /\ o \in {"stop", "shutdown", "close"}
        BY <2>1, <2>2
  <2>6. op' = [op EXCEPT ![c] = o] /\ callsMade' \in [Callers -> 0..MaxCallsEach]
        BY <2>2
  <2>7. /\ asked' \in [Callers -> SUBSET W!Workers] /\ asked'[c] \subseteq W!Made
        /\ \A q \in Callers \ {c} : asked'[q] = asked[q]
        /\ o \in {"shutdown", "close"} => asked'[c] \cap ws \subseteq rest
        BY <1>1, <2>2, <2>3
  <2>8. rest \in SUBSET W!Made /\ UNCHANGED <<grace, made, state>>
        BY <1>1
  <2> HIDE DEF ws, err, o, rest
  <2>9. CASE err = TRUE
    <3>1. W!Advance(c, o, rest, ws, running', TRUE) /\ TRUE \in BOOLEAN
          BY <2>5, <2>9
    <3> QED BY <2>3, <2>5, <2>6, <2>7, <2>8, <3>1, Advancing
  <2>10. CASE err = FALSE
    <3>1. W!Advance(c, o, rest, ws, running', FALSE) /\ FALSE \in BOOLEAN
          BY <2>5, <2>10
    <3> QED BY <2>0, <2>10, <2>3, <2>5, <2>6, <2>7, <2>8, <3>1, Advancing
  <2> QED BY <2>4, <2>9, <2>10
<1> QED BY <1>2, <1>3

LEMMA StoppedKeeps == ASSUME WorkersIInv, NEW c \in Callers, W!Stopped(c) PROVE WorkersIInv'
<1>1. /\ running \in [W!Workers -> BOOLEAN] /\ running' = [running EXCEPT ![target[c]] = FALSE]
      /\ pc[c] = "stopping" /\ state[target[c]] = "done"
      BY DEF WorkersIInv, W!TypeOK, W!Stopped
<1>2. /\ target[c] \in W!Made /\ signalled[target[c]] /\ W!Made \subseteq W!Workers
      /\ W!Patient(c)
      BY <1>1, WorkersFit DEF WorkersIInv, W!TypeOK, W!Stopped, Managing, Stopping, W!Made,
                              W!Workers
<1>3. /\ running' \in [W!Workers -> BOOLEAN]
      /\ \A w \in W!Made : ~running'[w] => ~running[w] \/ w = target[c]
      BY <1>1, <1>2
<1>4. \A w \in W!Made : ~running'[w] => state[w] = "done" /\ signalled[w]
      BY <1>1, <1>2, <1>3 DEF WorkersIInv, Told
<1>5. W!Resume(c, running', FALSE) /\ UNCHANGED <<grace, made, state, op, callsMade, asked>>
      BY DEF W!Stopped
<1> QED BY <1>1, <1>2, <1>3, <1>4, <1>5, ResumeKeeps

LEMMA TimesOutKeeps == ASSUME WorkersIInv, NEW c \in Callers, W!TimesOut(c) PROVE WorkersIInv'
<1>1. /\ running' = running /\ running' \in [W!Workers -> BOOLEAN] /\ pc[c] = "stopping"
      BY DEF WorkersIInv, W!TypeOK, W!TimesOut
<1>2. \A w \in W!Made : ~running'[w] => state[w] = "done" /\ signalled[w]
      BY <1>1 DEF WorkersIInv, Told
<1>3. W!Resume(c, running', TRUE) /\ UNCHANGED <<grace, made, state, op, callsMade, asked>>
      BY <1>1 DEF W!TimesOut
<1> QED BY <1>1, <1>2, <1>3, ResumeKeeps

LEMMA CallHandleStopKeeps ==
    ASSUME WorkersIInv, NEW c \in Callers, NEW w \in W!Workers, NEW o \in {"handle", "hurry"},
           W!CallHandleStop(c, w, o)
    PROVE  WorkersIInv'
<1>1. /\ made \in Nat /\ w \in W!Made /\ signalled \in [W!Workers -> BOOLEAN]
      /\ UNCHANGED <<grace, client, made, state, running, workers, asked>>
      BY WorkersFit DEF WorkersIInv, W!TypeOK, W!CallHandleStop, W!Made, W!Workers
<1>2. callsMade' \in [Callers -> 0..MaxCallsEach] /\ op' = [op EXCEPT ![c] = o]
      BY WorkersFit DEF WorkersIInv, W!TypeOK, W!CallHandleStop, W!Begin
<1>3. CASE running[w]
  <2>1. /\ signalled' = [signalled EXCEPT ![w] = @ \/ o = "handle"]
        /\ target' = [target EXCEPT ![c] = w]
        /\ pc' = [pc EXCEPT ![c] = "stopping"]
        /\ UNCHANGED <<queue, failed, outcome>>
        BY <1>3 DEF W!CallHandleStop
  <2>2. W!TypeOK'
        BY <1>1, <1>2, <2>1 DEF WorkersIInv, W!TypeOK
  <2>3. Told'
        BY <1>1, <2>1 DEF WorkersIInv, Told, W!TypeOK, W!Made
  <2>4. pc[c] = "idle"
        BY DEF W!CallHandleStop, W!Begin
  <2>5. /\ pc'[c] = "stopping" /\ op'[c] = o /\ target'[c] = w
        /\ W!Patient(c)' => signalled'[w]
        /\ queue'[c] = queue[c] /\ asked' = asked
    <3>1. w \in W!Workers /\ op'[c] = o /\ (W!Patient(c)' => o = "handle")
          BY <1>2 DEF WorkersIInv, W!TypeOK, W!Patient
    <3> QED BY <1>1, <1>2, <2>1, <3>1 DEF WorkersIInv, W!TypeOK
  <2>6. Managing(c)'
        BY <1>1, <2>5 DEF WorkersIInv, Managing, Connecting, Stopping, Ended, Known, W!Made
  <2>7. Moved(c)
    <3>1. \A x \in W!Made : signalled[x] => signalled'[x]
          BY <1>1, <2>1, WorkersFit DEF WorkersIInv, W!TypeOK, W!Made, W!Workers
    <3> QED BY <1>1, <1>2, <2>1, <3>1 DEF WorkersIInv, W!TypeOK, Moved
  <2> QED BY <2>2, <2>3, <2>6, <2>7, OthersStay DEF WorkersIInv
<1>4. CASE ~running[w]
  <2>1. W!End(c, "ok") /\ UNCHANGED signalled
        BY <1>4 DEF W!CallHandleStop
  <2>2. W!TypeOK'
        BY <1>1, <1>2, <2>1 DEF WorkersIInv, W!TypeOK, W!End
  <2>3. Managing(c)'
        BY <1>1, <1>2, <2>1 DEF WorkersIInv, W!TypeOK, W!End, Managing, Connecting, Stopping,
                                Ended, Known, W!Made
  <2> QED BY <1>1, <1>2, <2>1, <2>2, <2>3, Aside DEF WorkersIInv, W!TypeOK, W!End
<1> QED BY <1>3, <1>4

-----------------------------------------------------------------------------
\* The workers go on; no caller notices.
LEMMA Working ==
    ASSUME WorkersIInv, NEW w \in W!Workers, W!Run(w) \/ W!PollFails(w) \/ W!Drain(w)
    PROVE  WorkersIInv'
<1>1. /\ state[w] \in {"new", "polling"}
      /\ \E s \in {"polling", "dead", "done"} : state' = [state EXCEPT ![w] = s]
      /\ UNCHANGED <<grace, client, made, signalled, running, workers, W!callState>>
      BY DEF W!Run, W!PollFails, W!Drain
<1>2. W!TypeOK'
      BY <1>1 DEF WorkersIInv, W!TypeOK, W!callState
<1>3. Told'
      BY <1>1, WorkersFit DEF WorkersIInv, W!TypeOK, Told, W!Made, W!Workers
<1>4. \A c \in Callers : Managing(c)'
      BY <1>1 DEF WorkersIInv, Managing, Connecting, Stopping, Ended, Known, W!Made, W!callState,
                  W!Patient
<1> QED BY <1>2, <1>3, <1>4 DEF WorkersIInv

LEMMA WorkersPreserved == ASSUME WorkersIInv, [W!Next]_(W!vars) PROVE WorkersIInv'
<1>1. CASE UNCHANGED W!vars
      BY <1>1 DEF W!vars, W!callState, WorkersIInv, W!TypeOK, Told, Managing, Connecting,
                  Stopping, Ended, Known, W!Patient, W!Made
<1>2. ASSUME NEW c \in Callers,
             \/ W!CallUse(c) \/ W!Answered(c) \/ W!CallClose(c)
             \/ W!CallStart(c) \/ W!Connected(c) \/ W!ConnectFails(c)
             \/ \E o \in {"shutdown", "close"} : W!CallShutdown(c, o)
             \/ \E w \in W!Workers :
                   \/ W!CallStop(c, w)
                   \/ \E o \in {"handle", "hurry"} : W!CallHandleStop(c, w, o)
             \/ W!Stopped(c) \/ W!TimesOut(c) \/ W!Cancelled(c)
      PROVE  WorkersIInv'
      BY <1>2, CallUseKeeps, AnsweredKeeps, CallCloseKeeps, CallStartKeeps, ConnectedKeeps,
         ConnectFailsKeeps, CallShutdownKeeps, CallStopKeeps, CallHandleStopKeeps, StoppedKeeps,
         TimesOutKeeps, CancelledKeeps
<1>3. ASSUME NEW w \in W!Workers, W!Run(w) \/ W!PollFails(w) \/ W!Drain(w) PROVE WorkersIInv'
      BY <1>3, Working
<1> QED BY <1>1, <1>2, <1>3, Zenon DEF W!Next

THEOREM WorkersInvariance == W!Spec => []WorkersIInv
<1>1. W!Init => WorkersIInv
      BY WorkersInitially
<1>2. WorkersIInv /\ [W!Next]_(W!vars) => WorkersIInv'
      BY WorkersPreserved
<1> QED BY <1>1, <1>2, PTL DEF W!Spec

\* The variables have their types; in particular, what is registered was made.
THEOREM WorkersTypeCorrect == W!Spec => []WorkersType
<1>1. WorkersIInv => WorkersType
      BY DEF WorkersIInv, WorkersType
<1> QED BY <1>1, WorkersInvariance, PTL

\* No worker is forgotten: whatever timed out, was cancelled, raced or was started
\* meanwhile, and with any grace period its owner gave it, one that the manager no
\* longer lists was told to shut down, unless the settings leave workers no time; and
\* one whose handle says that it does not run is done.
THEOREM Remembered == W!Spec => []NoneForgotten
<1>1. WorkersIInv => NoneForgotten
      BY DEF WorkersIInv, Told, NoneForgotten, W!NoneForgotten
<1> QED BY <1>1, WorkersInvariance, PTL

\* A shutdown that was not cancelled has told every worker of its snapshot, also when
\* some of them failed to stop and when another task was stopping the same ones; if the
\* settings leave workers no time it may have told none, but then it raises.
THEOREM Reached == W!Spec => []ShutdownReachesAll
<1>1. ASSUME WorkersIInv, NEW c \in Callers, pc[c] = "idle", op[c] \in {"shutdown", "close"},
             outcome[c] # "cancelled"
      PROVE  /\ asked[c] \cap workers = {}
             /\ grace \/ outcome[c] = "ok" => \A w \in asked[c] : signalled[w]
  <2>1. /\ asked[c] \cap workers = {} /\ asked[c] \subseteq W!Made
        /\ ~grace /\ outcome[c] = "ok" => \A w \in asked[c] : signalled[w]
        BY <1>1 DEF WorkersIInv, Managing, Ended, Known
  <2> QED BY <1>1, <2>1 DEF WorkersIInv, Told
<1>2. WorkersIInv => ShutdownReachesAll
      BY <1>1 DEF ShutdownReachesAll, W!ShutdownReachesAll
<1> QED BY <1>2, WorkersInvariance, PTL
=============================================================================

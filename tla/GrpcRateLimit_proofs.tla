------------------------ MODULE GrpcRateLimit_proofs ------------------------
(***************************************************************************)
(* Proofs about GrpcRateLimit: for any RPCs, identities, windows and       *)
(* settings, however commands interleave with time and failures, a window  *)
(* lets no more RPCs through than it allows before its last millisecond,   *)
(* and a handler runs only after all windows, once, or for a named reason. *)
(***************************************************************************)
EXTENDS GrpcRateLimit, TLAPS, FiniteSetTheorems

Pcs == {"new", "increx", "pttl", "bypass", "invoke", "done"}
Verdicts == {"none", "ok", "exhausted", "unavailable"}
Reasons == {"no", "exempt", "redis", "answered_none"}

\* A bypass needs a limiter that is set to fail open.
Excused(r) == bypass[r] \in {"redis", "answered_none"} /\ ~config.failClosed

\* A handler ran once, or again if it answered None in the bypass.
Ran(r, once, again) == /\ bypass[r] = "answered_none" => runs[r] = again
                       /\ bypass[r] # "answered_none" => runs[r] = once

\* What the interceptor has done with an RPC, stage by stage.
Stage(r) ==
    /\ pc[r] \in {"new", "increx", "pttl", "bypass", "invoke"} => verdict[r] = "none"
    /\ pc[r] = "new" => idx[r] = 1
    /\ pc[r] \in {"new", "increx", "pttl"} =>
         bypass[r] = "no" /\ runs[r] = 0 /\ passed[r] = 1..(idx[r] - 1)
    /\ pc[r] = "bypass" => bypass[r] = "redis" /\ ~config.failClosed /\ runs[r] = 0
    /\ pc[r] = "invoke" =>
         /\ Ran(r, 0, 1)
         /\ bypass[r] = "exempt" \/ Excused(r) \/ passed[r] = DOMAIN Windows
    /\ pc[r] = "done" => verdict[r] # "none"
    /\ verdict[r] = "ok" =>
         /\ Ran(r, 1, 2)
         /\ bypass[r] = "exempt" \/ Excused(r) \/ passed[r] = DOMAIN Windows
    /\ verdict[r] \in {"exhausted", "unavailable"} => runs[r] = 0
Staged == \A r \in Rpcs : Stage(r)

\* A counter is within its window's limit and, before its last millisecond, has
\* counted all its takers.  (In the last one PTTL lets others through, uncounted.)
Counted(k) == /\ count[k] <= k[2].calls
              /\ IsFiniteSet(takers[k])
              /\ now < expiry[k] => Cardinality(takers[k]) <= count[k]

Counters == \A k \in Keys : Counted(k)

IInv == TypeOK /\ Staged /\ Counters

-----------------------------------------------------------------------------
\* A key is an identity and one of the windows.
LEMMA KeyFacts ==
    ASSUME NEW k \in Keys
    PROVE  k[2] \in Window /\ k[2].calls \in Nat \ {0} /\ k[2].ms \in Nat \ {0}
<1>1. PICK i \in DOMAIN Windows : k[2] = Windows[i]
      BY DEF Keys
<1>2. Windows[i] \in Window
      BY <1>1, ConstantsAssumption
<1> QED BY <1>1, <1>2 DEF Window

LEMMA KeyOf ==
    ASSUME TypeOK, NEW r \in Rpcs
    PROVE  /\ Key(r) \in Keys
           /\ DOMAIN Windows = 1..Len(Windows) /\ Len(Windows) \in Nat /\ Len(Windows) >= 1
<1>1. /\ DOMAIN Windows = 1..Len(Windows) /\ Len(Windows) \in Nat /\ Len(Windows) >= 1
      BY ConstantsAssumption
<1>2. bucket[r] \in Callers \cup {Unknown} /\ idx[r] \in DOMAIN Windows
      BY <1>1 DEF TypeOK
<1> QED BY <1>1, <1>2 DEF Key, Keys

\* A step of one RPC leaves the stages of the others alone.
Untouched(q) == /\ pc'[q] = pc[q] /\ idx'[q] = idx[q] /\ verdict'[q] = verdict[q]
                /\ runs'[q] = runs[q] /\ bypass'[q] = bypass[q] /\ passed'[q] = passed[q]
LEMMA OthersStaged ==
    ASSUME Staged, NEW r \in Rpcs, config' = config, Stage(r)',
           \A q \in Rpcs : q # r => Untouched(q)
    PROVE  Staged'
<1> SUFFICES ASSUME NEW q \in Rpcs, q # r PROVE Stage(q)'
    BY DEF Staged
<1>1. Stage(q) /\ Untouched(q)
      BY DEF Staged
<1> QED BY <1>1 DEF Stage, Excused, Ran, Untouched

\* INCREX on a counter that is not full keeps it within its limit.
LEMMA Increments ==
    ASSUME IInv, NEW r \in Rpcs, NEW k \in Keys, ~Full(k), Increment(k, r), now' = now
    PROVE  /\ count' \in [Keys -> Nat] /\ expiry' \in [Keys -> Nat]
           /\ takers' \in [Keys -> SUBSET Rpcs] /\ Counters'
<1> USE DEF IInv
<1>0. /\ count \in [Keys -> Nat] /\ expiry \in [Keys -> Nat]
      /\ takers \in [Keys -> SUBSET Rpcs] /\ now \in 0..MaxTime /\ MaxTime \in Nat
      BY ConstantsAssumption DEF TypeOK
<1>1. /\ k[2].calls \in Nat \ {0} /\ k[2].ms \in Nat \ {0}
      /\ count[k] \in Nat /\ expiry[k] \in Nat /\ now \in Nat /\ takers[k] \in SUBSET Rpcs
      BY <1>0, KeyFacts
<1>2. /\ count' \in [Keys -> Nat]
      /\ count'[k] = IF Alive(k) THEN count[k] + 1 ELSE 1
      /\ \A j \in Keys : j # k => count'[j] = count[j]
      BY <1>0, <1>1 DEF Increment
<1>3. /\ expiry' \in [Keys -> Nat]
      /\ expiry'[k] = IF Alive(k) THEN expiry[k] ELSE now + k[2].ms
      /\ \A j \in Keys : j # k => expiry'[j] = expiry[j]
      BY <1>0, <1>1 DEF Increment
<1>4. /\ takers' \in [Keys -> SUBSET Rpcs]
      /\ takers'[k] = IF Alive(k) THEN takers[k] \cup {r} ELSE {r}
      /\ \A j \in Keys : j # k => takers'[j] = takers[j]
      BY <1>0, <1>1 DEF Increment
<1>5. ASSUME NEW j \in Keys PROVE Counted(j)'
  <2>1. CASE j # k
        BY <2>1, <1>2, <1>3, <1>4 DEF IInv, Counters, Counted
  <2>2. CASE j = k /\ ~Alive(k)
    <3>1. IsFiniteSet({r}) /\ Cardinality({r}) = 1
          BY FS_Singleton
    <3> QED BY <3>1, <2>2, <1>1, <1>2, <1>4 DEF Counted
  <2>3. CASE j = k /\ Alive(k)
    <3>1. count[k] < k[2].calls /\ Counted(k)
          BY <2>3, <1>1 DEF Full, IInv, Counters
    <3>2. /\ IsFiniteSet(takers[k] \cup {r})
          /\ Cardinality(takers[k] \cup {r}) =
               IF r \in takers[k] THEN Cardinality(takers[k]) ELSE Cardinality(takers[k]) + 1
          /\ Cardinality(takers[k]) \in Nat
          BY <3>1, FS_AddElement, FS_CardinalityType DEF Counted
    <3> QED BY <2>3, <3>1, <3>2, <1>1, <1>2, <1>3, <1>4 DEF Counted
  <2> QED BY <2>1, <2>2, <2>3
<1> QED BY <1>2, <1>3, <1>4, <1>5 DEF Counters

\* Passing a window: on to the next one, or to the handler when there is none.
LEMMA Passes ==
    ASSUME IInv, NEW r \in Rpcs, pc[r] \in {"increx", "pttl"}, Pass(r),
           UNCHANGED <<config, verdict, runs, bypass>>
    PROVE  /\ passed' \in [Rpcs -> SUBSET DOMAIN Windows]
           /\ idx' \in [Rpcs -> 1..Len(Windows)] /\ pc' \in [Rpcs -> Pcs]
           /\ Staged'
<1>1. /\ DOMAIN Windows = 1..Len(Windows) /\ Len(Windows) \in Nat
      /\ idx[r] \in 1..Len(Windows) /\ passed[r] = 1..(idx[r] - 1)
      /\ verdict[r] = "none" /\ bypass[r] = "no" /\ runs[r] = 0
      BY KeyOf DEF IInv, TypeOK, Staged, Stage
<1> USE DEF IInv
<1>t. /\ passed \in [Rpcs -> SUBSET DOMAIN Windows]
      /\ idx \in [Rpcs -> 1..Len(Windows)] /\ pc \in [Rpcs -> Pcs]
      BY DEF TypeOK, Pcs
<1>2. /\ passed' \in [Rpcs -> SUBSET DOMAIN Windows]
      /\ passed'[r] = 1..idx[r]
      /\ \A q \in Rpcs : q # r => passed'[q] = passed[q]
  <2>1. passed[r] \cup {idx[r]} = 1..idx[r] /\ 1..idx[r] \in SUBSET DOMAIN Windows
        BY <1>1
  <2>2. passed' = [passed EXCEPT ![r] = 1..idx[r]]
        BY <2>1 DEF Pass
  <2> QED BY <2>1, <2>2, <1>t
<1>3. /\ idx' \in [Rpcs -> 1..Len(Windows)] /\ pc' \in [Rpcs -> Pcs]
      /\ \A q \in Rpcs : q # r => idx'[q] = idx[q] /\ pc'[q] = pc[q]
      /\ \/ pc'[r] = "increx" /\ idx'[r] = idx[r] + 1
         \/ pc'[r] = "invoke" /\ idx[r] = Len(Windows)
  <2>1. CASE idx[r] < Len(Windows)
        BY <1>1, <2>1, <1>t DEF Pass, Pcs
  <2>2. CASE ~(idx[r] < Len(Windows))
        BY <1>1, <2>2, <1>t DEF Pass, Pcs
  <2> QED BY <2>1, <2>2
<1>4. Stage(r)'
      BY <1>1, <1>2, <1>3 DEF Stage, Excused, Ran
<1>5. \A q \in Rpcs : q # r => Untouched(q)
      BY <1>2, <1>3 DEF Untouched
<1> QED BY <1>2, <1>3, <1>4, <1>5, OthersStaged

\* An RPC is answered.
LEMMA Finishes ==
    ASSUME IInv, NEW r \in Rpcs, NEW v \in Verdicts \ {"none"}, Finish(r, v)
    PROVE  /\ pc' \in [Rpcs -> Pcs] /\ verdict' \in [Rpcs -> Verdicts]
           /\ pc'[r] = "done" /\ verdict'[r] = v
           /\ \A q \in Rpcs : q # r => pc'[q] = pc[q] /\ verdict'[q] = verdict[q]
BY DEF IInv, TypeOK, Finish, Pcs, Verdicts

-----------------------------------------------------------------------------
\* The steps

LEMMA EntryStep ==
    ASSUME IInv, NEW r \in Rpcs,
           Exempt(r) \/ IdentifyFails(r) \/ \E c \in Callers : Identify(r, c)
    PROVE  IInv'
<1>1. /\ UNCHANGED <<config, now, count, expiry, takers, idx, runs, passed, blame, wait>>
      /\ pc[r] = "new" /\ Stage(r)
      BY DEF Exempt, IdentifyFails, Identify, IInv, Staged
<1>2. Counters'
      BY <1>1 DEF IInv, Counters, Counted
<1>3. CASE Exempt(r)
  <2>1. TypeOK'
        BY <1>1, <1>3 DEF IInv, TypeOK, Exempt
  <2>2. /\ pc'[r] = "invoke" /\ bypass'[r] = "exempt" /\ UNCHANGED verdict
        /\ \A q \in Rpcs : q # r => pc'[q] = pc[q] /\ bypass'[q] = bypass[q]
        BY <1>3 DEF IInv, TypeOK, Exempt
  <2>3. Stage(r)'
        BY <1>1, <2>2 DEF Stage, Excused, Ran
  <2>4. \A q \in Rpcs : q # r => Untouched(q)
        BY <1>1, <2>2 DEF Untouched
  <2>5. Staged'
        BY <1>1, <2>3, <2>4, OthersStaged DEF IInv
  <2> QED BY <1>2, <2>1, <2>5 DEF IInv
<1>4. CASE \E c \in Callers : Identify(r, c)
  <2>1. PICK c \in Callers : Identify(r, c)
        BY <1>4
  <2>2. /\ pc' = [pc EXCEPT ![r] = "increx"] /\ bucket' = [bucket EXCEPT ![r] = c]
        /\ UNCHANGED <<verdict, bypass>>
        BY <2>1 DEF Identify
  <2>3. bucket' \in [Rpcs -> Callers \cup {Unknown}]
    <3>1. bucket \in [Rpcs -> Callers \cup {Unknown}]
          BY DEF IInv, TypeOK
    <3> QED BY <3>1, <2>2
  <2>4. /\ pc' \in [Rpcs -> Pcs] /\ pc'[r] = "increx"
        /\ \A q \in Rpcs : q # r => pc'[q] = pc[q]
        BY <2>2 DEF IInv, TypeOK, Pcs
  <2>5. TypeOK'
        BY <1>1, <2>2, <2>3, <2>4 DEF IInv, TypeOK, Pcs
  <2>6. Stage(r)'
        BY <1>1, <2>2, <2>4 DEF Stage, Excused, Ran
  <2>7. \A q \in Rpcs : q # r => Untouched(q)
        BY <1>1, <2>2, <2>4 DEF Untouched
  <2>8. Staged'
        BY <1>1, <2>6, <2>7, OthersStaged DEF IInv
  <2> QED BY <1>2, <2>5, <2>8 DEF IInv
<1>5. CASE IdentifyFails(r) /\ config.failClosed
  <2>1. Finish(r, "unavailable") /\ UNCHANGED <<bucket, bypass>>
        BY <1>5 DEF IdentifyFails
  <2>2. /\ pc' \in [Rpcs -> Pcs] /\ verdict' \in [Rpcs -> Verdicts]
        /\ pc'[r] = "done" /\ verdict'[r] = "unavailable"
        /\ \A q \in Rpcs : q # r => pc'[q] = pc[q] /\ verdict'[q] = verdict[q]
        BY <2>1, Finishes DEF Verdicts
  <2>3. TypeOK'
        BY <1>1, <2>1, <2>2 DEF IInv, TypeOK, Pcs, Verdicts
  <2>4. Stage(r)' /\ \A q \in Rpcs : q # r => Untouched(q)
        BY <1>1, <2>1, <2>2 DEF Stage, Excused, Ran, Untouched
  <2>5. Staged'
        BY <1>1, <2>4, OthersStaged DEF IInv
  <2> QED BY <1>2, <2>3, <2>5 DEF IInv
<1>6. CASE IdentifyFails(r) /\ ~config.failClosed
  <2>1. pc' = [pc EXCEPT ![r] = "increx"] /\ UNCHANGED <<verdict, bucket, bypass>>
        BY <1>6 DEF IdentifyFails
  <2>2. TypeOK'
        BY <1>1, <2>1 DEF IInv, TypeOK
  <2>3. Staged'
        BY <1>1, <2>1 DEF IInv, TypeOK, Staged, Stage, Excused, Ran
  <2> QED BY <1>2, <2>2, <2>3 DEF IInv
<1> QED BY <1>3, <1>4, <1>5, <1>6

LEMMA IncrexStep == ASSUME IInv, NEW r \in Rpcs, Increx(r) PROVE IInv'
<1> DEFINE k == Key(r)
<1>1. /\ UNCHANGED <<config, now, bucket, verdict, runs, bypass, wait>>
      /\ pc[r] = "increx" /\ k \in Keys
      BY KeyOf DEF Increx, IInv
<1>2. CASE Full(k)
  <2>1. /\ pc' = [pc EXCEPT ![r] = "pttl"] /\ blame' = [blame EXCEPT ![r] = takers[k]]
        /\ UNCHANGED <<count, expiry, takers, passed, idx>>
        BY <1>2 DEF Increx
  <2>2. TypeOK'
        BY <1>1, <2>1 DEF IInv, TypeOK
  <2>3. Staged'
        BY <1>1, <2>1 DEF IInv, TypeOK, Staged, Stage, Excused, Ran
  <2>4. Counters'
        BY <1>1, <2>1 DEF IInv, Counters, Counted
  <2> QED BY <2>2, <2>3, <2>4 DEF IInv
<1>3. CASE ~Full(k)
  <2>1. Increment(k, r) /\ Pass(r) /\ UNCHANGED blame
        BY <1>3 DEF Increx
  <2> HIDE DEF k
  <2>2. /\ count' \in [Keys -> Nat] /\ expiry' \in [Keys -> Nat]
        /\ takers' \in [Keys -> SUBSET Rpcs] /\ Counters'
        BY <1>1, <1>3, <2>1, Increments
  <2>3. /\ passed' \in [Rpcs -> SUBSET DOMAIN Windows]
        /\ idx' \in [Rpcs -> 1..Len(Windows)] /\ pc' \in [Rpcs -> Pcs]
        /\ Staged'
        BY <1>1, <2>1, Passes
  <2>4. TypeOK'
        BY <1>1, <2>1, <2>2, <2>3 DEF IInv, TypeOK, Pcs
  <2> QED BY <2>2, <2>3, <2>4 DEF IInv
<1> QED BY <1>2, <1>3

\* The answer 0 lets an RPC through uncounted, in the last millisecond only.
LEMMA PttlStep == ASSUME IInv, NEW r \in Rpcs, Pttl(r) PROVE IInv'
<1> DEFINE k == Key(r)
<1>1. /\ UNCHANGED <<config, now, count, expiry, bucket, runs, bypass, blame>>
      /\ pc[r] = "pttl" /\ k \in Keys
      BY KeyOf DEF Pttl, IInv
<1>2. PICK ttl \in Ttls(k) :
        IF ttl = 0
        THEN /\ Pass(r) /\ takers' = [takers EXCEPT ![k] = @ \cup {r}]
             /\ UNCHANGED <<verdict, wait>>
        ELSE /\ Finish(r, "exhausted")
             /\ wait' = [wait EXCEPT ![r] =
                   [retry |-> now + SecondMs * RetryAfterSeconds(ttl, k[2].ms),
                    gone |-> IF Alive(k) THEN expiry[k] ELSE now]]
             /\ UNCHANGED <<passed, idx, takers>>
      BY DEF Pttl
<1>3. now \in Nat /\ expiry[k] \in Nat /\ ttl \in Int /\ k[2].ms \in Nat /\ SecondMs \in Nat \ {0}
  <2>1. now \in Nat /\ expiry[k] \in Nat /\ k[2].ms \in Nat /\ SecondMs \in Nat \ {0}
    <3>1. now \in 0..MaxTime /\ expiry \in [Keys -> Nat]
          BY DEF IInv, TypeOK
    <3> HIDE DEF k
    <3> QED BY <1>1, <3>1, KeyFacts, ConstantsAssumption
  <2> QED BY <2>1 DEF Ttls
<1>4. ttl = 0 => expiry[k] = now
      BY <1>3 DEF Ttls
<1>5. RetryAfterSeconds(ttl, k[2].ms) \in Nat
  <2>1. ASSUME NEW n \in Int PROVE Ceil(n, SecondMs) \in Int
        BY <1>3 DEF Ceil
  <2>2. Ceil(IF ttl > 0 THEN ttl ELSE k[2].ms, SecondMs) \in Int
        BY <2>1, <1>3
  <2> QED BY <2>2 DEF RetryAfterSeconds, AtLeast1
<1> HIDE DEF k
<1>6. CASE ttl = 0
  <2>1. Pass(r) /\ takers' = [takers EXCEPT ![k] = @ \cup {r}] /\ UNCHANGED <<verdict, wait>>
        BY <1>2, <1>6
  <2>2. /\ passed' \in [Rpcs -> SUBSET DOMAIN Windows]
        /\ idx' \in [Rpcs -> 1..Len(Windows)] /\ pc' \in [Rpcs -> Pcs]
        /\ Staged'
        BY <1>1, <2>1, Passes
  <2>3. TypeOK'
        BY <1>1, <2>1, <2>2 DEF IInv, TypeOK, Pcs
  <2>4. ASSUME NEW j \in Keys PROVE Counted(j)'
    <3>1. Counted(j)
          BY DEF IInv, Counters
    <3>2. CASE j # k
          BY <3>1, <3>2, <1>1, <2>1 DEF Counted, IInv, TypeOK
    <3>3. CASE j = k
      <4>1. takers'[k] = takers[k] \cup {r} /\ IsFiniteSet(takers'[k])
            BY <1>1, <2>1, <3>1, <3>3, FS_AddElement DEF Counted, IInv, TypeOK
      <4>2. UNCHANGED <<now, count, expiry>>
            BY <1>1
      <4>3. ~(now < expiry[k]) /\ count[k] <= k[2].calls
            BY <1>3, <1>4, <1>6, <3>1, <3>3 DEF Counted
      <4> QED BY <3>3, <4>1, <4>2, <4>3 DEF Counted
    <3> QED BY <3>2, <3>3
  <2> QED BY <2>2, <2>3, <2>4 DEF IInv, Counters
<1>7. CASE ttl # 0
  <2>1. /\ Finish(r, "exhausted") /\ UNCHANGED <<passed, idx, takers>>
        /\ wait' = [wait EXCEPT ![r] =
              [retry |-> now + SecondMs * RetryAfterSeconds(ttl, k[2].ms),
               gone |-> IF Alive(k) THEN expiry[k] ELSE now]]
        BY <1>2, <1>7
  <2>2. /\ pc' \in [Rpcs -> Pcs] /\ verdict' \in [Rpcs -> Verdicts]
        /\ pc'[r] = "done" /\ verdict'[r] = "exhausted"
        /\ \A q \in Rpcs : q # r => pc'[q] = pc[q] /\ verdict'[q] = verdict[q]
        BY <2>1, Finishes DEF Verdicts
  <2>3. wait' \in [Rpcs -> [retry : Nat, gone : Nat]]
    <3> DEFINE n == now + SecondMs * RetryAfterSeconds(ttl, k[2].ms)
               g == IF Alive(k) THEN expiry[k] ELSE now
    <3>1. n \in Nat /\ g \in Nat
          BY <1>3, <1>5
    <3>2. wait' = [wait EXCEPT ![r] = [retry |-> n, gone |-> g]]
          BY <2>1
    <3> HIDE DEF n, g
    <3> QED BY <3>1, <3>2 DEF IInv, TypeOK
  <2>4. TypeOK'
        BY <1>1, <2>1, <2>2, <2>3 DEF IInv, TypeOK, Pcs, Verdicts
  <2>5. Stage(r)
        BY DEF IInv, Staged
  <2>6. Stage(r)' /\ \A q \in Rpcs : q # r => Untouched(q)
        BY <1>1, <2>1, <2>2, <2>5 DEF Stage, Excused, Ran, Untouched
  <2>7. Staged'
        BY <1>1, <2>6, OthersStaged DEF IInv
  <2>8. Counters'
        BY <1>1, <2>1 DEF IInv, Counters, Counted
  <2> QED BY <2>4, <2>7, <2>8 DEF IInv
<1> QED BY <1>6, <1>7

\* The error branch.
LEMMA Refuses ==
    ASSUME IInv, NEW r \in Rpcs, pc[r] \in {"increx", "pttl"}, Refuse(r),
           UNCHANGED <<config, idx, runs, passed>>
    PROVE  /\ pc' \in [Rpcs -> Pcs] /\ verdict' \in [Rpcs -> Verdicts]
           /\ bypass' \in [Rpcs -> Reasons]
           /\ Staged'
<1>1. Stage(r)
      BY DEF IInv, Staged
<1>2. CASE config.failClosed
  <2>1. Finish(r, "unavailable") /\ UNCHANGED bypass
        BY <1>2 DEF Refuse
  <2>2. /\ pc' \in [Rpcs -> Pcs] /\ verdict' \in [Rpcs -> Verdicts]
        /\ pc'[r] = "done" /\ verdict'[r] = "unavailable"
        /\ \A q \in Rpcs : q # r => pc'[q] = pc[q] /\ verdict'[q] = verdict[q]
        BY <2>1, Finishes DEF Verdicts
  <2>3. Stage(r)' /\ \A q \in Rpcs : q # r => Untouched(q)
        BY <1>1, <2>1, <2>2 DEF Stage, Excused, Ran, Untouched
  <2>4. Staged'
        BY <2>3, OthersStaged DEF IInv
  <2> QED BY <2>1, <2>2, <2>4 DEF IInv, TypeOK, Reasons
<1>3. CASE ~config.failClosed
  <2> DEFINE to == IF config.async THEN "bypass" ELSE "invoke"
  <2>1. /\ pc' = [pc EXCEPT ![r] = to] /\ bypass' = [bypass EXCEPT ![r] = "redis"]
        /\ UNCHANGED verdict /\ to \in {"bypass", "invoke"}
        BY <1>3 DEF Refuse
  <2> HIDE DEF to
  <2>2. /\ pc' \in [Rpcs -> Pcs] /\ bypass' \in [Rpcs -> Reasons]
        /\ pc'[r] = to /\ bypass'[r] = "redis"
        /\ \A q \in Rpcs : q # r => pc'[q] = pc[q] /\ bypass'[q] = bypass[q]
        BY <2>1 DEF IInv, TypeOK, Pcs, Reasons
  <2>3. Stage(r)'
        BY <1>1, <1>3, <2>1, <2>2 DEF Stage, Excused, Ran
  <2>4. \A q \in Rpcs : q # r => Untouched(q)
        BY <2>1, <2>2 DEF Untouched
  <2>5. Staged'
        BY <2>3, <2>4, OthersStaged DEF IInv
  <2> QED BY <2>1, <2>2, <2>5 DEF IInv, TypeOK, Verdicts
<1> QED BY <1>2, <1>3

LEMMA FailureStep ==
    ASSUME IInv, NEW r \in Rpcs, RedisFails(r) \/ ReplyLost(r) PROVE IInv'
<1>1. /\ UNCHANGED <<config, now, bucket, idx, runs, passed, blame, wait>>
      /\ pc[r] \in {"increx", "pttl"} /\ Refuse(r)
      BY DEF RedisFails, ReplyLost
<1>2. /\ pc' \in [Rpcs -> Pcs] /\ verdict' \in [Rpcs -> Verdicts]
      /\ bypass' \in [Rpcs -> Reasons]
      /\ Staged'
      BY <1>1, Refuses
<1>3. /\ count' \in [Keys -> Nat] /\ expiry' \in [Keys -> Nat]
      /\ takers' \in [Keys -> SUBSET Rpcs] /\ Counters'
  <2>1. CASE RedisFails(r)
        BY <2>1 DEF RedisFails, IInv, TypeOK, Counters, Counted
  <2>2. CASE ReplyLost(r)
        BY <2>2, KeyOf, Increments DEF ReplyLost, IInv
  <2> QED BY <2>1, <2>2
<1>4. TypeOK'
      BY <1>1, <1>2, <1>3 DEF IInv, TypeOK, Pcs, Verdicts, Reasons
<1> QED BY <1>2, <1>3, <1>4 DEF IInv

LEMMA HandlerStep ==
    ASSUME IInv, NEW r \in Rpcs, Invoke(r) \/ Bypass(r) PROVE IInv'
<1>1. /\ UNCHANGED <<config, now, count, expiry, takers, bucket, idx, passed, blame, wait>>
      /\ pc[r] \in {"invoke", "bypass"} /\ Stage(r)
      /\ runs' = [runs EXCEPT ![r] = @ + 1]
      BY DEF Invoke, Bypass, IInv, Staged
<1>t. runs[r] \in Nat
      BY DEF IInv, TypeOK
<1>2. Counters'
      BY <1>1 DEF IInv, Counters, Counted
<1>3. /\ runs' \in [Rpcs -> Nat] /\ runs'[r] = runs[r] + 1
      /\ \A q \in Rpcs : q # r => runs'[q] = runs[q]
  <2>1. runs \in [Rpcs -> Nat]
        BY DEF IInv, TypeOK
  <2> QED BY <1>1, <2>1
<1>4. CASE Finish(r, "ok") /\ UNCHANGED bypass
  <2>1. /\ pc' \in [Rpcs -> Pcs] /\ verdict' \in [Rpcs -> Verdicts]
        /\ pc'[r] = "done" /\ verdict'[r] = "ok"
        /\ \A q \in Rpcs : q # r => pc'[q] = pc[q] /\ verdict'[q] = verdict[q]
        BY <1>4, Finishes DEF Verdicts
  <2>2. TypeOK'
        BY <1>1, <1>3, <1>4, <2>1 DEF IInv, TypeOK, Pcs, Verdicts
  <2>3. Stage(r)'
    <3>1. Ran(r, 1, 2)'
      <4>1. bypass[r] = "answered_none" => runs[r] = 1
            BY <1>1 DEF Stage, Ran
      <4>2. bypass[r] # "answered_none" => runs[r] = 0
            BY <1>1 DEF Stage, Ran
      <4>3. runs'[r] = runs[r] + 1
            BY <1>3
      <4> QED BY <4>1, <4>2, <4>3, <1>4 DEF Ran
    <3>2. bypass[r] = "exempt" \/ Excused(r) \/ passed[r] = DOMAIN Windows
          BY <1>1 DEF Stage, Excused, Ran
    <3>3. /\ pc'[r] = "done" /\ verdict'[r] = "ok" /\ bypass'[r] = bypass[r]
          /\ passed'[r] = passed[r] /\ Excused(r)' = Excused(r)
          BY <1>1, <1>4, <2>1 DEF Excused
    <3> HIDE DEF Excused
    <3> QED BY <3>1, <3>2, <3>3 DEF Stage
  <2>4. \A q \in Rpcs : q # r => Untouched(q)
        BY <1>1, <1>3, <1>4, <2>1 DEF Untouched
  <2>5. Staged'
        BY <1>1, <2>3, <2>4, OthersStaged DEF IInv
  <2> QED BY <1>2, <2>2, <2>5 DEF IInv
<1>5. CASE /\ Bypass(r) /\ pc' = [pc EXCEPT ![r] = "invoke"]
           /\ bypass' = [bypass EXCEPT ![r] = "answered_none"] /\ UNCHANGED verdict
  <2>1. pc[r] = "bypass"
        BY <1>5 DEF Bypass
  <2>2. TypeOK'
        BY <1>1, <1>3, <1>5 DEF IInv, TypeOK
  <2>3. Stage(r)'
    <3>1. pc'[r] = "invoke" /\ bypass'[r] = "answered_none"
          BY <1>5 DEF IInv, TypeOK
    <3>2. runs[r] = 0 /\ ~config.failClosed /\ verdict[r] = "none"
          BY <1>1, <2>1 DEF Stage
    <3>3. runs'[r] = 1
          BY <1>3, <3>2
    <3>4. ~config'.failClosed /\ verdict'[r] = "none"
          BY <1>1, <1>5, <3>2
    <3> QED BY <3>1, <3>3, <3>4 DEF Stage, Excused, Ran
  <2>4. \A q \in Rpcs : q # r => Untouched(q)
        BY <1>1, <1>3, <1>5 DEF IInv, TypeOK, Untouched
  <2>5. Staged'
        BY <1>1, <2>3, <2>4, OthersStaged DEF IInv
  <2> QED BY <1>2, <2>2, <2>5 DEF IInv
<1> QED BY <1>4, <1>5 DEF Invoke, Bypass

\* Time only makes counters older.
LEMMA TickStep == ASSUME IInv, Tick PROVE IInv'
<1>1. now' \in 0..MaxTime /\ now < now' /\ now \in Nat /\ now' \in Nat
  <2>1. now \in 0..MaxTime
        BY DEF IInv, TypeOK
  <2> QED BY <2>1, ConstantsAssumption DEF Tick
<1>2. TypeOK'
      BY <1>1 DEF Tick, rpcState, IInv, TypeOK
<1>3. Staged'
      BY DEF Tick, rpcState, IInv, Staged, Stage, Excused, Ran
<1>4. ASSUME NEW k \in Keys PROVE Counted(k)'
  <2>1. Counted(k) /\ expiry[k] \in Nat
        BY DEF IInv, Counters, TypeOK
  <2> QED BY <1>1, <2>1 DEF Tick, Counted
<1> QED BY <1>2, <1>3, <1>4 DEF IInv, Counters

-----------------------------------------------------------------------------
LEMMA Initially == Init => IInv
<1> SUFFICES ASSUME Init PROVE IInv
    OBVIOUS
<1>1. Len(Windows) \in Nat /\ Len(Windows) >= 1 /\ DOMAIN Windows = 1..Len(Windows)
      BY ConstantsAssumption
<1>2. TypeOK
      BY <1>1, ConstantsAssumption DEF Init, TypeOK
<1>3. Staged
      BY DEF Init, Staged, Stage
<1>4. Counters
      BY KeyFacts, FS_EmptySet DEF Init, Counters, Counted
<1> QED BY <1>2, <1>3, <1>4 DEF IInv

LEMMA Preserved == IInv /\ [Next]_vars => IInv'
<1> SUFFICES ASSUME IInv, [Next]_vars PROVE IInv'
    OBVIOUS
<1>1. CASE UNCHANGED vars
      BY <1>1 DEF vars, rpcState, IInv, TypeOK, Staged, Stage, Excused, Ran, Counters, Counted
<1> QED BY <1>1, TickStep, EntryStep, IncrexStep, PttlStep, FailureStep, HandlerStep DEF Next

\* The strengthening holds in every reachable state of the limiter.
THEOREM Invariance == Spec => []IInv
<1>1. Init => IInv BY Initially
<1>2. IInv /\ [Next]_vars => IInv' BY Preserved
<1> QED BY <1>1, <1>2, PTL DEF Spec

\* The limiter's state keeps its types, for any windows and RPCs.
THEOREM TypeCorrect == Spec => []TypeOK
<1>1. IInv => TypeOK BY DEF IInv
<1> QED BY <1>1, Invariance, PTL

\* _enforce_rate_limit_windows(): until the last millisecond of a window no more
\* RPCs got past it than it allows, for any number of concurrent RPCs and whatever
\* fails between the commands.
THEOREM LimitHeld == Spec => []LimitHeldBeforeExpiry
<1>1. IInv => LimitHeldBeforeExpiry
  <2> SUFFICES ASSUME IInv, NEW k \in Keys, now < expiry[k]
               PROVE  Cardinality(takers[k]) <= k[2].calls
      BY DEF LimitHeldBeforeExpiry
  <2>1. Counted(k) /\ count[k] \in Nat /\ k[2].calls \in Nat
        BY KeyFacts DEF IInv, Counters, TypeOK
  <2>2. Cardinality(takers[k]) \in Nat
        BY <2>1, FS_CardinalityType DEF Counted
  <2> QED BY <2>1, <2>2 DEF Counted
<1> QED BY <1>1, Invariance, PTL

\* intercept() of both interceptors: the handler runs after all windows, or for a
\* named reason, once if the RPC succeeds and never if it is refused, except for a
\* handler that returned None in the async bypass.
THEOREM Guarded == Spec => []HandlerGuarded
<1>1. IInv => HandlerGuarded
  <2> SUFFICES ASSUME IInv, NEW r \in Rpcs
               PROVE  /\ runs[r] > 0 => \/ bypass[r] = "exempt" \/ Excused(r)
                                        \/ passed[r] = DOMAIN Windows
                      /\ verdict[r] = "ok" => runs[r] = IF bypass[r] = "answered_none" THEN 2 ELSE 1
                      /\ verdict[r] \in {"exhausted", "unavailable"} => runs[r] = 0
      BY DEF HandlerGuarded, Excused
  <2>1. Stage(r) /\ runs[r] \in Nat /\ pc[r] \in Pcs /\ verdict[r] \in Verdicts
        BY DEF IInv, Staged, TypeOK, Pcs, Verdicts
  <2>2. verdict[r] = "ok" =>
          runs[r] = IF bypass[r] = "answered_none" THEN 2 ELSE 1
        BY <2>1 DEF Stage, Ran
  <2>3. runs[r] > 0 => \/ bypass[r] = "exempt" \/ Excused(r)
                       \/ passed[r] = DOMAIN Windows
    <3>1. CASE verdict[r] \in {"exhausted", "unavailable"}
          BY <2>1, <3>1 DEF Stage
    <3>2. CASE verdict[r] = "ok"
          BY <2>1, <3>2 DEF Stage
    <3>3. CASE verdict[r] = "none" /\ pc[r] = "invoke"
          BY <2>1, <3>3 DEF Stage
    <3>4. CASE verdict[r] = "none" /\ pc[r] # "invoke"
      <4>1. runs[r] = 0
            BY <2>1, <3>4 DEF Stage, Pcs
      <4> QED BY <4>1
    <3> QED BY <2>1, <3>1, <3>2, <3>3, <3>4 DEF Verdicts
  <2>4. verdict[r] \in {"exhausted", "unavailable"} => runs[r] = 0
        BY <2>1 DEF Stage
  <2> QED BY <2>2, <2>3, <2>4
<1> QED BY <1>1, Invariance, PTL
-----------------------------------------------------------------------------
\* Refusals

\* Windows are found by their size and length, so two equal ones would share a counter
\* and an RPC would be counted twice.
DistinctWindows == \A i, j \in DOMAIN Windows : Windows[i] = Windows[j] => i = j

\* Who was let past a counter has its identity and, while still at a window, is beyond
\* the counter's.
TookIn(q, k) ==
    /\ bucket[q] = k[1] /\ pc[q] # "new"
    /\ pc[q] \in {"increx", "pttl"} => \E i \in 1..(idx[q] - 1) : Windows[i] = k[2]

\* A counter counts no more than its takers and expires within its window's length.
Took(k) == /\ Alive(k) => count[k] <= Cardinality(takers[k])
           /\ expiry[k] <= now + k[2].ms
           /\ \A q \in takers[k] : TookIn(q, k)

\* An RPC that met a full counter was preceded by as many as its window allows.
Preceded(r) == pc[r] = "pttl" \/ verdict[r] = "exhausted" =>
                 /\ IsFiniteSet(blame[r]) /\ Windows[idx[r]].calls <= Cardinality(blame[r])
                 /\ \A q \in blame[r] : q # r /\ bucket[q] = bucket[r] /\ pc[q] # "new"

\* It may retry when the counter is gone.
Delayed(r) == verdict[r] = "exhausted" => wait[r].gone <= wait[r].retry

Refusals == /\ \A k \in Keys : Took(k)
            /\ \A r \in Rpcs : Preceded(r) /\ Delayed(r)

\* Rounding up to seconds shortens no delay.
LEMMA RoundsUp ==
    ASSUME NEW ttl \in Int, NEW ms \in Nat \ {0}, NEW n \in Nat, n <= ms, ttl > 0 => n <= ttl
    PROVE  n <= SecondMs * RetryAfterSeconds(ttl, ms)
<1> DEFINE a == IF ttl > 0 THEN ttl ELSE ms
           q == Ceil(a, SecondMs)
<1>1. SecondMs \in Nat \ {0} /\ a \in Nat \ {0} /\ n <= a
      BY ConstantsAssumption
<1>2. ASSUME NEW x \in Nat, NEW b \in Nat \ {0} PROVE x \div b \in Int /\ x < b * (x \div b) + b
      OBVIOUS
<1> HIDE DEF a
<1>3. a + SecondMs - 1 \in Nat
      BY <1>1
<1>4. q \in Int /\ a <= SecondMs * q
      BY <1>1, <1>2, <1>3 DEF Ceil
<1> HIDE DEF q
<1>5. q >= 1
  <2>1. ASSUME NEW x \in Int, NEW b \in Nat, x <= 0 PROVE b * x <= 0
        BY <2>1
  <2> QED BY <1>1, <1>4, <2>1
<1>6. RetryAfterSeconds(ttl, ms) = q
      BY <1>4, <1>5 DEF RetryAfterSeconds, AtLeast1, a, q
<1>7. SecondMs * q \in Int
      BY <1>1, <1>4
<1> QED BY <1>1, <1>4, <1>6, <1>7

LEMMA RetriesIn ==
    ASSUME NEW ttl \in Int, NEW ms \in Nat
    PROVE  SecondMs * RetryAfterSeconds(ttl, ms) \in Int
<1>1. SecondMs \in Nat \ {0}
      BY ConstantsAssumption
<1>2. ASSUME NEW n \in Int PROVE Ceil(n, SecondMs) \in Int
      BY <1>1 DEF Ceil
<1>3. Ceil(IF ttl > 0 THEN ttl ELSE ms, SecondMs) \in Int
      BY <1>2
<1>4. RetryAfterSeconds(ttl, ms) \in Int
      BY <1>3 DEF RetryAfterSeconds, AtLeast1
<1> QED BY <1>1, <1>4

\* A step of an RPC: the other ones stay as they are, and who has been identified
\* keeps the identity.
StepOf(r) ==
    /\ UNCHANGED config
    /\ \A q \in Rpcs : q # r => /\ Untouched(q) /\ bucket'[q] = bucket[q]
                                /\ blame'[q] = blame[q] /\ wait'[q] = wait[q]
    /\ pc'[r] # "new" /\ (pc[r] # "new" => bucket'[r] = bucket[r])
    /\ pc'[r] \in {"increx", "pttl"} =>
         pc[r] = "new" \/ (pc[r] \in {"increx", "pttl"} /\ idx'[r] \in {idx[r], idx[r] + 1})

LEMMA OthersRefused ==
    ASSUME IInv, Refusals, NEW r \in Rpcs, StepOf(r), Preceded(r)', Delayed(r)'
    PROVE  \A q \in Rpcs : Preceded(q)' /\ Delayed(q)'
<1> SUFFICES ASSUME NEW q \in Rpcs, q # r PROVE Preceded(q)' /\ Delayed(q)'
    OBVIOUS
<1>1. Preceded(q) /\ Delayed(q) /\ blame[q] \subseteq Rpcs
      BY DEF Refusals, IInv, TypeOK
<1>2. /\ Untouched(q) /\ bucket'[q] = bucket[q] /\ blame'[q] = blame[q] /\ wait'[q] = wait[q]
      BY DEF StepOf
<1>3. \A x \in Rpcs : pc[x] # "new" => pc'[x] # "new" /\ bucket'[x] = bucket[x]
      BY DEF StepOf, Untouched
<1> QED BY <1>1, <1>2, <1>3 DEF Preceded, Delayed, Untouched

\* Who took what is no worse after a step that lets at most its own RPC in.
LEMMA TakersKept ==
    ASSUME IInv, Refusals, NEW r \in Rpcs, StepOf(r), NEW k \in Keys,
           \A q \in takers'[k] : q \in takers[k] \/ (q = r /\ TookIn(r, k)')
    PROVE  \A q \in takers'[k] : TookIn(q, k)'
<1> SUFFICES ASSUME NEW q \in takers'[k], q \in takers[k] PROVE TookIn(q, k)'
    OBVIOUS
<1>1. TookIn(q, k) /\ q \in Rpcs
      BY DEF Refusals, Took, IInv, TypeOK
<1>2. CASE q # r
      BY <1>1, <1>2 DEF StepOf, Untouched, TookIn
<1>3. CASE q = r
  <2>1. idx[r] \in Nat
        BY KeyOf DEF IInv, TypeOK
  <2>2. pc[r] # "new" /\ bucket[r] = k[1]
        BY <1>1, <1>3 DEF TookIn
  <2>3. pc'[r] \in {"increx", "pttl"} => \E i \in 1..(idx'[r] - 1) : Windows[i] = k[2]
    <3> SUFFICES ASSUME pc'[r] \in {"increx", "pttl"}
                 PROVE  \E i \in 1..(idx'[r] - 1) : Windows[i] = k[2]
        OBVIOUS
    <3>1. pc[r] \in {"increx", "pttl"} /\ idx'[r] \in {idx[r], idx[r] + 1}
          BY <2>2 DEF StepOf
    <3>2. PICK i \in 1..(idx[r] - 1) : Windows[i] = k[2]
          BY <1>1, <1>3, <3>1 DEF TookIn
    <3>3. i \in 1..(idx'[r] - 1)
          BY <2>1, <3>1, <3>2
    <3> QED BY <3>2, <3>3
  <2> QED BY <1>3, <2>2, <2>3 DEF StepOf, TookIn
<1> QED BY <1>2, <1>3

\* An RPC has not been let past the counter it asks for.
LEMMA NotTaken ==
    ASSUME DistinctWindows, IInv, Refusals, NEW r \in Rpcs, pc[r] \in {"increx", "pttl"}
    PROVE  r \notin takers[Key(r)]
<1> SUFFICES ASSUME r \in takers[Key(r)] PROVE FALSE
    OBVIOUS
<1>1. /\ Key(r) \in Keys /\ idx[r] \in 1..Len(Windows) /\ DOMAIN Windows = 1..Len(Windows)
      /\ Len(Windows) \in Nat
      BY KeyOf DEF IInv, TypeOK
<1>2. TookIn(r, Key(r))
      BY <1>1 DEF Refusals, Took
<1>3. Key(r)[2] = Windows[idx[r]]
      BY DEF Key
<1>4. PICK i \in 1..(idx[r] - 1) : Windows[i] = Windows[idx[r]]
      BY <1>2, <1>3 DEF TookIn
<1> QED BY <1>1, <1>4 DEF DistinctWindows

\* The counter that is incremented, and all others.
LEMMA IncrementTook ==
    ASSUME DistinctWindows, IInv, Refusals, NEW r \in Rpcs, pc[r] = "increx",
           StepOf(r), NEW k \in Keys, k = Key(r), Increment(k, r), TookIn(r, k)', now' = now
    PROVE  \A j \in Keys : Took(j)'
<1>0. /\ count \in [Keys -> Nat] /\ expiry \in [Keys -> Nat] /\ takers \in [Keys -> SUBSET Rpcs]
      /\ now \in Nat
      BY ConstantsAssumption DEF IInv, TypeOK
<1>3. /\ count'[k] = (IF Alive(k) THEN count[k] + 1 ELSE 1)
      /\ expiry'[k] = (IF Alive(k) THEN expiry[k] ELSE now + k[2].ms)
      /\ takers'[k] = (IF Alive(k) THEN takers[k] \cup {r} ELSE {r})
      /\ \A j \in Keys : j # k =>
           count'[j] = count[j] /\ expiry'[j] = expiry[j] /\ takers'[j] = takers[j]
      BY <1>0 DEF Increment
<1>4. ASSUME NEW j \in Keys, j # k PROVE Took(j)'
  <2>1. Took(j)
        BY DEF Refusals
  <2>2. \A q \in takers'[j] : TookIn(q, j)'
        BY <1>3, <1>4, TakersKept
  <2> QED BY <1>3, <1>4, <2>1, <2>2 DEF Took, Alive
<1>5. Took(k)'
  <2>1. Took(k) /\ IsFiniteSet(takers[k]) /\ k[2].ms \in Nat /\ r \notin takers[k]
        BY NotTaken, KeyFacts DEF Refusals, IInv, Counters, Counted
  <2>2. \A q \in takers'[k] : TookIn(q, k)'
    <3>1. \A q \in takers'[k] : q \in takers[k] \/ (q = r /\ TookIn(r, k)')
          BY <1>3
    <3> QED BY <3>1, TakersKept
  <2>3. count'[k] <= Cardinality(takers'[k])
    <3>1. CASE Alive(k)
      <4>1. Cardinality(takers[k] \cup {r}) = Cardinality(takers[k]) + 1
            BY <2>1, FS_AddElement
      <4>2. Cardinality(takers[k]) \in Nat /\ count[k] <= Cardinality(takers[k])
            BY <2>1, <3>1, FS_CardinalityType DEF Took
      <4> QED BY <1>0, <1>3, <3>1, <4>1, <4>2
    <3>2. CASE ~Alive(k)
      <4>1. Cardinality({r}) = 1
            BY FS_Singleton
      <4> QED BY <1>3, <3>2, <4>1
    <3> QED BY <3>1, <3>2
  <2>4. expiry'[k] <= now + k[2].ms
        BY <1>0, <1>3, <2>1 DEF Took
  <2> QED BY <2>2, <2>3, <2>4 DEF Took
<1> QED BY <1>4, <1>5

\* A step that leaves all counters alone.
LEMMA SameTook ==
    ASSUME IInv, Refusals, NEW r \in Rpcs, StepOf(r), UNCHANGED <<now, count, expiry, takers>>
    PROVE  \A k \in Keys : Took(k)'
<1> SUFFICES ASSUME NEW k \in Keys PROVE Took(k)'
    OBVIOUS
<1>1. Took(k)
      BY DEF Refusals
<1>2. \A q \in takers'[k] : TookIn(q, k)'
      BY TakersKept
<1> QED BY <1>1, <1>2 DEF Took, Alive


\* An RPC goes past a window: it took the window's counter.
LEMMA PassStep ==
    ASSUME IInv, NEW r \in Rpcs, pc[r] \in {"increx", "pttl"}, Pass(r),
           UNCHANGED <<config, verdict, runs, bypass, bucket, blame, wait>>,
           NEW k \in Keys, k = Key(r)
    PROVE  StepOf(r) /\ TookIn(r, k)' /\ Preceded(r)' /\ Delayed(r)'
<1>1. /\ idx[r] \in Nat /\ idx[r] >= 1 /\ verdict[r] = "none"
      /\ idx \in [Rpcs -> 1..Len(Windows)] /\ pc \in [Rpcs -> Pcs]
      /\ passed \in [Rpcs -> SUBSET DOMAIN Windows]
      BY KeyOf DEF IInv, TypeOK, Staged, Stage, Pcs
<1>2. /\ \/ pc'[r] = "increx" /\ idx'[r] = idx[r] + 1
         \/ pc'[r] = "invoke" /\ idx'[r] = idx[r]
      /\ \A q \in Rpcs : q # r => pc'[q] = pc[q] /\ idx'[q] = idx[q] /\ passed'[q] = passed[q]
  <2>1. CASE idx[r] < Len(Windows)
        BY <1>1, <2>1 DEF Pass
  <2>2. CASE ~(idx[r] < Len(Windows))
        BY <1>1, <2>2 DEF Pass
  <2> QED BY <2>1, <2>2
<1>3. StepOf(r)
      BY <1>2 DEF StepOf, Untouched
<1>4. TookIn(r, k)'
  <2>1. bucket[r] = k[1] /\ Windows[idx[r]] = k[2]
        BY DEF Key
  <2>2. pc'[r] = "increx" => idx[r] \in 1..(idx'[r] - 1)
        BY <1>1, <1>2
  <2> QED BY <1>2, <2>1, <2>2 DEF TookIn
<1>5. Preceded(r)' /\ Delayed(r)'
      BY <1>1, <1>2 DEF Preceded, Delayed
<1> QED BY <1>3, <1>4, <1>5

LEMMA EntryRefusals ==
    ASSUME IInv, Refusals, NEW r \in Rpcs,
           Exempt(r) \/ IdentifyFails(r) \/ \E c \in Callers : Identify(r, c)
    PROVE  Refusals'
<1>1. /\ UNCHANGED <<config, now, count, expiry, takers, idx, runs, passed, blame, wait>>
      /\ pc[r] = "new" /\ Stage(r) /\ TypeOK
      BY DEF Exempt, IdentifyFails, Identify, IInv, Staged
<1>2. /\ pc'[r] \in {"invoke", "increx", "done"} /\ verdict'[r] # "exhausted"
      /\ \A q \in Rpcs : q # r => /\ pc'[q] = pc[q] /\ verdict'[q] = verdict[q]
                                  /\ bypass'[q] = bypass[q] /\ bucket'[q] = bucket[q]
  <2>1. CASE Exempt(r)
        BY <1>1, <2>1 DEF Exempt, TypeOK, Stage
  <2>2. CASE IdentifyFails(r)
        BY <1>1, <2>2 DEF IdentifyFails, Finish, TypeOK, Stage
  <2>3. ASSUME NEW c \in Callers, Identify(r, c)
        PROVE  /\ pc'[r] = "increx" /\ verdict'[r] # "exhausted"
               /\ \A q \in Rpcs : q # r => /\ pc'[q] = pc[q] /\ verdict'[q] = verdict[q]
                                           /\ bypass'[q] = bypass[q] /\ bucket'[q] = bucket[q]
        BY <1>1, <2>3 DEF Identify, TypeOK, Stage
  <2> QED BY <2>1, <2>2, <2>3
<1>3. StepOf(r) /\ Preceded(r)' /\ Delayed(r)'
      BY <1>1, <1>2 DEF StepOf, Untouched, Preceded, Delayed
<1> QED BY <1>1, <1>3, SameTook, OthersRefused DEF Refusals

LEMMA IncrexRefusals ==
    ASSUME DistinctWindows, IInv, Refusals, NEW r \in Rpcs, Increx(r) PROVE Refusals'
<1>1. PICK k \in Keys : k = Key(r)
      BY KeyOf DEF IInv
<1>2. /\ UNCHANGED <<config, now, bucket, verdict, runs, bypass, wait>>
      /\ pc[r] = "increx" /\ verdict[r] = "none"
      BY DEF Increx, IInv, Staged, Stage
<1>3. CASE Full(k)
  <2>1. /\ pc' = [pc EXCEPT ![r] = "pttl"] /\ blame' = [blame EXCEPT ![r] = takers[k]]
        /\ UNCHANGED <<count, expiry, takers, passed, idx>>
        BY <1>1, <1>3 DEF Increx
  <2>2. /\ pc'[r] = "pttl" /\ blame'[r] = takers[k]
        /\ \A q \in Rpcs : q # r => pc'[q] = pc[q] /\ blame'[q] = blame[q]
        BY <2>1 DEF IInv, TypeOK
  <2>3. StepOf(r) /\ Delayed(r)'
        BY <1>2, <2>1, <2>2 DEF StepOf, Untouched, Delayed
  <2>4. Preceded(r)'
    <3>1. Took(k) /\ Counted(k) /\ r \notin takers[k]
          BY <1>1, <1>2, NotTaken DEF Refusals, IInv, Counters
    <3>2. k[2] = Windows[idx[r]] /\ k[1] = bucket[r]
          BY <1>1 DEF Key
    <3>3. IsFiniteSet(takers[k]) /\ k[2].calls <= Cardinality(takers[k])
      <4>1. /\ count[k] \in Nat /\ k[2].calls \in Nat /\ Cardinality(takers[k]) \in Nat
            /\ IsFiniteSet(takers[k])
            BY <3>1, KeyFacts, FS_CardinalityType DEF Counted, IInv, TypeOK
      <4> QED BY <1>3, <3>1, <4>1 DEF Full, Took
    <3>4. \A q \in takers[k] : q # r /\ bucket[q] = bucket[r] /\ pc[q] # "new" /\ q \in Rpcs
          BY <3>1, <3>2 DEF Took, TookIn, IInv, TypeOK
    <3> QED BY <1>2, <2>1, <2>2, <3>2, <3>3, <3>4 DEF Preceded
  <2> QED BY <1>2, <2>1, <2>3, <2>4, SameTook, OthersRefused DEF Refusals
<1>4. CASE ~Full(k)
  <2>1. Increment(k, r) /\ Pass(r) /\ UNCHANGED blame
        BY <1>1, <1>4 DEF Increx
  <2>2. StepOf(r) /\ TookIn(r, k)' /\ Preceded(r)' /\ Delayed(r)'
        BY <1>1, <1>2, <2>1, PassStep
  <2>3. \A j \in Keys : Took(j)'
        BY <1>1, <1>2, <2>1, <2>2, IncrementTook
  <2> QED BY <2>2, <2>3, OthersRefused DEF Refusals
<1> QED BY <1>3, <1>4

LEMMA PttlRefusals ==
    ASSUME IInv, Refusals, NEW r \in Rpcs, Pttl(r) PROVE Refusals'
<1>1. PICK k \in Keys : k = Key(r)
      BY KeyOf DEF IInv
<1>2. /\ UNCHANGED <<config, now, count, expiry, bucket, runs, bypass, blame>>
      /\ pc[r] = "pttl" /\ verdict[r] = "none" /\ Preceded(r)
      BY DEF Pttl, IInv, Staged, Stage, Refusals
<1>3. PICK ttl \in Ttls(k) :
        IF ttl = 0
        THEN /\ Pass(r) /\ takers' = [takers EXCEPT ![k] = @ \cup {r}]
             /\ UNCHANGED <<verdict, wait>>
        ELSE /\ Finish(r, "exhausted")
             /\ wait' = [wait EXCEPT ![r] =
                   [retry |-> now + SecondMs * RetryAfterSeconds(ttl, k[2].ms),
                    gone |-> IF Alive(k) THEN expiry[k] ELSE now]]
             /\ UNCHANGED <<passed, idx, takers>>
      BY <1>1 DEF Pttl
<1>4. /\ now \in Nat /\ expiry[k] \in Nat /\ k[2].ms \in Nat \ {0} /\ Took(k)
      /\ takers \in [Keys -> SUBSET Rpcs] /\ IsFiniteSet(takers[k])
      BY ConstantsAssumption, KeyFacts DEF IInv, TypeOK, Refusals, Counters, Counted
<1>5. CASE ttl = 0
  <2>1. Pass(r) /\ takers' = [takers EXCEPT ![k] = @ \cup {r}] /\ UNCHANGED <<verdict, wait>>
        BY <1>3, <1>5
  <2>2. StepOf(r) /\ TookIn(r, k)' /\ Preceded(r)' /\ Delayed(r)'
        BY <1>1, <1>2, <2>1, PassStep
  <2>3. ASSUME NEW j \in Keys PROVE Took(j)'
    <3>1. Took(j) /\ (j # k => takers'[j] = takers[j]) /\ takers'[k] = takers[k] \cup {r}
          BY <1>4, <2>1 DEF Refusals
    <3>2. \A q \in takers'[j] : q \in takers[j] \/ (q = r /\ TookIn(r, j)')
          BY <2>2, <3>1
    <3>3. \A q \in takers'[j] : TookIn(q, j)'
          BY <2>2, <3>2, TakersKept
    <3>4. Alive(j) => count[j] <= Cardinality(takers'[j])
      <4>1. CASE j # k
            BY <3>1, <4>1 DEF Took
      <4>2. CASE j = k
        <5>1. /\ Cardinality(takers[k]) \in Nat /\ Cardinality(takers'[k]) \in Nat
              /\ Cardinality(takers[k]) <= Cardinality(takers'[k])
          <6>1. /\ IsFiniteSet(takers[k] \cup {r})
                /\ \/ Cardinality(takers[k] \cup {r}) = Cardinality(takers[k])
                   \/ Cardinality(takers[k] \cup {r}) = Cardinality(takers[k]) + 1
                BY <1>4, FS_AddElement
          <6>2. /\ Cardinality(takers[k]) \in Nat
                /\ Cardinality(takers[k] \cup {r}) \in Nat
                BY <1>4, <6>1, FS_CardinalityType
          <6> QED BY <3>1, <6>1, <6>2
        <5>2. count[k] \in Nat
              BY DEF IInv, TypeOK
        <5> QED BY <1>4, <4>2, <5>1, <5>2 DEF Took
      <4> QED BY <4>1, <4>2
    <3> QED BY <1>2, <3>1, <3>3, <3>4 DEF Took, Alive
  <2> QED BY <2>2, <2>3, OthersRefused DEF Refusals
<1>6. CASE ttl # 0
  <2> DEFINE retry == now + SecondMs * RetryAfterSeconds(ttl, k[2].ms)
             gone == IF Alive(k) THEN expiry[k] ELSE now
  <2>1. /\ Finish(r, "exhausted") /\ wait' = [wait EXCEPT ![r] = [retry |-> retry, gone |-> gone]]
        /\ UNCHANGED <<passed, idx, takers>>
        BY <1>3, <1>6
  <2>2. gone <= retry
    <3> DEFINE n == gone - now
    <3>1. n \in Nat /\ n <= k[2].ms
          BY <1>4 DEF Took, Alive
    <3>2. ttl \in Int /\ (ttl > 0 => n <= ttl)
          BY <1>4 DEF Ttls, Alive
    <3>3. n <= SecondMs * RetryAfterSeconds(ttl, k[2].ms)
      <4> HIDE DEF n
      <4> QED BY <1>4, <3>1, <3>2, RoundsUp
    <3>4. SecondMs * RetryAfterSeconds(ttl, k[2].ms) \in Int
          BY <1>4, <3>2, RetriesIn
    <3>5. gone \in Int
          BY <1>4
    <3> HIDE DEF gone
    <3> QED BY <1>4, <3>3, <3>4, <3>5
  <2> HIDE DEF retry, gone
  <2>3. /\ pc'[r] = "done" /\ verdict'[r] = "exhausted"
        /\ wait'[r].retry = retry /\ wait'[r].gone = gone
        /\ \A q \in Rpcs : q # r =>
             pc'[q] = pc[q] /\ verdict'[q] = verdict[q] /\ wait'[q] = wait[q]
        BY <2>1 DEF Finish, IInv, TypeOK
  <2>4. StepOf(r)
        BY <1>2, <2>1, <2>3 DEF StepOf, Untouched
  <2>5. Preceded(r)'
    <3>1. blame[r] \subseteq Rpcs
          BY DEF IInv, TypeOK
    <3>2. \A q \in Rpcs : pc[q] # "new" => pc'[q] # "new"
          BY <2>3
    <3> QED BY <1>2, <2>1, <2>3, <3>1, <3>2 DEF Preceded
  <2>6. Delayed(r)'
        BY <2>2, <2>3 DEF Delayed
  <2> QED BY <1>2, <2>1, <2>4, <2>5, <2>6, SameTook, OthersRefused DEF Refusals
<1> QED BY <1>5, <1>6

LEMMA FailureRefusals ==
    ASSUME DistinctWindows, IInv, Refusals, NEW r \in Rpcs, RedisFails(r) \/ ReplyLost(r)
    PROVE  Refusals'
<1>1. /\ UNCHANGED <<config, now, bucket, idx, runs, passed, blame, wait>>
      /\ pc[r] \in {"increx", "pttl"} /\ Refuse(r) /\ verdict[r] = "none" /\ TypeOK
      BY DEF RedisFails, ReplyLost, IInv, Staged, Stage
<1>2. /\ pc'[r] \in {"done", "bypass", "invoke"} /\ verdict'[r] # "exhausted"
      /\ \A q \in Rpcs : q # r => /\ pc'[q] = pc[q] /\ verdict'[q] = verdict[q]
                                  /\ bypass'[q] = bypass[q]
  <2>1. CASE config.failClosed
        BY <1>1, <2>1 DEF Refuse, Finish, TypeOK
  <2>2. CASE ~config.failClosed
        BY <1>1, <2>2 DEF Refuse, TypeOK
  <2> QED BY <2>1, <2>2
<1>3. StepOf(r) /\ Preceded(r)' /\ Delayed(r)'
      BY <1>1, <1>2 DEF StepOf, Untouched, Preceded, Delayed
<1>4. \A j \in Keys : Took(j)'
  <2>1. CASE RedisFails(r)
        BY <1>1, <1>3, <2>1, SameTook DEF RedisFails
  <2>2. CASE ReplyLost(r)
    <3>1. PICK k \in Keys : k = Key(r)
          BY KeyOf DEF IInv
    <3>2. TookIn(r, k)'
          BY <1>1, <1>2, <3>1 DEF TookIn, Key
    <3> QED BY <1>1, <1>3, <2>2, <3>1, <3>2, IncrementTook DEF ReplyLost
  <2> QED BY <2>1, <2>2
<1> QED BY <1>3, <1>4, OthersRefused DEF Refusals

LEMMA HandlerRefusals ==
    ASSUME IInv, Refusals, NEW r \in Rpcs, Invoke(r) \/ Bypass(r) PROVE Refusals'
<1>1. /\ UNCHANGED <<config, now, count, expiry, takers, bucket, idx, passed, blame, wait>>
      /\ pc[r] \in {"invoke", "bypass"} /\ verdict[r] = "none" /\ TypeOK
      BY DEF Invoke, Bypass, IInv, Staged, Stage
<1>2. /\ pc'[r] \in {"done", "invoke"} /\ verdict'[r] # "exhausted"
      /\ \A q \in Rpcs : q # r => /\ pc'[q] = pc[q] /\ verdict'[q] = verdict[q]
                                  /\ bypass'[q] = bypass[q] /\ runs'[q] = runs[q]
      BY <1>1 DEF Invoke, Bypass, Finish, TypeOK
<1>3. StepOf(r) /\ Preceded(r)' /\ Delayed(r)'
      BY <1>1, <1>2 DEF StepOf, Untouched, Preceded, Delayed
<1> QED BY <1>1, <1>3, SameTook, OthersRefused DEF Refusals

LEMMA TickRefusals == ASSUME IInv, Refusals, Tick PROVE Refusals'
<1>1. /\ now \in Nat /\ now' = now + 1
      /\ UNCHANGED <<count, expiry, takers, pc, bucket, idx, verdict, blame, wait>>
      BY ConstantsAssumption DEF Tick, rpcState, IInv, TypeOK
<1>2. ASSUME NEW k \in Keys PROVE Took(k)'
  <2>1. Took(k) /\ expiry[k] \in Nat /\ k[2].ms \in Nat
        BY KeyFacts DEF Refusals, IInv, TypeOK
  <2> QED BY <1>1, <2>1 DEF Took, TookIn, Alive
<1>3. \A r \in Rpcs : Preceded(r)' /\ Delayed(r)'
      BY <1>1 DEF Refusals, Preceded, Delayed
<1> QED BY <1>2, <1>3 DEF Refusals

LEMMA InitialRefusals == ASSUME Init PROVE Refusals
<1>1. ASSUME NEW k \in Keys PROVE Took(k)
      BY KeyFacts DEF Init, Took, Alive
<1>2. \A r \in Rpcs : Preceded(r) /\ Delayed(r)
      BY DEF Init, Preceded, Delayed
<1> QED BY <1>1, <1>2 DEF Refusals

\* _enforce_rate_limit_windows() and the answer to a refused RPC: who is told to wait
\* had as many others of its own identity before it as the window allows, and does not
\* meet the same counter if it waits as long as it is told to; for all stacks of windows
\* that differ in size or length, for any RPCs and faults.
THEOREM Justified ==
    ASSUME DistinctWindows
    PROVE  Spec => []RefusalJustified
<1>1. Init => Refusals
      BY InitialRefusals
<1>2. IInv /\ Refusals /\ [Next]_vars => Refusals'
  <2> SUFFICES ASSUME IInv, Refusals, [Next]_vars PROVE Refusals'
      OBVIOUS
  <2>1. CASE UNCHANGED vars
        BY <2>1 DEF vars, rpcState, Refusals, Took, TookIn, Alive, Preceded, Delayed
  <2> QED BY <2>1, TickRefusals, EntryRefusals, IncrexRefusals, PttlRefusals, FailureRefusals,
             HandlerRefusals DEF Next
<1>3. IInv /\ Refusals => RefusalJustified
  <2> SUFFICES ASSUME IInv, Refusals, NEW r \in Rpcs, verdict[r] = "exhausted"
               PROVE  /\ Cardinality({q \in blame[r] \ {r} : bucket[q] = bucket[r]})
                           >= Windows[idx[r]].calls
                      /\ wait[r].retry >= wait[r].gone
      BY DEF RefusalJustified
  <2>1. Preceded(r) /\ Delayed(r) /\ wait[r].retry \in Nat /\ wait[r].gone \in Nat
        BY DEF Refusals, IInv, TypeOK
  <2>2. {q \in blame[r] \ {r} : bucket[q] = bucket[r]} = blame[r]
        BY <2>1 DEF Preceded
  <2>3. Windows[idx[r]].calls \in Nat
    <3>1. Key(r) \in Keys /\ Key(r)[2] = Windows[idx[r]]
          BY KeyOf DEF IInv, Key
    <3> QED BY <3>1, KeyFacts
  <2>4. Cardinality(blame[r]) \in Nat
        BY <2>1, FS_CardinalityType DEF Preceded
  <2> QED BY <2>1, <2>2, <2>3, <2>4 DEF Preceded, Delayed
<1> QED BY <1>1, <1>2, <1>3, Invariance, PTL DEF Spec
=============================================================================

--------------------------- MODULE GrpcRateLimit ---------------------------
(***************************************************************************)
(* The gRPC rate limit interceptors (sync and async) over Redis counters.  *)
(*                                                                         *)
(* An RPC passes the windows of its method one after the other.  For each  *)
(* it increments a counter that Redis bounds and expires (INCREX); only if *)
(* that was refused does it ask, in a second command, how long the counter *)
(* still lives (PTTL), and takes the answer 0 for a pass.  Between any two *)
(* commands other RPCs run, time passes, or Redis fails.                   *)
(*                                                                         *)
(* Time is counted in milliseconds.  Redis is external: a counter is gone  *)
(* once the clock is past its expiry, so in its last millisecond it exists *)
(* and PTTL answers 0.                                                     *)
(***************************************************************************)
EXTENDS Integers, Sequences, FiniteSets

CONSTANTS Rpcs,
          Callers,    \* identities: a JWT sub or a peer address
          Unknown,    \* the identity shared by RPCs that could not be identified
          Windows,    \* windows of the method, in order: [calls |-> n, ms |-> n]
          Configs,    \* settings of servers: [failClosed |-> b, async |-> b]
          Faults,     \* "redis": a command fails; "lost_reply": it was executed
                      \* and fails; "identity": identifier_fn raises;
                      \* "no_result": a handler returns None;
                      \* "replica": the replica lags behind the master
          SecondMs,   \* milliseconds in a second, scaled down
          MaxTime     \* bound on the clock

Window == [calls : Nat \ {0}, ms : Nat \ {0}]

ASSUME ConstantsAssumption == /\ Windows \in Seq(Window)
                              /\ Windows # <<>>
                              /\ Unknown \notin Callers
                              /\ SecondMs \in Nat \ {0}
                              /\ MaxTime \in Nat

\* A window's counter is found by its size and length, per identity.
Keys == (Callers \cup {Unknown}) \X {Windows[i] : i \in DOMAIN Windows}

VARIABLES config,   \* the server's settings, fixed
          now,      \* the clock of Redis
          count,    \* key -> value of the counter, 0 before its first use
          expiry,   \* key -> when the counter expires
          pc,       \* rpc -> where the interceptor is
          bucket,   \* rpc -> the identity it is counted under
          idx,      \* rpc -> the window it is at
          verdict,  \* rpc -> "none", "ok", "exhausted" or "unavailable"
          runs,     \* rpc -> how often its handler was invoked
          bypass,   \* history: rpc -> why it skipped windows, if it did
          passed,   \* history: rpc -> the windows it passed
          takers,   \* history: key -> the RPCs let past its present counter
          blame,    \* history: rpc -> the takers when it was refused
          wait      \* history: rpc -> when it may retry, when the counter ends

rpcState == <<pc, bucket, idx, verdict, runs, bypass, passed, blame, wait>>
vars == <<config, now, count, expiry, takers, rpcState>>

TypeOK == /\ config \in Configs
          /\ now \in 0..MaxTime
          /\ count \in [Keys -> Nat]
          /\ expiry \in [Keys -> Nat]
          /\ pc \in [Rpcs -> {"new", "increx", "pttl", "bypass", "invoke", "done"}]
          /\ bucket \in [Rpcs -> Callers \cup {Unknown}]
          /\ idx \in [Rpcs -> 1..Len(Windows)]
          /\ verdict \in [Rpcs -> {"none", "ok", "exhausted", "unavailable"}]
          /\ runs \in [Rpcs -> Nat]
          /\ bypass \in [Rpcs -> {"no", "exempt", "redis", "answered_none"}]
          /\ passed \in [Rpcs -> SUBSET DOMAIN Windows]
          /\ takers \in [Keys -> SUBSET Rpcs]
          /\ blame \in [Rpcs -> SUBSET Rpcs]
          /\ wait \in [Rpcs -> [retry : Nat, gone : Nat]]

Init == /\ config \in Configs
        /\ now = 0
        /\ count = [k \in Keys |-> 0]
        /\ expiry = [k \in Keys |-> 0]
        /\ pc = [r \in Rpcs |-> "new"]
        /\ bucket = [r \in Rpcs |-> Unknown]
        /\ idx = [r \in Rpcs |-> 1]
        /\ verdict = [r \in Rpcs |-> "none"]
        /\ runs = [r \in Rpcs |-> 0]
        /\ bypass = [r \in Rpcs |-> "no"]
        /\ passed = [r \in Rpcs |-> {}]
        /\ takers = [k \in Keys |-> {}]
        /\ blame = [r \in Rpcs |-> {}]
        /\ wait = [r \in Rpcs |-> [retry |-> 0, gone |-> 0]]

-----------------------------------------------------------------------------
\* The key of the window an RPC is at.
\* Mutant: the identity is left out of the key.
KeySharedByAll(r) == <<Unknown, Windows[idx[r]]>>
Key(r) == <<bucket[r], Windows[idx[r]]>>

Alive(k) == count[k] > 0 /\ now <= expiry[k]

\* Rounding up, at least one second; a full window if the counter is gone.
Ceil(a, b) == (a + b - 1) \div b
AtLeast1(n) == IF n < 1 THEN 1 ELSE n
\* Mutant: rounded down.
RetryAfterFloor(ttl, ms) == AtLeast1((IF ttl > 0 THEN ttl ELSE ms) \div SecondMs)
RetryAfterSeconds(ttl, ms) == AtLeast1(Ceil(IF ttl > 0 THEN ttl ELSE ms, SecondMs))

Finish(r, v) == /\ pc' = [pc EXCEPT ![r] = "done"]
                /\ verdict' = [verdict EXCEPT ![r] = v]

\* Windowed increment: a dead counter starts anew, a full one stays as it is.
\* Mutant: one call more than the window allows.
FullTooLate(k) == Alive(k) /\ count[k] > k[2].calls
Full(k) == Alive(k) /\ count[k] >= k[2].calls
Increment(k, r) ==
    /\ count' = [count EXCEPT ![k] = IF Alive(k) THEN @ + 1 ELSE 1]
    /\ expiry' = [expiry EXCEPT ![k] = IF Alive(k) THEN @ ELSE now + k[2].ms]
    /\ takers' = [takers EXCEPT ![k] = IF Alive(k) THEN @ \cup {r} ELSE {r}]

\* The window lets the RPC through: the next window, or the handler.
\* Mutants: the first window decides; the loop does not end with the windows.
PassFirstOnly(r) ==
    /\ passed' = [passed EXCEPT ![r] = @ \cup {idx[r]}]
    /\ pc' = [pc EXCEPT ![r] = "invoke"]
    /\ UNCHANGED idx
PassAgain(r) ==
    /\ passed' = [passed EXCEPT ![r] = @ \cup {idx[r]}]
    /\ idx' = [idx EXCEPT ![r] = @ + 1]
    /\ pc' = [pc EXCEPT ![r] = IF idx[r] <= Len(Windows) THEN "increx" ELSE "invoke"]
Pass(r) ==
    /\ passed' = [passed EXCEPT ![r] = @ \cup {idx[r]}]
    /\ IF idx[r] < Len(Windows)
       THEN /\ idx' = [idx EXCEPT ![r] = @ + 1]
            /\ pc' = [pc EXCEPT ![r] = "increx"]
       ELSE /\ pc' = [pc EXCEPT ![r] = "invoke"]
            /\ UNCHANGED idx

-----------------------------------------------------------------------------
\* The method is undecorated or in SKIP_METHODS.
Exempt(r) ==
    /\ pc[r] = "new"
    /\ pc' = [pc EXCEPT ![r] = "invoke"]
    /\ bypass' = [bypass EXCEPT ![r] = "exempt"]
    /\ UNCHANGED <<config, now, count, expiry, takers, bucket, idx, verdict, runs,
                   passed, blame, wait>>

Identify(r, c) ==
    /\ pc[r] = "new"
    /\ pc' = [pc EXCEPT ![r] = "increx"]
    /\ bucket' = [bucket EXCEPT ![r] = c]
    /\ UNCHANGED <<config, now, count, expiry, takers, idx, verdict, runs, bypass,
                   passed, blame, wait>>

\* identifier_fn raises: UNAVAILABLE, or the shared identity "unknown".
IdentifyFails(r) ==
    /\ "identity" \in Faults
    /\ pc[r] = "new"
    /\ IF config.failClosed THEN Finish(r, "unavailable")
       ELSE pc' = [pc EXCEPT ![r] = "increx"] /\ UNCHANGED verdict
    /\ UNCHANGED <<config, now, count, expiry, takers, bucket, idx, runs, bypass,
                   passed, blame, wait>>

\* INCREX
Increx(r) ==
    /\ pc[r] = "increx"
    /\ IF Full(Key(r))
       THEN /\ pc' = [pc EXCEPT ![r] = "pttl"]
            /\ blame' = [blame EXCEPT ![r] = takers[Key(r)]]
            /\ UNCHANGED <<count, expiry, takers, passed, idx>>
       ELSE /\ Increment(Key(r), r)
            /\ Pass(r)
            /\ UNCHANGED blame
    /\ UNCHANGED <<config, now, bucket, verdict, runs, bypass, wait>>

\* PTTL, after a refused increment: -2 if the counter is gone by now.  It is
\* asked of the read-only client, a replica that may not know the counter yet.
\* Any answer but 0 aborts with RESOURCE_EXHAUSTED and a delay.
Ttls(k) == {IF Alive(k) THEN expiry[k] - now ELSE -2}
             \cup (IF "replica" \in Faults THEN {-2} ELSE {})
Pttl(r) ==
    /\ pc[r] = "pttl"
    /\ \E ttl \in Ttls(Key(r)) :
         LET k == Key(r) IN
         IF ttl = 0
         THEN /\ Pass(r)
              /\ takers' = [takers EXCEPT ![k] = @ \cup {r}]
              /\ UNCHANGED <<verdict, wait>>
         ELSE /\ Finish(r, "exhausted")
              /\ wait' = [wait EXCEPT ![r] =
                    [retry |-> now + SecondMs * RetryAfterSeconds(ttl, k[2].ms),
                     gone |-> IF Alive(k) THEN expiry[k] ELSE now]]
              /\ UNCHANGED <<passed, idx, takers>>
    /\ UNCHANGED <<config, now, count, expiry, bucket, runs, bypass, blame>>

\* The error branch: UNAVAILABLE, or the handler runs without the windows.
Refuse(r) ==
    IF config.failClosed
    THEN Finish(r, "unavailable") /\ UNCHANGED bypass
    ELSE /\ pc' = [pc EXCEPT ![r] = IF config.async THEN "bypass" ELSE "invoke"]
         /\ bypass' = [bypass EXCEPT ![r] = "redis"]
         /\ UNCHANGED verdict

RedisFails(r) ==
    /\ "redis" \in Faults
    /\ pc[r] \in {"increx", "pttl"}
    /\ Refuse(r)
    /\ UNCHANGED <<config, now, count, expiry, takers, bucket, idx, runs, passed,
                   blame, wait>>

\* The counter is incremented and the connection breaks.
ReplyLost(r) ==
    /\ "lost_reply" \in Faults
    /\ pc[r] = "increx"
    /\ ~Full(Key(r))
    /\ Increment(Key(r), r)
    /\ Refuse(r)
    /\ UNCHANGED <<config, now, bucket, idx, runs, passed, blame, wait>>

\* The handler runs, after the windows or instead of them.
Invoke(r) ==
    /\ pc[r] = "invoke"
    /\ runs' = [runs EXCEPT ![r] = @ + 1]
    /\ Finish(r, "ok")
    /\ UNCHANGED <<config, now, count, expiry, takers, bucket, idx, bypass, passed,
                   blame, wait>>

\* Mutant: intercept() does not return the result of the bypass.
BypassDropsResult(r) ==
    /\ pc[r] = "bypass"
    /\ runs' = [runs EXCEPT ![r] = @ + 1]
    /\ pc' = [pc EXCEPT ![r] = "invoke"]
    /\ UNCHANGED <<config, now, count, expiry, takers, bucket, idx, verdict, bypass,
                   passed, blame, wait>>
\* The async helper runs the handler and returns its result; intercept() takes
\* a result of None for "all windows passed".
Bypass(r) ==
    /\ pc[r] = "bypass"
    /\ runs' = [runs EXCEPT ![r] = @ + 1]
    /\ \/ Finish(r, "ok") /\ UNCHANGED bypass
       \/ /\ "no_result" \in Faults
          /\ pc' = [pc EXCEPT ![r] = "invoke"]
          /\ bypass' = [bypass EXCEPT ![r] = "answered_none"]
          /\ UNCHANGED verdict
    /\ UNCHANGED <<config, now, count, expiry, takers, bucket, idx, passed, blame, wait>>

Tick == /\ now < MaxTime
        /\ now' = now + 1
        /\ UNCHANGED <<config, count, expiry, takers, rpcState>>

Next == \/ Tick
        \/ \E r \in Rpcs : \/ Exempt(r) \/ IdentifyFails(r) \/ Increx(r) \/ Pttl(r)
                           \/ RedisFails(r) \/ ReplyLost(r) \/ Invoke(r) \/ Bypass(r)
                           \/ \E c \in Callers : Identify(r, c)

Spec == Init /\ [][Next]_vars

-----------------------------------------------------------------------------
\* Properties

\* "Maximum allowed requests within the window": until the last millisecond of
\* a window no more RPCs got past it than it allows, whatever overlaps.
LimitHeldBeforeExpiry ==
    \A k \in Keys : Alive(k) /\ now < expiry[k] => Cardinality(takers[k]) <= k[2].calls

\* "RPCs within the limit succeed": who is told to wait had at least as many
\* other RPCs of its own identity before it as the window allows, and if it
\* waits as long as it is told to it does not meet the same counter again: the
\* rounding to seconds and the time between the refused increment and the
\* question for the delay never make the delay too short.
RefusalJustified ==
    \A r \in Rpcs : verdict[r] = "exhausted" =>
        /\ Cardinality({q \in blame[r] \ {r} : bucket[q] = bucket[r]})
              >= Windows[idx[r]].calls
        /\ wait[r].retry >= wait[r].gone

\* "All windows must pass before the RPC handler runs", unless the method is
\* not limited, or Redis failed and the limiter is set to fail open; and the
\* handler runs once if the RPC succeeds and never if it is refused, but for a
\* handler that ran in the async bypass and returned None: it runs twice.
HandlerGuarded ==
    \A r \in Rpcs :
        /\ runs[r] > 0 => \/ bypass[r] = "exempt"
                          \/ bypass[r] \in {"redis", "answered_none"} /\ ~config.failClosed
                          \/ passed[r] = DOMAIN Windows
        /\ verdict[r] = "ok" => runs[r] = IF bypass[r] = "answered_none" THEN 2 ELSE 1
        /\ verdict[r] \in {"exhausted", "unavailable"} => runs[r] = 0
=============================================================================

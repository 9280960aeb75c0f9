-------------------------- MODULE ManagerRegistry --------------------------
(***************************************************************************)
(* How threads obtain the session manager of a database: the lazy getter   *)
(* of the session manager registries on top of the Singleton metaclass.    *)
(*                                                                         *)
(* A registry is a class with one slot, a class attribute that its methods *)
(* read and write without a lock.  Registries of the databases inherit the *)
(* slot of the base class until they assign one of their own.  The default *)
(* manager of a registry is an instance of a Singleton class; all Singleton*)
(* classes share one lock, which is held while a constructor runs.  The    *)
(* sync and the async slot do not interact: one of them is modelled.       *)
(***************************************************************************)
EXTENDS Naturals

CONSTANTS Threads,
          Registries,   \* the registry classes of the databases
          Unchecked,    \* those whose setter does not check its argument (SQLite)
          Base,         \* the class SessionManagerRegistry they inherit from
          Customs,      \* managers an application sets itself
          None,         \* Python's None
          Unset,        \* the class has no attribute of its own
          MaxFailures   \* bound: how many constructor calls fail

Classes == Registries \cup {Base}

\* The n-th object built as the default manager of registry r.
Default(r, n) == [registry |-> r, built |-> n]
Defaults == [registry : Registries, built : Nat]

\* What is assumed of the constants.
ConstantsFit == /\ Unchecked \subseteq Registries
                /\ Base \notin Registries
                /\ None \notin Threads \cup Customs \cup Defaults
                /\ Unset \notin Customs \cup Defaults \cup {None}
                /\ Customs \cap Defaults = {}
                /\ MaxFailures \in Nat

VARIABLES slot,      \* registry class -> its _sync_instance attribute
          instances, \* Singleton._instances: registry -> its default manager
          lock,      \* Singleton._lock: the thread that holds it, or None
          pc,        \* thread -> the step of get_sync_manager() it is at
          reg,       \* thread -> the class it calls get_sync_manager() on
          obj,       \* thread -> the singleton it was given
          got,       \* thread -> what its last call returned
          built,     \* history: registry -> constructor calls that succeeded
          failures,  \* history: constructor calls that failed
          cleared,   \* history: thread -> the slot was cleared during its call
          outrun     \* history: thread -> the slot was set by hand since it was tested

vars == <<slot, instances, lock, pc, reg, obj, got, built, failures, cleared, outrun>>

Steps == {"idle", "check", "call", "acquire", "recheck", "construct", "release",
          "fetch", "publish", "read"}

TypeOK == /\ slot \in [Classes -> Customs \cup Defaults \cup {None, Unset}]
          /\ instances \in [Registries -> Defaults \cup {None}]
          /\ lock \in Threads \cup {None}
          /\ pc \in [Threads -> Steps]
          /\ reg \in [Threads -> Classes]
          /\ obj \in [Threads -> Defaults \cup {None}]
          /\ got \in [Threads -> Customs \cup Defaults \cup {None, Unset}]
          /\ built \in [Registries -> Nat]
          /\ failures \in 0..MaxFailures
          /\ cleared \in [Threads -> BOOLEAN]
          /\ outrun \in [Threads -> BOOLEAN]

Init == /\ slot = [c \in Classes |-> IF c = Base THEN None ELSE Unset]
        /\ instances = [r \in Registries |-> None]
        /\ lock = None
        /\ pc = [t \in Threads |-> "idle"]
        /\ reg = [t \in Threads |-> Base]
        /\ obj = [t \in Threads |-> None]
        /\ got = [t \in Threads |-> Unset]
        /\ built = [r \in Registries |-> 0]
        /\ failures = 0
        /\ cleared = [t \in Threads |-> FALSE]
        /\ outrun = [t \in Threads |-> FALSE]

-----------------------------------------------------------------------------
\* Attribute lookup: a class without the attribute inherits the base's.
Lookup(c) == IF slot[c] = Unset THEN slot[Base] ELSE slot[c]

Goto(t, step) == pc' = [pc EXCEPT ![t] = step]

\* The call raises.
Fail(t) == Goto(t, "idle") /\ got' = [got EXCEPT ![t] = Unset]

\* A thread calls get_sync_manager() on a registry class.
Call(t, c) ==
    /\ pc[t] = "idle"
    /\ Goto(t, "check")
    /\ reg' = [reg EXCEPT ![t] = c]
    /\ got' = [got EXCEPT ![t] = Unset]
    /\ cleared' = [cleared EXCEPT ![t] = FALSE]
    /\ outrun' = [outrun EXCEPT ![t] = FALSE]
    /\ UNCHANGED <<slot, instances, lock, obj, built, failures>>

\* Mutant: the default is built without looking.
CheckNothing(t) ==
    /\ pc[t] = "check"
    /\ reg[t] # Base
    /\ Goto(t, "call")
    /\ UNCHANGED <<slot, instances, lock, reg, obj, got, built, failures, cleared, outrun>>
\* if cls._sync_instance is None: the base class raises, the others build.
Check(t) ==
    /\ pc[t] = "check"
    /\ \/ Lookup(reg[t]) # None /\ Goto(t, "read") /\ UNCHANGED got
       \/ Lookup(reg[t]) = None /\ reg[t] # Base /\ Goto(t, "call") /\ UNCHANGED got
       \/ Lookup(reg[t]) = None /\ reg[t] = Base /\ Fail(t)
    /\ UNCHANGED <<slot, instances, lock, reg, obj, built, failures, cleared, outrun>>

-----------------------------------------------------------------------------
\* Singleton.__call__

\* if cls not in cls._instances, before the lock.
FirstTest(t) ==
    /\ pc[t] = "call"
    /\ Goto(t, IF instances[reg[t]] = None THEN "acquire" ELSE "fetch")
    /\ UNCHANGED <<slot, instances, lock, reg, obj, got, built, failures, cleared, outrun>>

Acquire(t) ==
    /\ pc[t] = "acquire"
    /\ lock = None
    /\ lock' = t
    /\ Goto(t, "recheck")
    /\ UNCHANGED <<slot, instances, reg, obj, got, built, failures, cleared, outrun>>

\* Mutant: no second test under the lock.
SecondTestSkipped(t) ==
    /\ pc[t] = "recheck"
    /\ Goto(t, "construct")
    /\ UNCHANGED <<slot, instances, lock, reg, obj, got, built, failures, cleared, outrun>>
\* if cls not in cls._instances, under the lock.
SecondTest(t) ==
    /\ pc[t] = "recheck"
    /\ Goto(t, IF instances[reg[t]] = None THEN "construct" ELSE "release")
    /\ UNCHANGED <<slot, instances, lock, reg, obj, got, built, failures, cleared, outrun>>

Construct(t) ==
    /\ pc[t] = "construct"
    /\ built' = [built EXCEPT ![reg[t]] = @ + 1]
    /\ instances' = [instances EXCEPT ![reg[t]] = Default(reg[t], built[reg[t]] + 1)]
    /\ Goto(t, "release")
    /\ UNCHANGED <<slot, lock, reg, obj, got, failures, cleared, outrun>>

\* Mutant: the lock is not released when the constructor raises.
ConstructLeaks(t) ==
    /\ pc[t] = "construct"
    /\ failures < MaxFailures
    /\ failures' = failures + 1
    /\ Fail(t)
    /\ UNCHANGED <<slot, instances, lock, reg, obj, built, cleared, outrun>>
\* The constructor raises: the lock is released and the getter raises
\* DatabaseConnectionError.
ConstructFails(t) ==
    /\ pc[t] = "construct"
    /\ failures < MaxFailures
    /\ failures' = failures + 1
    /\ lock' = None
    /\ Fail(t)
    /\ UNCHANGED <<slot, instances, reg, obj, built, cleared, outrun>>

Release(t) ==
    /\ pc[t] = "release"
    /\ lock' = None
    /\ Goto(t, "fetch")
    /\ UNCHANGED <<slot, instances, reg, obj, got, built, failures, cleared, outrun>>

\* Mutant: the class is returned instead of its instance.
FetchClass(t) ==
    /\ pc[t] = "fetch"
    /\ obj' = [obj EXCEPT ![t] = reg[t]]
    /\ Goto(t, "publish")
    /\ UNCHANGED <<slot, instances, lock, reg, got, built, failures, cleared, outrun>>
\* return cls._instances[cls]
Fetch(t) ==
    /\ pc[t] = "fetch"
    /\ obj' = [obj EXCEPT ![t] = instances[reg[t]]]
    /\ Goto(t, "publish")
    /\ UNCHANGED <<slot, instances, lock, reg, got, built, failures, cleared, outrun>>

-----------------------------------------------------------------------------
\* Mutants: the new manager is not stored; it is stored in the base class.
PublishNothing(t) ==
    /\ pc[t] = "publish"
    /\ obj' = [obj EXCEPT ![t] = None]
    /\ Goto(t, "read")
    /\ outrun' = [outrun EXCEPT ![t] = FALSE]
    /\ UNCHANGED <<slot, instances, lock, reg, got, built, failures, cleared>>
PublishOnBase(t) ==
    /\ pc[t] = "publish"
    /\ slot' = [slot EXCEPT ![Base] = obj[t]]
    /\ obj' = [obj EXCEPT ![t] = None]
    /\ Goto(t, "read")
    /\ outrun' = [outrun EXCEPT ![t] = FALSE]
    /\ UNCHANGED <<instances, lock, reg, got, built, failures, cleared>>
\* cls._sync_instance = ...: whatever the slot holds by now is overwritten.
Publish(t) ==
    /\ pc[t] = "publish"
    /\ slot' = [slot EXCEPT ![reg[t]] = obj[t]]
    /\ obj' = [obj EXCEPT ![t] = None]
    /\ Goto(t, "read")
    /\ outrun' = [outrun EXCEPT ![t] = FALSE]
    /\ UNCHANGED <<instances, lock, reg, got, built, failures, cleared>>

\* return cls._sync_instance: the slot is looked up once more.
Read(t) ==
    /\ pc[t] = "read"
    /\ got' = [got EXCEPT ![t] = Lookup(reg[t])]
    /\ Goto(t, "idle")
    /\ UNCHANGED <<slot, instances, lock, reg, obj, built, failures, cleared, outrun>>

\* Threads in a call that the emptied slot of c may reach.
Clear(c) == cleared' = [t \in Threads |-> cleared[t] \/ reg[t] = c \/ c = Base]

\* Threads that found c without a manager and have not stored theirs yet.
Outrun(c) ==
    outrun' = [t \in Threads |->
                  outrun[t] \/ (reg[t] = c /\ pc[t] \notin {"idle", "check", "read"})]

\* set_sync_manager(m): None is refused, except where nothing is checked.
Set(c, m) ==
    /\ m = None => c \in Unchecked
    /\ slot' = [slot EXCEPT ![c] = m]
    /\ IF m = None THEN Clear(c) /\ UNCHANGED outrun
       ELSE Outrun(c) /\ UNCHANGED cleared
    /\ UNCHANGED <<instances, lock, pc, reg, obj, got, built, failures>>

\* reset(): the slot becomes None; Singleton keeps its instances.
Reset(c) ==
    /\ slot' = [slot EXCEPT ![c] = None]
    /\ Clear(c)
    /\ UNCHANGED <<instances, lock, pc, reg, obj, got, built, failures, outrun>>

Proceed(t) == \/ Check(t) \/ FirstTest(t) \/ Acquire(t) \/ SecondTest(t)
              \/ Construct(t) \/ ConstructFails(t) \/ Release(t) \/ Fetch(t)
              \/ Publish(t) \/ Read(t)

Next == \/ \E t \in Threads : Proceed(t) \/ \E c \in Classes : Call(t, c)
        \/ \E c \in Classes : Reset(c) \/ \E m \in Customs \cup {None} : Set(c, m)

Spec == Init /\ [][Next]_vars

\* A thread that is in a call is scheduled again and again, and a thread that
\* waits for the lock gets it if nobody else holds it for good.
Fairness == \A t \in Threads : WF_vars(Proceed(t))
FairSpec == Spec /\ Fairness

-----------------------------------------------------------------------------
\* Properties

\* Database registries never hand out each other's default managers.
OwnDefault ==
    \A t \in Threads : got[t] \in Defaults => got[t].registry = reg[t]

\* The getter promises a manager.  It looks the slot up a second time, so it
\* may return None, but only if somebody cleared the slot during the call.
NoneOnlyIfCleared ==
    \A t \in Threads : got[t] = None => cleared[t]

\* "Only one instance of a class is created": every default manager that any
\* thread or slot holds is the one instance of its class, across failed
\* constructors, resets and threads that race for the first call, and goes to
\* the callers of its own database only, who get it unless the slot was cleared.
OneManager ==
    /\ \A r \in Registries : built[r] <= 1
    /\ \A t \in Threads : got[t] \in Defaults => got[t] = instances[got[t].registry]
    /\ \A c \in Classes : slot[c] \in Defaults => slot[c] = instances[slot[c].registry]
    /\ OwnDefault /\ NoneOnlyIfCleared

\* Every call of the getter ends, with a manager or with an error.
Served == \A t \in Threads : pc[t] # "idle" ~> pc[t] = "idle"

\* "Lazily initializes a default if none has been set": a manager that was set
\* by hand is replaced by a default one only by a call that found no manager
\* before it was set, and only on the class of that call.
CustomKept ==
    [][\A r \in Registries : slot[r] \in Customs /\ slot'[r] \in Defaults
          => \E t \in Threads : pc[t] = "publish" /\ reg[t] = r /\ outrun[t]]_vars
=============================================================================

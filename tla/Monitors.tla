------------------------------ MODULE Monitors ------------------------------
(***************************************************************************)
(* Object monitors (libjavm/include/javm/vm/vm_Sync.hpp): MONITORENTER and *)
(* MONITOREXIT, synchronized methods, Object.wait, notify and notifyAll,   *)
(* and what throws do to the monitors a thread is in.                      *)
(*                                                                         *)
(* A monitor is a std::recursive_mutex and a condition variable.  An       *)
(* object has one per class of its superclass chain: a synchronized method *)
(* locks that of the class that declares it (a static one that of the      *)
(* class type), everything else that of the object's own class (or of the  *)
(* Class object).                                                          *)
(***************************************************************************)
EXTENDS Integers, Sequences, FiniteSets

CONSTANTS
    Threads,
    Monitors,
    MethodMonitors,  \* monitors that synchronized methods lock
    ObjectMonitors,  \* monitors that blocks, wait and notify use
    None,            \* no thread, no monitor
    MaxOps           \* bound: calls, blocks, waits and throws of a thread

ASSUME ConstantsAssumption ==
    /\ MethodMonitors \subseteq Monitors
    /\ ObjectMonitors \subseteq Monitors
    /\ None \notin Threads \cup Monitors
    /\ MaxOps \in Nat

VARIABLES
    owner,   \* owner[m]: the thread that has locked the mutex
    count,   \* count[m]: how many times
    stack,   \* stack[t]: the methods t executes, and in each method the
             \* synchronized blocks and try blocks it is in
    pc,      \* pc[t]: what t is doing
    want,    \* want[t]: what t is locking or waiting for
    leaked,  \* leaked[t]: monitors that t has locked without a region that
             \* will unlock them (history)
    ops

vars == <<owner, count, stack, pc, want, leaked, ops>>

\* A region of code: a method, synchronized or not, or a block in one.
Region ==
    [kind : {"method"}, mon : Monitors \cup {None}]
        \cup [kind : {"block"}, mon : Monitors]
        \cup [kind : {"try"}, mon : {None}]

Method(m) == [kind |-> "method", mon |-> m]
Block(m) == [kind |-> "block", mon |-> m]
Try == [kind |-> "try", mon |-> None]

\* A wait of a thread that owns the monitor, and of one that does not.
Owned(m) == [kind |-> "owned", mon |-> m]
Unowned(m) == [kind |-> "unowned", mon |-> m]
Nothing == [kind |-> "nothing", mon |-> None]
Wants == Region \cup {Nothing} \cup {Owned(m) : m \in ObjectMonitors}
                \cup {Unowned(m) : m \in ObjectMonitors}

Pcs == {"run", "lock", "sleep", "relock", "throw", "abort", "ended"}

TypeOK ==
    /\ owner \in [Monitors -> Threads \cup {None}]
    /\ count \in [Monitors -> Nat]
    /\ \A m \in Monitors : owner[m] = None <=> count[m] = 0
    /\ stack \in [Threads -> Seq(Region)]
    /\ pc \in [Threads -> Pcs]
    /\ want \in [Threads -> Wants]
    /\ \A t \in Threads :
          /\ pc[t] \in {"run", "ended", "throw", "abort"} <=> want[t] = Nothing
          /\ pc[t] = "lock" => want[t] \in Region /\ want[t].mon # None
          /\ pc[t] \in {"sleep", "relock"} =>
                \E m \in ObjectMonitors : want[t] \in {Owned(m), Unowned(m)}
          /\ pc[t] = "ended" <=> stack[t] = <<>>
    /\ leaked \in [Threads -> SUBSET ObjectMonitors]
    /\ ops \in [Threads -> 0..MaxOps]

Init ==
    /\ owner = [m \in Monitors |-> None]
    /\ count = [m \in Monitors |-> 0]
    /\ stack = [t \in Threads |-> <<Method(None)>>]
    /\ pc = [t \in Threads |-> "run"]
    /\ want = [t \in Threads |-> Nothing]
    /\ leaked = [t \in Threads |-> {}]
    /\ ops = [t \in Threads |-> 0]

-----------------------------------------------------------------------------
(* The mutex                                                               *)

\* Lock: std::recursive_mutex::lock returns.
Enter(t, m) ==
    /\ owner[m] \in {None, t}
    /\ owner' = [owner EXCEPT ![m] = t]
    /\ count' = [count EXCEPT ![m] = @ + 1]

\* Mutant: an unlock that does not ask who owns the mutex.
LeaveAnyones(t, m) ==
    IF m # None /\ owner[m] # None
    THEN /\ count' = [count EXCEPT ![m] = @ - 1]
         /\ owner' = [owner EXCEPT ![m] = IF count[m] = 1 THEN None ELSE @]
    ELSE UNCHANGED <<owner, count>>

\* Unlock, which does nothing when t does not own the mutex.
Leave(t, m) ==
    IF m # None /\ owner[m] = t
    THEN /\ count' = [count EXCEPT ![m] = @ - 1]
         /\ owner' = [owner EXCEPT ![m] = IF count[m] = 1 THEN None ELSE t]
    ELSE UNCHANGED <<owner, count>>

-----------------------------------------------------------------------------
(* A step of Java code                                                     *)

Op(t) ==
    /\ pc[t] = "run"
    /\ ops[t] < MaxOps
    /\ ops' = [ops EXCEPT ![t] = @ + 1]

\* t enters a region that needs no lock.
EnterUnlocked(t) ==
    /\ Op(t)
    /\ \E r \in {Method(None), Try} :
          stack' = [stack EXCEPT ![t] = Append(@, r)]
    /\ UNCHANGED <<owner, count, pc, want, leaked>>

\* t calls a synchronized method.
CallSynchronized(t) ==
    /\ Op(t)
    /\ \E m \in MethodMonitors : want' = [want EXCEPT ![t] = Method(m)]
    /\ pc' = [pc EXCEPT ![t] = "lock"]
    /\ UNCHANGED <<owner, count, stack, leaked>>

\* MONITORENTER.
MonitorEnter(t) ==
    /\ Op(t)
    /\ \E m \in ObjectMonitors : want' = [want EXCEPT ![t] = Block(m)]
    /\ pc' = [pc EXCEPT ![t] = "lock"]
    /\ UNCHANGED <<owner, count, stack, leaked>>

Locked(t) ==
    /\ pc[t] = "lock"
    /\ Enter(t, want[t].mon)
    /\ stack' = [stack EXCEPT ![t] = Append(@, want[t])]
    /\ pc' = [pc EXCEPT ![t] = "run"]
    /\ want' = [want EXCEPT ![t] = Nothing]
    /\ UNCHANGED <<leaked, ops>>

Top(t) == stack[t][Len(stack[t])]
Below(s, i) == SubSeq(s, 1, i - 1)

\* The innermost region ends: MONITOREXIT, the end of a try block, or the
\* return of a method, which ends the thread when it was the first one.
LeaveRegion(t) ==
    /\ pc[t] = "run"
    /\ Leave(t, Top(t).mon)
    /\ stack' = [stack EXCEPT ![t] = Below(@, Len(@))]
    /\ pc' = [pc EXCEPT ![t] = IF Len(stack[t]) = 1 THEN "ended" ELSE "run"]
    /\ UNCHANGED <<want, leaked, ops>>

-----------------------------------------------------------------------------
(* Wait and notify                                                         *)

\* Mutant: a wait that unlocks the monitor as often as Java's does.
WaitUnlocksAll(t) ==
    /\ Op(t)
    /\ \E m \in ObjectMonitors :
          /\ owner[m] = t
          /\ owner' = [owner EXCEPT ![m] = None]
          /\ count' = [count EXCEPT ![m] = 0]
          /\ want' = [want EXCEPT ![t] = Owned(m)]
    /\ pc' = [pc EXCEPT ![t] = "sleep"]
    /\ UNCHANGED <<stack, leaked>>

\* Object.wait is always a timed wait: wait(0) is one of no time.  Whoever
\* does not own the monitor waits too, without unlocking it.
Wait(t) ==
    /\ Op(t)
    /\ \E m \in ObjectMonitors :
          /\ Leave(t, m)
          /\ want' = [want EXCEPT ![t] =
                IF owner[m] = t THEN Owned(m) ELSE Unowned(m)]
    /\ pc' = [pc EXCEPT ![t] = "sleep"]
    /\ UNCHANGED <<stack, leaked>>

Asleep(m) == {t \in Threads : pc[t] = "sleep" /\ want[t].mon = m}

\* The threads of S stop sleeping.
Awaken(S) ==
    pc' = [t \in Threads |-> IF t \in S THEN "relock" ELSE pc[t]]

\* Mutant: a wait without a time, which ends by a notify only.
WaitsForNotify(t) ==
    /\ pc[t] = "sleep"
    /\ Awaken({})
    /\ UNCHANGED <<owner, count, stack, want, leaked, ops>>

\* The time is over, or the condition variable wakes up for no reason.
TimesOut(t) ==
    /\ pc[t] = "sleep"
    /\ Awaken({t})
    /\ UNCHANGED <<owner, count, stack, want, leaked, ops>>

\* notify and notifyAll; nothing asks whether t owns the monitor.
Notify(t) ==
    /\ pc[t] = "run"
    /\ \E m \in ObjectMonitors : \E u \in Asleep(m) : Awaken({u})
    /\ UNCHANGED <<owner, count, stack, want, leaked, ops>>

NotifyAll(t) ==
    /\ pc[t] = "run"
    /\ \E m \in ObjectMonitors : Awaken(Asleep(m))
    /\ UNCHANGED <<owner, count, stack, want, leaked, ops>>

\* The wait locks the mutex again, also for a thread that had not locked it.
Relock(t) ==
    /\ pc[t] = "relock"
    /\ Enter(t, want[t].mon)
    /\ leaked' = [leaked EXCEPT ![t] =
          IF want[t].kind = "unowned" THEN @ \cup {want[t].mon} ELSE @]
    /\ pc' = [pc EXCEPT ![t] = "run"]
    /\ want' = [want EXCEPT ![t] = Nothing]
    /\ UNCHANGED <<stack, ops>>

-----------------------------------------------------------------------------
(* Throws                                                                  *)

\* A throw that handlers may catch, and one that they may not: an internal
\* error (MONITORENTER of an array is one) or a throwable left in the VM's
\* slot by somebody else.
Throw(t) ==
    /\ Op(t)
    /\ \E how \in {"throw", "abort"} : pc' = [pc EXCEPT ![t] = how]
    /\ UNCHANGED <<owner, count, stack, want, leaked>>

\* The method t executes, as a position in its stack, and the blocks in it.
Frame(t) ==
    CHOOSE f \in DOMAIN stack[t] :
        /\ stack[t][f].kind = "method"
        /\ \A i \in (f + 1)..Len(stack[t]) : stack[t][i].kind # "method"
InFrame(t) == (Frame(t) + 1)..Len(stack[t])

\* The blocks of the frame whose handler can be taken.  The last entry of the
\* exception table that matches is, and compilers list inner blocks first:
\* it is the outermost one.  The handler of a synchronized block always
\* matches.
Handlers(t) ==
    {i \in InFrame(t) : \A j \in InFrame(t) :
        stack[t][j].kind = "block" => i <= j}

\* Monitors of the synchronized blocks above i, which no one unlocks when the
\* stack is cut back to i.
LeftBehind(t, i) ==
    {stack[t][j].mon : j \in {k \in (i + 1)..Len(stack[t]) :
                                stack[t][k].kind = "block"}}

\* The handler of a try block: goes on after it.
Catch(t) ==
    /\ pc[t] = "throw"
    /\ \E i \in Handlers(t) :
          /\ stack[t][i].kind = "try"
          /\ stack' = [stack EXCEPT ![t] = Below(@, i)]
          /\ leaked' = [leaked EXCEPT ![t] = @ \cup LeftBehind(t, i)]
    /\ pc' = [pc EXCEPT ![t] = "run"]
    /\ UNCHANGED <<owner, count, want, ops>>

\* The handler of a synchronized block: MONITOREXIT, and throws again.  No
\* block further out matched before and none does now.
CatchAndExit(t) ==
    /\ pc[t] = "throw"
    /\ \E i \in Handlers(t) :
          /\ stack[t][i].kind = "block"
          /\ Leave(t, stack[t][i].mon)
          /\ stack' = [stack EXCEPT ![t] = SubSeq(@, 1, Frame(t))]
          /\ leaked' = [leaked EXCEPT ![t] = @ \cup LeftBehind(t, i)]
    /\ UNCHANGED <<pc, want, ops>>

\* Mutant: a synchronized method that unlocks only when it returns.
UnwindKeepsMonitor(t) ==
    /\ pc[t] \in {"throw", "abort"}
    /\ pc[t] = "throw" => \A i \in InFrame(t) : stack[t][i].kind # "block"
    /\ stack' = [stack EXCEPT ![t] = Below(@, Frame(t))]
    /\ leaked' = [leaked EXCEPT ![t] = @ \cup LeftBehind(t, Frame(t))]
    /\ pc' = [pc EXCEPT ![t] = IF Frame(t) = 1 THEN "ended" ELSE @]
    /\ UNCHANGED <<owner, count, want, ops>>

\* No handler: the method ends, a synchronized one unlocks its monitor, and
\* the throw goes on in the caller.
Unwind(t) ==
    /\ pc[t] \in {"throw", "abort"}
    /\ pc[t] = "throw" => \A i \in InFrame(t) : stack[t][i].kind # "block"
    /\ Leave(t, stack[t][Frame(t)].mon)
    /\ stack' = [stack EXCEPT ![t] = Below(@, Frame(t))]
    /\ leaked' = [leaked EXCEPT ![t] = @ \cup LeftBehind(t, Frame(t))]
    /\ pc' = [pc EXCEPT ![t] = IF Frame(t) = 1 THEN "ended" ELSE @]
    /\ UNCHANGED <<want, ops>>

-----------------------------------------------------------------------------
\* What t does without a choice of the Java program.
Goes(t) ==
    \/ Locked(t) \/ LeaveRegion(t) \/ TimesOut(t) \/ Relock(t)
    \/ Catch(t) \/ CatchAndExit(t) \/ Unwind(t)

Next ==
    \E t \in Threads :
        \/ EnterUnlocked(t) \/ CallSynchronized(t) \/ MonitorEnter(t)
        \/ Wait(t) \/ Notify(t) \/ NotifyAll(t) \/ Throw(t)
        \/ Goes(t)

\* Threads are scheduled, waits time out, and code leaves its regions.
Fairness == \A t \in Threads : WF_vars(Goes(t))

Spec == Init /\ [][Next]_vars /\ Fairness

-----------------------------------------------------------------------------
(* Properties                                                              *)

\* How often t has locked m.
Holds(t, m) == IF owner[m] = t THEN count[m] ELSE 0

\* How many regions guarded by m the thread t is in, one less while a wait
\* has unlocked the monitor.
Regions(t, m) == Cardinality({i \in DOMAIN stack[t] : stack[t][i].mon = m})
Inside(t, m) == Regions(t, m) - IF want[t] = Owned(m) THEN 1 ELSE 0

\* A thread has locked a monitor exactly as often as it is inside; and more
\* often than that when it has leaked it.
Balance ==
    \A t \in Threads, m \in Monitors :
        IF m \in leaked[t] THEN Holds(t, m) > Inside(t, m)
                           ELSE Holds(t, m) = Inside(t, m)

\* Blocks are in methods, and use the monitors of objects.
Framed == \A t \in Threads :
    /\ stack[t] # <<>> => stack[t][1].kind = "method"
    /\ \A i \in DOMAIN stack[t] : stack[t][i].kind = "block" => stack[t][i].mon \in ObjectMonitors
    /\ want[t].kind = "block" => want[t].mon \in ObjectMonitors

\* The inductive invariant.
Inv == TypeOK /\ Framed /\ Balance

\* Code guarded by a monitor excludes other threads, through nested locks,
\* waits, wrong waits and throws (vm_Sync.hpp, vm_Class.cpp:434).
Guarded == INSTANCE Exclusion WITH
    inside <- [m \in Monitors |-> {t \in Threads : Inside(t, m) > 0}]
MutualExclusion == Guarded!Spec

\* A monitor that only synchronized methods lock is never left behind: it is
\* locked only while its owner is in such a method, whatever is thrown.
MethodsUnlock ==
    \A m \in Monitors \ ObjectMonitors :
        owner[m] # None =>
            \E i \in DOMAIN stack[owner[m]] : stack[owner[m]][i].mon = m

\* t waits for a mutex for ever: for that of a thread of S that waits as well
\* (a deadlock of the Java program), or for a leaked one.
Stuck(t) ==
    \E S \in SUBSET Threads :
        /\ t \in S
        /\ \A u \in S :
              /\ pc[u] \in {"lock", "relock"}
              /\ \E v \in Threads \ {u} :
                    /\ owner[want[u].mon] = v
                    /\ v \in S \/ want[u].mon \in leaked[v]

\* Who wants a monitor or waits on one goes on, unless program or leaks have
\* made that impossible; a wait needs no notify.
Served ==
    \A t \in Threads : pc[t] \in {"lock", "sleep", "relock"} ~>
        (pc[t] = "run" \/ Stuck(t))
=============================================================================

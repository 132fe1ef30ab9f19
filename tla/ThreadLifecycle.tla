--------------------------- MODULE ThreadLifecycle ---------------------------
(***************************************************************************)
(* The life of a Java thread in libjavm: the list of ThreadAccessors       *)
(* (vm_Thread.cpp), java.lang.Thread's natives (lang_Thread.cpp) and the   *)
(* pthread behind them (extras_PthreadThread.hpp).                         *)
(*                                                                         *)
(* A member of Threads stands for a Java Thread object, the native::Thread *)
(* made for it and the handle the operating system gives it: handles are   *)
(* never reused, as no thread is joined or detached.  The list is searched *)
(* by handle only, and the handle of a native::Thread is uninitialised     *)
(* until pthread_create stores it.                                         *)
(***************************************************************************)
EXTENDS Naturals, JavaThreads

CONSTANTS NoThread,  \* as a handle or an eetop it is 0
          MaxCalls   \* bound: isAlive and join calls per thread

ASSUME LifecycleAssumption ==
    /\ Main \in Threads
    /\ NoThread \notin Threads
    /\ MaxCalls \in Nat

VARIABLES
    list,    \* g_ThreadList, as the set of the threads it has accessors for
    handle,  \* handle[n]: the pthread field of n's native::Thread
    eetop,   \* eetop[n]: that field of n's Java object, 0 by default
    phase,   \* phase[n]: how far n has got
    monitor, \* monitor[n]: holder of the monitor of n's Thread instance
    call,    \* call[t]: the native of Thread that t is in
    calls    \* calls[t]: isAlive and join calls so far (bounded by MaxCalls)

lifecycleVars == <<list, handle, eetop, phase, monitor, call, calls>>

Phases == {"new", "registered", "failed", "entered", "running", "ending", "finished"}
Steps == {"idle", "create", "read", "lookup", "probe", "answer"}
Handles == Threads \cup {NoThread}

\* In isAlive and join: the thread asked about, the eetop read, the accessor
\* found and the answer; in start0: the thread being started.
Question == [step : Steps, join : BOOLEAN, who : Handles, eetop : Handles,
             found : Handles, alive : BOOLEAN]
Idle == [step |-> "idle", join |-> FALSE, who |-> NoThread, eetop |-> NoThread,
         found |-> NoThread, alive |-> FALSE]

LifecycleTypeOK ==
    /\ list \subseteq Threads
    /\ handle \in [Threads -> Handles]
    /\ eetop \in [Threads -> Handles]
    /\ phase \in [Threads -> Phases]
    /\ monitor \in [Threads -> Handles]
    /\ call \in [Threads -> Question]
    /\ calls \in [Threads -> 0..MaxCalls]

LifecycleInit ==
    /\ list = {}
    /\ handle = [n \in Threads |-> NoThread]
    /\ eetop = [n \in Threads |-> NoThread]
    /\ phase = [n \in Threads |-> "new"]
    /\ monitor = [n \in Threads |-> NoThread]
    /\ call = [t \in Threads |-> Idle]
    /\ calls = [t \in Threads |-> 0]

-----------------------------------------------------------------------------
(* The accessor list                                                       *)

\* The accessors a search for handle h can find: GetThreadByHandle and
\* GetCurrentThreadVariable return the first of them.
ByHandle(h) == {n \in list : handle[n] = h}

\* What a native::Thread finds in its uninitialised handle: zero, or what the
\* memory held before, the handle of a native::Thread freed by UnregisterSelf.
Uninitialised == {NoThread} \cup {n \in Threads : phase[n] = "finished"}

Executing(t) == phase[t] = "running" /\ call[t].step = "idle"

\* RegisterMainThread wraps the existing thread, so its handle is known.
RegisterMainThread ==
    /\ phase[Main] = "new"
    /\ list' = list \cup {Main}
    /\ handle' = [handle EXCEPT ![Main] = Main]
    /\ eetop' = [eetop EXCEPT ![Main] = Main]
    /\ phase' = [phase EXCEPT ![Main] = "running"]
    /\ UNCHANGED <<monitor, call, calls>>

-----------------------------------------------------------------------------
(* Thread.start: synchronized, and start0 is RegisterAndStartThread        *)

\* Mutant: the thread is started first and registered by itself later.
StartUnregistered(t, n) ==
    /\ Executing(t)
    /\ n # Main /\ phase[n] = "new" /\ monitor[n] = NoThread
    /\ monitor' = [monitor EXCEPT ![n] = t]
    /\ \E h \in Uninitialised : handle' = [handle EXCEPT ![n] = h]
    /\ phase' = [phase EXCEPT ![n] = "registered"]
    /\ call' = [call EXCEPT ![t] = [Idle EXCEPT !.step = "create", !.who = n]]
    /\ UNCHANGED <<list, eetop, calls>>

\* CreateThread and RegisterThread.
Start0(t, n) ==
    /\ Executing(t)
    /\ n # Main /\ phase[n] = "new" /\ monitor[n] = NoThread
    /\ monitor' = [monitor EXCEPT ![n] = t]
    /\ \E h \in Uninitialised : handle' = [handle EXCEPT ![n] = h]
    /\ list' = list \cup {n}
    /\ phase' = [phase EXCEPT ![n] = "registered"]
    /\ call' = [call EXCEPT ![t] = [Idle EXCEPT !.step = "create", !.who = n]]
    /\ UNCHANGED <<eetop, calls>>

\* thread->Start: pthread_create stores the handle and then starts the thread.
StartNative(t) ==
    /\ call[t].step = "create"
    /\ LET n == call[t].who IN
       /\ handle' = [handle EXCEPT ![n] = n]
       /\ phase' = [phase EXCEPT ![n] = "entered"]
       /\ monitor' = [monitor EXCEPT ![n] = NoThread]
    /\ call' = [call EXCEPT ![t] = Idle]
    /\ UNCHANGED <<list, eetop, calls>>

\* pthread_create fails and nobody looks at its result.
StartNativeFails(t) ==
    /\ call[t].step = "create"
    /\ LET n == call[t].who IN
       /\ phase' = [phase EXCEPT ![n] = "failed"]
       /\ monitor' = [monitor EXCEPT ![n] = NoThread]
    /\ call' = [call EXCEPT ![t] = Idle]
    /\ UNCHANGED <<list, handle, eetop, calls>>

-----------------------------------------------------------------------------
(* ThreadEntrypoint                                                        *)

\* Mutant: the accessor is dropped as soon as the thread has its handle.
EntrypointUnregisters(n) ==
    /\ phase[n] = "entered"
    /\ eetop' = [eetop EXCEPT ![n] = handle[n]]
    /\ phase' = [phase EXCEPT ![n] = "running"]
    /\ list' = list \ ByHandle(n)
    /\ UNCHANGED <<handle, monitor, call, calls>>

\* Up to the call of run(): the new thread stores its handle in eetop itself.
ThreadEntrypoint(n) ==
    /\ phase[n] = "entered"
    /\ eetop' = [eetop EXCEPT ![n] = handle[n]]
    /\ phase' = [phase EXCEPT ![n] = "running"]
    /\ UNCHANGED <<list, handle, monitor, call, calls>>

\* run() returns or throws.  (The main thread's code ends with the process.)
RunEnds(n) ==
    /\ n # Main /\ Executing(n)
    /\ phase' = [phase EXCEPT ![n] = "ending"]
    /\ UNCHANGED <<list, handle, eetop, monitor, call, calls>>

\* Mutant: the test of remove_if the wrong way round.
UnregisterOthers(n) ==
    /\ phase[n] = "ending"
    /\ list' = ByHandle(n)
    /\ phase' = [phase EXCEPT ![n] = "finished"]
    /\ UNCHANGED <<handle, eetop, monitor, call, calls>>

\* Every accessor with the handle of the calling thread goes.
UnregisterSelf(n) ==
    /\ phase[n] = "ending"
    /\ list' = list \ ByHandle(n)
    /\ phase' = [phase EXCEPT ![n] = "finished"]
    /\ UNCHANGED <<handle, eetop, monitor, call, calls>>

-----------------------------------------------------------------------------
(* Thread.isAlive, and Thread.join, which calls it until it is false       *)

Ask(t, n) ==
    /\ Executing(t) /\ calls[t] < MaxCalls
    /\ calls' = [calls EXCEPT ![t] = @ + 1]
    /\ call' = [call EXCEPT ![t] = [Idle EXCEPT !.step = "read", !.who = n]]
    /\ UNCHANGED <<list, handle, eetop, phase, monitor>>

\* The library's join: synchronized, while(isAlive()) wait(0).
Join(t, n) ==
    /\ Executing(t) /\ calls[t] < MaxCalls
    /\ monitor[n] = NoThread
    /\ monitor' = [monitor EXCEPT ![n] = t]
    /\ calls' = [calls EXCEPT ![t] = @ + 1]
    /\ call' = [call EXCEPT ![t] = [Idle EXCEPT !.step = "read", !.who = n, !.join = TRUE]]
    /\ UNCHANGED <<list, handle, eetop, phase>>

ReadEetop(t) ==
    /\ call[t].step = "read"
    /\ call' = [call EXCEPT ![t].step = "lookup", ![t].eetop = eetop[call[t].who]]
    /\ UNCHANGED <<list, handle, eetop, phase, monitor, calls>>

\* GetThreadByHandle; nothing found is "not found (must be finished)".
Lookup(t) ==
    /\ call[t].step = "lookup"
    /\ \/ \E a \in ByHandle(call[t].eetop) :
             call' = [call EXCEPT ![t].step = "probe", ![t].found = a]
       \/ /\ ByHandle(call[t].eetop) = {}
          /\ call' = [call EXCEPT ![t].step = "answer", ![t].alive = FALSE]
    /\ UNCHANGED <<list, handle, eetop, phase, monitor, calls>>

\* pthread_kill(handle, 0) == 0: true of a living thread, false of handle 0
\* (where it returns at all), either for one that has ended but is unjoined.
PthreadAlive(h) ==
    IF h = NoThread THEN {FALSE}
    ELSE IF phase[h] = "finished" THEN BOOLEAN
    ELSE {TRUE}

\* The accessor's IsAlive, with the list unlocked again.
Probe(t) ==
    /\ call[t].step = "probe"
    /\ \E b \in PthreadAlive(handle[call[t].found]) :
          call' = [call EXCEPT ![t].step = "answer", ![t].alive = b]
    /\ UNCHANGED <<list, handle, eetop, phase, monitor, calls>>

\* Mutant: join really waits for a notification that nobody sends.
AnswerWaits(t) ==
    /\ call[t].step = "answer"
    /\ ~(call[t].join /\ call[t].alive)
    /\ call' = [call EXCEPT ![t] = Idle]
    /\ monitor' = IF call[t].join THEN [monitor EXCEPT ![call[t].who] = NoThread] ELSE monitor
    /\ UNCHANGED <<list, handle, eetop, phase, calls>>

\* isAlive returns; a join that is told TRUE asks again, as wait(0) is a
\* WaitFor that times out at once.
Answer(t) ==
    /\ call[t].step = "answer"
    /\ IF call[t].join /\ call[t].alive
       THEN /\ call' = [call EXCEPT ![t] =
                  [Idle EXCEPT !.step = "read", !.who = call[t].who, !.join = TRUE]]
            /\ UNCHANGED monitor
       ELSE /\ call' = [call EXCEPT ![t] = Idle]
            /\ monitor' = IF call[t].join
                          THEN [monitor EXCEPT ![call[t].who] = NoThread] ELSE monitor
    /\ UNCHANGED <<list, handle, eetop, phase, calls>>

-----------------------------------------------------------------------------
IsAlive(t) == ReadEetop(t) \/ Lookup(t) \/ Probe(t) \/ Answer(t)
Goes(t) ==   \* the steps t takes without choosing what to call next
    \/ StartNative(t) \/ StartNativeFails(t)
    \/ ThreadEntrypoint(t) \/ UnregisterSelf(t) \/ IsAlive(t)

LifecycleNext ==
    \/ RegisterMainThread
    \/ \E t \in Threads :
          \/ Goes(t) \/ RunEnds(t)
          \/ \E n \in Threads : Start0(t, n) \/ Ask(t, n) \/ Join(t, n)

LifecycleSpec == LifecycleInit /\ [][LifecycleNext]_lifecycleVars

\* Threads are scheduled, and no lock of the list is held for long.  What a
\* thread calls, and whether its run() returns, is its own business.
Fairness == \A t \in Threads : WF_lifecycleVars(Goes(t))

FairSpec == LifecycleSpec /\ Fairness

-----------------------------------------------------------------------------
(* The inductive invariant                                                 *)

Listed == {"registered", "failed", "entered", "running", "ending"}
Created == {"entered", "running", "ending", "finished"}
Known == {"running", "ending", "finished"}   \* eetop is set

ListExact == \A n \in Threads : n \in list <=> phase[n] \in Listed

\* A created thread has its own handle; before that it has zero or the handle
\* of a finished one.
HandleOwned ==
    \A n \in Threads :
        /\ phase[n] \in Created => handle[n] = n
        /\ phase[n] \in {"registered", "failed"} =>
              handle[n] = NoThread \/ phase[handle[n]] = "finished"

EetopOwned ==
    \A n \in Threads : eetop[n] = IF phase[n] \in Known THEN n ELSE NoThread

\* A thread being created has one creator.
OneCreator ==
    \A t \in Threads : call[t].step = "create" =>
        /\ call[t].who \in Threads
        /\ phase[call[t].who] = "registered"
        /\ \A u \in Threads \ {t} : call[u].step = "create" => call[u].who # call[t].who

\* Where a question about a thread with a known handle has got to.
Asking ==
    \A t \in Threads :
        LET c == call[t] IN
        /\ c.step \notin {"idle", "create"} => c.who \in Threads
        /\ c.eetop # NoThread => c.eetop = c.who /\ phase[c.who] \in Known
        /\ c.step = "probe" =>
              /\ c.found \in Threads
              /\ c.eetop # NoThread => c.found = c.who \/ phase[c.who] = "finished"
        /\ c.step = "answer" /\ ~c.alive /\ c.eetop # NoThread => phase[c.who] = "finished"

LifecycleInv == LifecycleTypeOK /\ ListExact /\ HandleOwned /\ EetopOwned /\ OneCreator /\ Asking

-----------------------------------------------------------------------------
(* Properties                                                              *)

\* A thread that executes Java code is found by its own handle, and nobody
\* else is: Thread.currentThread and every call-stack operation of
\* GetCurrentThread reach the caller's own accessor, although other accessors
\* are registered with an uninitialised handle.
SelfFound ==
    \A n \in Threads : phase[n] \in {"running", "ending"} => ByHandle(n) = {n}

\* UnregisterSelf, which removes by handle, never drops the accessor of a
\* thread that has not finished.
NoAccessorLost ==
    \A n \in Threads : phase[n] \in {"registered", "entered"} => n \in list

\* Once a question has read a thread's handle, the answer "not alive" is
\* right: the thread has left the list for good.
FalseOnceKnown ==
    \A t \in Threads :
        call[t].step = "answer" /\ ~call[t].alive /\ call[t].eetop # NoThread
            => phase[call[t].who] = "finished"

\* What lang_Thread.cpp:54 says of a thread that is not found: it "must be
\* finished".
NotFoundIsFinished ==
    \A t \in Threads :
        call[t].step = "answer" /\ ~call[t].alive /\ phase[call[t].who] \in Created
            => phase[call[t].who] = "finished"

\* A join of a thread that has finished returns, although no notification is
\* ever sent at a thread's end.  Not so after a pthread_create has failed: the
\* accessor it leaves behind can pass for the finished thread for ever.
JoinReturns ==
    \A t, n \in Threads :
        (call[t].join /\ call[t].who = n /\ phase[n] = "finished")
            ~> \/ ~(call[t].join /\ call[t].who = n)
               \/ \E m \in Threads : phase[m] = "failed"

=============================================================================

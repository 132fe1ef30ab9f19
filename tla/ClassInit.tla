------------------------------ MODULE ClassInit ------------------------------
(***************************************************************************)
(* Static initialisation of classes: ClassType::EnsureStaticInitializer-   *)
(* Called and the part of ClassType::CallClassMethod through which it runs *)
(* <clinit> (vm_Class.cpp).  Nothing there takes a lock, so one thread's   *)
(* read of static_block_called and its write are two steps.                *)
(*                                                                         *)
(* A thread is its C++ call stack restricted to the activations of these   *)
(* two functions; an activation whose <clinit> is being interpreted is at  *)
(* "body".  What a <clinit> does is chosen: it touches classes of its      *)
(* Touches set (each at most once), throws, or returns.                    *)
(*                                                                         *)
(* A <clinit> is interpreted by DoExecuteCode (vm_Execution.impl.cpp),     *)
(* which does nothing when a throwable is in the one slot of the VM.  Of   *)
(* that slot only IsThrown() is kept here, and a test with the write that  *)
(* follows it is one step; ThrownState has the slot and its throwables.    *)
(***************************************************************************)
EXTENDS Naturals, Sequences, JavaThreads

CONSTANTS Classes,    \* loaded class types
          Super,      \* Super[c]: the superclass of c, or NoClass
          NoClass,    \* HasSuperClass() is false
          HasClinit,  \* classes that declare a static <clinit>()V
          Touches,    \* Touches[c]: classes whose statics c's <clinit> uses
          Disabled,   \* classes PrepareExecution disables (sun/security/util/Debug)
          MaxCalls,   \* bound: top-level uses of classes, and throws outside them
          MaxThrows   \* bound: failures of instructions of <clinit>s per thread

ASSUME ConstantsAssumption ==
    /\ Main \in Threads
    /\ NoClass \notin Classes
    /\ Super \in [Classes -> Classes \cup {NoClass}]
    /\ HasClinit \subseteq Classes
    /\ Touches \in [Classes -> SUBSET Classes]
    /\ Disabled \subseteq Classes
    /\ MaxCalls \in Nat
    /\ MaxThrows \in Nat

VARIABLES
    enabled,  \* enabled[c]: static_block_enabled
    called,   \* called[c]: static_block_called
    stack,    \* stack[t]: activations of EnsureStaticInitializerCalled
    ret,      \* ret[t]: result of the activation that has just returned
    calls,    \* uses of classes and throws outside them (bounded by MaxCalls)
    slot,     \* IsThrown(): g_ThrownThrowable is set
    code,     \* code[t]: t's code outside uses runs, or a failure unwinds it
    runs,     \* history: runs[t][c], how often t began to interpret c's <clinit>
    skipped,  \* history: skipped[t], classes whose <clinit> t was refused
    thrown,   \* history: thrown[t], failures of t's <clinit>s (and refusals)
    failed,   \* history: failed[t], how many top-level uses of t failed
    unwound,  \* history: threads in which something has thrown
    dropped   \* history: threads that went on without looking at a failure

slots == <<slot, code, skipped, unwound, dropped>>
vars == <<enabled, called, stack, ret, calls, runs, thrown, failed, slots>>

\* touch: in the Ensure of a class it uses; threw: an instruction has failed.
PCs == {"enter", "super", "check", "set", "nested", "body", "touch", "threw"}
Frame == [cls : Classes, pc : PCs, todo : SUBSET Classes]

\* thrown: a throw, which a handler may catch; refused: ThrowAlreadyThrown,
\* which none can.
Failures == {"thrown", "refused"}
Results == {"none", "ok"} \cup Failures

TypeOK ==
    /\ enabled \in [Classes -> BOOLEAN]
    /\ called \in [Classes -> BOOLEAN]
    /\ stack \in [Threads -> Seq(Frame)]
    /\ ret \in [Threads -> Results]
    /\ calls \in 0..MaxCalls
    /\ slot \in BOOLEAN
    /\ code \in [Threads -> {"run"} \cup Failures]
    /\ runs \in [Threads -> [Classes -> Nat]]
    /\ skipped \in [Threads -> SUBSET Classes]
    /\ thrown \in [Threads -> Nat]
    /\ failed \in [Threads -> Nat]
    /\ unwound \subseteq Threads
    /\ dropped \subseteq Threads

Init ==
    /\ enabled = [c \in Classes |-> TRUE]
    /\ called = [c \in Classes |-> FALSE]
    /\ stack = [t \in Threads |-> <<>>]
    /\ ret = [t \in Threads |-> "none"]
    /\ calls = 0
    /\ slot = FALSE
    /\ code = [t \in Threads |-> "run"]
    /\ runs = [t \in Threads |-> [c \in Classes |-> 0]]
    /\ skipped = [t \in Threads |-> {}]
    /\ thrown = [t \in Threads |-> 0]
    /\ failed = [t \in Threads |-> 0]
    /\ unwound = {}
    /\ dropped = {}

-----------------------------------------------------------------------------
(* The activation on top of a stack, and moving it along.                  *)

Activation(c) == [cls |-> c, pc |-> "enter", todo |-> {}]
Top(t) == stack[t][Len(stack[t])]
Below(t) == SubSeq(stack[t], 1, Len(stack[t]) - 1)
Running(t, p) ==   \* the top activation has the control
    stack[t] # <<>> /\ Top(t).pc = p /\ ret[t] = "none"
Returned(t, p) ==  \* the callee of the top activation has just returned
    stack[t] # <<>> /\ Top(t).pc = p /\ ret[t] # "none"

\* The top activation of t continues as frame f.
Goto(t, f) == stack' = [stack EXCEPT ![t] = Append(Below(t), f)]
\* It continues as f once the Ensure it calls on c returns.
CallEnsure(t, f, c) ==
    stack' = [stack EXCEPT ![t] = Append(Append(Below(t), f), Activation(c))]
Return(t, r) ==
    /\ stack' = [stack EXCEPT ![t] = Below(t)]
    /\ ret' = [ret EXCEPT ![t] = r]

-----------------------------------------------------------------------------
(* Interpreted code outside uses, and its top-level uses: NEW, invokestatic, *)
(* getstatic, ...                                                            *)

Outside(t) == stack[t] = <<>> /\ ret[t] = "none"
Counted == calls < MaxCalls /\ calls' = calls + 1

Use(t, c) ==
    /\ Outside(t) /\ code[t] = "run"
    /\ Counted
    /\ stack' = [stack EXCEPT ![t] = <<Activation(c)>>]
    /\ UNCHANGED <<enabled, called, ret, runs, thrown, failed, slots>>

UseReturns(t) ==
    /\ stack[t] = <<>> /\ ret[t] = "ok"
    /\ ret' = [ret EXCEPT ![t] = "none"]
    /\ UNCHANGED <<enabled, called, stack, calls, runs, thrown, failed, slots>>

\* The instruction fails; GetStaticField and SetStaticField only return, and
\* the code goes on.
UseFails(t) ==
    /\ stack[t] = <<>> /\ ret[t] \in Failures
    /\ failed' = [failed EXCEPT ![t] = @ + 1]
    /\ ret' = [ret EXCEPT ![t] = "none"]
    /\ \/ code' = [code EXCEPT ![t] = ret[t]] /\ UNCHANGED dropped
       \/ dropped' = dropped \cup {t} /\ UNCHANGED code
    /\ UNCHANGED <<enabled, called, stack, calls, runs, thrown, slot, skipped, unwound>>

\* Something else fails: a throw, which executions that it has left may have
\* registered, or an invocation while the slot is full.
CodeThrows(t) ==
    /\ Outside(t) /\ code[t] = "run"
    /\ Counted
    /\ \E r \in Failures : (r = "refused" => slot) /\ code' = [code EXCEPT ![t] = r]
    /\ slot' \in {slot, TRUE}
    /\ unwound' = unwound \cup {t}
    /\ UNCHANGED <<enabled, called, stack, ret, runs, thrown, failed, skipped, dropped>>

\* No handler: if(!IsThrown()) RegisterThrown.
CodePassesOn(t) ==
    /\ code[t] \in Failures /\ ~slot
    /\ slot' = TRUE
    /\ UNCHANGED <<enabled, called, stack, ret, calls, runs, thrown, failed,
                   code, skipped, unwound, dropped>>

\* A handler, which no refusal has: ResetThrown.
CodeCatches(t) ==
    /\ code[t] = "thrown"
    /\ code' = [code EXCEPT ![t] = "run"]
    /\ slot' = FALSE
    /\ UNCHANGED <<enabled, called, stack, ret, calls, runs, thrown, failed,
                   skipped, unwound, dropped>>

\* The embedder's RetrieveThrownThrowable.  No other thread goes on after a
\* failure that nothing caught.
EmbedderRetrieves ==
    /\ code[Main] \in Failures
    /\ code' = [code EXCEPT ![Main] = "run"]
    /\ slot' = FALSE
    /\ UNCHANGED <<enabled, called, stack, ret, calls, runs, thrown, failed,
                   skipped, unwound, dropped>>

\* Mutant: switching off and on again.
ToggleStaticInitializer(c) ==
    /\ c \in Disabled
    /\ enabled' = [enabled EXCEPT ![c] = ~@]
    /\ UNCHANGED <<called, stack, ret, calls, runs, thrown, failed, slots>>

\* PrepareExecution switches the initialiser of some classes off; nothing
\* switches one on again.
DisableStaticInitializer(c) ==
    /\ c \in Disabled /\ enabled[c]
    /\ enabled' = [enabled EXCEPT ![c] = FALSE]
    /\ UNCHANGED <<called, stack, ret, calls, runs, thrown, failed, slots>>

-----------------------------------------------------------------------------
(* EnsureStaticInitializerCalled                                           *)

\* Mutant: the superclass is left to whoever uses it.
SkipSuper(t) ==
    /\ Running(t, "enter")
    /\ Goto(t, [Top(t) EXCEPT !.pc = "check"])
    /\ UNCHANGED <<enabled, called, ret, calls, runs, thrown, failed, slots>>

\* "First, call it on our super class (if we have it)".
EnsureSuper(t) ==
    /\ Running(t, "enter")
    /\ LET c == Top(t).cls IN
       IF Super[c] # NoClass
       THEN CallEnsure(t, [Top(t) EXCEPT !.pc = "super"], Super[c])
       ELSE Goto(t, [Top(t) EXCEPT !.pc = "check"])
    /\ UNCHANGED <<enabled, called, ret, calls, runs, thrown, failed, slots>>

SuperEnsured(t) ==
    /\ Returned(t, "super")
    /\ IF ret[t] \in Failures
       THEN Return(t, ret[t])
       ELSE /\ Goto(t, [Top(t) EXCEPT !.pc = "check"])
            /\ ret' = [ret EXCEPT ![t] = "none"]
    /\ UNCHANGED <<enabled, called, calls, runs, thrown, failed, slots>>

\* Mutant: wait while a <clinit> of the class is in progress.
CheckWaits(t) ==
    /\ Running(t, "check")
    /\ LET c == Top(t).cls IN
       /\ \A u \in Threads : \A i \in 1..Len(stack[u]) :
             stack[u][i].cls = c => stack[u][i].pc \notin {"body", "touch", "threw"}
       /\ IF enabled[c] /\ ~called[c]
          THEN Goto(t, [Top(t) EXCEPT !.pc = "set"]) /\ UNCHANGED ret
          ELSE Return(t, "ok")
    /\ UNCHANGED <<enabled, called, calls, runs, thrown, failed, slots>>

\* Mutant: what counts is whether the <clinit> has begun, not the flag.
CheckByRuns(t) ==
    /\ Running(t, "check")
    /\ LET c == Top(t).cls IN
       IF enabled[c] /\ \A u \in Threads : runs[u][c] = 0
       THEN Goto(t, [Top(t) EXCEPT !.pc = "set"]) /\ UNCHANGED ret
       ELSE Return(t, "ok")
    /\ UNCHANGED <<enabled, called, calls, runs, thrown, failed, slots>>

\* Mutant: a class already claimed is reported as unusable.
CheckRefuses(t) ==
    /\ Running(t, "check")
    /\ LET c == Top(t).cls IN
       IF enabled[c] /\ ~called[c]
       THEN Goto(t, [Top(t) EXCEPT !.pc = "set"]) /\ UNCHANGED ret
       ELSE Return(t, IF called[c] /\ c \in HasClinit /\ \A u \in Threads : runs[u][c] = 0
                      THEN "thrown" ELSE "ok")
    /\ UNCHANGED <<enabled, called, calls, runs, thrown, failed, slots>>

\* if(static_block_enabled) if(!static_block_called): the reads.
CheckCalled(t) ==
    /\ Running(t, "check")
    /\ LET c == Top(t).cls IN
       IF enabled[c] /\ ~called[c]
       THEN Goto(t, [Top(t) EXCEPT !.pc = "set"]) /\ UNCHANGED ret
       ELSE Return(t, "ok")
    /\ UNCHANGED <<enabled, called, calls, runs, thrown, failed, slots>>

\* Mutant: the flag is set only when there is nothing to call.
SetCalledLate(t) ==
    /\ Running(t, "set")
    /\ Len(stack[t]) < 8
    /\ LET c == Top(t).cls IN
       IF c \in HasClinit
       THEN /\ CallEnsure(t, [Top(t) EXCEPT !.pc = "nested"], c)
            /\ UNCHANGED <<called, ret>>
       ELSE called' = [called EXCEPT ![c] = TRUE] /\ Return(t, "ok")
    /\ UNCHANGED <<enabled, calls, runs, thrown, failed, slots>>

\* The write, and the call of <clinit> if there is one.  CallClassMethod
\* starts with EnsureStaticInitializerCalled on the same class.
SetCalled(t) ==
    /\ Running(t, "set")
    /\ LET c == Top(t).cls IN
       /\ called' = [called EXCEPT ![c] = TRUE]
       /\ IF c \in HasClinit
          THEN CallEnsure(t, [Top(t) EXCEPT !.pc = "nested"], c) /\ UNCHANGED ret
          ELSE Return(t, "ok")
    /\ UNCHANGED <<enabled, calls, runs, thrown, failed, slots>>

\* CallClassMethod after its own Ensure: give up, or call DoExecuteCode, which
\* interprets <clinit> unless it finds IsThrown() and refuses at once.
BeginClinit(t) ==
    /\ Returned(t, "nested")
    /\ LET c == Top(t).cls IN
       \/ /\ ret[t] \in Failures
          /\ Return(t, ret[t])
          /\ UNCHANGED <<runs, thrown, skipped, unwound>>
       \/ /\ ret[t] = "ok" /\ slot
          /\ Return(t, "refused")
          /\ skipped' = [skipped EXCEPT ![t] = @ \cup {c}]
          /\ thrown' = [thrown EXCEPT ![t] = @ + 1]
          /\ unwound' = unwound \cup {t}
          /\ UNCHANGED runs
       \/ /\ ret[t] = "ok" /\ ~slot
          /\ Goto(t, [Top(t) EXCEPT !.pc = "body", !.todo = Touches[c]])
          /\ ret' = [ret EXCEPT ![t] = "none"]
          /\ runs' = [runs EXCEPT ![t][c] = @ + 1]
          /\ UNCHANGED <<thrown, skipped, unwound>>
    /\ UNCHANGED <<enabled, called, calls, failed, slot, code, dropped>>

-----------------------------------------------------------------------------
(* What an interpreted <clinit> does                                       *)

ClinitTouches(t, d) ==
    /\ Running(t, "body")
    /\ d \in Top(t).todo
    /\ CallEnsure(t, [Top(t) EXCEPT !.pc = "touch", !.todo = @ \ {d}], d)
    /\ UNCHANGED <<enabled, called, ret, calls, runs, thrown, failed, slots>>

\* The touched class is usable.
ClinitContinues(t) ==
    /\ Returned(t, "touch") /\ ret[t] = "ok"
    /\ Goto(t, [Top(t) EXCEPT !.pc = "body"])
    /\ ret' = [ret EXCEPT ![t] = "none"]
    /\ UNCHANGED <<enabled, called, calls, runs, thrown, failed, slots>>

\* It is not, and GetStaticField or SetStaticField drops the error.
ClinitDrops(t) ==
    /\ Returned(t, "touch") /\ ret[t] \in Failures
    /\ Goto(t, [Top(t) EXCEPT !.pc = "body"])
    /\ ret' = [ret EXCEPT ![t] = "none"]
    /\ dropped' = dropped \cup {t}
    /\ UNCHANGED <<enabled, called, calls, runs, thrown, failed, slot, code, skipped, unwound>>

\* Mutant: a failed <clinit> makes the class initialisable again.
ClinitThrowsAndResets(t) ==
    /\ Running(t, "body") /\ thrown[t] < MaxThrows
    /\ Goto(t, [Top(t) EXCEPT !.pc = "threw"])
    /\ ret' = [ret EXCEPT ![t] = "thrown"]
    /\ called' = [called EXCEPT ![Top(t).cls] = FALSE]
    /\ thrown' = [thrown EXCEPT ![t] = @ + 1]
    /\ unwound' = unwound \cup {t}
    /\ UNCHANGED <<enabled, calls, runs, failed, slot, code, skipped, dropped>>

\* An instruction of the <clinit> throws, or invokes while the slot is full.
ClinitThrows(t) ==
    /\ Running(t, "body") /\ thrown[t] < MaxThrows
    /\ Goto(t, [Top(t) EXCEPT !.pc = "threw"])
    /\ \E r \in Failures : (r = "refused" => slot) /\ ret' = [ret EXCEPT ![t] = r]
    /\ slot' \in {slot, TRUE}
    /\ thrown' = [thrown EXCEPT ![t] = @ + 1]
    /\ unwound' = unwound \cup {t}
    /\ UNCHANGED <<enabled, called, calls, runs, failed, code, skipped, dropped>>

Failed(t) == \E pc \in {"touch", "threw"} : Returned(t, pc) /\ ret[t] \in Failures

\* Mutant: the handler runs with the slot still full.
CatchKeepsSlot(t) ==
    /\ Failed(t) /\ ret[t] = "thrown"
    /\ Goto(t, [Top(t) EXCEPT !.pc = "body"])
    /\ ret' = [ret EXCEPT ![t] = "none"]
    /\ UNCHANGED <<enabled, called, calls, runs, thrown, failed, slots>>

\* A handler of the <clinit>: ResetThrown.
ClinitCatches(t) ==
    /\ Failed(t) /\ ret[t] = "thrown"
    /\ Goto(t, [Top(t) EXCEPT !.pc = "body"])
    /\ ret' = [ret EXCEPT ![t] = "none"]
    /\ slot' = FALSE
    /\ UNCHANGED <<enabled, called, calls, runs, thrown, failed,
                   code, skipped, unwound, dropped>>

\* The failure leaves the <clinit>: if(!IsThrown()) RegisterThrown.
ClinitPropagates(t) ==
    /\ Failed(t)
    /\ Return(t, ret[t])
    /\ slot' = TRUE
    /\ UNCHANGED <<enabled, called, calls, runs, thrown, failed,
                   code, skipped, unwound, dropped>>

ClinitReturns(t) ==
    /\ Running(t, "body")
    /\ Return(t, "ok")
    /\ UNCHANGED <<enabled, called, calls, runs, thrown, failed, slots>>

-----------------------------------------------------------------------------
Ensure(t) ==
    \/ EnsureSuper(t) \/ SuperEnsured(t) \/ CheckCalled(t) \/ SetCalled(t)
    \/ BeginClinit(t)

Clinit(t) ==
    \/ \E d \in Classes : ClinitTouches(t, d)
    \/ ClinitContinues(t) \/ ClinitDrops(t)
    \/ ClinitThrows(t) \/ ClinitCatches(t) \/ ClinitPropagates(t)
    \/ ClinitReturns(t)

UseEnds(t) == UseReturns(t) \/ UseFails(t)
Code(t) == CodeThrows(t) \/ CodePassesOn(t) \/ CodeCatches(t)

Next ==
    \/ \E t \in Threads :
          \/ \E c \in Classes : Use(t, c)
          \/ UseEnds(t) \/ Code(t) \/ Ensure(t) \/ Clinit(t)
    \/ EmbedderRetrieves
    \/ \E c \in Classes : DisableStaticInitializer(c)

Spec == Init /\ [][Next]_vars

\* A thread inside Ensure is never blocked, so the operating system's
\* scheduler keeps running it; a <clinit> is assumed to finish.
Fairness ==
    \A t \in Threads : WF_vars(UseEnds(t) \/ Ensure(t) \/ Clinit(t))

FairSpec == Spec /\ Fairness

-----------------------------------------------------------------------------
(* The inductive invariant, thread by thread                               *)

Awaiting == {"super", "nested", "touch", "threw"}  \* in a call, or back from one
Settled(c) == called[c] \/ ~enabled[c]     \* Ensure(c) would not run <clinit>
SuperSettled(c) == Super[c] = NoClass \/ Settled(Super[c])
Frames(t) == 1..Len(stack[t])

\* Every activation below the top one waits for its callee, and a result is
\* pending exactly when the top one waits or the use itself has ended.
StackShape(t) ==
    /\ \A i \in Frames(t) : i < Len(stack[t]) => stack[t][i].pc \in Awaiting
    /\ stack[t] # <<>> => (ret[t] # "none" <=> Top(t).pc \in Awaiting)

\* Whoever runs or is about to run a <clinit> has claimed the class before.
ClaimedFirst(t) ==
    /\ \A c \in Classes : runs[t][c] > 0 => called[c]
    /\ \A i \in Frames(t) :
          stack[t][i].pc \in {"nested", "body", "touch", "threw"} => called[stack[t][i].cls]

\* A thread holds at most one claim on a class, and none on one it has run.
OneClaim(t) ==
    \A i \in Frames(t) :
        stack[t][i].pc \in {"set", "nested"} =>
            /\ runs[t][stack[t][i].cls] = 0
            /\ \A j \in Frames(t) :
                  j # i /\ stack[t][j].pc = "nested" => stack[t][j].cls # stack[t][i].cls

\* An activation past its superclass has the superclass settled; a callee is
\* about the class its caller asked for; and a success is a settled class.
SuperChain(t) ==
    /\ \A i \in Frames(t) :
          /\ stack[t][i].pc \notin {"enter", "super"} => SuperSettled(stack[t][i].cls)
          /\ stack[t][i].pc = "super" => Super[stack[t][i].cls] # NoClass
          /\ i < Len(stack[t]) /\ stack[t][i].pc = "super" =>
                stack[t][i + 1].cls = Super[stack[t][i].cls]
    /\ Returned(t, "super") /\ ret[t] = "ok" => SuperSettled(Top(t).cls)
    /\ \A c \in Classes : runs[t][c] > 0 => SuperSettled(c)

RunsOnce(t) == \A c \in Classes : runs[t][c] <= 1

ThreadInv(t) ==
    StackShape(t) /\ ClaimedFirst(t) /\ OneClaim(t) /\ RunsOnce(t) /\ SuperChain(t)

Inv == TypeOK /\ \A t \in Threads : ThreadInv(t)

-----------------------------------------------------------------------------
(* Properties                                                              *)

\* No thread interprets a class's <clinit> twice, however the class is used
\* from inside its own initialiser, from a subclass or after a failure.
OncePerThread == \A t \in Threads : \A c \in Classes : runs[t][c] <= 1

\* A <clinit> only ever starts after the superclass was claimed too (or its
\* initialiser is switched off): vm_Class.cpp's "First, call it on our super
\* class".
SuperFirst ==
    \A t \in Threads : \A c \in Classes : runs[t][c] > 0 => SuperSettled(c)

\* The Ensure that CallClassMethod repeats for <clinit> itself never fails:
\* the flag is set and all superclasses are settled by then.  If it could, a
\* claimed class would silently lose its only initialisation there; it can
\* still lose it at the entry of DoExecuteCode, see ClaimIsHonoured.
NestedEnsureSucceeds == \A t \in Threads : Returned(t, "nested") => ret[t] = "ok"

\* Something that t cannot undo may have left a throwable in the slot: t went
\* on past a failure, or a throw of another thread is or was under way.
Disturbed(t) == t \in dropped \/ \E u \in unwound : u # t

\* A claimed class with a <clinit> was initialised by someone, or the claimant
\* is about to.  The flag is left set with the initialiser skipped only where
\* DoExecuteCode refused to begin it, and never by a thread's own throws alone:
\* each of those is out of the slot again before the thread claims a class.
ClaimIsHonoured ==
    \A c \in HasClinit : called[c] =>
        \E t \in Threads :
            \/ runs[t][c] > 0
            \/ \E i \in Frames(t) : stack[t][i].cls = c /\ stack[t][i].pc = "nested"
            \/ c \in skipped[t] /\ Disturbed(t)

\* A failure stays in its thread and is reported to one use at most: each use
\* that fails had a <clinit> which threw, or was refused, for it alone.  Every
\* later use of the class finds the flag set and succeeds.
FailureReportedOnce == \A t \in Threads : failed[t] <= thrown[t]

\* The race window: once a class is claimed, a run of its <clinit> can only be
\* started by a thread that had already read the flag (it is at "set") or had
\* already written it (it is at "nested").
NoLateRun ==
    [][\A t \in Threads, c \in Classes :
          (called[c] /\ \A i \in Frames(t) :
              stack[t][i].cls = c => stack[t][i].pc \notin {"set", "nested"})
          => /\ runs'[t][c] = runs[t][c]
             /\ \A i \in DOMAIN stack'[t] :
                   stack'[t][i].cls = c => stack'[t][i].pc \notin {"set", "nested"}]_vars

\* Every use of a class ends, also when initialisers use each other in a cycle
\* or two threads initialise the same classes in opposite orders.
UsesReturn == \A t \in Threads : (stack[t] # <<>>) ~> (stack[t] = <<>>)

\* What vm_Class.cpp:69 says: "Call the static initializer if it hasn't been
\* called yet".
AtMostOnce ==
    \A c \in Classes : \A t, u \in Threads :
        runs[t][c] > 0 /\ runs[u][c] > 0 => t = u

=============================================================================

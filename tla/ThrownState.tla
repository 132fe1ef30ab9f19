----------------------------- MODULE ThrownState -----------------------------
(***************************************************************************)
(* Throwing in libjavm.  The throwable under way is kept twice: in the     *)
(* ExecutionResult that each call returns to its caller, and in one slot   *)
(* for the whole VM, g_ThrownThrowable and g_ThrownThread (vm_Thread.cpp). *)
(* DoExecuteCode (vm_Execution.impl.cpp) reads the slot when it starts,    *)
(* empties it when a handler is found and fills it when none is; every     *)
(* access takes g_ThrownLock, but a test and what follows are two steps.   *)
(*                                                                         *)
(* stack[t] has one entry for each DoExecuteCode that t is in: what it is  *)
(* doing.  A throwable is identified by the thread that made it.           *)
(* g_ThrownNotified is left out: all it decides is whether it is set.      *)
(***************************************************************************)
EXTENDS Naturals, Sequences, JavaThreads

CONSTANTS Null,     \* nullptr
          MaxOps    \* bound: calls and throws per thread

ASSUME ConstantsAssumption ==
    /\ Main \in Threads
    /\ Null \notin Threads
    /\ MaxOps \in Nat

VARIABLES
    throwable, \* g_ThrownThrowable
    thrower,   \* g_ThrownThread
    stack,     \* stack[t]: the executions t is in, the innermost last
    result,    \* result[t]: the ExecutionResult that is being returned
    base,      \* base[t]: what the C++ code below the first execution does
    got,       \* what the embedder's RetrieveThrownThrowable returned
    process,   \* whether the process is up
    dropped,   \* history: throwables whose result some code did not look at
    ops        \* ops[t]: calls and throws so far (bounded by MaxOps)

vars == <<throwable, thrower, stack, result, base, got, process, dropped, ops>>

\* enter, ctor: about to test IsThrown (ctor: a throwable's constructor);
\* already: about to ThrowAlreadyThrown; run: interpreting; call, drop: in a
\* callee whose result is returned on, or dropped; create, internal: in the
\* constructor of a throwable for Throw, or for ThrowInternal; thrown: an
\* instruction threw; check, register: no handler, the test and the write.
Waiting == {"call", "drop", "create", "internal"}
Pcs == {"enter", "ctor", "already", "run", "thrown", "check", "register"} \cup Waiting
Bases == {"idle", "call", "retrieve", "thread", "name", "print", "check", "register", "done"}

Values == Threads \cup {Null}
None == [kind |-> "none", catchable |-> FALSE, var |-> Null]
Ok == [None EXCEPT !.kind = "ok"]
Invalid == [None EXCEPT !.kind = "invalid"]
Thrown(v, c) == [kind |-> "thrown", catchable |-> c, var |-> v]
Result == {None, Ok, Invalid} \cup [kind : {"thrown"}, catchable : BOOLEAN, var : Values]

TypeOK ==
    /\ throwable \in Values
    /\ thrower \in Values
    /\ stack \in [Threads -> Seq(Pcs)]
    /\ result \in [Threads -> Result]
    /\ base \in [Threads -> Bases]
    /\ got \in Values
    /\ process \in {"up", "exited", "crashed"}
    /\ dropped \subseteq Threads
    /\ ops \in [Threads -> 0..MaxOps]

Init ==
    /\ throwable = Null
    /\ thrower = Null
    /\ stack = [t \in Threads |-> <<>>]
    /\ result = [t \in Threads |-> None]
    /\ base = [t \in Threads |-> "idle"]
    /\ got = Null
    /\ process = "up"
    /\ dropped = {}
    /\ ops = [t \in Threads |-> 0]

-----------------------------------------------------------------------------
(* The innermost execution of a thread                                     *)

Top(t) == stack[t][Len(stack[t])]
Below(t) == SubSeq(stack[t], 1, Len(stack[t]) - 1)
At(t, pc) == process = "up" /\ stack[t] # <<>> /\ Top(t) = pc
Back(t, pcs) ==   \* its callee has returned
    process = "up" /\ stack[t] # <<>> /\ Top(t) \in pcs /\ result[t].kind # "none"

Become(t, pc) == stack' = [stack EXCEPT ![t] = Append(Below(t), pc)]
Push(t, pc, callee) == stack' = [stack EXCEPT ![t] = Append(Append(Below(t), pc), callee)]
Pop(t) == stack' = [stack EXCEPT ![t] = Below(t)]
Gives(t, r) == result' = [result EXCEPT ![t] = r]
Op(t) == ops[t] < MaxOps /\ ops' = [ops EXCEPT ![t] = @ + 1]
Drop(t) ==   \* the result of t is not looked at
    dropped' = IF result[t].kind = "thrown" /\ result[t].var # Null
               THEN dropped \cup {result[t].var} ELSE dropped

EmptySlot == throwable' = Null /\ thrower' = Null         \* ResetThrown
FillSlot(t, v) == throwable' = v /\ thrower' = t          \* RegisterThrown

slot == <<throwable, thrower>>
outside == <<base, got, process>>

-----------------------------------------------------------------------------
(* DoExecuteCode: its start                                                *)

\* if(IsThrown()).  A constructor of a throwable does nothing else that
\* matters here: it ends well unless it, or one it calls, finds the slot full.
Enter(t) ==
    /\ At(t, "enter")
    /\ Become(t, IF throwable # Null THEN "already" ELSE "run")
    /\ UNCHANGED <<slot, result, outside, dropped, ops>>

Construct(t) ==
    /\ At(t, "ctor")
    /\ IF throwable # Null
       THEN Become(t, "already") /\ UNCHANGED result
       ELSE Pop(t) /\ Gives(t, Ok)
    /\ UNCHANGED <<slot, outside, dropped, ops>>

\* Mutant: the throwable of the slot can be caught by the caller.
RethrowCatchable(t) ==
    /\ At(t, "already")
    /\ Pop(t) /\ Gives(t, Thrown(throwable, TRUE))
    /\ UNCHANGED <<slot, outside, dropped, ops>>

\* return ThrowAlreadyThrown(): whatever the slot holds by now.
ThrowAlreadyThrown(t) ==
    /\ At(t, "already")
    /\ Pop(t) /\ Gives(t, Thrown(throwable, FALSE))
    /\ UNCHANGED <<slot, outside, dropped, ops>>

-----------------------------------------------------------------------------
(* HandleInstruction                                                       *)

\* invoke*, new: the result of the callee is returned on.  getstatic and
\* putstatic: the result of the <clinit> they run is dropped.
Call(t) ==
    /\ At(t, "run") /\ Op(t)
    /\ \E pc \in {"call", "drop"} : Push(t, pc, "enter")
    /\ UNCHANGED <<slot, result, outside, dropped>>

CallReturns(t) ==
    /\ Back(t, {"call"})
    /\ \/ result[t].kind = "ok" /\ Become(t, "run") /\ Gives(t, None)
       \/ result[t].kind = "invalid" /\ Pop(t) /\ UNCHANGED result
       \/ result[t].kind = "thrown" /\ Become(t, "thrown") /\ UNCHANGED result
    /\ UNCHANGED <<slot, outside, dropped, ops>>

DropReturns(t) ==
    /\ Back(t, {"drop"})
    /\ Become(t, "run") /\ Gives(t, None) /\ Drop(t)
    /\ UNCHANGED <<slot, outside, ops>>

\* Throw and ThrowInternal make a throwable first.
Throw(t) ==
    /\ At(t, "run") /\ Op(t)
    /\ \E pc \in {"create", "internal"} : Push(t, pc, "ctor")
    /\ UNCHANGED <<slot, result, outside, dropped>>

\* NewThrowable is nullptr if the constructor did not return.
ThrowCreated(t) ==
    /\ Back(t, {"create", "internal"})
    /\ Become(t, "thrown")
    /\ Gives(t, Thrown(IF result[t].kind = "ok" THEN t ELSE Null, Top(t) = "create"))
    /\ UNCHANGED <<slot, outside, dropped, ops>>

\* athrow of a throwable that the code of this thread has made.
Athrow(t) ==
    /\ At(t, "run") /\ Op(t)
    /\ Become(t, "thrown") /\ Gives(t, Thrown(t, TRUE))
    /\ UNCHANGED <<slot, outside, dropped>>

\* A return instruction, or an invocation of a method that is not there.
Leave(t) ==
    /\ At(t, "run")
    /\ Pop(t) /\ \E r \in {Ok, Invalid} : Gives(t, r)
    /\ UNCHANGED <<slot, outside, dropped, ops>>

-----------------------------------------------------------------------------
(* DoExecuteCode: an instruction threw                                     *)

\* throwable_v->GetAs<ClassInstance>() of a nullptr.
NullThrown(t) ==
    /\ At(t, "thrown") /\ result[t].var = Null
    /\ process' = "crashed"
    /\ UNCHANGED <<slot, stack, result, base, got, dropped, ops>>

\* Mutant: the handler runs with the slot still full.
HandlerKeepsSlot(t) ==
    /\ At(t, "thrown") /\ result[t].var # Null /\ result[t].catchable
    /\ Become(t, "run") /\ Gives(t, None)
    /\ UNCHANGED <<slot, outside, dropped, ops>>

\* An entry of the exception table matches: ResetThrown, and on.
Handler(t) ==
    /\ At(t, "thrown") /\ result[t].var # Null /\ result[t].catchable
    /\ EmptySlot
    /\ Become(t, "run") /\ Gives(t, None)
    /\ UNCHANGED <<outside, dropped, ops>>

NoHandler(t) ==
    /\ At(t, "thrown") /\ result[t].var # Null
    /\ Become(t, "check")
    /\ UNCHANGED <<slot, result, outside, dropped, ops>>

\* Mutant: the throw is registered once it has left the last execution.
CheckOnlyLast(t) ==
    /\ At(t, "check")
    /\ Pop(t)
    /\ UNCHANGED <<slot, result, outside, dropped, ops>>

\* if(!IsThrown()) ...
CheckThrown(t) ==
    /\ At(t, "check")
    /\ IF throwable # Null THEN Pop(t) ELSE Become(t, "register")
    /\ UNCHANGED <<slot, result, outside, dropped, ops>>

\* ... RegisterThrown(throwable_v); return res.
Register(t) ==
    /\ At(t, "register")
    /\ FillSlot(t, result[t].var)
    /\ Pop(t)
    /\ UNCHANGED <<result, outside, dropped, ops>>

-----------------------------------------------------------------------------
(* Below the first execution: ThreadEntrypoint, and the sample's main      *)

Free(t, b) == process = "up" /\ stack[t] = <<>> /\ base[t] = b
To(t, b) == base' = [base EXCEPT ![t] = b]
Begin(t) == stack' = [stack EXCEPT ![t] = <<"enter">>]

\* The thread's run(), or a call the embedder makes.
BaseCalls(t) ==
    /\ Free(t, "idle")
    /\ Op(t)
    /\ To(t, "call") /\ Begin(t)
    /\ UNCHANGED <<slot, result, got, process, dropped>>

\* ThreadEntrypoint after run(): a throw is registered if none is.
RunReturns(t) ==
    /\ t # Main /\ Free(t, "call") /\ result[t].kind # "none"
    /\ To(t, IF result[t].kind = "thrown" THEN "check" ELSE "done")
    /\ UNCHANGED <<slot, stack, result, got, process, dropped, ops>>

EntrypointChecks(t) ==
    /\ t # Main /\ Free(t, "check")
    /\ To(t, IF throwable # Null THEN "done" ELSE "register")
    /\ UNCHANGED <<slot, stack, result, got, process, dropped, ops>>

EntrypointRegisters(t) ==
    /\ t # Main /\ Free(t, "register")
    /\ FillSlot(t, result[t].var)
    /\ To(t, "done")
    /\ UNCHANGED <<stack, result, got, process, dropped, ops>>

\* CheckHandleException: nothing to do, exit, or retrieve.
EmbedderChecks ==
    /\ Free(Main, "call") /\ result[Main].kind # "none"
    /\ \/ /\ result[Main].kind = "ok"
          /\ To(Main, "idle") /\ Gives(Main, None) /\ UNCHANGED process
       \/ /\ result[Main].kind = "invalid"
          /\ process' = "exited" /\ UNCHANGED <<base, result>>
       \/ /\ result[Main].kind = "thrown"
          /\ To(Main, "retrieve") /\ UNCHANGED <<result, process>>
    /\ UNCHANGED <<slot, stack, got, dropped, ops>>

RetrieveThrownThrowable ==
    /\ Free(Main, "retrieve")
    /\ got' = throwable /\ throwable' = Null
    /\ Gives(Main, None)
    /\ To(Main, "thread")
    /\ UNCHANGED <<thrower, stack, process, dropped, ops>>

\* thread->GetThreadName() calls getName, or dereferences a nullptr.
RetrieveThrownThread ==
    /\ Free(Main, "thread")
    /\ thrower' = Null
    /\ IF thrower = Null
       THEN process' = "crashed" /\ UNCHANGED <<stack, base>>
       ELSE Begin(Main) /\ To(Main, "name") /\ UNCHANGED process
    /\ UNCHANGED <<throwable, result, got, dropped, ops>>

\* throwable_v->GetAs<ClassInstance>() and printStackTrace.
PrintStackTrace ==
    /\ Free(Main, "name") /\ result[Main].kind # "none"
    /\ Gives(Main, None) /\ Drop(Main)
    /\ IF got = Null
       THEN process' = "crashed" /\ UNCHANGED <<stack, base>>
       ELSE Begin(Main) /\ To(Main, "print") /\ UNCHANGED process
    /\ UNCHANGED <<slot, got, ops>>

Exit ==
    /\ Free(Main, "print") /\ result[Main].kind # "none"
    /\ process' = "exited"
    /\ UNCHANGED <<slot, stack, result, base, got, dropped, ops>>

-----------------------------------------------------------------------------
Execute(t) ==
    \/ Enter(t) \/ Construct(t) \/ ThrowAlreadyThrown(t)
    \/ Call(t) \/ CallReturns(t) \/ DropReturns(t) \/ Throw(t) \/ ThrowCreated(t)
    \/ Athrow(t) \/ Leave(t)
    \/ NullThrown(t) \/ Handler(t) \/ NoHandler(t) \/ CheckThrown(t) \/ Register(t)

Embedder ==
    \/ EmbedderChecks \/ RetrieveThrownThrowable \/ RetrieveThrownThread
    \/ PrintStackTrace \/ Exit

Next ==
    \/ \E t \in Threads :
          \/ Execute(t) \/ BaseCalls(t)
          \/ RunReturns(t) \/ EntrypointChecks(t) \/ EntrypointRegisters(t)
    \/ Embedder

Spec == Init /\ [][Next]_vars

-----------------------------------------------------------------------------
(* The inductive invariant                                                 *)

\* t returns, or is about to return, a throwable to whoever called it.
Unwinding(t) ==
    /\ result[t].kind = "thrown" /\ result[t].var # Null
    /\ stack[t] = <<>> \/ Top(t) \notin {"create", "internal"}

\* Every execution below the innermost waits for its callee, and Throw and
\* ThrowInternal wait for a constructor.
StackShape(t) ==
    LET n == Len(stack[t]) IN
    \A i \in 1..n : i < n =>
        /\ stack[t][i] \in Waiting
        /\ stack[t][i] \in {"create", "internal"} =>
              i + 1 = n /\ stack[t][n] \in {"ctor", "already"}

\* No result is pending while an execution goes on; one that has to deal with
\* a throw has its result.
ResultShape(t) ==
    /\ stack[t] # <<>> =>
          /\ Top(t) \in {"enter", "ctor", "already", "run"} => result[t].kind = "none"
          /\ Top(t) \in {"thrown", "check", "register"} => result[t].kind = "thrown"
          /\ Top(t) \in {"check", "register"} => result[t].var # Null
    /\ base[t] \in {"idle", "thread"} => stack[t] = <<>> /\ result[t].kind = "none"
    /\ base[t] = "retrieve" => stack[t] = <<>> /\ result[t].kind = "thrown"

\* No other thread has run yet and no result was ignored.
Alone(t) == (\A u \in Threads \ {t} : base[u] = "idle") /\ dropped = {}

\* Unless a result was ignored, the thread in the slot is being unwound by the
\* throwable there; there is none only once the embedder has retrieved it, which
\* it does too late if another thread throws in between.
SlotHasThrower ==
    throwable # Null /\ dropped = {} =>
        /\ thrower # Null => Unwinding(thrower) /\ result[thrower].var = throwable
        /\ thrower = Null => /\ base[Main] \in {"name", "print"}
                             /\ \E u \in Threads \ {Main} : base[u] # "idle"

\* What the embedder's thread has thrown is in the slot when it has left the
\* execution that threw it, and it has not found the slot full.
Registered ==
    /\ stack[Main] # <<>> => Top(Main) # "already"
    /\ result[Main].kind = "thrown" /\ (stack[Main] # <<>> => Top(Main) \in {"call", "drop"}) =>
          throwable # Null

-----------------------------------------------------------------------------
(* Properties                                                              *)

\* A handler only ever gets a throwable that its own thread has thrown: a
\* throwable that a thread picks up from the slot passes every handler.
OwnThrowableCaught ==
    \A t \in Threads : result[t].catchable => result[t].var \in {t, Null}

\* The slot never holds a throwable that everyone is done with: some thread is
\* still being unwound by it or was ended by it, or a getstatic, putstatic or
\* the embedder has ignored it.
SlotIsPending ==
    throwable = Null \/ throwable \in dropped
    \/ \E t \in Threads : Unwinding(t) /\ result[t].var = throwable

\* The inductive invariant.
Inv ==
    /\ TypeOK
    /\ \A t \in Threads : StackShape(t) /\ ResultShape(t)
    /\ OwnThrowableCaught
    /\ SlotIsPending
    /\ SlotHasThrower
    /\ Alone(Main) => Registered

\* As long as one thread runs, it executes nothing while a throwable is
\* registered, and the registered throwable is the one it is returning.
QuietWhileThrown ==
    \A t \in Threads : Alone(t) /\ throwable # Null =>
        /\ Unwinding(t) /\ result[t].var = throwable /\ thrower = t
        /\ stack[t] # <<>> => Top(t) \notin {"enter", "run"}

\* As long as only the embedder's thread runs, the throwable and the thread
\* CheckHandleException retrieves are there.
EmbedderFindsThrow ==
    Alone(Main) /\ Free(Main, "retrieve") =>
        throwable = result[Main].var /\ throwable # Null /\ thrower = Main

\* What vm_TypeBase.hpp:63 says of ExecutionResult::var: "throwable var if
\* thrown".
ThrownHasThrowable ==
    \A t \in Threads : result[t].kind = "thrown" => result[t].var # Null

=============================================================================

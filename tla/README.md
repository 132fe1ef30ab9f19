# TLA+ models of libjavm

libjavm is a Java virtual machine as a C++17 library: an interpreter for class
files, class types and instances, threads and monitors on top of whatever
threading library the embedder supplies (pthread and standard C++ by default),
and the native methods that Java's own library needs to start. This directory
holds TLA+ specifications of its concurrent and stateful core, TLC
configurations that check them on small instances, and TLAPS proofs of what
holds for every instance. Paths below are relative to `src/libjavm/`.

## The system

| Component | State | Operations | Interacts with |
| --- | --- | --- | --- |
| Class initialisation (`vm_Class.cpp`) | `static_block_enabled`, `static_block_called` of each class type | `EnsureStaticInitializerCalled`, `CallClassMethod`, `DisableStaticInitializer` | called by `new`, `invokestatic`, `getstatic`, `putstatic`, `Class.forName`, `PrepareExecution`; runs the interpreter |
| Thread registry (`vm_Thread.cpp`, `lang_Thread.cpp`, `extras_PthreadThread.hpp`) | `g_ThreadList` of accessors, each with a `native::Thread` and its handle; the `eetop` field of `java.lang.Thread` | `RegisterAndStartThread`, `ThreadEntrypoint`, `UnregisterSelf`, `GetThreadByHandle`, `isAlive`, `start0`, `currentThread` | every execution looks its accessor up by handle |
| Thrown state (`vm_Thread.cpp`, `vm_Execution.impl.cpp`) | `g_ThrownThrowable`, `g_ThrownThread`, `g_ThrownNotified`: one slot for the VM; an `ExecutionResult` per call | `RegisterThrown`, `ResetThrown`, `IsThrown`, `ThrowAlreadyThrown`, `RetrieveThrown*`, `Throw`, `ThrowInternal` | `DoExecuteCode`, `ThreadEntrypoint`, the embedder |
| Monitors (`vm_Sync.hpp`, `extras_CppSync.hpp`, `lang_Object.cpp`) | a recursive mutex and a condition variable per class type and per instance | `monitorenter`/`exit`, synchronized methods, `wait`, `notify`, `notifyAll` | interpreter, `Thread.start`, `Thread.join` |
| Interpreter (`vm_Execution.impl.cpp`, `vm_Execution.cpp`) | frame: operand stack, locals, code offset | one case per instruction; exception-table search | everything |
| Class types, instances, dispatch (`vm_Class.cpp`) | fields, methods, a chain of super instances | field access, `CallInstanceMethod`, `CanCastTo`, `GetInstanceByClassType` | class sources, monitors |
| Arrays, variables, descriptors | element vectors; tagged values, which fields and operand stacks share by pointer | creation, `GetAt`/`SetAt`, `arraycopy`; types by name | interpreter, natives |
| Unsafe natives | none of their own | `compareAndSwapInt`, `getIntVolatile`, field offsets, raw memory | instance fields |
| String pool (`jutil_String.cpp`), list of `Class` objects (`vm_Variable.cpp`) | two lists, unlocked | find, make (which re-enters the pool), then push | `ldc`, `String.intern`, `getClass` |
| Class sources, runtime (`rt/`) | source list, cached class files and types | locate, reset, prepare | class initialisation |
| Reading class files: constant pool, attributes (`rt_JavaClassFileSource.cpp`, `vm_ConstantPool.cpp`, `vm_Attributes.cpp`) | what a `ClassType` is made of | byte by byte, by offset | class sources; look-ups by the interpreter |
| Native tables, reflection types | maps filled at start-up | look-ups | dispatch |

What is hard in it: static initialisation, the string pool, class caches and
`compareAndSwapInt` are test-then-set without a lock; the thrown slot is locked
for each access but not from a test to the write that depends on it, and it is
shared by all threads; threads are found by a handle that is not known while
they are being created; nobody notifies a thread's end; failures of static
initialisers and of `pthread_create` are dropped in places. Which method, field or type an
instruction means is decided by searches through names, flags and chains of super
instances that are nowhere tested as a whole. `PROJECT.json` lists
each of these hazards at its line, with the properties that cover it.

Correctness, component by component: an initialiser runs when it must, after the
superclass's, never twice in a thread, and every use returns; a thread finds its
own accessor and no one else's, and `isAlive`, `join` say what is true; a
throwable reaches the handler or the embedder it is meant for and no code runs
on top of a pending one; monitors exclude and are released; the instructions
compute what the Java VM specification says.

## Modules

### `ClassInit` - class initialisation

A thread is its C++ call stack, restricted to the activations of
`EnsureStaticInitializerCalled` and of the `CallClassMethod` that runs
`<clinit>`; a frame has the class and how far the activation has got.

| `pc` | Where in `vm_Class.cpp` |
| --- | --- |
| `enter`, `super` | before, and in, the call on the superclass (57-65) |
| `check` | the two tests (68, 70): `CheckCalled` |
| `set` | between the read of `static_block_called` and its write (71): `SetCalled` |
| `nested` | in the Ensure that `CallClassMethod` begins with (90) |
| `body`, `touch` | `<clinit>` is interpreted (113), or uses another class |
| `threw` | an instruction of `<clinit>` has failed |

Read and write of the flag are two steps, as nothing is locked. The body of a
`<clinit>` is chosen: it uses the classes in `Touches`, each at most once, and
fails or returns. Classes in `Disabled` can be disabled at any moment:
`PrepareExecution` does so, and can be called again after `ResetExecution` while
threads of the earlier run still go on.

`CallClassMethod` runs `<clinit>` through `DoExecuteCode`, which begins nothing while a throwable
is in the VM's one slot (`vm_Execution.impl.cpp` 1692): it returns `ThrowAlreadyThrown`, the flag stays set,
and the class is never initialised. `BeginClinit` has both cases, so the module keeps of the slot whether
it is full (`slot`, `IsThrown()`), and everything that fills or empties it: a failure on its way out of a `<clinit>`
(`ClinitPropagates`) or out of other code of a thread (`CodePassesOn`) fills it, a handler (`ClinitCatches`,
`CodeCatches`) and the embedder (`EmbedderRetrieves`) empty it. `code[t]` is the code that a thread
runs outside uses: it can throw as well (`CodeThrows`, where a throw may have been registered by
executions it has left already), and a failed use either fails it or is dropped as `getstatic` and
`putstatic` do (`UseFails`, `ClinitDrops`). A failure is `thrown`, which a handler may take, or `refused`,
which none takes. The test of the slot and what follows it are one step here; `ThrownState` has them apart, and the
throwables. `runs`, `skipped`, `thrown`, `failed`, `unwound` and `dropped` are history variables.

`Super[c]` is fixed: the code looks the superclass up by name at every call, and finds the same one until a
reset. A superclass that cannot be found is as none. Bounds: `MaxCalls` uses and throws outside uses, of all threads together;
`MaxThrows` failing instructions of `<clinit>`s per thread; `Touches` bounds the depth.

### `ThreadLifecycle` - thread registry, `isAlive`, `join`

`Threads` and `Main`, which it shares with `ThrownState`, are declared in `JavaThreads`. A Java `Thread` object, its `native::Thread` and its handle are one model value.
`list` is `g_ThreadList`; `handle` the `pthread` field; `eetop` the Java field.
`Start0` stands for `CreateThread` and `RegisterThread`, after which the accessor
is in the list with an uninitialised handle; `StartNative` for `pthread_create`,
and `StartNativeFails` for one whose ignored result is an error. `ReadEetop`,
`Lookup`, `Probe`, `Answer` are the steps of the native `isAlive`; `Join` is the
library's synchronized loop over `isAlive` and `wait(0)`, which here is a wait
that times out at once.

Assumptions: an uninitialised handle is zero or what the memory held before, a
freed `native::Thread` of a finished thread; `pthread_create` stores the handle
before the new thread runs, as glibc does; handles are not reused, since no
thread is joined or detached; `start` is called once per `Thread` object.

### `ThrownState` - throwing

`stack[t]` has one entry per `DoExecuteCode` activation of `t`, saying what it is
doing, and `result[t]` the `ExecutionResult` being returned. `throwable` and
`thrower` are the slot. `IsThrown` followed by `ThrowAlreadyThrown`, and
`IsThrown` followed by `RegisterThrown`, are two steps each (`Enter` and
`ThrowAlreadyThrown`; `CheckThrown` and `Register`). `base[t]` is what the C++ code
under the first activation does: `ThreadEntrypoint`, or the sample's
`CheckHandleException` for `Main`. Calls are followed by `CallReturns`, which
passes a throw on, or `DropReturns` (`getstatic`, `putstatic`), which ignores it.
`process` becomes `crashed` where the code dereferences a null pointer.

A throwable is identified by the thread that made it: the properties tell whose
throw is pending, not which. The constructor of a throwable either ends well or
finds the slot full. Bound: `MaxOps` calls and throws per thread.

### `Monitors` - object monitors, `wait`, `notify`

`owner` and `count` are the `std::recursive_mutex` of each monitor. `stack[t]` is the
methods `t` executes and, in each, the synchronized and try blocks it is in, since
both the unlocking and the search for a handler go by that nesting. An object has a
`Monitor` for itself and one for each super instance (`ClassInstance` derives from
`MonitoredItem` and owns a `super_class_instance`): a synchronized method locks
the one of the instance that declares it, `MethodMonitors`; blocks, `wait` and
`notify` use the object's own, `ObjectMonitors`. A static synchronized method locks
the `ClassType`'s monitor, a block on `X.class` that of the `Class` object: the same
two sets.

`Enter` and `Leave` are `Lock` and `Unlock`; unlocking a mutex one does not own is
undefined in C++, and changes nothing with glibc's recursive mutex, which is what
is modelled. `Wait` is `WaitFor`: it unlocks one level, sleeps (`sleep`), is awakened by
`TimesOut`, `Notify` or `NotifyAll`, and locks again (`Relock`). `Catch`, `CatchAndExit` and
`Unwind` are what `DoExecuteCode` and `CallInstanceMethod` do with a throw: the last
matching entry of the exception table wins, which is the outermost block of the
method as compilers list inner blocks first, and an uncatchable throw passes all
handlers. `leaked` is a history variable: monitors a thread has locked and no region
will unlock.

`Exclusion` is the abstract specification: sets of threads inside each monitor, at
most one at a time, which leaves before the next enters. `Monitors` implements it
with `inside` mapped to the threads that are in more regions of a monitor than waits
have unlocked.

Bound: `MaxOps` calls, blocks, waits and throws per thread.

### `OperandStack` - what instructions do to the operand stack

`operands` is the `VariableStack` of an `ExecutionFrame`, which keeps one `Variable` per
value, whatever its size; the Java VM specification counts words, two for a long or
double. Instructions are grouped by how many values they take and give (`Push`,
`Consume`, `Unary`, `Operator`, `ConsumeTwo`, `ArrayStore`, `Invoke`; what they compute is any
value), and each shuffle is an action with the tests the code makes
(`IsBigComputationalType`). `Shaped` says what a verifier guarantees: the sizes the
instruction is specified for. `Handler` is the search of the exception table: the
instruction that throws has popped some operands, and the throwable is pushed once
for each matching entry; nothing is cleared.

`SlotStack` is the abstract specification, the stack of words. `OperandStack`
implements it with the words of the operands above `junk`, those that handlers and
comparisons have left below and that no verified instruction reaches. `inst`, the
effect of the last instruction by the specification, is shared by the two, so that a step may
only be matched by the specified form of the same instruction. Where the code departs from it
`astray` is set and the frame is followed no further. `SlotStack` lists these cases in `Stray`, and says when
they can occur:

- `dup_x2` over a long or double: the wrong operand is tested;
- `dup2_x2` on two of them: the form cannot be reached;
- a comparison with NaN above other operands: two results;
- `instanceof` of an array: no result;
- an instruction that does not find what it names, or an access to a static field of a class that fails to initialise, which go on
  (`Unresolved`): `getstatic` and `getfield` push `nullptr`, `ldc` (which drops its own throw) and `new` push
  nothing, `putstatic` stores nothing, `invokestatic` of a class that is not found leaves its arguments and pushes no
  result, and so does a call that returns no `Variable`, having taken its arguments.

`Push` and `Invoke` are the instructions that find what they name. Java compilers have no use
for the two `dup` forms (they copy a value below an array and an index, or below an
object), so it is other bytecode that meets them.

Not implemented in the interpreter, and so not here: `swap`, `tableswitch`, `wide`,
`invokedynamic`. Bound: `MaxDepth` operands.

### `ClassSource` - locating class types

`list` is `g_ClassSourceList`. `files[s]` is the class files of a source that are in memory,
each with its `cached_class_type`: an archive's `cached_class_files`, or the one file that a
class file source is. `types` is every `ClassType` made so far, and `NoType` is `nullptr`. A
`LocateClassType` is a record that goes through the list (`Search`), reads an entry of an
archive (`Read`, up to the `push_back`), tests the cached pointer (`Check`), makes a type
(`Create`, which ends with the assignment) and reads the pointer again to return it (`Take`);
no step is locked. `ResetCachedClassTypes` goes through the sources one at a time
(`ResetSource`), while threads go on: `ResetExecution` does not wait for them.

Two threads at the same vector, or at the same pointer, one of them writing, are a data
race: the process may crash (`Race`), or the steps happen in some order. `mark`, and the
`loaded`, `quiet` and `whole` of a call, are history: what was cached when it began, whether
another thread was then making that class, and whether a reset has passed since.

Assumptions: the entry of an archive contains the class it is named for, so what parsing
yields is left out; class names are compared without their slashes or dots; an archive's
entries do not change; the list is changed between calls only, as `push_back` and `erase` would
invalidate the iterators of a call, and each source is in it once. Reading class files
(`Load`) happens before the file is in memory. Bounds: `MaxCalls` per thread, `MaxResets`,
`MaxChanges` of the list.

### `Heap` - fields that threads share, Unsafe

An object is a chain of `ClassInstance`s; `cell` is the pointer each `ClassField` has to its
`Variable`, `NoVar` until it is set or read, and `value` the ints in the `Variable`s made so
far. `Variable`s are shared and not copied: reading a field and putting what was read into another
makes the two fields one cell, and `compareAndSwapInt` writes into it. `GetField` is `Test`
(`HasVariable`) and then `Fetch` or `Default`; the exchange is `Compare` and `Store` or `Restore`
(it stores the expected value when the test fails); `GetAndAdd` is `getAndAddInt` of
`sun.misc.Unsafe` over `getIntVolatile` and these. `objectFieldOffset` gives 0 for every field, so
all of Unsafe works on the first field (`Counter`). `java`, `disturbed` and `ceiling` are history.

Assumption: the read and the write of the `shared_ptr` of a field are one step each; two at
once are a data race. Bound: `MaxOps` per thread.

### `StringPool` - strings and `Class` objects

`list[k]` are the two lists that give a name one object. A call searches its list (`Found`, `NotFound`),
makes an object, and extends the list at the end (`PushInterned`, `PushClass`), with no lock.
Making a string runs its constructor, which interns `""` (`Construct`), and making a `Class` object interns
its name (`NameClass`), so that `frames[t]` is a stack. `InternVariable` searches again before
it pushes, and `NewClassTypeVariable` does not.

Assumption: a search and a `push_back` happen in some order. In the code a vector can grow
while another thread searches it, which is a data race. Bound: `MaxObjects`.

### `SharedObjects` - the two together

Threads use fields and names in any order; as the two have no variable in common, each behaviour
chooses one (`table`). What a step of the one does between steps of the other shows nothing else.

### `ClassFormat`, `ClassReader`, `TypeNames` - class files

`ClassFormat` writes a class file as a compiler does, from a description of the class: it is
chapter 4 of the Java VM specification and no code of the repository. `ClassReader` is what
`JavaClassFileSource`, `ConstantPool` and `Attributes` do with the bytes: counts, offsets, the
two numbers that a long takes, constants that refer to others, attributes by name, code, line
numbers, annotations. `TypeNames` is the handling of names and descriptors.

### `ClassTypes`, `Arrays`, `Arithmetic` - instructions

`ClassTypes` is the look-ups of `vm_Class.cpp` and the instructions that use them (`INVOKE*`,
`GETFIELD` and its like, `CHECKCAST`, `INSTANCEOF`, `LDC`); `Arrays` is arrays of references, with
`arraycopy`, `CHECKCAST` and `MULTIANEWARRAY`; `Arithmetic` is integer instructions with int of `Bits`
bits. An instruction gives its outcome: what it pushes, which class's method runs, or how it
fails (`Internal` is an `InternalError`, which no Java handler catches; `Missing` is the `nullptr` that
`GETSTATIC` pushes of a field it does not find, `NotRun` a put that is dropped). A `CHECKCAST` of an array asks the
class of its elements, `ClassType::CanCastTo`, which knows the interfaces that classes name. `MULTIANEWARRAY` has its
refusal of negative lengths; the refusal of a class that is not found is there but not reached, as constants
name classes of the program, and the initialiser that it may run is `ClassInit`'s.

Undefined behaviour in `Arithmetic`: a shift by a negative or too large count is masked, as
the processors do; signed overflow wraps; the division of the lowest number by -1 and the remainder
by zero trap or give any value. Constants of 8 bytes are read into a C++ `long`, which is taken
to have 64 bits.

### `JavaRules`, `Program` - a program is read and run

`JavaRules` says what Java means: method selection, resolution of fields, subtypes and integers. It
is written from the classes' descriptions, and knows neither the files nor the look-ups. `OwnerOf` is resolution of
fields: the class itself, then its interfaces and what they inherit, then its superclass. `NearestField` is the search that leaves
interfaces out, with which the property states what the VM finds instead.
`Program` composes the rest: a program (`world`) is chosen, its class files are written
(`ClassFormat`), read (`ClassReader`) and kept in `types`, and instructions of the class `Self` are executed by
the number of their constants; `answer` is compared with `JavaRules`. `task` chooses what is
executed, as reading, looking up, arrays and numbers do not influence each other.

`WorldsAssumption` says which programs these are: `WellFormed`, what a compiler accepts (no class is
its own supertype, no two methods of a class have one name and descriptor, no interface has instance
fields and `Object` none at all, nothing static is abstract, the table of lines of a method begins at offset 0). `NumbersAssumption` is about widths, and about switches as compilers
lay them out; `ArraysAssumption` about the arrays there are. `FilesAssumption` says that the classes fit
into class files: lists are no longer than two bytes count, constants are of the tags that `ClassFormat`
writes and have their width. `NamesAssumption` says how compilers name types and write descriptors:
brackets and a base, one descriptor per parameter. It leaves out two programs that the VM misreads: a class with
the name of a primitive type's descriptor, such as `I`, which is taken for `int`, and arrays of a class whose
name begins with `L` (`GetClassNameFromDescriptor` cuts off every `L` in front, so `LList;` becomes `ist`).
`NoItemAssumption` says that `NoItem` is none of the things that are read. `Powers` has the powers of two as a recursive function, of which more
can be proved than of `^`.

## Runs

| Run | Shows | Bounds and why they are enough |
| --- | --- | --- |
| `class_init` | `Inv`, `OncePerThread`, `SuperFirst`, `NestedEnsureSucceeds`, `ClaimIsHonoured`, `FailureReportedOnce`, `NoLateRun`, `UsesReturn` | two threads, three classes in a chain `b` - `d` - `a`, initialisers of `b` and `d` use each other, `d` may be disabled; in all two uses or throws of other code, and per thread one failing instruction of a `<clinit>`: cycles, opposite orders, failures, a second use after a failure, a `<clinit>` refused because this thread dropped a failure or the other one throws, and a handler that empties the slot all occur |
| `class_init_once` | **violated**: at most one thread runs a `<clinit>` | both threads read the flag before either writes it |
| `thread_lifecycle` | `LifecycleInv`, `SelfFound`, `NoAccessorLost`, `FalseOnceKnown`, `JoinReturns` | the main thread and two more: one being created while another has finished and a third asks, with any uninitialised handle and failing creations |
| `thread_not_found` | **violated**: a thread not found has finished | started, `eetop` not stored yet |
| `thrown_state` | `Inv`, `OwnThrowableCaught`, `SlotIsPending`, `QuietWhileThrown`, `EmbedderFindsThrow` | the embedder's thread and one more, four calls or throws each: nested calls, throws inside handlers, both threads unwinding, `<clinit>` failures dropped |
| `monitors` | `Inv`, `MethodsUnlock`, `MutualExclusion`, `Served` | two threads, an object with its own monitor and its superclass's, three operations each: nesting, waits within nesting, both lock orders, a block inside a try block or another block left by a throw all fit in three |
| `operand_stack` | `TypeOK`, `FollowsJvm` | five operands, two values of each size: the longest form reads four and adds two, which fits below one left by a handler; two values tell the order of equal sizes; an unresolved instruction at any stack |
| `class_source` | `Inv`, `FirstSourceWins`, `LoadedIsReturned`, `ResetForgets` | two threads, an archive, a second one with a class of the same name, a class file with another of its names; two calls each, one reset, two changes of the list: both threads load at once, a reset passes in the middle of a call, and a second call meets what the first one cached, or a reset forgot |
| `class_loaded` | **violated**: a loaded class is what a call returns | both threads find the cached pointer empty; the second replaces the type that the first has returned |
| `shared_objects` | `SharedTypeOK`, `Regular`, `ExactUnlessDisturbed`, `NeverAhead`, `LaterCallsAgree`, `CanonicalNeverChanges` | two threads, two operations each, on an object of two classes that declare the same field, a second field and a static one: a first read overlaps a put, a read value is put elsewhere, two increments or exchanges overlap; or up to three strings and `Class` objects when a call begins, of a text that is a class's name and of `""`: two threads make the same object, inside one another |
| `program` | `ReadsWhatWasWritten`, `CallsFollowJava`, `FieldsFollowJava`, `CastsFollowJava`, `NumbersFollowJava`, `ArraysFollowJava` | 3888 programs of two interfaces and a chain of three classes, each with or without each method, abstract, native or with a body, and naming none, either or both interfaces, hiding fields or not, where both interfaces have a static field of one name and one of them another that classes have too; every instruction, constant and receiver; files that differ from a base program in one class, as they are read one at a time; arrays of two elements and two operations, so that a copy follows a store; new arrays of lengths from -1; all ints of 4 bits and the longs of 8 bits near the bounds of either, so that every shift count, sign and overflow occurs |
| `thrown_var` | **violated**: a thrown result has a throwable | one thread enters while the other's handler empties the slot |

What the properties say, and which are weaker than one would wish:

- `OncePerThread` is what remains of "once": `class_init_once` shows that two threads
  can both run a `<clinit>`. `NoLateRun` confines the race to threads that had read
  the flag before the claim.
- `SuperFirst` is about claims: another thread's superclass initialiser may still
  be running, and Java's guarantee that a use waits for it does not hold.
- `NestedEnsureSucceeds` does not by itself mean that `<clinit>` runs: `DoExecuteCode` may still refuse it.
- `ClaimIsHonoured` therefore has an exception, and says when it applies: a class is left claimed and never initialised only if
  `DoExecuteCode` refused its `<clinit>`, in a thread that had gone on past a failure, or while or after another thread
  threw. A thread's own throws alone never do that, however they are nested: they are out of the slot before
  the thread claims another class. Its mutant, a handler that leaves the slot full, breaks this.
- `FailureReportedOnce` counts thread by thread, and a refused `<clinit>` as one that failed: one throwable left in the slot can fail
  the `<clinit>` of several classes, each once. After the one report, the class is used half-initialised.
- `FalseOnceKnown` has the condition that a handle was read; `thread_not_found` shows
  what happens without. `join` right after `start` may therefore return at once.
- `JoinReturns` excuses runs in which a `pthread_create` failed: the accessor left
  behind can have the finished thread's handle, and `pthread_kill` may answer 0 for
  it for ever.
- `SlotIsPending`, `QuietWhileThrown` and `EmbedderFindsThrow` hold for what the slot can
  guarantee: the last two only until another thread runs. With two threads, one
  thread's handler wipes the other's registered throwable, and a thread that
  enters a method while a throw of another thread is registered is ended by it.
- A caught throwable can be registered again by another thread that picked it up
  from the slot, and then end the thread that had caught it.
- `MutualExclusion` is about monitors, not objects: a synchronized method of a superclass
  and a synchronized block on the same object do not exclude each other.
- `Inv` of `Monitors` says precisely when a monitor is leaked, and that is often: after
  a wait without ownership (`Thread.join` on an object of a subclass of `Thread`, which
  locks the superclass's monitor and waits on the object's own), after an
  uncatchable throw out of a synchronized block, and after a throw that an outer
  block of the same method catches. `Served` excuses threads that wait for a leaked
  monitor or in a lock cycle of the Java program (`Stuck`), and nobody else.
- `MethodsUnlock` is what the code does guarantee, whatever is thrown: monitors that
  only synchronized methods lock.
- `FollowsJvm` is refinement up to the five kinds of departures named above; until the first of them the
  single-entry stack and the specification's words agree, also above what handlers leave. `TypeOK` says that until then
  no operand is `nullptr`. After it nothing is said of the frame.
- `FirstSourceWins` and `ResetForgets` are about calls that no reset disturbed. One that a
  reset overtakes between the test of `cached_class_type` and its return reads `nullptr` and
  goes on to the next source: it finds another source's class of that name, or nothing.
- `LoadedIsReturned` has the condition that nobody was making the class when the call
  began; `class_loaded` shows what happens without. Two types of one class have separate
  static fields and initialisers.
- `Regular` is what a read of a field without a lock still gives: never a default or a
  value that was replaced before the read began. It has the condition that the field has been
  set, or read, before: two first reads, or a first read and a put, can lose the put.
- `ExactUnlessDisturbed` says that Unsafe works when its operations do not overlap, also through
  shared `Variable`s; `getAndAdd` then returns the new value, as its result is the field's own
  cell. When they overlap, increments get lost (the exchange is not atomic) and a failed exchange
  undoes another thread's store; `NeverAhead` is what remains: nothing is added twice. There is no liveness
  property of `getAndAddInt`: its loop may go on for ever.
- `LaterCallsAgree` has the condition that a call for the name had returned before this one
  began. Overlapping calls may give different objects for equal strings or one class, and
  `String.intern` returns the string it was called on, whatever the list has.
- `ReadsWhatWasWritten` leaves out constants of the tags 17, 19 and 20, and annotations whose
  value is an array or annotation, after which the code misreads the file. Of a constant of eight
  bytes the lower four are described and compared; the upper four are 0.
- `CallsFollowJava`: `INVOKESPECIAL` of a method that the named class inherits fails; a default method
  is missed if no class names its interface, or another of that name is found; calls on `null` end in an
  `InternalError` that Java code cannot catch. Static methods of interfaces are left out.
- `FieldsFollowJava`: `PUTSTATIC` through a subclass is dropped without a word. A static field that a class inherits
  from an interface is not seen by `GETSTATIC`: it gives the field of that name of a superclass, if there
  is one, and otherwise goes on with `nullptr`. Puts to fields of interfaces, which are final, are left out.
- `CastsFollowJava`: an interface that only other interfaces name is not recognised, also as the class of
  an array's elements; `isAssignableFrom` has its operands the wrong way round; and a `CHECKCAST` of an array asks only whether the
  class of the elements names that of the type or inherits from one that does, whatever the dimensions of the two are (an array of a primitive
  type ends the process).
- `NumbersFollowJava`: remainders by zero do not throw; `LUSHR` of negative numbers is wrong; conversions to
  byte, char and short keep all bits.
- `ArraysFollowJava`: an array of arrays of a class other than `Object` gets no rows. `arraycopy`
  checks neither bounds nor null; copies out of range are a throw in the middle, and a `nullptr` ends
  the process, which is why `Copies` can be the last operation.
- `JoinReturns` of `ThreadLifecycle` takes the monitor of `join` to be free; two threads
  that join the same object of a subclass of `Thread` can end in the leak above.

Deadlock checking is off in all runs: the systems end when the bounded uses, threads
or calls are over, or the process exits.

Fairness: `ClassInit`, `ThreadLifecycle` and `Monitors` assume weak fairness of each thread's
steps. In `ClassInit` a thread never blocks, so this is that the operating
system schedules it and that a `<clinit>` ends. In `ThreadLifecycle` it excludes the
choices of Java code (what to call, whether `run()` returns). In `Monitors` it also
says that Java code leaves its regions and that a wait's time passes, never that
anyone notifies; weak fairness of locking is enough as operations are bounded.
The other modules have no liveness property and no fairness. `shared_objects` has its threads as a symmetry
set, which is sound as it checks no liveness; its action property names no thread.

## Proofs

The theorems hold for every value of the constants that satisfies the named
assumptions of the module (`ConstantsAssumption`, `LifecycleAssumption`; `WorldsAssumption`, `NumbersAssumption`, `ArraysAssumption`,
`FilesAssumption`, `NamesAssumption` and `NoItemAssumption` of `Program`, `EncodingAssumption` of `ClassReader`): any number of threads, any class
hierarchy, any bound. Each follows from the inductive invariant `Inv` (`LifecycleInv`) that the run of
the module checks as well: `Init => Inv`, one lemma per action that it keeps `Inv`, and
`Inv => property`. Where a property needs more than `Inv`, the strengthening is in the
proof module and named below.

- `ClassInitProofs`: `InvHolds`, `OncePerThreadHolds`, `SuperFirstHolds`. That no thread runs a
  `<clinit>` twice cannot be shown from the flags alone: `Inv` describes the C++ stack
  (which activation is above which, `StackShape`), that an activation past the write of
  the flag is the only one of its thread for its class (`ClaimedFirst`, `OneClaim`), that
  `runs` counts these (`RunsOnce`), and that below an activation past its superclass the
  superclass is settled (`SuperChain`). The lemmas on `Append`, `SubSeq` and the top of the
  stack (`BelowFacts`, `GotoFacts`, ...) come first.
  `NestedEnsureSucceedsHolds`, `ClaimIsHonouredHolds`, `NoLateRunHolds`,
  `FailureReportedOnceHolds` say what becomes of a claim. That the Ensure `CallClassMethod` begins with
  cannot fail needs more than `Inv`: that an activation past its superclass has *all* superclasses settled
  (`Deep`), and that above an activation about to run a `<clinit>` there is only that Ensure, on
  settled classes (`Quiet`), which therefore calls nothing that throws. "All superclasses" would be a
  recursion over the hierarchy; `AllSettled` says instead that the class is in some set of settled
  classes that contains the superclass of each of its members. With these a claim is
  honoured by the thread that made it, or refused (`Honours`). `CauseInv` says why it can be refused: in a thread that nothing
  has disturbed, the slot is full only while a failure of its own is on its way out, and then it begins no
  `<clinit>`. `FailInv` counts for each thread: failed uses, and one if a failure is on its way on
  its stack, are together no more than the failures of its initialisers.
- `ThreadProofs`, about `ThreadLifecycle`: `LifecycleInvHolds`, `SelfFoundHolds`, `NoAccessorLostHolds`, `FalseOnceKnownHolds`.
  `LifecycleInv` says which threads have an accessor (`ListExact`), that a handle is owned by
  one thread or belongs to one not yet created (`HandleOwned`), what `eetop` can hold
  (`EetopOwned`), that the uninitialised accessor is the one being created (`OneCreator`),
  and what a question under way has found (`Asking`).
- `ThreadProofs`, about `ThrownState`: `InvHolds`, `OwnThrowableCaughtHolds`, `SlotIsPendingHolds`,
  `QuietWhileThrownHolds`, `EmbedderFindsThrowHolds`. `Inv` describes the stack and result of each
  thread (`StackShape`, `ResultShape`): what makes a throw catchable, and which activation the
  pending result belongs to. That a lone thread runs nothing while the slot is full needs the converse,
  that a slot that is full has a thrower (`SlotHasThrower`) and that as long as the embedder's
  thread is alone each of its throws is the one in the slot (`Registered`).
- `MonitorsProofs`: `InvHolds`, `MethodsUnlockHolds`, `MutualExclusionHolds`. `Inv` relates the C++ mutexes
  to the Java regions: a thread that owns a mutex has it once for each region it is in
  and each leak, less what waits have unlocked (`Balance`), and regions nest in methods (`Framed`). Counting
  regions in a stack of methods that is cut at a handler is the lemma `CountCut`, by
  cardinalities of sets of positions. `MutualExclusionHolds` is the refinement: each action of `Monitors` is an entry or a leave of
  `Exclusion`, or changes nothing in it.
- `SharedObjectsProofs`: `PoolInvHolds`, `LaterCallsAgreeHolds`, `CanonicalNeverChangesHolds`;
  `HeapInvHolds`, `SharedTypeOKHolds`, `RegularHolds`, `ExactUnlessDisturbedHolds`, `NeverAheadHolds`.
  The invariant of the pool is `PoolInv`: an object in a list has its name, nobody who is at work will rename it, and every
  name returned for is in its list. `HeapInv` has six parts: `Typed`; `Structure` (which `Variable`
  a call in progress can have); `Reads` for `Regular`; and `Regular`, `Bounded`, `Exact`, the last two with what a
  thread between reading and storing is about to add.

- `ClassSourceProofs`: `InvHolds`, `FirstSourceWinsHolds`, `ResetForgetsHolds`, `LoadedIsReturnedHolds`. `Inv` says that a
  cached type is of its file's class, newer than the last reset and cached nowhere else
  (`FilesFit`), and that an undisturbed call has passed no source with its class
  (`CallsFit`). That `Min` of a set of positions is its least element, `MinFacts`, comes from
  the well-foundedness of `<`. For `LoadedIsReturned` the invariant is `LoadedKept`: as long as a
  call is neither disturbed by a reset nor done, the first file of the first source that has the
  class keeps its type, no thread is between the test and the assignment of that pointer, and
  the call is on its way to that file and no other.
- `OperandStackProofs`: `TypeOKHolds`, `FollowsJvmHolds`, by induction on `TypeOK` alone. The
  refinement maps the operands above `junk` (`Live`) to their words (`WordsOf`), and `SlotStack`
  speaks of words only, so each instruction has to be found again in words. `WordsOf` is
  recursive: `SetInduction`, induction for sets of numbers, gives that it exists, that the words
  of a concatenation are the concatenation of the words (`Split`), and that the words below an
  operand end where a value ends (`AreWords`), which is what `SlotStack` asks of the words an
  instruction moves. `Covered` says which words the upper operands are, `Replaced` what becomes of them;
  then there is one lemma per instruction. In the departures the step is the action
  that `SlotStack` has for it.
- `ReaderProofs`: `FilesAreReadHolds`. For every class that fits into a class file, `Load` of the bytes that `ClassFormat` writes is what
  the compiler meant. `At` says that some bytes stand at an offset of the file. A number, a text or a table of entries
  read there is the one that was written, and the offset after it is where the next bytes stand
  (`U2Is`, `U4Is`). For what `Many` and `Counted` read one after the other, and for the bytes that `ClassFormat` puts together
  (`Joins`), this is an induction over the entries, by `SetInduction`. On this rest, from the inside out: the
  pool, where a constant's number is the number of *places* before it and not of constants, since a long takes two
  (`PooledAs`, `ReadIs`); the two passes that fill in texts; attributes, with code and line numbers inside them;
  annotations; fields and methods; and `Load`. A constant then resolves to the member the
  compiler numbered (`ReferenceIsRead`). Names of types give the types they mean (`NamedTypeIsRead`), and the loop over
  a method's descriptor counts one for each parameter (`OneIsCounted`, `ParametersAreCounted`), from `NamesAssumption`.
- `ProgramProofs`: `NumbersFollowJavaHolds`, for any number of bits that shifts can count. What
  matters is the answer, so the property is inductive as it stands, and the proof is
  arithmetic: what powers of two and division do (`Quotients`, `DivisionIsUnique`), that `Signed` is the
  only number of its width that is congruent (`SignedIs`, `OneOfWidth`), division towards zero
  (`RoundedFacts`, `QuotientIsRounded`), shifts, the carry of the `LUSHR` that fails (`UshrCarries`), and
  the table of a switch (`LayoutFacts`).
  `ReadsWhatWasWrittenHolds` follows from `ReaderProofs`: the invariant `FilesStay` says that what is in `types` is what was read for the
  class, and stays so as files are added.
  `CallsFollowJavaHolds`, `FieldsFollowJavaHolds`, `CastsFollowJavaHolds`, for all well-formed
  programs, with any classes and any hierarchy. They, too, rest on `FilesAreReadHolds`, so they go from the bytes of the
  class files to the answer of the instruction. The invariant is `ProgramStays`: what was read stays.
  The rest is about the two searches. `HierarchyInduction` comes from the assumption that no class is
  its own supertype; with it the recursive functions on both sides have the values that their
  equations give (`ChainExists`, `PathUnique`, `SupertypesExist`), the chain of super instances is Java's list of
  classes (`ChainIs`), and a member is found as it was written (`MemberIs`). The nearest class that has
  a field or method is then the first in that list (`FirstIn`). Resolution of fields goes through interfaces too: it is recursive over the hierarchy (`OwnersExist`),
  and a field it finds in a class, and not in an interface, is the nearest in the list (`ResolvedIs`), where the VM finds it as well. Where the VM looks at the interfaces of
  each class on the way, `SuppliedIsSelected` shows that it finds the method Java selects, or another default,
  which is the exception the property has. For casts, `SupertypesOfLine` compares the types that
  classes name with all supertypes.
  `ArraysFollowJavaHolds`, for arrays of any classes, any length and any number of
  operations. The invariant is `ElementsFit`: an element is empty or one that `SetAt` lets pass. It is stronger than that
  Java allows the element, and has to be: a copy of an array onto itself, which first fills its empty elements,
  could otherwise refuse what it has just read. `CopyIs` gives the elements after `arraycopy`, and `PopulateIs` the rows
  of a new array of arrays, for the two and three dimensions that `Creates` makes.
  `LinesAreReadHolds`, the part of `ReadsWhatWasWritten` about stack traces: `TableIs` shows that the search for the table
  finds that of the method itself, and `LineIs` that the fold of `FindLineNumber` gives the entry that starts
  nearest before the offset, for tables of any length and order.

Only model-checked: the liveness properties (`UsesReturn`, `JoinReturns`, `Served`), which are
out of the prover's reach. What a recursive definition computes is proved where its equations, with an induction
over a set of numbers, are enough, as for class files and words; there is no theorem about all recursive definitions.

## Not modelled

- What bytecode computes in all: the modules choose what Java code does next. Local variables,
  jumps, floating point and the loop of `DoExecuteCode` itself are left out. Every loop and
  handler is there as a choice of what comes next.
- Which handler of an exception table is taken is in `Monitors` for regions that nest, and not
  for tables in general.
- `PrepareExecution`, beyond what it does to class initialisers, and the embedder's order of calls at
  start-up.
- Raw memory of Unsafe (`allocateMemory`, `putLong`, `getByte`), the natives that build arrays of
  reflection objects, native method tables (filled once, under one lock), `g_ThrownNotified` and the call
  stacks that accessors keep, which only decide what a stack trace shows; thread priorities, stubs and
  I/O natives; formatting of names and messages.
- Class files that are cut short or not written by a compiler; archives' own layout.
- Two data races are taken as steps in some order: the `shared_ptr`s of `Heap` and the vectors of
  `StringPool`. `ClassSource` models its own as an end of the process (`Race`).
- The vendored decompressor and the libnx port, which needs its console's SDK. The decompressor, with its
  tables, is more than half of the repository's lines; of the VM's own, which are about 8400 with
  headers, declarations and stubs, the modules model some 40 %.

## Plan

What is left, in order of what it would add:

| Module | What | Run and bounds | Worth proving |
| --- | --- | --- | --- |
| `Boot` | `PrepareExecution` and `ResetExecution`: `ClassInit` composed with `ClassSource`, with the lists that are not reset (`StringPool`) | two classes, one reset | what is disabled stays so until the reset |
| `ExceptionDispatch` | which entry the table search of `DoExecuteCode` takes, against the first that matches | tables of three entries, all nestings | the two agree when the matching entries do not overlap |
| `Program` | arrays of numbers, the reflection natives, `TABLESWITCH` once the VM has it | as now | |

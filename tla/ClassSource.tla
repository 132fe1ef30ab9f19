---------------------------- MODULE ClassSource ----------------------------
(***************************************************************************)
(* How a class type is located by its name: the list of class sources      *)
(* (libjavm/src/javm/rt/rt_Context.cpp), archives, which keep the class    *)
(* files they have read (rt_JavaArchiveSource.cpp), and class files, which *)
(* keep the ClassType made of them (rt_JavaClassFileSource.cpp).  Threads  *)
(* locate, the embedder changes the list and resets; nothing is locked.    *)
(***************************************************************************)
EXTENDS Integers, SequencesExt

CONSTANTS
    Threads,
    Names,
    Archives,    \* class sources that are archives
    ClassFiles,  \* class sources that are one class file
    Holds,       \* Holds[s]: names of the classes in s
    NoName,
    MaxCalls,    \* bound: LocateClassType by one thread
    MaxResets,   \* bound: ResetCachedClassTypes
    MaxChanges   \* bound: changes of the list of sources

Sources == Archives \cup ClassFiles

ASSUME ConstantsAssumption ==
    /\ Archives \cap ClassFiles = {}
    /\ Holds \in [Sources -> SUBSET Names]
    /\ \A s \in ClassFiles : \E n \in Names : Holds[s] = {n}
    /\ NoName \notin Names
    /\ MaxCalls \in Nat /\ MaxResets \in Nat /\ MaxChanges \in Nat

VARIABLES
    list,     \* g_ClassSourceList
    files,    \* files[s]: the class files in memory, each with its name and
              \* cached_class_type
    types,    \* the class types made so far: name and source; a type is its
              \* position here
    call,     \* call[t]: the LocateClassType that t executes
    reset,    \* the position in the list that ResetCachedClassTypes is at
    mark,     \* mark[s]: how many types there were when s was last reset
              \* (history)
    calls, resets, changes,
    process   \* "running" or "crashed"

vars == <<list, files, types, call, reset, mark, calls, resets, changes, process>>

Types == 1..Len(types)
NoType == 0  \* nullptr
Pcs == {"idle", "search", "read", "check", "create", "take", "found", "none"}

\* at: position in the list; file: position in the files of that source;
\* loaded: the type the first source with that name had when the call began;
\* quiet: nobody was about to replace it; whole: no reset since.
Call == [pc : Pcs, name : Names \cup {NoName}, at : Nat, file : Nat,
         type : Types \cup {NoType}, loaded : Types \cup {NoType},
         quiet : BOOLEAN, whole : BOOLEAN]

Idle == [pc |-> "idle", name |-> NoName, at |-> 0, file |-> 0, type |-> NoType,
         loaded |-> NoType, quiet |-> FALSE, whole |-> FALSE]

File == [name : Names, type : Types \cup {NoType}]
Unloaded(n) == [name |-> n, type |-> NoType]

Init ==
    /\ list = <<>>
    /\ files \in [Sources -> {<<>>} \cup {<<Unloaded(n)>> : n \in Names}]
    /\ \A s \in Sources :
          IF s \in Archives THEN files[s] = <<>>
                            ELSE files[s] # <<>> /\ files[s][1].name \in Holds[s]
    /\ types = <<>>
    /\ call = [t \in Threads |-> Idle]
    /\ reset = 0
    /\ mark = [s \in Sources |-> 0]
    /\ calls = [t \in Threads |-> 0]
    /\ resets = 0 /\ changes = 0
    /\ process = "running"

-----------------------------------------------------------------------------
(* Locating                                                                *)

\* The sources of the list, and the files of a source, that have the name, as
\* positions; the first is used.
Having(n) == {i \in DOMAIN list : n \in Holds[list[i]]}
InMemory(s, n) == {i \in DOMAIN files[s] : files[s][i].name = n}

\* The type that the first source has for the name.
Loaded(n) ==
    IF Having(n) = {} THEN NoType
    ELSE LET s == list[Min(Having(n))]
         IN IF InMemory(s, n) = {} THEN NoType
                                   ELSE files[s][Min(InMemory(s, n))].type

\* The source and the file that a call is at.
Src(c) == list[c.at]
FilePtr(c) == files[Src(c)][c.file]

\* Nobody is between the test of this class's pointer and its assignment.
Quiet(n) ==
    \A u \in Threads :
        call[u].pc = "create" => call[u].name # n

LocateClassType(t) ==
    /\ call[t].pc = "idle" /\ calls[t] < MaxCalls
    /\ calls' = [calls EXCEPT ![t] = @ + 1]
    /\ \E n \in Names :
          call' = [call EXCEPT ![t] =
              [Idle EXCEPT !.pc = "search", !.name = n, !.at = 1,
                           !.loaded = Loaded(n), !.quiet = Quiet(n),
                           !.whole = reset = 0]]
    /\ UNCHANGED <<list, files, types, reset, mark, resets, changes, process>>

Unchanged == UNCHANGED <<list, reset, mark, calls, resets, changes, process>>

\* Mutant: archives whose class file is not in memory are not read.
SearchMemory(t) ==
    /\ call[t].pc = "search"
    /\ call' = [call EXCEPT ![t] =
          IF @.at > Len(list) THEN [@ EXCEPT !.pc = "none"]
          ELSE LET found == InMemory(Src(call[t]), @.name)
               IN IF found # {}
                  THEN [@ EXCEPT !.pc = "check", !.file = Min(found)]
                  ELSE [@ EXCEPT !.at = call[t].at + 1]]
    /\ UNCHANGED <<files, types>> /\ Unchanged

\* A source is asked: a class in memory is used, one in an archive read.  At
\* the end of the list the result is nullptr.
Search(t) ==
    /\ call[t].pc = "search"
    /\ call' = [call EXCEPT ![t] =
          IF @.at > Len(list) THEN [@ EXCEPT !.pc = "none"]
          ELSE LET found == InMemory(Src(call[t]), @.name)
               IN IF found # {}
                  THEN [@ EXCEPT !.pc = "check", !.file = Min(found)]
                  ELSE IF @.name \in Holds[Src(call[t])]
                  THEN [@ EXCEPT !.pc = "read"]
                  ELSE [@ EXCEPT !.at = call[t].at + 1]]
    /\ UNCHANGED <<files, types>> /\ Unchanged

\* The class file has been read from the archive.
Read(t) ==
    /\ call[t].pc = "read"
    /\ files' = [files EXCEPT ![Src(call[t])] = Append(@, Unloaded(call[t].name))]
    /\ call' = [call EXCEPT ![t].pc = "check", ![t].file = Len(files[Src(call[t])]) + 1]
    /\ UNCHANGED types /\ Unchanged

\* Mutant: a class type made for whoever asks.
CheckNothing(t) ==
    /\ call[t].pc = "check"
    /\ call' = [call EXCEPT ![t].pc = "create"]
    /\ UNCHANGED <<files, types>> /\ Unchanged

Check(t) ==
    /\ call[t].pc = "check"
    /\ call' = [call EXCEPT ![t].pc =
          IF FilePtr(call[t]).type = NoType THEN "create" ELSE "take"]
    /\ UNCHANGED <<files, types>> /\ Unchanged

Create(t) ==
    /\ call[t].pc = "create"
    /\ types' = Append(types, [name |-> call[t].name, source |-> Src(call[t])])
    /\ files' = [files EXCEPT ![Src(call[t])][call[t].file].type = Len(types) + 1]
    /\ call' = [call EXCEPT ![t].pc = "take"]
    /\ Unchanged

\* cached_class_type is read once more to return it.  When it is nullptr the
\* next source is asked.
Take(t) ==
    /\ call[t].pc = "take"
    /\ call' = [call EXCEPT ![t] =
          IF FilePtr(call[t]).type = NoType
          THEN [@ EXCEPT !.pc = "search", !.at = call[t].at + 1, !.file = 0]
          ELSE [@ EXCEPT !.pc = "found", !.type = FilePtr(call[t]).type]]
    /\ UNCHANGED <<files, types>> /\ Unchanged

Return(t) ==
    /\ call[t].pc \in {"found", "none"}
    /\ call' = [call EXCEPT ![t] = Idle]
    /\ UNCHANGED <<files, types>> /\ Unchanged

-----------------------------------------------------------------------------
(* The embedder                                                            *)

\* Interrupted calls are whole no more.
Disturbed == [t \in Threads |-> [call[t] EXCEPT !.whole = FALSE]]

ResetCachedClassTypes ==
    /\ reset = 0 /\ resets < MaxResets /\ list # <<>>
    /\ reset' = 1
    /\ resets' = resets + 1
    /\ call' = Disturbed
    /\ UNCHANGED <<list, files, types, mark, calls, changes, process>>

\* Mutant: a reset that stops before the last file of an archive.
ResetAllButLast ==
    /\ reset # 0
    /\ LET s == list[reset] IN
          /\ files' = [files EXCEPT ![s] =
                [i \in DOMAIN @ |-> IF i = Len(@) THEN @[i] ELSE Unloaded(@[i].name)]]
          /\ mark' = [mark EXCEPT ![s] = Len(types)]
    /\ reset' = IF reset = Len(list) THEN 0 ELSE reset + 1
    /\ UNCHANGED <<list, types, call, calls, resets, changes, process>>

\* The pointers of one source are destroyed.
ResetSource ==
    /\ reset # 0
    /\ LET s == list[reset] IN
          /\ files' = [files EXCEPT ![s] =
                [i \in DOMAIN @ |-> Unloaded(@[i].name)]]
          /\ mark' = [mark EXCEPT ![s] = Len(types)]
    /\ reset' = IF reset = Len(list) THEN 0 ELSE reset + 1
    /\ UNCHANGED <<list, types, call, calls, resets, changes, process>>

\* AddClassSource, RemoveClassSource, ResetClassSources: between calls, as
\* iterators into the list stay valid only then.  Each source is added once.
ChangeSources ==
    /\ reset = 0 /\ changes < MaxChanges
    /\ \A t \in Threads : call[t].pc = "idle"
    /\ \/ \E s \in Sources :
             (\A i \in DOMAIN list : list[i] # s) /\ list' = Append(list, s)
       \/ \E i \in DOMAIN list : list' = RemoveAt(list, i)
       \/ list' = <<>>
    /\ changes' = changes + 1
    /\ UNCHANGED <<files, types, call, reset, mark, calls, resets, process>>

-----------------------------------------------------------------------------
(* Data races: undefined behaviour, of which the process may crash         *)

\* What the next step of a call reads or writes: a source's vector of files,
\* or the pointer in a file.
Vector(c) == c.pc \in {"search", "read"} /\ c.at <= Len(list)
Pointer(c) == c.pc \in {"check", "create", "take"}
Writes(c) == c.pc \in {"read", "create"}

Races(c, d) ==
    /\ \/ Vector(c) /\ Vector(d) /\ Src(c) = Src(d) /\ Src(c) \in Archives
       \/ Pointer(c) /\ Pointer(d) /\ Src(c) = Src(d) /\ c.file = d.file
    /\ Writes(c) \/ Writes(d)

RacesWithReset(c) ==
    /\ reset # 0
    /\ Pointer(c) \/ c.pc = "read"
    /\ Src(c) = list[reset]

Race ==
    /\ \/ \E t, u \in Threads : t # u /\ Races(call[t], call[u])
       \/ \E t \in Threads : RacesWithReset(call[t])
    /\ process' = "crashed"
    /\ call' = [t \in Threads |-> Idle]
    /\ UNCHANGED <<list, files, types, reset, mark, calls, resets, changes>>

Next ==
    /\ process = "running"
    /\ \/ \E t \in Threads :
             \/ LocateClassType(t) \/ Search(t) \/ Read(t) \/ Check(t)
             \/ Create(t) \/ Take(t) \/ Return(t)
       \/ ResetCachedClassTypes \/ ResetSource \/ ChangeSources \/ Race

Spec == Init /\ [][Next]_vars

-----------------------------------------------------------------------------
(* Properties                                                              *)

TypeOK ==
    /\ list \in Seq(Sources)
    /\ files \in [Sources -> Seq(File)]
    /\ types \in Seq([name : Names, source : Sources])
    /\ call \in [Threads -> Call]
    /\ reset \in 0..Len(list)
    /\ mark \in [Sources -> 0..Len(types)]
    /\ process \in {"running", "crashed"}

\* Files have names of their source; their types are of that class, were made
\* since the source was reset, and are nobody else's.
FilesFit ==
    \A s \in Sources : \A i \in DOMAIN files[s] :
        LET f == files[s][i] IN
        /\ f.name \in Holds[s]
        /\ f.type # NoType =>
              /\ types[f.type] = [name |-> f.name, source |-> s]
              /\ f.type > mark[s]
              /\ \A j \in DOMAIN files[s] : files[s][j].type = f.type => j = i

\* Where a call is, and that a whole one has passed no source that has the class.
CallFits(c) ==
    /\ c.pc # "idle" =>
          /\ c.name \in Names /\ c.at \in 1..(Len(list) + 1)
          /\ c.whole => reset = 0 /\ \A i \in Having(c.name) : c.at <= i
    /\ c.pc \in {"read", "check", "create", "take", "found"} =>
          c.at <= Len(list) /\ c.name \in Holds[Src(c)]
    /\ c.pc \in {"check", "create", "take", "found"} =>
          c.file \in DOMAIN files[Src(c)] /\ FilePtr(c).name = c.name
    /\ c.pc = "take" /\ c.whole => FilePtr(c).type # NoType
    /\ c.pc = "none" => c.at = Len(list) + 1
    /\ c.pc = "found" <=> c.type # NoType
    /\ c.pc = "found" =>
          /\ types[c.type] = [name |-> c.name, source |-> Src(c)]
          /\ c.whole => c.type > mark[Src(c)]
CallsFit == \A t \in Threads : CallFits(call[t])

Inv == TypeOK /\ FilesFit /\ CallsFit

\* A class that several sources have is that of the first of them, and only
\* one that none has is not found; unless a reset passed between the test of
\* cached_class_type and its use (rt_JavaClassFileSource.cpp:154), which makes
\* a call go on to the next source.
FirstSourceWins ==
    \A t \in Threads :
        call[t].whole /\ call[t].pc \in {"found", "none"} =>
            IF Having(call[t].name) = {}
            THEN call[t].type = NoType
            ELSE /\ call[t].type # NoType
                 /\ types[call[t].type].source = list[Min(Having(call[t].name))]

\* A class that is loaded when a call begins is what it returns, as the
\* comment says at rt_JavaClassFileSource.cpp:153, when no other thread was
\* loading it again at that moment.
LoadedIsReturned ==
    \A t \in Threads :
        call[t].pc = "found" /\ call[t].whole /\ call[t].quiet
            /\ call[t].loaded # NoType => call[t].type = call[t].loaded

\* The same without that condition.
AlreadyLoaded ==
    \A t \in Threads :
        call[t].pc = "found" /\ call[t].whole
            /\ call[t].loaded # NoType => call[t].type = call[t].loaded

\* What is located after a reset was made after it, whatever calls were under
\* way; of the sources that were in the list (rt_Context.cpp:35).
ResetForgets ==
    \A t \in Threads :
        call[t].pc = "found" /\ call[t].whole =>
            call[t].type > mark[types[call[t].type].source]
=============================================================================

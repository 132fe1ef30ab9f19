------------------------- MODULE ClassSourceProofs -------------------------
(* Proofs about ClassSource: Inv is inductive, and FirstSourceWins and       *)
(* ResetForgets follow, for any sources, names and threads; with LoadedKept  *)
(* so does LoadedIsReturned.                                                 *)
EXTENDS ClassSource, WellFoundedInduction, TLAPS

\* The least element of a set of positions.
LEMMA MinFacts ==
    ASSUME NEW S \in SUBSET Nat, S # {}
    PROVE  Min(S) \in S /\ \A i \in S : Min(S) <= i
  <1>1. OpToRel(<, Nat) = {ss \in Nat \X Nat : ss[1] < ss[2]}
    BY DEF OpToRel
  <1> DEFINE Less == {ss \in Nat \X Nat : ss[1] < ss[2]}
  <1>2. IsWellFoundedOn(Less, Nat)
    BY <1>1, NatLessThanWellFounded, Zenon
  <1>3. \A i, j \in Nat : i < j => <<i, j>> \in Less
    OBVIOUS
  <1> HIDE DEF Less
  <1>4. PICK x \in S : \A y \in S : ~(<<y, x>> \in Less)
    BY <1>2, WFMin, Zenon
  <1>5. ASSUME NEW y \in S PROVE x <= y
    <2>1. x \in Nat /\ y \in Nat
      OBVIOUS
    <2>2. ~(y < x)
      BY <1>3, <1>4, <2>1, Zenon
    <2> QED
      BY <2>1, <2>2
  <1> QED
    BY <1>5, Zenon DEF Min

LEMMA InitInv ==
    ASSUME Init
    PROVE  Inv
  <1>1. Idle \in Call
    BY DEF Init, Call, Idle, Pcs, NoType
  <1>2. TypeOK
    <2>1. files \in [Sources -> Seq(File)]
      <3>1. {<<>>} \cup {<<Unloaded(n)>> : n \in Names} \subseteq Seq(File)
        <4>1. \A n \in Names : Unloaded(n) \in File
          BY DEF Unloaded, File, NoType
        <4>2. \A n \in Names : <<Unloaded(n)>> \in Seq(File)
          BY <4>1
        <4>3. <<>> \in Seq(File)
          OBVIOUS
        <4> QED
          BY <4>2, <4>3, Zenon
      <3> QED
        BY <3>1 DEF Init
    <2>2. call \in [Threads -> Call]
      BY <1>1 DEF Init
    <2>3. list \in Seq(Sources) /\ types \in Seq([name : Names, source : Sources])
      BY DEF Init
    <2>4. reset \in 0..Len(list) /\ mark \in [Sources -> 0..Len(types)]
      BY DEF Init
    <2>5. process \in {"running", "crashed"}
      BY DEF Init
    <2> QED
      BY <2>1, <2>2, <2>3, <2>4, <2>5 DEF TypeOK
  <1>3. FilesFit
    BY ConstantsAssumption
    DEF Init, FilesFit, Unloaded, Sources, ConstantsAssumption, NoType
  <1>4. CallsFit
    BY DEF Init, CallsFit, CallFits, Idle
  <1> QED
    BY <1>2, <1>3, <1>4 DEF Inv

-----------------------------------------------------------------------------
(* Locating                                                                  *)

\* Steps of a thread that change its call alone.
LEMMA CallStep ==
    ASSUME Inv, NEW t \in Threads, NEW c \in Call, CallFits(c),
           call' = [call EXCEPT ![t] = c], process' = process,
           UNCHANGED <<list, files, types, reset, mark>>
    PROVE  Inv'
  <1>1. TypeOK'
    BY DEF Inv, TypeOK, Call, Types, File
  <1>2. FilesFit'
    BY DEF Inv, FilesFit
  <1>3. CallsFit'
    <2> SUFFICES ASSUME NEW u \in Threads
                 PROVE  CallFits(call[u])'
      BY DEF CallsFit
    <2>1. CallFits(call'[u])
      BY DEF Inv, TypeOK, CallsFit
    <2> QED
      BY <2>1 DEF CallFits, Src, FilePtr, Having
  <1> QED
    BY <1>1, <1>2, <1>3 DEF Inv

LEMMA LocateKeepsInv ==
    ASSUME Inv, NEW t \in Threads, LocateClassType(t)
    PROVE  Inv'
  <1>1. PICK n \in Names :
           call' = [call EXCEPT ![t] =
              [Idle EXCEPT !.pc = "search", !.name = n, !.at = 1,
                           !.loaded = Loaded(n), !.quiet = Quiet(n),
                           !.whole = reset = 0]]
    BY DEF LocateClassType
  <1> DEFINE c == [Idle EXCEPT !.pc = "search", !.name = n, !.at = 1,
                               !.loaded = Loaded(n), !.quiet = Quiet(n),
                               !.whole = reset = 0]
  <1>2. Loaded(n) \in Types \cup {NoType}
    <2>1. CASE Having(n) = {}
      BY <2>1 DEF Loaded
    <2>2. CASE Having(n) # {}
      <3> DEFINE s == list[Min(Having(n))]
      <3>1. Having(n) \in SUBSET Nat
        BY DEF Inv, TypeOK, Having
      <3>2. Min(Having(n)) \in Having(n)
        BY <2>2, <3>1, MinFacts
      <3>3. s \in Sources
        BY <3>2 DEF Inv, TypeOK, Having
      <3>4. CASE InMemory(s, n) # {}
        <4>1. InMemory(s, n) \in SUBSET Nat
          BY <3>3 DEF Inv, TypeOK, InMemory
        <4>2. Min(InMemory(s, n)) \in InMemory(s, n)
          BY <3>4, <4>1, MinFacts
        <4>3. files[s] \in Seq(File)
          BY <3>3 DEF Inv, TypeOK
        <4>4. Min(InMemory(s, n)) \in DOMAIN files[s]
          BY <4>2 DEF InMemory
        <4>5. files[s][Min(InMemory(s, n))] \in File
          BY <4>3, <4>4
        <4> QED
          BY <2>2, <3>4, <4>5 DEF Loaded, File
      <3> QED
        BY <2>2, <3>4 DEF Loaded
    <2> QED
      BY <2>1, <2>2
  <1>3. Quiet(n) \in BOOLEAN
    BY DEF Quiet
  <1>4. c \in Call /\ c.pc = "search" /\ c.name = n /\ c.at = 1 /\ c.type = NoType
        /\ (c.whole => reset = 0)
    BY <1>2, <1>3 DEF Call, Idle, Pcs, NoType
  <1> HIDE DEF c
  <1>5. CallFits(c)
    BY <1>4 DEF CallFits, Having, Inv, TypeOK
  <1> QED
    BY <1>1, <1>4, <1>5, CallStep DEF LocateClassType, c

LEMMA SearchKeepsInv ==
    ASSUME Inv, NEW t \in Threads, Search(t)
    PROVE  Inv'
  <1> DEFINE o == call[t]
  <1>1. o \in Call /\ CallFits(o) /\ o.pc = "search"
    BY DEF Inv, TypeOK, CallsFit, Search
  <1>2. o.name \in Names /\ o.at \in 1..(Len(list) + 1) /\ o.type = NoType
        /\ (o.whole => reset = 0 /\ \A i \in Having(o.name) : o.at <= i)
    BY <1>1 DEF CallFits
  <1>3. CASE o.at > Len(list)
    <2> DEFINE c == [o EXCEPT !.pc = "none"]
    <2>1. call' = [call EXCEPT ![t] = c]
      BY <1>3 DEF Search
    <2>2. c \in Call /\ c.pc = "none" /\ c.at = o.at /\ c.name = o.name
          /\ c.type = NoType /\ c.whole = o.whole
      BY <1>1, <1>2 DEF Call, Pcs
    <2>3. Len(list) \in Nat
      BY DEF Inv, TypeOK
    <2> HIDE DEF c, o
    <2>4. CallFits(c)
      BY <1>2, <1>3, <2>2, <2>3 DEF CallFits
    <2> QED
      BY <2>1, <2>2, <2>4, CallStep DEF Search, Unchanged
  <1>4. CASE ~(o.at > Len(list))
    <2> DEFINE s == Src(o)
               found == InMemory(s, o.name)
    <2>1. o.at \in DOMAIN list /\ s \in Sources
      BY <1>2, <1>4 DEF Src, Inv, TypeOK
    <2>2. CASE found # {}
      <3> DEFINE c == [o EXCEPT !.pc = "check", !.file = Min(found)]
      <3>1. call' = [call EXCEPT ![t] = c]
        BY <1>4, <2>2 DEF Search
      <3>2. found \in SUBSET Nat
        BY <2>1 DEF Inv, TypeOK, InMemory
      <3>3. Min(found) \in found /\ Min(found) \in Nat
        BY <2>2, <3>2, MinFacts
      <3>4. Min(found) \in DOMAIN files[s] /\ files[s][Min(found)].name = o.name
        BY <3>3 DEF InMemory
      <3>5. o.name \in Holds[s]
        BY <2>1, <3>4 DEF Inv, FilesFit
      <3>6. c \in Call
        BY <1>1, <3>3 DEF Call, Pcs
      <3>7. CallFits(c)
        BY <1>1, <1>2, <2>1, <3>4, <3>5 DEF Call, CallFits, Src, FilePtr
      <3> QED
        BY <3>1, <3>6, <3>7, CallStep DEF Search, Unchanged
    <2>3. CASE found = {} /\ o.name \in Holds[s]
      <3> DEFINE c == [o EXCEPT !.pc = "read"]
      <3>1. call' = [call EXCEPT ![t] = c]
        BY <1>4, <2>3 DEF Search
      <3>2. c \in Call
        BY <1>1 DEF Call, Pcs
      <3>3. CallFits(c)
        BY <1>1, <1>2, <2>1, <2>3 DEF Call, CallFits, Src
      <3> QED
        BY <3>1, <3>2, <3>3, CallStep DEF Search, Unchanged
    <2>4. CASE found = {} /\ o.name \notin Holds[s]
      <3> DEFINE c == [o EXCEPT !.at = o.at + 1]
      <3>1. call' = [call EXCEPT ![t] = c]
        BY <1>4, <2>4 DEF Search
      <3>2. c \in Call /\ c.at = o.at + 1 /\ c.pc = "search" /\ c.name = o.name
            /\ c.type = NoType /\ c.whole = o.whole
        BY <1>1, <1>2 DEF Call
      <3>3. o.at \notin Having(o.name)
        BY <2>4 DEF Having, Src
      <3>4. Having(o.name) \in SUBSET Nat
        BY DEF Inv, TypeOK, Having
      <3>5. o.whole => \A i \in Having(o.name) : o.at + 1 <= i
        BY <1>2, <3>3, <3>4
      <3>6. Len(list) \in Nat
        BY DEF Inv, TypeOK
      <3> HIDE DEF c, o
      <3>7. CallFits(c)
        BY <1>2, <2>1, <3>2, <3>5, <3>6, <1>4 DEF CallFits
      <3> QED
        BY <3>1, <3>2, <3>7, CallStep DEF Search, Unchanged
    <2> QED
      BY <2>2, <2>3, <2>4
  <1> QED
    BY <1>3, <1>4

LEMMA CheckKeepsInv ==
    ASSUME Inv, NEW t \in Threads, Check(t)
    PROVE  Inv'
  <1> DEFINE o == call[t]
             c == [o EXCEPT !.pc = IF FilePtr(o).type = NoType THEN "create" ELSE "take"]
  <1>1. o \in Call /\ CallFits(o) /\ o.pc = "check"
    BY DEF Inv, TypeOK, CallsFit, Check
  <1>2. call' = [call EXCEPT ![t] = c]
    BY DEF Check
  <1>3. c \in Call
    BY <1>1 DEF Call, Pcs
  <1>4. CallFits(c)
    BY <1>1 DEF Call, CallFits, Src, FilePtr
  <1> QED
    BY <1>2, <1>3, <1>4, CallStep DEF Check, Unchanged

LEMMA TakeKeepsInv ==
    ASSUME Inv, NEW t \in Threads, Take(t)
    PROVE  Inv'
  <1> DEFINE o == call[t]
             s == Src(o)
  <1>1. o \in Call /\ CallFits(o) /\ o.pc = "take"
    BY DEF Inv, TypeOK, CallsFit, Take
  <1>2. /\ o.name \in Names /\ o.at \in Nat /\ 1 <= o.at /\ o.at <= Len(list)
        /\ o.type = NoType /\ o.file \in DOMAIN files[s] /\ FilePtr(o).name = o.name
        /\ o.name \in Holds[s]
        /\ (o.whole => FilePtr(o).type # NoType)
    BY <1>1 DEF CallFits
  <1>3. Len(list) \in Nat /\ s \in Sources
    BY <1>2 DEF Inv, TypeOK, Src
  <1>4. CASE FilePtr(o).type = NoType
    <2> DEFINE c == [o EXCEPT !.pc = "search", !.at = o.at + 1, !.file = 0]
    <2>1. call' = [call EXCEPT ![t] = c]
      BY <1>4 DEF Take
    <2>2. c \in Call /\ c.pc = "search" /\ c.at = o.at + 1 /\ c.name = o.name
          /\ c.type = NoType /\ c.whole = FALSE
      <3>1. o.whole = FALSE
        BY <1>1, <1>2, <1>4 DEF Call
      <3>2. c.pc = "search" /\ c.at = o.at + 1 /\ c.name = o.name
            /\ c.type = NoType /\ c.whole = o.whole
        BY <1>1, <1>2 DEF Call
      <3>3. o.at + 1 \in Nat
        BY <1>2
      <3>4. \A at \in Nat : [o EXCEPT !.pc = "search", !.at = at, !.file = 0] \in Call
        BY <1>1 DEF Call, Pcs
      <3> QED
        BY <3>1, <3>2, <3>3, <3>4
    <2> HIDE DEF c, o
    <2>3. CallFits(c)
      BY <1>2, <1>3, <2>2 DEF CallFits
    <2> QED
      BY <2>1, <2>2, <2>3, CallStep DEF Take, Unchanged
  <1>5. CASE FilePtr(o).type # NoType
    <2> DEFINE c == [o EXCEPT !.pc = "found", !.type = FilePtr(o).type]
    <2>1. call' = [call EXCEPT ![t] = c]
      BY <1>5 DEF Take
    <2>2. FilePtr(o) = files[s][o.file]
      BY DEF FilePtr
    <2>3. FilePtr(o) \in File
      BY <1>2, <1>3, <2>2 DEF Inv, TypeOK
    <2>4. /\ types[FilePtr(o).type] = [name |-> o.name, source |-> s]
          /\ FilePtr(o).type > mark[s]
      BY <1>2, <1>3, <1>5, <2>2 DEF Inv, FilesFit
    <2>5. c \in Call
      BY <1>1, <2>3 DEF Call, Pcs, File
    <2>6. CallFits(c)
      BY <1>1, <1>5, <2>4 DEF Call, CallFits, Src, FilePtr
    <2> QED
      BY <2>1, <2>5, <2>6, CallStep DEF Take, Unchanged
  <1> QED
    BY <1>4, <1>5

LEMMA ReturnKeepsInv ==
    ASSUME Inv, NEW t \in Threads, Return(t)
    PROVE  Inv'
  <1>1. Idle \in Call /\ CallFits(Idle)
    BY DEF Call, Idle, Pcs, NoType, CallFits
  <1> QED
    BY <1>1, CallStep DEF Return, Unchanged

\* A class file appended to those of its archive.
LEMMA ReadKeepsInv ==
    ASSUME Inv, NEW t \in Threads, Read(t)
    PROVE  Inv'
  <1> DEFINE o == call[t]
             s == Src(o)
             f == Unloaded(o.name)
  <1>1. o \in Call /\ CallFits(o) /\ o.pc = "read"
    BY DEF Inv, TypeOK, CallsFit, Read
  <1>2. /\ o.name \in Names /\ o.at \in 1..(Len(list) + 1) /\ o.at <= Len(list)
        /\ o.type = NoType /\ o.name \in Holds[s]
        /\ (o.whole => reset = 0 /\ \A i \in Having(o.name) : o.at <= i)
    BY <1>1 DEF CallFits
  <1>3. s \in Sources
    BY <1>2 DEF Inv, TypeOK, Src
  <1>4. f \in File /\ f.name = o.name /\ f.type = NoType
    BY <1>2 DEF File, Unloaded, NoType
  <1>5. /\ files \in [Sources -> Seq(File)] /\ files[s] \in Seq(File)
        /\ files' = [files EXCEPT ![s] = Append(@, f)]
        /\ UNCHANGED <<list, types, reset, mark, process>>
    BY <1>3 DEF Inv, TypeOK, Read, Unchanged
  <1> DEFINE n == Len(files[s]) + 1
             c == [o EXCEPT !.pc = "check", !.file = n]
  <1>6. call' = [call EXCEPT ![t] = c]
    BY DEF Read
  <1>7. n \in Nat
    BY <1>5
  <1>8. c \in Call
    BY <1>1, <1>7 DEF Call, Pcs
  <1> HIDE DEF f
  <1>9. files' \in [Sources -> Seq(File)]
    <2>1. Append(files[s], f) \in Seq(File)
      BY <1>4, <1>5
    <2> QED
      BY <1>3, <1>5, <2>1
  <1>10. \A r \in Sources : \A i \in DOMAIN files[r] :
            i \in DOMAIN files'[r] /\ files'[r][i] = files[r][i]
    <2> TAKE r \in Sources
    <2>1. CASE r = s
      BY <2>1, <1>4, <1>5
    <2>2. CASE r # s
      BY <2>2, <1>5
    <2> QED
      BY <2>1, <2>2
  <1>11. n \in DOMAIN files'[s] /\ files'[s][n] = f
    BY <1>3, <1>4, <1>5
  <1>12. \A r \in Sources : \A i \in DOMAIN files'[r] :
            i \in DOMAIN files[r] \/ (r = s /\ i = n)
    BY <1>3, <1>4, <1>5
  <1> HIDE DEF n
  <1>13. TypeOK'
    <2>1. call' \in [Threads -> Call]
      BY <1>6, <1>8 DEF Inv, TypeOK
    <2> QED
      BY <1>5, <1>9, <2>1 DEF Inv, TypeOK, Call, Types, File
  <1>14. FilesFit'
    <2> SUFFICES ASSUME NEW r \in Sources, NEW i \in DOMAIN files'[r]
                 PROVE  /\ files'[r][i].name \in Holds[r]
                        /\ files'[r][i].type # NoType =>
                              /\ types'[files'[r][i].type] = [name |-> files'[r][i].name, source |-> r]
                              /\ files'[r][i].type > mark'[r]
                              /\ \A j \in DOMAIN files'[r] :
                                    files'[r][j].type = files'[r][i].type => j = i
      BY DEF FilesFit
    <2>1. CASE i \in DOMAIN files[r]
      BY <2>1, <1>4, <1>5, <1>10, <1>11, <1>12 DEF Inv, FilesFit
    <2>2. CASE r = s /\ i = n
      BY <2>2, <1>2, <1>4, <1>11
    <2> QED
      BY <2>1, <2>2, <1>12
  <1>15. CallsFit'
    <2> SUFFICES ASSUME NEW u \in Threads
                 PROVE  CallFits(call[u])'
      BY DEF CallsFit
    <2>1. CASE u = t
      <3>1. call'[u] = c
        BY <2>1, <1>6 DEF Inv, TypeOK
      <3>2. /\ c.pc = "check" /\ c.name = o.name /\ c.at = o.at /\ c.file = n
            /\ c.type = NoType /\ c.whole = o.whole
        BY <1>1, <1>2 DEF Call
      <3> HIDE DEF c, o
      <3> QED
        BY <3>1, <3>2, <1>2, <1>4, <1>5, <1>11 DEF CallFits, Src, FilePtr, Having
    <2>2. CASE u # t
      <3> DEFINE d == call[u]
      <3>1. call'[u] = d
        BY <2>2, <1>6 DEF Inv, TypeOK
      <3>2. d \in Call /\ CallFits(d)
        BY DEF Inv, TypeOK, CallsFit
      <3>3. d.pc # "idle" /\ d.at <= Len(list) => Src(d) \in Sources
        BY <3>2 DEF Inv, TypeOK, CallFits, Src
      <3>4. d.pc \in {"check", "create", "take", "found"} =>
               d.file \in DOMAIN files'[Src(d)] /\ files'[Src(d)][d.file] = FilePtr(d)
        <4> SUFFICES ASSUME d.pc \in {"check", "create", "take", "found"}
                     PROVE  d.file \in DOMAIN files'[Src(d)]
                            /\ files'[Src(d)][d.file] = FilePtr(d)
          OBVIOUS
        <4>1. d.pc # "idle" /\ d.at <= Len(list) /\ d.file \in DOMAIN files[Src(d)]
          BY <3>2 DEF CallFits
        <4> QED
          BY <3>3, <4>1, <1>10 DEF FilePtr
      <3>5. list' = list /\ types' = types /\ reset' = reset /\ mark' = mark
        BY <1>5
      <3> HIDE DEF d
      <3> QED
        BY <3>1, <3>2, <3>4, <3>5 DEF CallFits, Src, FilePtr, Having
    <2> QED
      BY <2>1, <2>2
  <1> QED
    BY <1>13, <1>14, <1>15 DEF Inv

\* A class type made for a file.
LEMMA CreateKeepsInv ==
    ASSUME Inv, NEW t \in Threads, Create(t)
    PROVE  Inv'
  <1> DEFINE o == call[t]
             s == Src(o)
             k == o.file
             y == Len(types) + 1
             c == [o EXCEPT !.pc = "take"]
  <1>1. o \in Call /\ CallFits(o) /\ o.pc = "create"
    BY DEF Inv, TypeOK, CallsFit, Create
  <1>2. /\ o.name \in Names /\ o.at \in 1..(Len(list) + 1) /\ o.at <= Len(list)
        /\ o.type = NoType /\ o.name \in Holds[s]
        /\ (o.whole => reset = 0 /\ \A i \in Having(o.name) : o.at <= i)
        /\ k \in DOMAIN files[s] /\ files[s][k].name = o.name
    BY <1>1 DEF CallFits, FilePtr
  <1>3. s \in Sources
    BY <1>2 DEF Inv, TypeOK, Src
  <1>4. /\ files \in [Sources -> Seq(File)] /\ files[s] \in Seq(File)
        /\ types \in Seq([name : Names, source : Sources])
        /\ mark \in [Sources -> 0..Len(types)]
    BY <1>3 DEF Inv, TypeOK
  <1>5. /\ files' = [files EXCEPT ![s][k].type = y]
        /\ types' = Append(types, [name |-> o.name, source |-> s])
        /\ call' = [call EXCEPT ![t] = c]
        /\ UNCHANGED <<list, reset, mark, process>>
    BY DEF Create, Unchanged
  <1>6. y \in Nat /\ y # NoType /\ y \notin Types /\ Types \subseteq Nat
    BY <1>4 DEF NoType, Types
  <1>7. /\ types' \in Seq([name : Names, source : Sources])
        /\ Len(types') = y /\ types'[y] = [name |-> o.name, source |-> s]
        /\ \A i \in Types : i \in Types' /\ types'[i] = types[i]
    <2>1. [name |-> o.name, source |-> s] \in [name : Names, source : Sources]
      BY <1>2, <1>3
    <2> QED
      BY <1>4, <1>5, <2>1 DEF Types
  <1>8. \A r \in Sources : DOMAIN files'[r] = DOMAIN files[r]
    BY <1>3, <1>4, <1>5
  <1>9. files[s][k] \in File
    BY <1>2, <1>4
  <1>10. files'[s][k] = [name |-> o.name, type |-> y]
    BY <1>2, <1>3, <1>4, <1>5, <1>9 DEF File
  <1>11. \A r \in Sources : \A i \in DOMAIN files[r] :
            (r = s /\ i = k) \/ files'[r][i] = files[r][i]
    BY <1>3, <1>4, <1>5
  <1>12. y \in Types'
    BY <1>6, <1>7 DEF Types
  <1>13. c \in Call /\ c.pc = "take" /\ c.name = o.name /\ c.at = o.at /\ c.file = k
         /\ c.type = NoType /\ c.whole = o.whole
    BY <1>1, <1>2 DEF Call, Pcs
  <1> HIDE DEF y, c, o
  <1>14. TypeOK'
    <2>1. call' \in [Threads -> Call']
      <3>1. \A d \in Call : d \in Call'
        BY <1>7 DEF Call
      <3> QED
        BY <1>5, <1>13, <3>1 DEF Inv, TypeOK
    <2>2. files' \in [Sources -> Seq(File')]
      <3>1. \A r \in Sources : files'[r] \in Seq(File')
        <4> TAKE r \in Sources
        <4>1. files[r] \in Seq(File)
          BY <1>4
        <4>2. \A i \in DOMAIN files[r] : files'[r][i] \in File'
          <5>1. File \subseteq File'
            BY <1>7 DEF File
          <5>2. files'[s][k] \in File'
            BY <1>2, <1>10, <1>12 DEF File
          <5> QED
            BY <4>1, <5>1, <5>2, <1>11
        <4>3. \E m \in Nat : DOMAIN files'[r] = 1..m
          BY <4>1, <1>8
        <4>4. files'[r] = [i \in DOMAIN files'[r] |-> files'[r][i]]
          <5>1. CASE r = s
            <6>1. files'[r] = [files[s] EXCEPT ![k].type = y]
              BY <5>1, <1>3, <1>4, <1>5
            <6> QED
              BY <6>1
          <5>2. CASE r # s
            BY <5>2, <4>1, <1>3, <1>4, <1>5
          <5> QED
            BY <5>1, <5>2
        <4> QED
          BY <4>2, <4>3, <4>4, <1>8
      <3>2. files' = [r \in Sources |-> files'[r]]
        BY <1>4, <1>5
      <3> QED
        BY <3>1, <3>2
    <2>3. mark' \in [Sources -> 0..Len(types')]
      BY <1>4, <1>5, <1>7 DEF y
    <2> QED
      BY <1>5, <1>7, <2>1, <2>2, <2>3 DEF Inv, TypeOK
  <1>15. FilesFit'
    <2> SUFFICES ASSUME NEW r \in Sources, NEW i \in DOMAIN files'[r]
                 PROVE  /\ files'[r][i].name \in Holds[r]
                        /\ files'[r][i].type # NoType =>
                              /\ types'[files'[r][i].type] = [name |-> files'[r][i].name, source |-> r]
                              /\ files'[r][i].type > mark'[r]
                              /\ \A j \in DOMAIN files'[r] :
                                    files'[r][j].type = files'[r][i].type => j = i
      BY DEF FilesFit
    <2>1. \A j \in DOMAIN files[r] : files[r][j].type \in Types \cup {NoType}
      <3>1. files[r] \in Seq(File)
        BY <1>4
      <3> TAKE j \in DOMAIN files[r]
      <3>2. files[r][j] \in File
        BY <3>1
      <3> QED
        BY <3>2 DEF File
    <2>2. CASE r = s /\ i = k
      <3>1. mark[s] \in Nat /\ mark[s] < y
        BY <1>3, <1>4 DEF y
      <3> QED
        BY <2>1, <2>2, <3>1, <1>2, <1>5, <1>6, <1>7, <1>8, <1>10, <1>11
    <2>3. CASE ~(r = s /\ i = k)
      <3>1. i \in DOMAIN files[r] /\ files'[r][i] = files[r][i]
        BY <2>3, <1>8, <1>11
      <3> QED
        <4>1. files'[r][i].name \in Holds[r]
          BY <3>1 DEF Inv, FilesFit
        <4>2. ASSUME files'[r][i].type # NoType
              PROVE  /\ types'[files'[r][i].type] = [name |-> files'[r][i].name, source |-> r]
                     /\ files'[r][i].type > mark'[r]
          <5>1. files[r][i].type \in Types
            BY <2>1, <3>1, <4>2
          <5> QED
            <6>1. /\ types[files[r][i].type] = [name |-> files[r][i].name, source |-> r]
                  /\ files[r][i].type > mark[r]
              BY <3>1, <4>2 DEF Inv, FilesFit
            <6>2. types'[files[r][i].type] = types[files[r][i].type]
              BY <5>1, <1>7
            <6> QED
              BY <3>1, <6>1, <6>2, <1>5
        <4>3. ASSUME files'[r][i].type # NoType, NEW j \in DOMAIN files'[r],
                     files'[r][j].type = files'[r][i].type
              PROVE  j = i
          <5>1. files[r][i].type \in Types /\ files[r][i].type # y
            BY <2>1, <3>1, <4>3, <1>6
          <5>2. j \in DOMAIN files[r]
            BY <1>8
          <5>3. ~(r = s /\ j = k)
            BY <3>1, <4>3, <5>1, <1>10
          <5>4. files'[r][j] = files[r][j]
            BY <5>2, <5>3, <1>11
          <5>5. \A r2 \in Sources : \A i2, j2 \in DOMAIN files[r2] :
                   files[r2][i2].type # NoType /\ files[r2][j2].type = files[r2][i2].type
                      => j2 = i2
            BY DEF Inv, FilesFit
          <5> QED
            BY <3>1, <4>3, <5>2, <5>4, <5>5
        <4> QED
          BY <4>1, <4>2, <4>3
    <2> QED
      BY <2>2, <2>3
  <1>16. CallsFit'
    <2> SUFFICES ASSUME NEW u \in Threads
                 PROVE  CallFits(call[u])'
      BY DEF CallsFit
    <2>1. CASE u = t
      <3>1. call'[u] = c
        BY <2>1, <1>5 DEF Inv, TypeOK
      <3>2. k \in DOMAIN files'[s] /\ files'[s][k].name = o.name /\ files'[s][k].type # NoType
        BY <1>2, <1>3, <1>6, <1>8, <1>10
      <3>3. list' = list /\ reset' = reset
        BY <1>5
      <3> QED
        BY <3>1, <3>2, <3>3, <1>2, <1>13 DEF CallFits, Src, FilePtr, Having
    <2>2. CASE u # t
      <3> DEFINE d == call[u]
      <3>1. call'[u] = d
        BY <2>2, <1>5 DEF Inv, TypeOK
      <3>2. d \in Call /\ CallFits(d)
        BY DEF Inv, TypeOK, CallsFit
      <3>3. d.pc # "idle" /\ d.at <= Len(list) => Src(d) \in Sources
        BY <3>2 DEF Inv, TypeOK, CallFits, Src
      <3>4. d.pc \in {"check", "create", "take", "found"} =>
               /\ d.file \in DOMAIN files'[Src(d)]
               /\ files'[Src(d)][d.file].name = d.name
               /\ d.pc = "take" /\ d.whole => files'[Src(d)][d.file].type # NoType
        BY <3>2, <3>3, <1>2, <1>6, <1>8, <1>10, <1>11 DEF CallFits, FilePtr
      <3>5. d.type \in Types \cup {NoType}
        BY <3>2 DEF Call
      <3> HIDE DEF d
      <3> QED
        BY <3>1, <3>2, <3>3, <3>4, <3>5, <1>5, <1>7 DEF CallFits, Src, FilePtr, Having
    <2> QED
      BY <2>1, <2>2
  <1> QED
    BY <1>14, <1>15, <1>16 DEF Inv

-----------------------------------------------------------------------------
(* The embedder, and races                                                   *)

LEMMA ResetKeepsInv ==
    ASSUME Inv, ResetCachedClassTypes
    PROVE  Inv'
  <1>1. /\ list # <<>> /\ reset' = 1
        /\ call' = [t \in Threads |-> [call[t] EXCEPT !.whole = FALSE]]
        /\ UNCHANGED <<list, files, types, mark, process>>
    BY DEF ResetCachedClassTypes, Disturbed
  <1>2. \A t \in Threads :
           /\ call'[t] \in Call /\ call'[t].whole = FALSE
           /\ call'[t].pc = call[t].pc /\ call'[t].name = call[t].name
           /\ call'[t].at = call[t].at /\ call'[t].file = call[t].file
           /\ call'[t].type = call[t].type
    BY <1>1 DEF Inv, TypeOK, Call
  <1>3. TypeOK'
    <2>1. reset' \in 0..Len(list')
      BY <1>1 DEF Inv, TypeOK
    <2>2. call' \in [Threads -> Call']
      BY <1>1, <1>2 DEF Call, Types
    <2> QED
      BY <1>1, <2>1, <2>2 DEF Inv, TypeOK, File, Types
  <1>4. FilesFit'
    BY <1>1 DEF Inv, FilesFit
  <1>5. CallsFit'
    <2> SUFFICES ASSUME NEW t \in Threads
                 PROVE  CallFits(call[t])'
      BY DEF CallsFit
    <2>1. CallFits(call[t])
      BY DEF Inv, CallsFit
    <2> QED
      BY <1>1, <1>2, <2>1 DEF CallFits, Src, FilePtr
  <1> QED
    BY <1>3, <1>4, <1>5 DEF Inv

LEMMA ResetSourceKeepsInv ==
    ASSUME Inv, ResetSource
    PROVE  Inv'
  <1> DEFINE s == list[reset]
  <1>1. /\ reset # 0
        /\ files' = [files EXCEPT ![s] = [i \in DOMAIN @ |-> Unloaded(@[i].name)]]
        /\ mark' = [mark EXCEPT ![s] = Len(types)]
        /\ reset' = IF reset = Len(list) THEN 0 ELSE reset + 1
        /\ UNCHANGED <<list, types, call, process>>
    BY DEF ResetSource
  <1>2. s \in Sources
    BY <1>1 DEF Inv, TypeOK
  <1>3. /\ files \in [Sources -> Seq(File)] /\ files[s] \in Seq(File)
        /\ \A i \in DOMAIN files[s] : files[s][i].name \in Names
    <2>1. files \in [Sources -> Seq(File)] /\ files[s] \in Seq(File)
      BY <1>2 DEF Inv, TypeOK
    <2>2. \A i \in DOMAIN files[s] : files[s][i] \in File
      BY <2>1
    <2> QED
      BY <2>1, <2>2 DEF File
  <1>4. [i \in DOMAIN files[s] |-> Unloaded(files[s][i].name)] \in Seq(File)
    <2>1. \A i \in DOMAIN files[s] : Unloaded(files[s][i].name) \in File
      BY <1>3 DEF Unloaded, File
    <2> QED
      BY <1>3, <2>1
  <1>5. \A r \in Sources : DOMAIN files'[r] = DOMAIN files[r]
    BY <1>1, <1>2, <1>3
  <1>6. \A i \in DOMAIN files[s] :
           files'[s][i].name = files[s][i].name /\ files'[s][i].type = NoType
    BY <1>1, <1>2, <1>3 DEF Unloaded
  <1>7. \A r \in Sources \ {s} : files'[r] = files[r] /\ mark'[r] = mark[r]
    BY <1>1, <1>2 DEF Inv, TypeOK
  <1>8. TypeOK'
    <2>1. files' \in [Sources -> Seq(File)]
      BY <1>1, <1>2, <1>3, <1>4
    <2>2. mark' \in [Sources -> 0..Len(types')]
      BY <1>1, <1>2 DEF Inv, TypeOK
    <2>3. reset' \in 0..Len(list')
      BY <1>1 DEF Inv, TypeOK
    <2> QED
      BY <1>1, <2>1, <2>2, <2>3 DEF Inv, TypeOK, File, Types, Call
  <1>9. FilesFit'
    <2> SUFFICES ASSUME NEW r \in Sources
                 PROVE  \A i \in DOMAIN files'[r] :
                          LET f == files'[r][i] IN
                          /\ f.name \in Holds[r]
                          /\ f.type # NoType =>
                                /\ types'[f.type] = [name |-> f.name, source |-> r]
                                /\ f.type > mark'[r]
                                /\ \A j \in DOMAIN files'[r] :
                                      files'[r][j].type = f.type => j = i
      BY DEF FilesFit
    <2>1. CASE r = s
      BY <2>1, <1>5, <1>6 DEF Inv, FilesFit
    <2>2. CASE r # s
      BY <2>2, <1>1, <1>7 DEF Inv, FilesFit
    <2> QED
      BY <2>1, <2>2
  <1>10. CallsFit'
    <2> SUFFICES ASSUME NEW t \in Threads
                 PROVE  CallFits(call[t])'
      BY DEF CallsFit
    <2> DEFINE d == call[t]
    <2>1. CallFits(d) /\ call'[t] = d
      BY <1>1 DEF Inv, CallsFit
    <2>2. d.pc # "idle" => d.at \in 1..(Len(list) + 1) /\ ~d.whole
      BY <1>1, <2>1 DEF CallFits
    <2>3. d.pc # "idle" /\ d.at <= Len(list) => Src(d) \in Sources
      BY <2>2 DEF Inv, TypeOK, Src
    <2>4. d.pc \in {"check", "create", "take", "found"} =>
             d.file \in DOMAIN files'[Src(d)] /\ files'[Src(d)][d.file].name = d.name
      BY <2>1, <2>3, <1>5, <1>6, <1>7 DEF CallFits, FilePtr
    <2> HIDE DEF d
    <2> QED
      BY <2>1, <2>2, <2>3, <2>4, <1>1 DEF CallFits, Src, FilePtr
  <1> QED
    BY <1>8, <1>9, <1>10 DEF Inv

\* The list changes, or the process crashes: no call is under way after it.
LEMMA IdleKeepsInv ==
    ASSUME Inv, list' \in Seq(Sources), reset' \in 0..Len(list'),
           call' \in [Threads -> Call], \A t \in Threads : call'[t].pc = "idle",
           \A t \in Threads : call'[t].type = NoType,
           process' \in {"running", "crashed"}, UNCHANGED <<files, types, mark>>
    PROVE  Inv'
  <1>1. TypeOK'
    BY DEF Inv, TypeOK, File, Types, Call
  <1>2. FilesFit'
    BY DEF Inv, FilesFit
  <1>3. CallsFit'
    BY DEF CallsFit, CallFits
  <1> QED
    BY <1>1, <1>2, <1>3 DEF Inv

LEMMA ChangeKeepsInv ==
    ASSUME Inv, ChangeSources
    PROVE  Inv'
  <1>1. list \in Seq(Sources)
    BY DEF Inv, TypeOK
  <1>2. \A i \in DOMAIN list : RemoveAt(list, i) \in Seq(Sources)
    BY <1>1 DEF RemoveAt
  <1>3. list' \in Seq(Sources)
    <2>1. CASE \E s \in Sources : list' = Append(list, s)
      BY <1>1, <2>1
    <2>2. CASE \E i \in DOMAIN list : list' = RemoveAt(list, i)
      BY <1>2, <2>2
    <2>3. CASE list' = <<>>
      BY <2>3
    <2> QED
      BY <2>1, <2>2, <2>3 DEF ChangeSources
  <1>4. \A t \in Threads : call[t].pc = "idle" /\ call[t].type = NoType
    BY DEF ChangeSources, Inv, CallsFit, CallFits
  <1>5. reset' \in 0..Len(list')
    BY <1>3 DEF ChangeSources
  <1> QED
    BY <1>3, <1>4, <1>5, IdleKeepsInv DEF ChangeSources, Inv, TypeOK

LEMMA RaceKeepsInv ==
    ASSUME Inv, Race
    PROVE  Inv'
  <1>1. Idle \in Call /\ Idle.pc = "idle" /\ Idle.type = NoType
    BY DEF Call, Idle, Pcs, NoType
  <1> QED
    BY <1>1, IdleKeepsInv DEF Race, Inv, TypeOK

-----------------------------------------------------------------------------
(* Theorems                                                                  *)

\* Files and calls always fit the sources, the types and the resets.
THEOREM InvHolds == Spec => []Inv
  <1>1. Inv /\ [Next]_vars => Inv'
    <2> SUFFICES ASSUME Inv, [Next]_vars
                 PROVE  Inv'
      OBVIOUS
    <2>1. ASSUME NEW t \in Threads, LocateClassType(t) PROVE Inv'
      BY <2>1, LocateKeepsInv
    <2>2. ASSUME NEW t \in Threads, Search(t) PROVE Inv'
      BY <2>2, SearchKeepsInv
    <2>3. ASSUME NEW t \in Threads, Read(t) PROVE Inv'
      BY <2>3, ReadKeepsInv
    <2>4. ASSUME NEW t \in Threads, Check(t) PROVE Inv'
      BY <2>4, CheckKeepsInv
    <2>5. ASSUME NEW t \in Threads, Create(t) PROVE Inv'
      BY <2>5, CreateKeepsInv
    <2>6. ASSUME NEW t \in Threads, Take(t) PROVE Inv'
      BY <2>6, TakeKeepsInv
    <2>7. ASSUME NEW t \in Threads, Return(t) PROVE Inv'
      BY <2>7, ReturnKeepsInv
    <2>8. CASE ResetCachedClassTypes
      BY <2>8, ResetKeepsInv
    <2>9. CASE ResetSource
      BY <2>9, ResetSourceKeepsInv
    <2>10. CASE ChangeSources
      BY <2>10, ChangeKeepsInv
    <2>11. CASE Race
      BY <2>11, RaceKeepsInv
    <2>12. CASE UNCHANGED vars
      <3>1. TypeOK' /\ FilesFit'
        BY <2>12 DEF vars, Inv, TypeOK, FilesFit, Call, File, Types
      <3>2. CallsFit'
        BY <2>12 DEF vars, Inv, CallsFit, CallFits, Having, Src, FilePtr
      <3> QED
        BY <3>1, <3>2 DEF Inv
    <2> QED
      BY <2>1, <2>2, <2>3, <2>4, <2>5, <2>6, <2>7, <2>8, <2>9, <2>10, <2>11, <2>12
      DEF Next
  <1> QED
    BY <1>1, InitInv, PTL DEF Spec

\* The first source of the list that has a class is the one it comes from
\* (LocateClassType, rt_Context.cpp:23).
THEOREM FirstSourceWinsHolds == Spec => []FirstSourceWins
  <1>1. Inv => FirstSourceWins
    <2> SUFFICES ASSUME Inv, NEW t \in Threads,
                        call[t].whole, call[t].pc \in {"found", "none"}
                 PROVE  IF Having(call[t].name) = {}
                        THEN call[t].type = NoType
                        ELSE /\ call[t].type # NoType
                             /\ types[call[t].type].source = list[Min(Having(call[t].name))]
      BY DEF FirstSourceWins
    <2> DEFINE c == call[t]
               H == Having(c.name)
    <2>1. CallFits(c) /\ Len(list) \in Nat /\ DOMAIN list = 1..Len(list)
      BY DEF Inv, TypeOK, CallsFit
    <2>2. \A i \in H : i \in 1..Len(list) /\ c.at <= i
      BY <2>1 DEF CallFits, Having
    <2>3. CASE c.pc = "none"
      BY <2>1, <2>2, <2>3 DEF CallFits
    <2>4. CASE c.pc = "found"
      <3>1. /\ c.at \in 1..Len(list) /\ c.name \in Holds[list[c.at]] /\ c.type # NoType
            /\ types[c.type].source = list[c.at]
        BY <2>1, <2>4 DEF CallFits, Src
      <3>2. c.at \in H
        BY <2>1, <3>1 DEF Having
      <3>3. H \in SUBSET Nat
        BY <2>2
      <3> HIDE DEF H
      <3>4. Min(H) \in H /\ Min(H) <= c.at
        BY <3>2, <3>3, MinFacts
      <3>5. Min(H) = c.at
        BY <2>2, <3>1, <3>4
      <3> QED
        BY <3>1, <3>2, <3>5 DEF H
    <2> QED
      BY <2>3, <2>4
  <1> QED
    BY <1>1, InvHolds, PTL

\* What is located after a reset was made after it (ResetCachedClassTypes,
\* rt_Context.cpp:35).
THEOREM ResetForgetsHolds == Spec => []ResetForgets
  <1>1. Inv => ResetForgets
    <2> SUFFICES ASSUME Inv, NEW t \in Threads, call[t].pc = "found", call[t].whole
                 PROVE  call[t].type > mark[types[call[t].type].source]
      BY DEF ResetForgets
    <2>1. CallFits(call[t])
      BY DEF Inv, CallsFit
    <2> QED
      BY <2>1 DEF CallFits
  <1> QED
    BY <1>1, InvHolds, PTL

-----------------------------------------------------------------------------
(* A class that is loaded is not replaced                                    *)

\* File k of source i of the list is the first that has the class, keeps the
\* type y, and nobody is about to replace that.
Held(n, y, i, k) ==
    /\ i \in Having(n) /\ \A j \in Having(n) : i <= j
    /\ k \in InMemory(list[i], n) /\ \A j \in InMemory(list[i], n) : k <= j
    /\ files[list[i]][k].type = y
    /\ \A u \in Threads :
          call[u].pc = "create" => ~(Src(call[u]) = list[i] /\ call[u].file = k)

\* A call on its way to that file, or with its type.
Towards(c, i, k) ==
    /\ c.pc \in {"search", "check", "take", "found"}
    /\ c.pc \in {"check", "take", "found"} => c.at = i /\ c.file = k
    /\ c.pc = "found" => c.type = c.loaded

Settled(c) == c.pc # "idle" /\ c.whole /\ c.quiet /\ c.loaded # NoType

LoadedKept ==
    \A t \in Threads : Settled(call[t]) =>
        \E i, k \in Nat : Held(call[t].name, call[t].loaded, i, k)
                             /\ Towards(call[t], i, k)

\* Such a file stays what it is in a step that appends files and fills empty
\* pointers only.
LEMMA HeldStays ==
    ASSUME Inv, NEW t \in Threads, NEW c \in Call,
           call' = [call EXCEPT ![t] = c], list' = list,
           \A s \in Sources : \A j \in DOMAIN files[s] :
              /\ j \in DOMAIN files'[s] /\ files'[s][j].name = files[s][j].name
              /\ files[s][j].type # NoType =>
                    \/ files'[s][j].type = files[s][j].type
                    \/ call[t].pc = "create" /\ Src(call[t]) = s /\ call[t].file = j,
           \A s \in Sources : \A j \in DOMAIN files'[s] :
              j \in DOMAIN files[s] \/ \A k \in DOMAIN files[s] : k <= j,
           c.pc = "create" =>
              /\ c.at = call[t].at /\ c.file = call[t].file
              /\ c.file \in DOMAIN files[Src(c)] => FilePtr(call[t]).type = NoType,
           NEW n, NEW y, NEW i \in Nat, NEW k \in Nat, y # NoType, Held(n, y, i, k)
    PROVE  Held(n, y, i, k)'
  <1> DEFINE s == list[i]
  <1>1. i \in DOMAIN list /\ s \in Sources /\ n \in Holds[s]
    BY DEF Held, Having, Inv, TypeOK
  <1>2. k \in DOMAIN files[s] /\ files[s][k].name = n /\ files[s][k].type = y
        /\ \A j \in DOMAIN files[s] : files[s][j].name = n => k <= j
    BY DEF Held, InMemory
  <1>3. \A u \in Threads :
           call[u].pc = "create" => ~(Src(call[u]) = s /\ call[u].file = k)
    BY DEF Held
  <1>4. files'[s][k].type = y
    BY <1>1, <1>2, <1>3
  <1>5. Having(n)' = Having(n)
    BY DEF Having
  <1>6. k \in DOMAIN files'[s] /\ files'[s][k].name = n
    BY <1>1, <1>2
  <1>7. \A j \in DOMAIN files'[s] : files'[s][j].name = n => k <= j
    BY <1>1, <1>2
  <1>8. ASSUME NEW u \in Threads, call'[u].pc = "create"
        PROVE  ~(list'[call'[u].at] = s /\ call'[u].file = k)
    <2>1. CASE u = t
      <3>1. call'[u] = c
        BY <2>1 DEF Inv, TypeOK
      <3>2. c.at = call[t].at /\ c.file = call[t].file
            /\ (c.file \in DOMAIN files[Src(c)] => FilePtr(call[t]).type = NoType)
        BY <3>1, <1>8
      <3> SUFFICES ASSUME list[c.at] = s, c.file = k PROVE FALSE
        BY <3>1
      <3>3. Src(c) = s /\ FilePtr(call[t]) = files[s][k]
        BY <3>2 DEF Src, FilePtr
      <3> QED
        BY <1>2, <3>2, <3>3
    <2>2. CASE u # t
      <3>1. call'[u] = call[u]
        BY <2>2 DEF Inv, TypeOK
      <3> QED
        BY <3>1, <1>3, <1>8 DEF Src
    <2> QED
      BY <2>1, <2>2
  <1>9. Having(n)' = Having(n) /\ i \in Having(n)' /\ \A j \in Having(n)' : i <= j
    BY <1>5 DEF Held
  <1>10. k \in InMemory(s, n)' /\ \A j \in InMemory(s, n)' : k <= j
    BY <1>6, <1>7 DEF InMemory
  <1>11. s' = s
    OBVIOUS
  <1> QED
    BY <1>4, <1>8, <1>9, <1>10, <1>11 DEF Held, Src

\* A step of one thread.
LEMMA LoadedStep ==
    ASSUME Inv, LoadedKept, NEW t \in Threads, NEW c \in Call,
           call' = [call EXCEPT ![t] = c],
           \A d \in Call, i, k \in Nat :
              d.loaded # NoType /\ Held(d.name, d.loaded, i, k)
                 => Held(d.name, d.loaded, i, k)',
           Settled(c) => \E i, k \in Nat : Held(c.name, c.loaded, i, k)
                                              /\ Towards(c, i, k)
    PROVE  LoadedKept'
  <1> SUFFICES ASSUME NEW u \in Threads, Settled(call'[u])
               PROVE  \E i, k \in Nat : Held(call[u].name, call[u].loaded, i, k)'
                                           /\ Towards(call'[u], i, k)
    BY DEF LoadedKept, Settled, Towards
  <1>1. PICK d \in Call : d = call'[u]
    BY DEF Inv, TypeOK
  <1>2. \E i, k \in Nat : Held(d.name, d.loaded, i, k) /\ Towards(d, i, k)
    <2>1. CASE u = t
      BY <2>1, <1>1 DEF Inv, TypeOK
    <2>2. CASE u # t
      <3>1. d = call[u]
        BY <2>2, <1>1 DEF Inv, TypeOK
      <3> QED
        BY <3>1, <1>1 DEF LoadedKept
    <2> QED
      BY <2>1, <2>2
  <1>3. d.loaded # NoType
    BY <1>1 DEF Settled
  <1>4. \A i, k \in Nat : Held(d.name, d.loaded, i, k) => Held(d.name, d.loaded, i, k)'
    BY <1>3
  <1>5. PICK i \in Nat, k \in Nat : Held(d.name, d.loaded, i, k) /\ Towards(d, i, k)
    BY <1>2
  <1>6. Held(d.name, d.loaded, i, k)'
    BY <1>4, <1>5
  <1>7. Held(call[u].name, call[u].loaded, i, k)'
    BY <1>1, <1>6 DEF Held, Having, InMemory
  <1> QED
    BY <1>1, <1>5, <1>7

\* A step that leaves the files alone.
LEMMA LoadedCallStep ==
    ASSUME Inv, LoadedKept, NEW t \in Threads, NEW c \in Call,
           call' = [call EXCEPT ![t] = c], UNCHANGED <<list, files>>,
           c.pc = "create" =>
              /\ c.at = call[t].at /\ c.file = call[t].file
              /\ c.file \in DOMAIN files[Src(c)] => FilePtr(call[t]).type = NoType,
           Settled(c) => \E i, k \in Nat : Held(c.name, c.loaded, i, k)
                                              /\ Towards(c, i, k)
    PROVE  LoadedKept'
  <1>1. \A d \in Call, i, k \in Nat :
           d.loaded # NoType /\ Held(d.name, d.loaded, i, k)
              => Held(d.name, d.loaded, i, k)'
    BY HeldStays
  <1> QED
    BY <1>1, LoadedStep

LEMMA LocateKeepsLoaded ==
    ASSUME Inv, Inv', LoadedKept, NEW t \in Threads, LocateClassType(t)
    PROVE  LoadedKept'
  <1>1. PICK n \in Names :
           call' = [call EXCEPT ![t] =
              [Idle EXCEPT !.pc = "search", !.name = n, !.at = 1,
                           !.loaded = Loaded(n), !.quiet = Quiet(n),
                           !.whole = reset = 0]]
    BY DEF LocateClassType
  <1> DEFINE c == [Idle EXCEPT !.pc = "search", !.name = n, !.at = 1,
                               !.loaded = Loaded(n), !.quiet = Quiet(n),
                               !.whole = reset = 0]
  <1>2. UNCHANGED <<list, files, types>>
    BY DEF LocateClassType
  <1>3. c \in Call
    <2>1. call'[t] = c
      BY <1>1 DEF Inv, TypeOK
    <2>2. call'[t] \in Call'
      BY DEF Inv, TypeOK
    <2> QED
      BY <1>2, <2>1, <2>2 DEF Call, Types
  <1>4. c.pc = "search" /\ c.name = n /\ c.loaded = Loaded(n) /\ c.quiet = Quiet(n)
    BY DEF Idle
  <1>5. call' = [call EXCEPT ![t] = c]
    BY <1>1
  <1> HIDE DEF c
  <1>6. ASSUME Loaded(n) # NoType, Quiet(n)
        PROVE  \E i, k \in Nat : Held(n, Loaded(n), i, k) /\ Towards(c, i, k)
    <2> DEFINE i == Min(Having(n))
               s == list[i]
               k == Min(InMemory(s, n))
    <2>1. Having(n) # {}
      BY <1>6 DEF Loaded
    <2>2. Having(n) \in SUBSET Nat
      <3>1. list \in Seq(Sources)
        BY DEF Inv, TypeOK
      <3> QED
        BY <3>1 DEF Having
    <2>3. i \in Having(n) /\ \A j \in Having(n) : i <= j
      BY <2>1, <2>2, MinFacts
    <2>4. s \in Sources
      BY <2>3 DEF Inv, TypeOK, Having
    <2>5. InMemory(s, n) # {}
      BY <1>6, <2>1 DEF Loaded
    <2>6. InMemory(s, n) \in SUBSET Nat
      <3>1. \A r \in Sources : InMemory(r, n) \in SUBSET Nat
        BY DEF Inv, TypeOK, InMemory
      <3> QED
        BY <2>4, <3>1, Zenon
    <2>7. k \in InMemory(s, n) /\ \A j \in InMemory(s, n) : k <= j
      BY <2>5, <2>6, MinFacts
    <2>8. files[s][k].type = Loaded(n)
      BY <2>1, <2>5 DEF Loaded
    <2>9. ASSUME NEW u \in Threads, call[u].pc = "create"
          PROVE  ~(Src(call[u]) = s /\ call[u].file = k)
      <3>1. CallFits(call[u]) /\ call[u].name # n
        BY <1>6, <2>9 DEF Quiet, Inv, CallsFit
      <3>2. FilePtr(call[u]).name # n
        BY <2>9, <3>1 DEF CallFits
      <3>3. files[s][k].name = n
        BY <2>7 DEF InMemory
      <3> QED
        BY <3>2, <3>3 DEF FilePtr
    <2>10. i \in Nat /\ k \in Nat
      BY <2>2, <2>3, <2>6, <2>7
    <2> HIDE DEF i, k
    <2>11. Held(n, Loaded(n), i, k)
      BY <2>3, <2>7, <2>8, <2>9 DEF Held
    <2>12. Towards(c, i, k)
      BY <1>4 DEF Towards
    <2> QED
      BY <2>10, <2>11, <2>12
  <1>7. Settled(c) => \E i, k \in Nat : Held(c.name, c.loaded, i, k) /\ Towards(c, i, k)
    BY <1>4, <1>6 DEF Settled
  <1> QED
    BY <1>2, <1>3, <1>4, <1>5, <1>7, LoadedCallStep

LEMMA SearchKeepsLoaded ==
    ASSUME Inv, Inv', LoadedKept, NEW t \in Threads, Search(t)
    PROVE  LoadedKept'
  <1>1. PICK o \in Call : o = call[t]
    BY DEF Inv, TypeOK
  <1>2. CallFits(o) /\ o.pc = "search" /\ UNCHANGED <<list, files, types>>
    BY <1>1 DEF Inv, CallsFit, Search, Unchanged
  <1>3. o.name \in Names /\ o.at \in 1..(Len(list) + 1)
        /\ (o.whole => \A i \in Having(o.name) : o.at <= i)
    BY <1>2 DEF CallFits
  <1>4. PICK c \in Call : c = call'[t]
    BY <1>2 DEF Inv, TypeOK, Call, Types
  <1>5. call' = [call EXCEPT ![t] = c]
    <2>1. \E x : call' = [call EXCEPT ![t] = x]
      BY DEF Search
    <2> QED
      BY <2>1, <1>4 DEF Inv, TypeOK
  <1> DEFINE found == InMemory(Src(o), o.name)
  <1>6. /\ c.name = o.name /\ c.loaded = o.loaded /\ c.whole = o.whole /\ c.quiet = o.quiet
        /\ c.pc \in {"none", "check", "read", "search"}
        /\ o.at > Len(list) => c.pc = "none"
        /\ o.at <= Len(list) /\ found # {} => c.pc = "check" /\ c.file = Min(found) /\ c.at = o.at
        /\ o.at <= Len(list) /\ found = {} /\ o.name \in Holds[Src(o)] => c.pc = "read"
        /\ o.at <= Len(list) /\ found = {} /\ o.name \notin Holds[Src(o)] => c.pc = "search"
    <2>1. c = IF o.at > Len(list) THEN [o EXCEPT !.pc = "none"]
              ELSE IF found # {}
                   THEN [o EXCEPT !.pc = "check", !.file = Min(found)]
                   ELSE IF o.name \in Holds[Src(o)]
                        THEN [o EXCEPT !.pc = "read"]
                        ELSE [o EXCEPT !.at = o.at + 1]
      BY <1>1, <1>4 DEF Search, Inv, TypeOK
    <2> HIDE DEF found
    <2> QED
      BY <1>2, <1>3, <2>1 DEF Call
  <1>7. list \in Seq(Sources) /\ Len(list) \in Nat /\ DOMAIN list = 1..Len(list)
    BY DEF Inv, TypeOK
  <1>8. ASSUME Settled(c)
        PROVE  \E i, k \in Nat : Held(c.name, c.loaded, i, k) /\ Towards(c, i, k)
    <2>1. Settled(o)
      BY <1>2, <1>6, <1>8 DEF Settled
    <2>2. PICK i \in Nat, k \in Nat : Held(o.name, o.loaded, i, k) /\ Towards(o, i, k)
      BY <1>1, <2>1 DEF LoadedKept
    <2>3. i \in DOMAIN list /\ o.at <= i /\ o.at <= Len(list)
      <3>1. i \in Having(o.name) /\ o.at <= i
        BY <1>3, <2>1, <2>2 DEF Held, Settled
      <3> QED
        BY <1>3, <1>7, <3>1 DEF Having
    <2>6. o.at \in DOMAIN list /\ Src(o) \in Sources
      BY <1>3, <1>7, <2>3 DEF Src
    <2>4. CASE o.at = i
      <3>1. k \in found /\ found # {} /\ \A j \in found : k <= j
        BY <2>2, <2>4 DEF Held, Src
      <3>2. found \in SUBSET Nat
        <4>1. \A r \in Sources : InMemory(r, o.name) \in SUBSET Nat
          BY DEF Inv, TypeOK, InMemory
        <4> QED
          BY <2>6, <4>1, Zenon
      <3>3. Min(found) \in found /\ \A j \in found : Min(found) <= j
        BY <3>1, <3>2, MinFacts
      <3> HIDE DEF found
      <3>4. Min(found) = k
        <4>1. Min(found) \in Nat /\ Min(found) <= k /\ k <= Min(found)
          BY <3>1, <3>2, <3>3
        <4> QED
          BY <4>1
      <3>5. Towards(c, i, k)
        BY <1>6, <2>3, <2>4, <3>1, <3>4 DEF Towards
      <3> QED
        BY <1>6, <2>2, <3>5
    <2>5. CASE o.at # i
      <3>1. o.at \notin Having(o.name)
        <4>1. \A j \in Having(o.name) : i <= j
          BY <2>2 DEF Held
        <4> QED
          BY <1>3, <2>3, <2>5, <4>1
      <3>2. o.name \notin Holds[Src(o)]
        BY <3>1, <2>6 DEF Having, Src
      <3>3. found = {}
        <4>1. \A r \in Sources : \A j \in DOMAIN files[r] : files[r][j].name \in Holds[r]
          BY DEF Inv, FilesFit
        <4> QED
          BY <2>6, <3>2, <4>1 DEF InMemory
      <3>4. c.pc = "search"
        BY <1>6, <2>3, <3>2, <3>3
      <3>5. Towards(c, i, k)
        BY <3>4 DEF Towards
      <3> QED
        BY <1>6, <2>2, <3>5
    <2> QED
      BY <2>4, <2>5
  <1> QED
    BY <1>2, <1>5, <1>6, <1>8, LoadedCallStep

LEMMA CheckKeepsLoaded ==
    ASSUME Inv, Inv', LoadedKept, NEW t \in Threads, Check(t)
    PROVE  LoadedKept'
  <1>1. PICK o \in Call : o = call[t]
    BY DEF Inv, TypeOK
  <1> DEFINE c == [o EXCEPT !.pc = IF FilePtr(o).type = NoType THEN "create" ELSE "take"]
  <1>2. o.pc = "check" /\ UNCHANGED <<list, files>> /\ call' = [call EXCEPT ![t] = c]
    BY <1>1 DEF Check, Unchanged
  <1>3. c \in Call /\ c.at = o.at /\ c.file = o.file /\ c.name = o.name
        /\ c.loaded = o.loaded /\ c.whole = o.whole /\ c.quiet = o.quiet
        /\ (FilePtr(o).type = NoType => c.pc = "create")
        /\ (FilePtr(o).type # NoType => c.pc = "take")
    BY DEF Call, Pcs
  <1> HIDE DEF c
  <1>4. ASSUME Settled(c)
        PROVE  \E i, k \in Nat : Held(c.name, c.loaded, i, k) /\ Towards(c, i, k)
    <2>1. Settled(o)
      BY <1>2, <1>3, <1>4 DEF Settled
    <2>2. PICK i \in Nat, k \in Nat : Held(o.name, o.loaded, i, k) /\ Towards(o, i, k)
      BY <1>1, <2>1 DEF LoadedKept
    <2>3. o.at = i /\ o.file = k
      BY <1>2, <2>2 DEF Towards
    <2>4. FilePtr(o).type # NoType
      BY <2>1, <2>2, <2>3 DEF Held, FilePtr, Src, Settled
    <2>5. Towards(c, i, k)
      BY <1>3, <2>3, <2>4 DEF Towards
    <2> QED
      BY <1>3, <2>2, <2>5
  <1> QED
    BY <1>1, <1>2, <1>3, <1>4, LoadedCallStep DEF FilePtr, Src

LEMMA TakeKeepsLoaded ==
    ASSUME Inv, Inv', LoadedKept, NEW t \in Threads, Take(t)
    PROVE  LoadedKept'
  <1>1. PICK o \in Call : o = call[t]
    BY DEF Inv, TypeOK
  <1>2. o.pc = "take" /\ UNCHANGED <<list, files, types>>
    BY <1>1 DEF Take, Unchanged
  <1>3. PICK c \in Call : c = call'[t]
    BY <1>2 DEF Inv, TypeOK, Call, Types
  <1>4. call' = [call EXCEPT ![t] = c]
    <2>1. \E x : call' = [call EXCEPT ![t] = x]
      BY DEF Take
    <2> QED
      BY <2>1, <1>3 DEF Inv, TypeOK
  <1>5. /\ c.name = o.name /\ c.loaded = o.loaded /\ c.whole = o.whole /\ c.quiet = o.quiet
        /\ c.pc \in {"search", "found"}
        /\ FilePtr(o).type # NoType =>
              c.pc = "found" /\ c.type = FilePtr(o).type /\ c.at = o.at /\ c.file = o.file
    <2>1. c = IF FilePtr(o).type = NoType
              THEN [o EXCEPT !.pc = "search", !.at = o.at + 1, !.file = 0]
              ELSE [o EXCEPT !.pc = "found", !.type = FilePtr(o).type]
      BY <1>1, <1>3 DEF Take, Inv, TypeOK
    <2> QED
      BY <2>1 DEF Call
  <1>6. ASSUME Settled(c)
        PROVE  \E i, k \in Nat : Held(c.name, c.loaded, i, k) /\ Towards(c, i, k)
    <2>1. Settled(o)
      BY <1>2, <1>5, <1>6 DEF Settled
    <2>2. PICK i \in Nat, k \in Nat : Held(o.name, o.loaded, i, k) /\ Towards(o, i, k)
      BY <1>1, <2>1 DEF LoadedKept
    <2>3. o.at = i /\ o.file = k
      BY <1>2, <2>2 DEF Towards
    <2>4. FilePtr(o).type = o.loaded /\ o.loaded # NoType
      BY <2>1, <2>2, <2>3 DEF Held, FilePtr, Src, Settled
    <2>5. Towards(c, i, k)
      BY <1>5, <2>3, <2>4 DEF Towards
    <2> QED
      BY <1>5, <2>2, <2>5
  <1> QED
    BY <1>2, <1>4, <1>5, <1>6, LoadedCallStep

LEMMA ReturnKeepsLoaded ==
    ASSUME Inv, LoadedKept, NEW t \in Threads, Return(t)
    PROVE  LoadedKept'
  <1>1. Idle \in Call /\ Idle.pc = "idle"
    BY DEF Call, Idle, Pcs, NoType
  <1> QED
    BY <1>1, LoadedCallStep DEF Return, Unchanged, Settled

LEMMA ReadKeepsLoaded ==
    ASSUME Inv, LoadedKept, NEW t \in Threads, Read(t)
    PROVE  LoadedKept'
  <1>1. PICK o \in Call : o = call[t]
    BY DEF Inv, TypeOK
  <1> DEFINE s == Src(o)
             f == Unloaded(o.name)
             n == Len(files[s]) + 1
             c == [o EXCEPT !.pc = "check", !.file = n]
  <1>2. /\ CallFits(o) /\ o.pc = "read" /\ list' = list
        /\ files' = [files EXCEPT ![s] = Append(@, f)]
        /\ call' = [call EXCEPT ![t] = c]
    BY <1>1 DEF Read, Unchanged, Inv, CallsFit
  <1>3. s \in Sources
    BY <1>2 DEF CallFits, Inv, TypeOK, Src
  <1>4. files \in [Sources -> Seq(File)] /\ files[s] \in Seq(File) /\ n \in Nat
    BY <1>3 DEF Inv, TypeOK
  <1>5. c \in Call /\ c.pc = "check" /\ c.name = o.name /\ c.loaded = o.loaded
        /\ c.whole = o.whole /\ c.quiet = o.quiet
    BY <1>4 DEF Call, Pcs
  <1> HIDE DEF f, c
  <1>6. \A r \in Sources : \A j \in DOMAIN files[r] :
           j \in DOMAIN files'[r] /\ files'[r][j] = files[r][j]
    <2> TAKE r \in Sources
    <2>1. CASE r = s
      BY <2>1, <1>2, <1>4
    <2>2. CASE r # s
      BY <2>2, <1>2, <1>4
    <2> QED
      BY <2>1, <2>2
  <1>7. \A r \in Sources : \A j \in DOMAIN files'[r] :
           j \in DOMAIN files[r] \/ \A k \in DOMAIN files[r] : k <= j
    BY <1>2, <1>3, <1>4
  <1>8. \A d \in Call, i, k \in Nat :
           d.loaded # NoType /\ Held(d.name, d.loaded, i, k)
              => Held(d.name, d.loaded, i, k)'
    <2> TAKE d \in Call, i \in Nat, k \in Nat
    <2>1. \A r \in Sources : \A j \in DOMAIN files[r] :
             /\ j \in DOMAIN files'[r] /\ files'[r][j].name = files[r][j].name
             /\ files'[r][j].type = files[r][j].type
      BY <1>6
    <2> QED
      BY <1>2, <1>5, <1>7, <2>1, HeldStays
  <1>9. ~Settled(c)
    <2> SUFFICES ASSUME Settled(o) PROVE FALSE
      BY <1>2, <1>5 DEF Settled
    <2>1. PICK i \in Nat, k \in Nat : Towards(o, i, k)
      BY <1>1 DEF LoadedKept
    <2> QED
      BY <1>2, <2>1 DEF Towards
  <1> QED
    BY <1>2, <1>5, <1>8, <1>9, LoadedStep

LEMMA CreateKeepsLoaded ==
    ASSUME Inv, Inv', LoadedKept, NEW t \in Threads, Create(t)
    PROVE  LoadedKept'
  <1>1. PICK o \in Call : o = call[t]
    BY DEF Inv, TypeOK
  <1> DEFINE s == Src(o)
             y == Len(types) + 1
             c == [o EXCEPT !.pc = "take"]
  <1>2. /\ CallFits(o) /\ o.pc = "create" /\ list' = list
        /\ files' = [files EXCEPT ![s][o.file].type = y]
        /\ call' = [call EXCEPT ![t] = c]
    BY <1>1 DEF Create, Unchanged, Inv, CallsFit
  <1>3. s \in Sources /\ o.file \in DOMAIN files[s]
    BY <1>2 DEF CallFits, Inv, TypeOK, Src
  <1>4. files \in [Sources -> Seq(File)] /\ files[s] \in Seq(File)
        /\ files[s][o.file] \in File
    BY <1>3 DEF Inv, TypeOK
  <1>5. c \in Call /\ c.pc = "take" /\ c.name = o.name /\ c.loaded = o.loaded
        /\ c.whole = o.whole /\ c.quiet = o.quiet
    BY DEF Call, Pcs
  <1> HIDE DEF c, y
  <1>6. \A r \in Sources : DOMAIN files'[r] = DOMAIN files[r]
    BY <1>2, <1>3, <1>4
  <1>7. \A r \in Sources : \A j \in DOMAIN files[r] :
           (r = s /\ j = o.file) \/ files'[r][j] = files[r][j]
    BY <1>2, <1>3, <1>4
  <1>8. files'[s][o.file].name = files[s][o.file].name
    BY <1>2, <1>3, <1>4 DEF File
  <1>9. \A d \in Call, i, k \in Nat :
           d.loaded # NoType /\ Held(d.name, d.loaded, i, k)
              => Held(d.name, d.loaded, i, k)'
    <2> TAKE d \in Call, i \in Nat, k \in Nat
    <2>1. \A r \in Sources : \A j \in DOMAIN files[r] :
             /\ j \in DOMAIN files'[r] /\ files'[r][j].name = files[r][j].name
             /\ files[r][j].type # NoType =>
                   \/ files'[r][j].type = files[r][j].type
                   \/ call[t].pc = "create" /\ Src(call[t]) = r /\ call[t].file = j
      BY <1>1, <1>2, <1>6, <1>7, <1>8
    <2>2. \A r \in Sources : \A j \in DOMAIN files'[r] :
             j \in DOMAIN files[r] \/ \A m \in DOMAIN files[r] : m <= j
      BY <1>6
    <2>3. list' = list /\ call' = [call EXCEPT ![t] = c] /\ c.pc # "create"
      BY <1>2, <1>5
    <2> QED
      BY <1>5, <2>1, <2>2, <2>3, HeldStays
  <1>10. ~Settled(c)
    <2> SUFFICES ASSUME Settled(o) PROVE FALSE
      BY <1>2, <1>5 DEF Settled
    <2>1. PICK i \in Nat, k \in Nat : Towards(o, i, k)
      BY <1>1 DEF LoadedKept
    <2> QED
      BY <1>2, <2>1 DEF Towards
  <1> QED
    BY <1>2, <1>5, <1>9, <1>10, LoadedStep

\* Steps after which no call is whole, or which change none.
LEMMA EmbedderKeepsLoaded ==
    ASSUME Inv, LoadedKept,
           ResetCachedClassTypes \/ ResetSource \/ ChangeSources \/ Race
    PROVE  LoadedKept'
  <1> SUFFICES ASSUME NEW t \in Threads PROVE ~Settled(call'[t])
    BY DEF LoadedKept, Settled
  <1>1. call[t] \in Call /\ CallFits(call[t])
    BY DEF Inv, TypeOK, CallsFit
  <1>2. CASE ResetCachedClassTypes
    BY <1>1, <1>2 DEF ResetCachedClassTypes, Disturbed, Settled, Call
  <1>3. CASE ResetSource
    BY <1>1, <1>3 DEF ResetSource, Settled, CallFits
  <1>4. CASE ChangeSources
    BY <1>4 DEF ChangeSources, Settled
  <1>5. CASE Race
    BY <1>5 DEF Race, Settled, Idle
  <1> QED
    BY <1>2, <1>3, <1>4, <1>5

\* A class that is loaded is what a call that began when nobody was loading it
\* again returns (rt_JavaClassFileSource.cpp:153).
THEOREM LoadedIsReturnedHolds == Spec => []LoadedIsReturned
  <1>1. Init => LoadedKept
    BY DEF Init, LoadedKept, Settled, Idle
  <1>2. Inv /\ Inv' /\ LoadedKept /\ [Next]_vars => LoadedKept'
    <2> SUFFICES ASSUME Inv, Inv', LoadedKept, [Next]_vars
                 PROVE  LoadedKept'
      OBVIOUS
    <2>1. ASSUME NEW t \in Threads, LocateClassType(t) PROVE LoadedKept'
      BY <2>1, LocateKeepsLoaded
    <2>2. ASSUME NEW t \in Threads, Search(t) PROVE LoadedKept'
      BY <2>2, SearchKeepsLoaded
    <2>3. ASSUME NEW t \in Threads, Read(t) PROVE LoadedKept'
      BY <2>3, ReadKeepsLoaded
    <2>4. ASSUME NEW t \in Threads, Check(t) PROVE LoadedKept'
      BY <2>4, CheckKeepsLoaded
    <2>5. ASSUME NEW t \in Threads, Create(t) PROVE LoadedKept'
      BY <2>5, CreateKeepsLoaded
    <2>6. ASSUME NEW t \in Threads, Take(t) PROVE LoadedKept'
      BY <2>6, TakeKeepsLoaded
    <2>7. ASSUME NEW t \in Threads, Return(t) PROVE LoadedKept'
      BY <2>7, ReturnKeepsLoaded
    <2>8. CASE ResetCachedClassTypes \/ ResetSource \/ ChangeSources \/ Race
      BY <2>8, EmbedderKeepsLoaded
    <2>9. CASE UNCHANGED vars
      BY <2>9 DEF vars, LoadedKept, Settled, Towards, Held, Having, InMemory, Src
    <2> QED
      BY <2>1, <2>2, <2>3, <2>4, <2>5, <2>6, <2>7, <2>8, <2>9 DEF Next
  <1>3. LoadedKept => LoadedIsReturned
    BY DEF LoadedKept, LoadedIsReturned, Settled, Towards
  <1> QED
    BY <1>1, <1>2, <1>3, InvHolds, PTL DEF Spec
=============================================================================

---------------------------- MODULE ThreadProofs ----------------------------
(* Proofs about ThreadLifecycle, first, and about ThrownState: of each, the  *)
(* invariant is inductive, and with it what the run checks holds for any     *)
(* number of threads, calls and throws.  The two share the threads only.     *)
EXTENDS ThreadLifecycle, ThrownState, SequenceTheorems, TLAPS

-----------------------------------------------------------------------------
(* ThreadLifecycle: the start                                                *)

\* At the start there is no accessor and no call.
LEMMA LifecycleInitInv ==
    ASSUME LifecycleInit
    PROVE  LifecycleInv
  <1>1. LifecycleTypeOK
    BY LifecycleAssumption
    DEF LifecycleInit, LifecycleTypeOK, Handles, Phases, Question, Steps, Idle, LifecycleAssumption
  <1>2. ListExact /\ HandleOwned /\ EetopOwned
    BY DEF LifecycleInit, ListExact, HandleOwned, EetopOwned, Listed, Created, Known
  <1>3. OneCreator /\ Asking
    BY DEF LifecycleInit, OneCreator, Asking, Idle
  <1> QED
    BY <1>1, <1>2, <1>3 DEF LifecycleInv

\* A finished thread stays so, and so does a known eetop, in every step.
PhasesAdvance ==
    \A n \in Threads :
        /\ phase[n] = "finished" => phase'[n] = "finished"
        /\ phase[n] \in Known => phase'[n] \in Known

\* What a step keeps of Asking when it touches no question.
LEMMA OthersKeepAsking ==
    ASSUME LifecycleInv, PhasesAdvance, call' = call
    PROVE  Asking'
  BY DEF LifecycleInv, LifecycleTypeOK, Question, Handles, Asking, PhasesAdvance

-----------------------------------------------------------------------------
(* Registration, start and end of a thread                                   *)

LEMMA RegisterMainKeepsInv ==
    ASSUME LifecycleInv, RegisterMainThread
    PROVE  LifecycleInv'
  <1>1. PhasesAdvance
    BY DEF LifecycleInv, LifecycleTypeOK, RegisterMainThread, PhasesAdvance, Known
  <1>2. LifecycleTypeOK'
    BY LifecycleAssumption
    DEF LifecycleInv, LifecycleTypeOK, RegisterMainThread, Handles, Phases, LifecycleAssumption
  <1>3. ListExact'
    BY LifecycleAssumption
    DEF LifecycleInv, LifecycleTypeOK, RegisterMainThread, ListExact, Listed, LifecycleAssumption
  <1>4. HandleOwned' /\ EetopOwned'
    BY LifecycleAssumption
    DEF LifecycleInv, LifecycleTypeOK, RegisterMainThread, HandleOwned, EetopOwned, Created, Known, Handles,
        LifecycleAssumption
  <1>5. OneCreator'
    BY DEF LifecycleInv, LifecycleTypeOK, RegisterMainThread, OneCreator
  <1>6. Asking'
    BY <1>1, OthersKeepAsking DEF RegisterMainThread
  <1> QED
    BY <1>2, <1>3, <1>4, <1>5, <1>6 DEF LifecycleInv

LEMMA Start0KeepsInv ==
    ASSUME LifecycleInv, NEW t \in Threads, NEW n \in Threads, Start0(t, n)
    PROVE  LifecycleInv'
  <1> DEFINE c == [Idle EXCEPT !.step = "create", !.who = n]
  <1>1. /\ c \in Question /\ c.step = "create" /\ c.who = n /\ c.eetop = NoThread
    BY LifecycleAssumption DEF Idle, Question, Steps, Handles
  <1>2. /\ phase[n] = "new" /\ phase' = [phase EXCEPT ![n] = "registered"]
        /\ call' = [call EXCEPT ![t] = c]
        /\ list' = list \cup {n} /\ eetop' = eetop /\ calls' = calls
        /\ monitor' = [monitor EXCEPT ![n] = t]
    BY DEF Start0
  <1> HIDE DEF c
  <1>3. PICK h \in Uninitialised : handle' = [handle EXCEPT ![n] = h]
    BY DEF Start0
  <1>4. h \in Handles /\ (h = NoThread \/ (h \in Threads /\ phase[h] = "finished"))
    BY DEF Uninitialised, Handles
  <1>5. PhasesAdvance
    BY <1>2 DEF LifecycleInv, LifecycleTypeOK, PhasesAdvance, Known
  <1>6. LifecycleTypeOK'
    BY <1>1, <1>2, <1>3, <1>4 DEF LifecycleInv, LifecycleTypeOK, Handles, Phases
  <1>7. ListExact' /\ EetopOwned'
    BY <1>2 DEF LifecycleInv, LifecycleTypeOK, ListExact, EetopOwned, Listed, Known
  <1>8. HandleOwned'
    BY <1>2, <1>3, <1>4, <1>5, LifecycleAssumption
    DEF LifecycleInv, LifecycleTypeOK, HandleOwned, Created, PhasesAdvance, Handles, LifecycleAssumption
  <1>9. OneCreator'
    BY <1>1, <1>2 DEF LifecycleInv, LifecycleTypeOK, OneCreator
  <1>10. Asking'
    BY <1>1, <1>2, <1>5 DEF LifecycleInv, LifecycleTypeOK, Question, Handles, Asking, PhasesAdvance
  <1> QED
    BY <1>6, <1>7, <1>8, <1>9, <1>10 DEF LifecycleInv

LEMMA StartNativeKeepsInv ==
    ASSUME LifecycleInv, NEW t \in Threads, StartNative(t) \/ StartNativeFails(t)
    PROVE  LifecycleInv'
  <1> DEFINE n == call[t].who
  <1>1. /\ n \in Threads /\ phase[n] = "registered"
        /\ \A u \in Threads \ {t} : call[u].step = "create" => call[u].who # n
    BY DEF LifecycleInv, OneCreator, StartNative, StartNativeFails
  <1>2. /\ \/ handle' = [handle EXCEPT ![n] = n] /\ phase' = [phase EXCEPT ![n] = "entered"]
           \/ handle' = handle /\ phase' = [phase EXCEPT ![n] = "failed"]
        /\ call' = [call EXCEPT ![t] = Idle]
        /\ list' = list /\ eetop' = eetop /\ calls' = calls
        /\ monitor' = [monitor EXCEPT ![n] = NoThread]
    BY DEF StartNative, StartNativeFails
  <1> HIDE DEF n
  <1>3. Idle \in Question /\ Idle.step = "idle" /\ Idle.eetop = NoThread
    BY DEF Idle, Question, Steps, Handles
  <1>4. PhasesAdvance
    BY <1>1, <1>2 DEF LifecycleInv, LifecycleTypeOK, PhasesAdvance, Known
  <1>5. LifecycleTypeOK'
    BY <1>1, <1>2, <1>3 DEF LifecycleInv, LifecycleTypeOK, Handles, Phases
  <1>6. ListExact' /\ EetopOwned'
    BY <1>1, <1>2 DEF LifecycleInv, LifecycleTypeOK, ListExact, EetopOwned, Listed, Known
  <1>7. HandleOwned'
    BY <1>1, <1>2, <1>4, LifecycleAssumption
    DEF LifecycleInv, LifecycleTypeOK, HandleOwned, Created, PhasesAdvance, Handles, LifecycleAssumption
  <1>8. OneCreator'
    BY <1>1, <1>2, <1>3 DEF LifecycleInv, LifecycleTypeOK, OneCreator
  <1>9. Asking'
    BY <1>2, <1>3, <1>4 DEF LifecycleInv, LifecycleTypeOK, Question, Handles, Asking, PhasesAdvance
  <1> QED
    BY <1>5, <1>6, <1>7, <1>8, <1>9 DEF LifecycleInv

LEMMA EntrypointKeepsInv ==
    ASSUME LifecycleInv, NEW n \in Threads, ThreadEntrypoint(n) \/ RunEnds(n)
    PROVE  LifecycleInv'
  <1>1. /\ handle[n] = n
        /\ \/ /\ phase[n] = "entered" /\ phase' = [phase EXCEPT ![n] = "running"]
              /\ eetop' = [eetop EXCEPT ![n] = n]
           \/ /\ phase[n] = "running" /\ phase' = [phase EXCEPT ![n] = "ending"]
              /\ eetop' = eetop
        /\ UNCHANGED <<list, handle, monitor, call, calls>>
    BY DEF LifecycleInv, HandleOwned, Created, ThreadEntrypoint, RunEnds, Executing
  <1>2. PhasesAdvance
    BY <1>1 DEF LifecycleInv, LifecycleTypeOK, PhasesAdvance, Known
  <1>3. LifecycleTypeOK'
    BY <1>1 DEF LifecycleInv, LifecycleTypeOK, Handles, Phases
  <1>4. ListExact' /\ EetopOwned'
    BY <1>1 DEF LifecycleInv, LifecycleTypeOK, ListExact, EetopOwned, Listed, Known
  <1>5. HandleOwned'
    BY <1>1, <1>2, LifecycleAssumption
    DEF LifecycleInv, LifecycleTypeOK, HandleOwned, Created, PhasesAdvance, Handles, LifecycleAssumption
  <1>6. OneCreator'
    BY <1>1 DEF LifecycleInv, LifecycleTypeOK, OneCreator
  <1>7. Asking'
    BY <1>1, <1>2, OthersKeepAsking
  <1> QED
    BY <1>3, <1>4, <1>5, <1>6, <1>7 DEF LifecycleInv

LEMMA UnregisterKeepsInv ==
    ASSUME LifecycleInv, NEW n \in Threads, UnregisterSelf(n)
    PROVE  LifecycleInv'
  <1>1. /\ phase[n] = "ending" /\ phase' = [phase EXCEPT ![n] = "finished"]
        /\ list' = list \ ByHandle(n)
        /\ UNCHANGED <<handle, eetop, monitor, call, calls>>
    BY DEF UnregisterSelf
  <1>2. ByHandle(n) = {n}
    BY <1>1, LifecycleAssumption
    DEF LifecycleInv, LifecycleTypeOK, ByHandle, ListExact, HandleOwned, Listed, Created, LifecycleAssumption
  <1>3. PhasesAdvance
    BY <1>1 DEF LifecycleInv, LifecycleTypeOK, PhasesAdvance, Known
  <1>4. LifecycleTypeOK'
    BY <1>1 DEF LifecycleInv, LifecycleTypeOK, Phases
  <1>5. ListExact' /\ EetopOwned'
    BY <1>1, <1>2 DEF LifecycleInv, LifecycleTypeOK, ListExact, EetopOwned, Listed, Known
  <1>6. HandleOwned'
    BY <1>1, <1>3, LifecycleAssumption
    DEF LifecycleInv, LifecycleTypeOK, HandleOwned, Created, PhasesAdvance, Handles, LifecycleAssumption
  <1>7. OneCreator'
    BY <1>1 DEF LifecycleInv, LifecycleTypeOK, OneCreator
  <1>8. Asking'
    BY <1>1, <1>3, OthersKeepAsking
  <1> QED
    BY <1>4, <1>5, <1>6, <1>7, <1>8 DEF LifecycleInv

-----------------------------------------------------------------------------
(* A question about a thread: only call and monitor change                   *)

\* The new record of the asking thread is all there is to check.
LEMMA QuestionKeepsInv ==
    ASSUME LifecycleInv, NEW t \in Threads, NEW c \in Question, call' = [call EXCEPT ![t] = c],
           UNCHANGED <<list, handle, eetop, phase>>,
           monitor' \in [Threads -> Handles], calls' \in [Threads -> 0..MaxCalls],
           c.step # "create",
           c.step # "idle" => c.who \in Threads,
           c.eetop # NoThread => c.eetop = c.who /\ phase[c.who] \in Known,
           c.step = "probe" => /\ c.found \in Threads
                               /\ c.eetop # NoThread => c.found = c.who \/ phase[c.who] = "finished",
           c.step = "answer" /\ ~c.alive /\ c.eetop # NoThread => phase[c.who] = "finished"
    PROVE  LifecycleInv'
  <1>1. LifecycleTypeOK'
    BY DEF LifecycleInv, LifecycleTypeOK
  <1>2. ListExact' /\ HandleOwned' /\ EetopOwned'
    BY DEF LifecycleInv, ListExact, HandleOwned, EetopOwned
  <1>3. OneCreator'
    BY DEF LifecycleInv, LifecycleTypeOK, OneCreator
  <1>4. Asking'
    BY DEF LifecycleInv, LifecycleTypeOK, Asking
  <1> QED
    BY <1>1, <1>2, <1>3, <1>4 DEF LifecycleInv

LEMMA AskKeepsInv ==
    ASSUME LifecycleInv, NEW t \in Threads, NEW n \in Threads, Ask(t, n) \/ Join(t, n)
    PROVE  LifecycleInv'
  <1>1. PICK c : /\ call' = [call EXCEPT ![t] = c]
                 /\ \/ c = [Idle EXCEPT !.step = "read", !.who = n]
                    \/ c = [Idle EXCEPT !.step = "read", !.who = n, !.join = TRUE]
    BY DEF Ask, Join
  <1>2. c \in Question /\ c.step = "read" /\ c.who = n /\ c.eetop = NoThread
    BY <1>1 DEF Idle, Question, Steps, Handles
  <1>3. /\ UNCHANGED <<list, handle, eetop, phase>>
        /\ monitor' \in [Threads -> Handles] /\ calls' \in [Threads -> 0..MaxCalls]
    BY LifecycleAssumption DEF LifecycleInv, LifecycleTypeOK, Ask, Join, Handles, LifecycleAssumption
  <1> QED
    BY <1>1, <1>2, <1>3, QuestionKeepsInv

LEMMA ReadEetopKeepsInv ==
    ASSUME LifecycleInv, NEW t \in Threads, ReadEetop(t)
    PROVE  LifecycleInv'
  <1> DEFINE n == call[t].who
             c == [call[t] EXCEPT !.step = "lookup", !.eetop = eetop[n]]
  <1>1. call[t] \in Question /\ n \in Threads
    BY DEF LifecycleInv, LifecycleTypeOK, Asking, ReadEetop
  <1>2. call' = [call EXCEPT ![t] = c]
    BY DEF ReadEetop, LifecycleInv, LifecycleTypeOK
  <1>3. c \in Question /\ c.step = "lookup" /\ c.who = n /\ c.eetop = eetop[n]
    BY <1>1 DEF Question, Steps, LifecycleInv, LifecycleTypeOK
  <1>4. c.eetop # NoThread => c.eetop = c.who /\ phase[c.who] \in Known
    BY <1>1, <1>3 DEF LifecycleInv, EetopOwned
  <1>5. /\ UNCHANGED <<list, handle, eetop, phase>>
        /\ monitor' \in [Threads -> Handles] /\ calls' \in [Threads -> 0..MaxCalls]
    BY DEF LifecycleInv, LifecycleTypeOK, ReadEetop
  <1> HIDE DEF c
  <1> QED
    BY <1>1, <1>2, <1>3, <1>4, <1>5, QuestionKeepsInv

\* A thread with a known handle that the search does not find has finished.
LEMMA LookupKeepsInv ==
    ASSUME LifecycleInv, NEW t \in Threads, Lookup(t)
    PROVE  LifecycleInv'
  <1> DEFINE n == call[t].who
             e == call[t].eetop
  <1>1. /\ call[t] \in Question /\ n \in Threads /\ call[t].step = "lookup"
        /\ e # NoThread => e = n /\ phase[n] \in Known
    BY DEF LifecycleInv, LifecycleTypeOK, Asking, Lookup
  <1>2. /\ UNCHANGED <<list, handle, eetop, phase>>
        /\ monitor' \in [Threads -> Handles] /\ calls' \in [Threads -> 0..MaxCalls]
    BY DEF LifecycleInv, LifecycleTypeOK, Lookup
  <1>3. ASSUME NEW a \in ByHandle(e),
               call' = [call EXCEPT ![t].step = "probe", ![t].found = a]
        PROVE  LifecycleInv'
    <2> DEFINE c == [call[t] EXCEPT !.step = "probe", !.found = a]
    <2>1. a \in Threads /\ a \in list /\ handle[a] = e
      BY DEF ByHandle, LifecycleInv, LifecycleTypeOK
    <2>2. call' = [call EXCEPT ![t] = c]
      BY <1>3 DEF LifecycleInv, LifecycleTypeOK
    <2>3. c \in Question /\ c.step = "probe" /\ c.who = n /\ c.eetop = e /\ c.found = a
      BY <1>1, <2>1 DEF Question, Steps, Handles
    <2>4. e # NoThread => a = n \/ phase[n] = "finished"
      BY <1>1, <2>1, LifecycleAssumption
      DEF LifecycleInv, LifecycleTypeOK, ListExact, HandleOwned, Listed, Created, LifecycleAssumption
    <2> HIDE DEF c
    <2> QED
      BY <1>1, <1>2, <2>1, <2>2, <2>3, <2>4, QuestionKeepsInv
  <1>4. ASSUME ByHandle(e) = {},
               call' = [call EXCEPT ![t].step = "answer", ![t].alive = FALSE]
        PROVE  LifecycleInv'
    <2> DEFINE c == [call[t] EXCEPT !.step = "answer", !.alive = FALSE]
    <2>1. call' = [call EXCEPT ![t] = c]
      BY <1>4 DEF LifecycleInv, LifecycleTypeOK
    <2>2. c \in Question /\ c.step = "answer" /\ c.who = n /\ c.eetop = e
      BY <1>1 DEF Question, Steps
    <2>3. e # NoThread => phase[n] = "finished"
      BY <1>1, <1>4
      DEF LifecycleInv, LifecycleTypeOK, ByHandle, ListExact, HandleOwned, Listed, Created, Known
    <2> HIDE DEF c
    <2> QED
      BY <1>1, <1>2, <2>1, <2>2, <2>3, QuestionKeepsInv
  <1> QED
    BY <1>3, <1>4 DEF Lookup

\* The accessor of a thread that has not finished has its handle, and the
\* thread with that handle is alive.
LEMMA ProbeKeepsInv ==
    ASSUME LifecycleInv, NEW t \in Threads, Probe(t)
    PROVE  LifecycleInv'
  <1> DEFINE n == call[t].who
             a == call[t].found
  <1>1. /\ call[t] \in Question /\ n \in Threads /\ a \in Threads
        /\ call[t].eetop # NoThread => /\ call[t].eetop = n /\ phase[n] \in Known
                                       /\ a = n \/ phase[n] = "finished"
    BY DEF LifecycleInv, LifecycleTypeOK, Asking, Probe
  <1>2. PICK b \in PthreadAlive(handle[a]) :
           call' = [call EXCEPT ![t].step = "answer", ![t].alive = b]
    BY DEF Probe
  <1> DEFINE c == [call[t] EXCEPT !.step = "answer", !.alive = b]
  <1>3. b \in BOOLEAN
    BY DEF PthreadAlive
  <1>4. call' = [call EXCEPT ![t] = c]
    BY <1>2 DEF LifecycleInv, LifecycleTypeOK
  <1>5. c \in Question /\ c.step = "answer" /\ c.who = n /\ c.eetop = call[t].eetop /\ c.alive = b
    BY <1>1, <1>3 DEF Question, Steps
  <1>6. ~b /\ call[t].eetop # NoThread => phase[n] = "finished"
    BY <1>1, LifecycleAssumption
    DEF PthreadAlive, LifecycleInv, HandleOwned, Created, Known, LifecycleAssumption
  <1>7. /\ UNCHANGED <<list, handle, eetop, phase>>
        /\ monitor' \in [Threads -> Handles] /\ calls' \in [Threads -> 0..MaxCalls]
    BY DEF LifecycleInv, LifecycleTypeOK, Probe
  <1> HIDE DEF c
  <1> QED
    BY <1>1, <1>4, <1>5, <1>6, <1>7, QuestionKeepsInv

LEMMA AnswerKeepsInv ==
    ASSUME LifecycleInv, NEW t \in Threads, Answer(t)
    PROVE  LifecycleInv'
  <1>1. call[t] \in Question /\ call[t].who \in Threads
    BY DEF LifecycleInv, LifecycleTypeOK, Asking, Answer
  <1> DEFINE c == IF call[t].join /\ call[t].alive
                  THEN [Idle EXCEPT !.step = "read", !.who = call[t].who, !.join = TRUE]
                  ELSE Idle
  <1>2. call' = [call EXCEPT ![t] = c]
    BY DEF Answer
  <1>3. c \in Question /\ c.step \in {"read", "idle"} /\ c.eetop = NoThread
        /\ (c.step = "read" => c.who \in Threads)
    BY <1>1 DEF Idle, Question, Steps, Handles
  <1>4. /\ UNCHANGED <<list, handle, eetop, phase>>
        /\ monitor' \in [Threads -> Handles] /\ calls' \in [Threads -> 0..MaxCalls]
    BY <1>1 DEF LifecycleInv, LifecycleTypeOK, Answer, Handles
  <1> HIDE DEF c
  <1> QED
    BY <1>2, <1>3, <1>4, QuestionKeepsInv

-----------------------------------------------------------------------------
(* The theorems                                                              *)

LEMMA LifecycleNextKeepsInv ==
    ASSUME LifecycleInv, [LifecycleNext]_lifecycleVars
    PROVE  LifecycleInv'
  <1>1. ASSUME NEW t \in Threads, Goes(t)
        PROVE  LifecycleInv'
    BY <1>1, StartNativeKeepsInv, EntrypointKeepsInv, UnregisterKeepsInv,
       ReadEetopKeepsInv, LookupKeepsInv, ProbeKeepsInv, AnswerKeepsInv DEF Goes, IsAlive
  <1>2. ASSUME NEW t \in Threads, RunEnds(t)
        PROVE  LifecycleInv'
    BY <1>2, EntrypointKeepsInv
  <1>3. ASSUME NEW t \in Threads, NEW n \in Threads,
               Start0(t, n) \/ Ask(t, n) \/ Join(t, n)
        PROVE  LifecycleInv'
    BY <1>3, Start0KeepsInv, AskKeepsInv
  <1>4. CASE UNCHANGED lifecycleVars
    BY <1>4 DEF lifecycleVars, LifecycleInv, LifecycleTypeOK, ListExact, HandleOwned, EetopOwned, OneCreator, Asking
  <1> QED
    BY <1>1, <1>2, <1>3, <1>4, RegisterMainKeepsInv DEF LifecycleNext

\* The accessor list, the handles, the eetop fields and the questions under way
\* stay in the relation Inv states.
THEOREM LifecycleInvHolds == LifecycleSpec => []LifecycleInv
  <1>1. LifecycleInit => LifecycleInv
    BY LifecycleInitInv
  <1>2. LifecycleInv /\ [LifecycleNext]_lifecycleVars => LifecycleInv'
    BY LifecycleNextKeepsInv
  <1> QED
    BY <1>1, <1>2, PTL DEF LifecycleSpec

\* Each thread that executes Java code finds itself, and only itself, by its
\* handle.
THEOREM SelfFoundHolds == LifecycleSpec => []SelfFound
  <1>1. LifecycleInv => SelfFound
    BY LifecycleAssumption
    DEF LifecycleInv, LifecycleTypeOK, SelfFound, ByHandle, ListExact, HandleOwned, Listed, Created,
        LifecycleAssumption
  <1> QED
    BY <1>1, LifecycleInvHolds, PTL

\* A thread that has been registered and has not finished stays in the list.
THEOREM NoAccessorLostHolds == LifecycleSpec => []NoAccessorLost
  <1>1. LifecycleInv => NoAccessorLost
    BY DEF LifecycleInv, NoAccessorLost, ListExact, Listed
  <1> QED
    BY <1>1, LifecycleInvHolds, PTL

\* The answer "not alive" about a thread whose handle was read is right.
THEOREM FalseOnceKnownHolds == LifecycleSpec => []FalseOnceKnown
  <1>1. LifecycleInv => FalseOnceKnown
    BY DEF LifecycleInv, FalseOnceKnown, Asking
  <1> QED
    BY <1>1, LifecycleInvHolds, PTL

-----------------------------------------------------------------------------
(* ThrownState: results                                                      *)

\* What the results are made of.
LEMMA ResultFacts ==
    /\ None \in Result /\ None.kind = "none" /\ None.var = Null /\ ~None.catchable
    /\ Ok \in Result /\ Ok.kind = "ok" /\ Ok.var = Null /\ ~Ok.catchable
    /\ Invalid \in Result /\ Invalid.kind = "invalid" /\ Invalid.var = Null
    /\ ~Invalid.catchable
  BY DEF Result, None, Ok, Invalid

LEMMA ThrownFacts ==
    ASSUME NEW v \in Values, NEW c \in BOOLEAN
    PROVE  /\ Thrown(v, c) \in Result
           /\ Thrown(v, c).kind = "thrown"
           /\ Thrown(v, c).var = v
           /\ Thrown(v, c).catchable = c
  BY DEF Thrown, Result

\* Only a throw has a throwable, or can be caught.
LEMMA OnlyThrown ==
    ASSUME NEW r \in Result
    PROVE  /\ r.var \in Values
           /\ r.kind \in {"none", "ok", "invalid", "thrown"}
           /\ r.kind # "thrown" => r.var = Null /\ ~r.catchable
  BY ResultFacts DEF Result, Values

-----------------------------------------------------------------------------
(* What the moves of an execution do to the stacks.                          *)

\* The stack without its innermost execution.
LEMMA BelowFacts ==
    ASSUME TypeOK, NEW t \in Threads, stack[t] # <<>>
    PROVE  /\ Below(t) \in Seq(Pcs)
           /\ Len(Below(t)) = Len(stack[t]) - 1
           /\ Len(stack[t]) \in Nat \ {0}
           /\ \A i \in 1..(Len(stack[t]) - 1) : Below(t)[i] = stack[t][i]
           /\ \A i \in 1..Len(stack[t]) : stack[t][i] \in Pcs
  <1> DEFINE s == stack[t]
             n == Len(s) - 1
             b == SubSeq(s, 1, n)
  <1>1. s \in Seq(Pcs) /\ s # <<>>
    BY DEF TypeOK
  <1>2. Len(s) \in Nat \ {0} /\ \A i \in 1..Len(s) : s[i] \in Pcs
    BY <1>1
  <1> HIDE DEF s
  <1>3. n \in Nat /\ n - 1 + 1 = n /\ \A i \in 1..n : s[i] \in Pcs
    BY <1>2
  <1>4. /\ b \in Seq(Pcs)
        /\ Len(b) = IF 1 <= n THEN n - 1 + 1 ELSE 0
        /\ \A i \in 1..(n - 1 + 1) : b[i] = s[1 + i - 1]
    BY <1>3, SubSeqProperties
  <1> HIDE DEF n, b
  <1>5. Len(b) = n
    BY <1>3, <1>4
  <1>6. ASSUME NEW i \in 1..n
        PROVE  b[i] = s[i]
    <2>1. 1 + i - 1 = i
      BY <1>3
    <2> QED
      BY <1>3, <1>4, <2>1
  <1> QED
    BY <1>2, <1>4, <1>5, <1>6 DEF Below, b, n, s

\* The innermost execution goes on at another place.
LEMMA BecomeFacts ==
    ASSUME TypeOK, NEW t \in Threads, stack[t] # <<>>, NEW pc \in Pcs, Become(t, pc)
    PROVE  /\ stack' \in [Threads -> Seq(Pcs)]
           /\ Len(stack'[t]) = Len(stack[t])
           /\ \A i \in 1..(Len(stack[t]) - 1) : stack'[t][i] = stack[t][i]
           /\ stack'[t] # <<>> /\ Top(t)' = pc
           /\ \A u \in Threads \ {t} : stack'[u] = stack[u]
  <1> DEFINE b == Below(t)
             s == Append(b, pc)
  <1>1. /\ b \in Seq(Pcs)
        /\ Len(b) = Len(stack[t]) - 1
        /\ Len(stack[t]) \in Nat \ {0}
        /\ \A i \in 1..(Len(stack[t]) - 1) : b[i] = stack[t][i]
    BY BelowFacts
  <1>2. stack' = [stack EXCEPT ![t] = s]
    BY DEF Become
  <1> HIDE DEF b
  <1>3. /\ s \in Seq(Pcs) /\ s # <<>>
        /\ Len(s) = Len(b) + 1
        /\ \A i \in 1..Len(b) : s[i] = b[i]
        /\ s[Len(b) + 1] = pc
    BY <1>1
  <1> HIDE DEF s
  <1>4. stack'[t] = s /\ \A u \in Threads \ {t} : stack'[u] = stack[u]
    BY <1>2 DEF TypeOK
  <1>5. stack' \in [Threads -> Seq(Pcs)]
    BY <1>2, <1>3 DEF TypeOK
  <1>6. Top(t)' = stack'[t][Len(stack'[t])]
    BY DEF Top
  <1> QED
    BY <1>1, <1>3, <1>4, <1>5, <1>6

\* The innermost execution goes on at pc once the execution put on it is over.
LEMMA PushFacts ==
    ASSUME TypeOK, NEW t \in Threads, stack[t] # <<>>,
           NEW pc \in Pcs, NEW callee \in Pcs, Push(t, pc, callee)
    PROVE  /\ stack' \in [Threads -> Seq(Pcs)]
           /\ Len(stack'[t]) = Len(stack[t]) + 1
           /\ \A i \in 1..(Len(stack[t]) - 1) : stack'[t][i] = stack[t][i]
           /\ stack'[t][Len(stack[t])] = pc
           /\ stack'[t] # <<>> /\ Top(t)' = callee
           /\ \A u \in Threads \ {t} : stack'[u] = stack[u]
  <1> DEFINE b == Below(t)
             s == Append(Append(b, pc), callee)
  <1>1. /\ b \in Seq(Pcs)
        /\ Len(b) = Len(stack[t]) - 1
        /\ Len(stack[t]) \in Nat \ {0}
        /\ \A i \in 1..(Len(stack[t]) - 1) : b[i] = stack[t][i]
    BY BelowFacts
  <1>2. stack' = [stack EXCEPT ![t] = s]
    BY DEF Push
  <1> HIDE DEF b
  <1>3. /\ s \in Seq(Pcs) /\ s # <<>>
        /\ Len(s) = Len(b) + 2
        /\ \A i \in 1..Len(b) : s[i] = b[i]
        /\ s[Len(b) + 1] = pc
        /\ s[Len(b) + 2] = callee
    <2> DEFINE r == Append(b, pc)
    <2>1. /\ r \in Seq(Pcs) /\ Len(r) = Len(b) + 1
          /\ \A i \in 1..Len(b) : r[i] = b[i]
          /\ r[Len(b) + 1] = pc
      BY <1>1, AppendProperties
    <2> HIDE DEF r
    <2>2. /\ Append(r, callee) \in Seq(Pcs) /\ Append(r, callee) # <<>>
          /\ Len(Append(r, callee)) = Len(r) + 1
          /\ \A i \in 1..Len(r) : Append(r, callee)[i] = r[i]
          /\ Append(r, callee)[Len(r) + 1] = callee
      BY <2>1, AppendProperties
    <2>3. s = Append(r, callee)
      BY DEF r
    <2>4. Len(b) \in Nat
      BY <1>1
    <2> HIDE DEF s
    <2> QED
      BY <2>1, <2>2, <2>3, <2>4
  <1> HIDE DEF s
  <1>4. stack'[t] = s /\ \A u \in Threads \ {t} : stack'[u] = stack[u]
    BY <1>2 DEF TypeOK
  <1>5. stack' \in [Threads -> Seq(Pcs)]
    BY <1>2, <1>3 DEF TypeOK
  <1>6. Top(t)' = stack'[t][Len(stack'[t])]
    BY DEF Top
  <1> QED
    BY <1>1, <1>3, <1>4, <1>5, <1>6

\* The innermost execution is over.
LEMMA PopFacts ==
    ASSUME TypeOK, NEW t \in Threads, stack[t] # <<>>, Pop(t)
    PROVE  /\ stack' \in [Threads -> Seq(Pcs)]
           /\ Len(stack'[t]) = Len(stack[t]) - 1
           /\ \A i \in 1..(Len(stack[t]) - 1) : stack'[t][i] = stack[t][i]
           /\ \A u \in Threads \ {t} : stack'[u] = stack[u]
  <1> DEFINE b == Below(t)
  <1>1. /\ b \in Seq(Pcs)
        /\ Len(b) = Len(stack[t]) - 1
        /\ \A i \in 1..(Len(stack[t]) - 1) : b[i] = stack[t][i]
    BY BelowFacts
  <1>2. stack' = [stack EXCEPT ![t] = b]
    BY DEF Pop
  <1> HIDE DEF b
  <1> QED
    BY <1>1, <1>2 DEF TypeOK

-----------------------------------------------------------------------------
(* They keep the shape of the stack.                                         *)

LEMMA BecomeShape ==
    ASSUME TypeOK, NEW t \in Threads, stack[t] # <<>>, StackShape(t),
           NEW pc \in Pcs, Become(t, pc),
           Top(t) \in {"ctor", "already"} => pc \in {"ctor", "already"}
    PROVE  StackShape(t)'
  <1>1. /\ Len(stack'[t]) = Len(stack[t])
        /\ \A i \in 1..(Len(stack[t]) - 1) : stack'[t][i] = stack[t][i]
        /\ stack'[t][Len(stack'[t])] = pc
    BY BecomeFacts DEF Top
  <1>2. Len(stack[t]) \in Nat \ {0}
    BY BelowFacts
  <1> QED
    BY <1>1, <1>2 DEF StackShape, Top

LEMMA PushShape ==
    ASSUME TypeOK, NEW t \in Threads, stack[t] # <<>>, StackShape(t),
           Top(t) \notin {"ctor", "already"},
           NEW pc \in Waiting, NEW callee \in Pcs, Push(t, pc, callee),
           pc \in {"create", "internal"} => callee \in {"ctor", "already"}
    PROVE  StackShape(t)'
  <1>0. pc \in Pcs
    BY DEF Pcs
  <1>1. /\ Len(stack'[t]) = Len(stack[t]) + 1
        /\ \A i \in 1..(Len(stack[t]) - 1) : stack'[t][i] = stack[t][i]
        /\ stack'[t][Len(stack[t])] = pc
        /\ stack'[t][Len(stack'[t])] = callee
    BY <1>0, PushFacts DEF Top
  <1>2. Len(stack[t]) \in Nat \ {0}
    BY BelowFacts
  <1> DEFINE n == Len(stack[t])
  <1>3. n \in Nat /\ Len(stack'[t]) = n + 1 /\ stack'[t][n] = pc /\ stack'[t][n + 1] = callee
    BY <1>1, <1>2
  <1>4. \A i \in 1..(n - 1) : stack[t][i] \in Waiting /\ stack'[t][i] = stack[t][i]
    BY <1>1, <1>2 DEF StackShape
  <1>5. \A i \in 1..(n - 1) : stack[t][i] \notin {"create", "internal"}
    BY <1>2 DEF StackShape, Top
  <1> HIDE DEF n
  <1>6. \A i \in 1..(n + 1) : i < n + 1 => i \in 1..(n - 1) \/ i = n
    BY <1>3
  <1> QED
    BY <1>3, <1>4, <1>5, <1>6 DEF StackShape

\* The caller waits; it waits for the constructor of a throwable only if the
\* execution that is over was that of one.
LEMMA PopShape ==
    ASSUME TypeOK, NEW t \in Threads, stack[t] # <<>>, StackShape(t), Pop(t)
    PROVE  /\ StackShape(t)'
           /\ stack'[t] # <<>> => Top(t)' \in Waiting
           /\ stack'[t] # <<>> /\ Top(t) \notin {"ctor", "already"} =>
                 Top(t)' \notin {"create", "internal"}
  <1>1. /\ stack'[t] \in Seq(Pcs)
        /\ Len(stack'[t]) = Len(stack[t]) - 1
        /\ \A i \in 1..(Len(stack[t]) - 1) : stack'[t][i] = stack[t][i]
    BY PopFacts
  <1>2. Len(stack[t]) \in Nat \ {0}
    BY BelowFacts
  <1>3. StackShape(t)'
    BY <1>1, <1>2 DEF StackShape
  <1>4. ASSUME stack'[t] # <<>>
        PROVE  /\ Len(stack[t]) - 1 \in 1..Len(stack[t])
               /\ Top(t)' = stack[t][Len(stack[t]) - 1]
    BY <1>1, <1>2, <1>4 DEF Top
  <1> QED
    BY <1>2, <1>3, <1>4 DEF StackShape, Top

-----------------------------------------------------------------------------
(* A step of thread t, as far as the invariant is concerned.                 *)

\* The other threads are where they were.
OthersStay(t) ==
    \A u \in Threads \ {t} :
        stack'[u] = stack[u] /\ result'[u] = result[u] /\ base'[u] = base[u]

\* What t itself has to keep.
OwnPart(t) ==
    /\ StackShape(t)' /\ ResultShape(t)'
    /\ result'[t].catchable => result'[t].var \in {t, Null}

\* The C++ code below t does not begin again, and what was ignored stays so.
Onward(t) ==
    /\ t # Main => base'[t] # "idle"
    /\ base[t] \in {"name", "print"} => base'[t] \in {"name", "print"}
    /\ dropped \subseteq dropped'

\* What the slot has to keep, and what t has to keep if it is the embedder's thread.
Slotted == SlotIsPending /\ SlotHasThrower
MainPart(t) == t = Main /\ Alone(Main) => Registered'

LEMMA ThreadStep ==
    ASSUME Inv, NEW t \in Threads, TypeOK', OthersStay(t), OwnPart(t),
           Onward(t), Slotted', MainPart(t)
    PROVE  Inv'
  <1>1. ASSUME NEW u \in Threads
        PROVE  (StackShape(u) /\ ResultShape(u))'
    <2>1. CASE u = t
      BY <2>1 DEF OwnPart
    <2>2. CASE u # t
      BY <2>2 DEF OthersStay, Inv, StackShape, ResultShape, Top
    <2> QED
      BY <2>1, <2>2
  <1>2. ASSUME NEW u \in Threads, result'[u].catchable
        PROVE  result'[u].var \in {u, Null}
    <2>1. CASE u = t
      BY <1>2, <2>1 DEF OwnPart
    <2>2. CASE u # t
      BY <1>2, <2>2 DEF OthersStay, Inv, OwnThrowableCaught
    <2> QED
      BY <2>1, <2>2
  <1>3. ASSUME Alone(Main)'
        PROVE  Registered'
    <2>1. t = Main
      BY <1>3 DEF Alone, Onward
    <2>2. Alone(Main)
      BY <1>3, <2>1 DEF Alone, Onward, OthersStay
    <2> QED
      BY <2>1, <2>2 DEF MainPart
  <1> QED
    BY <1>1, <1>2, <1>3 DEF Inv, OwnThrowableCaught, Slotted

\* A step that leaves the throwable in the slot keeps it pending, if t goes on
\* unwinding with the throwable it had, or its result is dropped.
LEMMA Unwound ==
    ASSUME NEW t \in Threads, OthersStay(t),
           Unwinding(t) => \/ Unwinding(t)' /\ result'[t].var = result[t].var
                           \/ result[t].var \in dropped',
           NEW u \in Threads, Unwinding(u)
    PROVE  (Unwinding(u)' /\ result'[u].var = result[u].var) \/ result[u].var \in dropped'
  BY DEF OthersStay, Unwinding, Top

LEMMA PendingStays ==
    ASSUME Inv, NEW t \in Threads, OthersStay(t), Onward(t), throwable' = throwable,
           Unwinding(t) => \/ Unwinding(t)' /\ result'[t].var = result[t].var
                           \/ result[t].var \in dropped'
    PROVE  SlotIsPending'
  <1>1. CASE throwable = Null \/ throwable \in dropped
    BY <1>1 DEF SlotIsPending, Onward
  <1>2. CASE \E u \in Threads : Unwinding(u) /\ result[u].var = throwable
    BY <1>2, Unwound DEF SlotIsPending
  <1> QED
    BY <1>1, <1>2 DEF Inv, SlotIsPending

\* If it leaves the thread there as well, that is still the one.
LEMMA StillPending ==
    ASSUME Inv, NEW t \in Threads, OthersStay(t), Onward(t),
           throwable' = throwable, thrower' = thrower,
           Unwinding(t) => \/ Unwinding(t)' /\ result'[t].var = result[t].var
                           \/ result[t].var \in dropped'
    PROVE  Slotted'
  <1>1. ASSUME NEW u \in Threads, Unwinding(u)
        PROVE  (Unwinding(u)' /\ result'[u].var = result[u].var) \/ result[u].var \in dropped'
    BY <1>1, Unwound
  <1>2. SlotIsPending'
    BY PendingStays
  <1>3. SlotHasThrower'
    <2> SUFFICES ASSUME throwable # Null, dropped' = {}
                 PROVE  /\ thrower # Null => Unwinding(thrower)' /\ result'[thrower].var = throwable
                        /\ thrower = Null => /\ base'[Main] \in {"name", "print"}
                                             /\ \E u \in Threads \ {Main} : base'[u] # "idle"
      BY DEF SlotHasThrower, Unwinding, Top
    <2>1. dropped = {} /\ SlotHasThrower /\ Main \in Threads
      BY ConstantsAssumption DEF Onward, Inv
    <2>2. CASE thrower # Null
      <3>1. thrower \in Threads
        BY <2>2 DEF Inv, TypeOK, Values
      <3> QED
        BY <1>1, <2>1, <2>2, <3>1 DEF SlotHasThrower
    <2>3. CASE thrower = Null
      <3>1. PICK u \in Threads \ {Main} : base[u] # "idle"
        BY <2>1, <2>3 DEF SlotHasThrower
      <3>2. base'[u] # "idle"
        BY <3>1 DEF OthersStay, Onward
      <3>3. base'[Main] \in {"name", "print"}
        BY <2>1, <2>3 DEF SlotHasThrower, OthersStay, Onward
      <3> QED
        BY <2>3, <3>1, <3>2, <3>3
    <2> QED
      BY <2>2, <2>3
  <1> QED
    BY <1>2, <1>3 DEF Slotted

\* t fills the slot with the throwable it returns.
LEMMA SlotFilled ==
    ASSUME Inv, NEW t \in Threads, thrower' = t,
           throwable' = Null \/ (Unwinding(t)' /\ result'[t].var = throwable')
    PROVE  Slotted'
  <1>1. t # Null
    BY ConstantsAssumption
  <1>2. SlotIsPending'
    BY DEF SlotIsPending
  <1>3. SlotHasThrower'
    BY <1>1 DEF SlotHasThrower, Unwinding, Top
  <1> QED
    BY <1>2, <1>3 DEF Slotted

\* An execution goes on, or returns: the C++ code below stays where it is.
LEMMA Steady ==
    ASSUME Inv, NEW t \in Threads, stack[t] # <<>>, base' = base, dropped \subseteq dropped'
    PROVE  Onward(t)
  BY DEF Inv, ResultShape, Onward

\* The slot is full while t is alone: t is being unwound.
LEMMA SlotIsOwn ==
    ASSUME Inv, NEW t \in Threads, Alone(t), throwable # Null
    PROVE  Unwinding(t) /\ result[t].var = throwable /\ thrower = t
  <1>1. ASSUME NEW u \in Threads, Unwinding(u)
        PROVE  u = t
    BY <1>1 DEF Inv, ResultShape, Unwinding, Alone
  <1>2. SlotHasThrower /\ SlotIsPending /\ dropped = {} /\ thrower \in Values
    BY DEF Inv, TypeOK, Alone
  <1>3. PICK u \in Threads : Unwinding(u) /\ result[u].var = throwable
    BY <1>2 DEF SlotIsPending
  <1>4. u = t
    BY <1>1, <1>3
  <1>5. CASE thrower = Null
    <2>1. /\ base[Main] \in {"name", "print"} /\ Main \in Threads
          /\ \E w \in Threads \ {Main} : base[w] # "idle"
      BY <1>2, <1>5, ConstantsAssumption DEF SlotHasThrower
    <2> QED
      BY <2>1 DEF Alone
  <1>6. CASE thrower # Null
    <2>1. thrower \in Threads /\ Unwinding(thrower)
      BY <1>2, <1>6 DEF SlotHasThrower, Values
    <2> QED
      BY <1>1, <1>3, <1>4, <2>1
  <1> QED
    BY <1>5, <1>6

\* What the embedder's thread has to keep, by where t goes.
LEMMA MainBecomes ==
    ASSUME TypeOK, NEW t \in Threads, stack[t] # <<>>,
           NEW pc \in Pcs \ {"already", "call", "drop"}, Become(t, pc)
    PROVE  MainPart(t)
  <1>1. stack'[t] # <<>> /\ Top(t)' = pc
    BY BecomeFacts
  <1> QED
    BY <1>1 DEF MainPart, Registered

LEMMA MainPops ==
    ASSUME Inv, NEW t \in Threads, stack[t] # <<>>, Pop(t),
           result'[t].kind # "thrown" \/ throwable' # Null
    PROVE  MainPart(t)
  <1>1. TypeOK /\ StackShape(t)
    BY DEF Inv
  <1>2. stack'[t] # <<>> => Top(t)' \in Waiting
    BY <1>1, PopShape
  <1> QED
    BY <1>2 DEF MainPart, Registered, Waiting

LEMMA MainBelow ==
    ASSUME NEW t \in Threads,
           \/ stack'[t] = <<>> /\ result'[t].kind = "none"
           \/ stack'[t] = <<"enter">>
    PROVE  MainPart(t)
  <1>1. CASE stack'[t] = <<"enter">>
    <2>1. stack'[t] # <<>> /\ Top(t)' = "enter"
      BY <1>1 DEF Top
    <2> QED
      BY <2>1 DEF MainPart, Registered
  <1>2. CASE stack'[t] = <<>> /\ result'[t].kind = "none"
    BY <1>2 DEF MainPart, Registered
  <1> QED
    BY <1>1, <1>2

-----------------------------------------------------------------------------
(* The executions                                                            *)

\* The result that t gives, and only that.
LEMMA GivesFacts ==
    ASSUME TypeOK, NEW t \in Threads, NEW r \in Result, Gives(t, r)
    PROVE  /\ result' \in [Threads -> Result]
           /\ result'[t] = r
           /\ \A u \in Threads \ {t} : result'[u] = result[u]
  BY DEF Gives, TypeOK

LEMMA OpFacts ==
    ASSUME TypeOK, NEW t \in Threads, Op(t)
    PROVE  ops' \in [Threads -> 0..MaxOps]
  BY ConstantsAssumption DEF Op, TypeOK

\* An execution that has the control has no result, and does not unwind.
LEMMA Quiet ==
    ASSUME Inv, NEW t \in Threads, stack[t] # <<>>,
           Top(t) \in {"enter", "ctor", "already", "run"}
    PROVE  result[t].kind = "none" /\ ~Unwinding(t) /\ base[t] \notin {"idle", "thread", "retrieve"}
  BY DEF Inv, ResultShape, Unwinding

\* t goes on at pc.
LEMMA BecomeOwn ==
    ASSUME Inv, NEW t \in Threads, stack[t] # <<>>, base' = base,
           NEW pc \in Pcs, Become(t, pc),
           Top(t) \in {"ctor", "already"} => pc \in {"ctor", "already"},
           pc \in {"enter", "ctor", "already", "run"} => result'[t].kind = "none",
           pc \in {"thrown", "check", "register"} => result'[t].kind = "thrown",
           pc \in {"check", "register"} => result'[t].var # Null,
           result'[t].catchable => result'[t].var \in {t, Null}
    PROVE  OwnPart(t)
  <1>0. TypeOK /\ StackShape(t) /\ base[t] \notin {"idle", "thread", "retrieve"}
    BY DEF Inv, ResultShape
  <1>1. stack'[t] # <<>> /\ Top(t)' = pc
    BY <1>0, BecomeFacts
  <1>2. StackShape(t)'
    BY <1>0, BecomeShape
  <1>3. ResultShape(t)'
    BY <1>0, <1>1 DEF ResultShape
  <1> QED
    BY <1>2, <1>3 DEF OwnPart

\* t calls.
LEMMA PushOwn ==
    ASSUME Inv, NEW t \in Threads, stack[t] # <<>>, UNCHANGED <<result, base>>,
           Top(t) = "run", NEW pc \in Waiting, NEW callee \in {"enter", "ctor"},
           Push(t, pc, callee),
           pc \in {"create", "internal"} => callee = "ctor"
    PROVE  OwnPart(t)
  <1>0. TypeOK /\ StackShape(t) /\ base[t] \notin {"idle", "thread", "retrieve"}
    BY DEF Inv, ResultShape
  <1>1. stack'[t] # <<>> /\ Top(t)' = callee
    BY <1>0, PushFacts DEF Pcs
  <1>2. StackShape(t)'
    BY <1>0, PushShape DEF Pcs
  <1>3. result[t].kind = "none"
    BY DEF Inv, ResultShape
  <1>4. ResultShape(t)'
    BY <1>0, <1>1, <1>3 DEF ResultShape
  <1> QED
    BY <1>2, <1>4 DEF OwnPart, Inv, OwnThrowableCaught

\* t returns.
LEMMA PopOwn ==
    ASSUME Inv, NEW t \in Threads, stack[t] # <<>>, base' = base, Pop(t),
           result'[t].catchable => result'[t].var \in {t, Null}
    PROVE  OwnPart(t)
  <1>0. TypeOK /\ StackShape(t) /\ base[t] \notin {"idle", "thread", "retrieve"}
    BY DEF Inv, ResultShape
  <1>1. StackShape(t)' /\ (stack'[t] # <<>> => Top(t)' \in Waiting)
    BY <1>0, PopShape
  <1>2. ResultShape(t)'
    BY <1>0, <1>1 DEF ResultShape, Waiting
  <1> QED
    BY <1>1, <1>2 DEF OwnPart

\* The moves of t leave the other threads alone and the stacks well typed.
LEMMA MoveFacts ==
    ASSUME TypeOK, NEW t \in Threads, stack[t] # <<>>,
           \/ \E pc \in Pcs : Become(t, pc)
           \/ \E pc, callee \in Pcs : Push(t, pc, callee)
           \/ Pop(t)
    PROVE  /\ stack' \in [Threads -> Seq(Pcs)]
           /\ \A u \in Threads \ {t} : stack'[u] = stack[u]
  BY BecomeFacts, PushFacts, PopFacts

-----------------------------------------------------------------------------
(* DoExecuteCode: its start                                                  *)

LEMMA EnterKeepsInv ==
    ASSUME Inv, NEW t \in Threads, Enter(t)
    PROVE  Inv'
  <1> USE DEF slot, outside
  <1>0. TypeOK /\ stack[t] # <<>> /\ Top(t) = "enter" /\ result[t].kind = "none"
    BY Quiet DEF Enter, At, Inv
  <1>1. PICK pc \in {"already", "run"} : Become(t, pc)
    BY DEF Enter
  <1>2. pc \in Pcs
    BY DEF Pcs
  <1>3. TypeOK' /\ OthersStay(t)
    BY <1>0, <1>1, <1>2, MoveFacts DEF Enter, TypeOK, OthersStay
  <1>4. OwnPart(t)
    BY <1>0, <1>1, <1>2, BecomeOwn DEF Enter, Inv, OwnThrowableCaught
  <1>5. Onward(t) /\ MainPart(t) /\ Slotted'
    <2>1. Onward(t)
      BY <1>0, Steady DEF Enter
    <2>2. MainPart(t)
      BY <1>0, <1>1, SlotIsOwn, Quiet, MainBecomes DEF Enter, Pcs, MainPart
    <2>3. Slotted'
      BY <1>0, <1>3, Quiet, <2>1, StillPending DEF Enter
    <2> QED
      BY <2>1, <2>2, <2>3
  <1> QED
    BY <1>3, <1>4, <1>5, ThreadStep

LEMMA ConstructKeepsInv ==
    ASSUME Inv, NEW t \in Threads, Construct(t)
    PROVE  Inv'
  <1> USE DEF slot, outside
  <1>0. TypeOK /\ stack[t] # <<>> /\ Top(t) = "ctor" /\ result[t].kind = "none"
    BY Quiet DEF Construct, At, Inv
  <1>1. CASE throwable # Null /\ Become(t, "already") /\ UNCHANGED result
    <2>1. TypeOK' /\ OthersStay(t)
      BY <1>0, <1>1, MoveFacts DEF Construct, TypeOK, OthersStay, Pcs
    <2>2. OwnPart(t)
      BY <1>0, <1>1, BecomeOwn DEF Construct, Inv, OwnThrowableCaught, Pcs
    <2>3. Onward(t) /\ MainPart(t) /\ Slotted'
      <3>1. Onward(t)
        BY <1>0, Steady DEF Construct
      <3>2. MainPart(t)
        BY <1>0, <1>1, SlotIsOwn, Quiet DEF Construct, MainPart
      <3>3. Slotted'
        BY <1>0, <2>1, Quiet, <3>1, StillPending DEF Construct
      <3> QED
        BY <3>1, <3>2, <3>3
    <2> QED
      BY <2>1, <2>2, <2>3, ThreadStep
  <1>2. CASE Pop(t) /\ Gives(t, Ok)
    <2>1. TypeOK' /\ OthersStay(t) /\ result'[t] = Ok
      BY <1>0, <1>2, MoveFacts, GivesFacts, ResultFacts DEF Construct, TypeOK, OthersStay
    <2>2. OwnPart(t)
      BY <1>0, <1>2, <2>1, PopOwn, ResultFacts DEF Construct
    <2>3. Onward(t) /\ MainPart(t) /\ Slotted'
      <3>1. Onward(t)
        BY <1>0, Steady DEF Construct
      <3>2. MainPart(t)
        BY <1>0, <1>2, <2>1, MainPops, ResultFacts
      <3>3. Slotted'
        BY <1>0, <2>1, Quiet, <3>1, StillPending DEF Construct
      <3> QED
        BY <3>1, <3>2, <3>3
    <2> QED
      BY <2>1, <2>2, <2>3, ThreadStep
  <1> QED
    BY <1>1, <1>2 DEF Construct

LEMMA ThrowAlreadyThrownKeepsInv ==
    ASSUME Inv, NEW t \in Threads, ThrowAlreadyThrown(t)
    PROVE  Inv'
  <1> USE DEF slot, outside
  <1> DEFINE r == Thrown(throwable, FALSE)
  <1>0. TypeOK /\ stack[t] # <<>> /\ Top(t) = "already" /\ Pop(t) /\ Gives(t, r)
    BY DEF ThrowAlreadyThrown, At, Inv
  <1>1. r \in Result /\ ~r.catchable
    BY <1>0, ThrownFacts DEF TypeOK
  <1> HIDE DEF r
  <1>2. TypeOK' /\ OthersStay(t) /\ result'[t] = r
    BY <1>0, <1>1, MoveFacts, GivesFacts DEF ThrowAlreadyThrown, TypeOK, OthersStay
  <1>3. OwnPart(t)
    BY <1>0, <1>1, <1>2, PopOwn DEF ThrowAlreadyThrown
  <1>4. Onward(t) /\ MainPart(t) /\ Slotted'
    <2>1. Onward(t)
      BY <1>0, Steady DEF ThrowAlreadyThrown
    <2>2. MainPart(t)
      BY <1>0 DEF MainPart, Inv, Registered
    <2>3. Slotted'
      BY <1>0, <1>2, Quiet, <2>1, StillPending DEF ThrowAlreadyThrown
    <2> QED
      BY <2>1, <2>2, <2>3
  <1> QED
    BY <1>2, <1>3, <1>4, ThreadStep

-----------------------------------------------------------------------------
(* HandleInstruction                                                         *)

\* A call, whether of a method, an initialiser or a throwable's constructor.
LEMMA RunPushKeepsInv ==
    ASSUME Inv, NEW t \in Threads, At(t, "run"), Op(t),
           NEW pc \in Waiting, NEW callee \in {"enter", "ctor"}, Push(t, pc, callee),
           pc \in {"create", "internal"} => callee = "ctor",
           UNCHANGED <<slot, result, outside, dropped>>
    PROVE  Inv'
  <1> USE DEF slot, outside
  <1>0. TypeOK /\ stack[t] # <<>> /\ Top(t) = "run" /\ pc \in Pcs /\ callee \in Pcs
    BY DEF At, Inv, Pcs
  <1>1. TypeOK' /\ OthersStay(t)
    BY <1>0, MoveFacts, OpFacts DEF TypeOK, OthersStay
  <1>2. OwnPart(t)
    BY <1>0, PushOwn
  <1>3. Onward(t) /\ MainPart(t) /\ Slotted'
    <2>1. Onward(t)
      BY <1>0, Steady
    <2>2. MainPart(t)
      BY <1>0, PushFacts DEF MainPart, Registered
    <2>3. Slotted'
      BY <1>0, <1>1, Quiet, <2>1, StillPending
    <2> QED
      BY <2>1, <2>2, <2>3
  <1> QED
    BY <1>1, <1>2, <1>3, ThreadStep

LEMMA CallKeepsInv ==
    ASSUME Inv, NEW t \in Threads, Call(t)
    PROVE  Inv'
  BY RunPushKeepsInv DEF Call, Waiting

LEMMA ThrowKeepsInv ==
    ASSUME Inv, NEW t \in Threads, Throw(t)
    PROVE  Inv'
  BY RunPushKeepsInv DEF Throw, Waiting

LEMMA CallReturnsKeepsInv ==
    ASSUME Inv, NEW t \in Threads, CallReturns(t)
    PROVE  Inv'
  <1> USE DEF slot, outside
  <1>0. TypeOK /\ stack[t] # <<>> /\ Top(t) = "call"
    BY DEF CallReturns, Back, Inv
  <1>1. CASE result[t].kind = "ok" /\ Become(t, "run") /\ Gives(t, None)
    <2>1. TypeOK' /\ OthersStay(t) /\ result'[t] = None
      BY <1>0, <1>1, MoveFacts, GivesFacts, ResultFacts
         DEF CallReturns, TypeOK, OthersStay, Pcs
    <2>2. OwnPart(t)
      BY <1>0, <1>1, <2>1, BecomeOwn, ResultFacts DEF CallReturns, Pcs
    <2>3. Onward(t) /\ MainPart(t) /\ Slotted'
      <3>1. Onward(t)
        BY <1>0, Steady DEF CallReturns
      <3>2. MainPart(t)
        BY <1>0, <1>1, MainBecomes DEF Pcs
      <3>3. Slotted'
        BY <1>1, <2>1, <3>1, StillPending DEF CallReturns, Unwinding
      <3> QED
        BY <3>1, <3>2, <3>3
    <2> QED
      BY <2>1, <2>2, <2>3, ThreadStep
  <1>2. CASE result[t].kind = "invalid" /\ Pop(t) /\ UNCHANGED result
    <2>1. TypeOK' /\ OthersStay(t)
      BY <1>0, <1>2, MoveFacts DEF CallReturns, TypeOK, OthersStay
    <2>2. OwnPart(t)
      BY <1>0, <1>2, PopOwn DEF CallReturns, Inv, OwnThrowableCaught
    <2>3. Onward(t) /\ MainPart(t) /\ Slotted'
      <3>1. Onward(t)
        BY <1>0, Steady DEF CallReturns
      <3>2. MainPart(t)
        BY <1>0, <1>2, MainPops
      <3>3. Slotted'
        BY <1>2, <2>1, <3>1, StillPending DEF CallReturns, Unwinding
      <3> QED
        BY <3>1, <3>2, <3>3
    <2> QED
      BY <2>1, <2>2, <2>3, ThreadStep
  <1>3. CASE result[t].kind = "thrown" /\ Become(t, "thrown") /\ UNCHANGED result
    <2>1. TypeOK' /\ OthersStay(t) /\ Top(t)' = "thrown"
      BY <1>0, <1>3, MoveFacts, BecomeFacts DEF CallReturns, TypeOK, OthersStay, Pcs
    <2>2. OwnPart(t)
      BY <1>0, <1>3, BecomeOwn DEF CallReturns, Pcs, Inv, OwnThrowableCaught
    <2>3. Onward(t) /\ MainPart(t) /\ Slotted'
      <3>1. Onward(t)
        BY <1>0, Steady DEF CallReturns
      <3>2. MainPart(t)
        BY <1>0, <1>3, MainBecomes DEF Pcs
      <3>3. Slotted'
        BY <1>3, <2>1, <3>1, StillPending DEF CallReturns, Unwinding
      <3> QED
        BY <3>1, <3>2, <3>3
    <2> QED
      BY <2>1, <2>2, <2>3, ThreadStep
  <1> QED
    BY <1>1, <1>2, <1>3 DEF CallReturns

\* A result that is not looked at is recorded as dropped.
LEMMA DropFacts ==
    ASSUME TypeOK, NEW t \in Threads, Drop(t)
    PROVE  /\ dropped \subseteq dropped' /\ dropped' \subseteq Threads
           /\ Unwinding(t) => result[t].var \in dropped'
  <1>1. result[t].var \in Values
    BY OnlyThrown DEF TypeOK
  <1> QED
    BY <1>1 DEF Drop, TypeOK, Values, Unwinding

LEMMA DropReturnsKeepsInv ==
    ASSUME Inv, NEW t \in Threads, DropReturns(t)
    PROVE  Inv'
  <1> USE DEF slot, outside
  <1>0. /\ TypeOK /\ stack[t] # <<>> /\ Top(t) = "drop"
        /\ Become(t, "run") /\ Gives(t, None)
    BY DEF DropReturns, Back, Inv
  <1>1. dropped \subseteq dropped' /\ dropped' \subseteq Threads
    BY <1>0, DropFacts DEF DropReturns
  <1>2. TypeOK' /\ OthersStay(t) /\ result'[t] = None
    BY <1>0, <1>1, MoveFacts, GivesFacts, ResultFacts
       DEF DropReturns, TypeOK, OthersStay, Pcs
  <1>3. OwnPart(t)
    BY <1>0, <1>2, BecomeOwn, ResultFacts DEF DropReturns, Pcs
  <1>4. Onward(t) /\ MainPart(t) /\ Slotted'
    <2>1. Onward(t)
      BY <1>0, <1>1, Steady DEF DropReturns
    <2>2. MainPart(t)
      BY <1>0, MainBecomes DEF Pcs
    <2>3. Slotted'
      BY <1>0, <1>1, <1>2, DropFacts, <2>1, StillPending DEF DropReturns
    <2> QED
      BY <2>1, <2>2, <2>3
  <1> QED
    BY <1>2, <1>3, <1>4, ThreadStep

LEMMA ThrowCreatedKeepsInv ==
    ASSUME Inv, NEW t \in Threads, ThrowCreated(t)
    PROVE  Inv'
  <1> USE DEF slot, outside
  <1>0. /\ TypeOK /\ stack[t] # <<>> /\ Top(t) \in {"create", "internal"}
        /\ Become(t, "thrown")
    BY DEF ThrowCreated, Back, Inv
  <1>1. PICK v \in {t, Null}, c \in BOOLEAN : Gives(t, Thrown(v, c))
    BY DEF ThrowCreated
  <1> DEFINE r == Thrown(v, c)
  <1>2. r \in Result /\ r.kind = "thrown" /\ r.var = v
    BY ThrownFacts DEF Values
  <1>3. Gives(t, r)
    BY <1>1
  <1> HIDE DEF r
  <1>4. TypeOK' /\ OthersStay(t) /\ result'[t] = r
    BY <1>0, <1>2, <1>3, MoveFacts, GivesFacts DEF ThrowCreated, TypeOK, OthersStay, Pcs
  <1>5. OwnPart(t)
    BY <1>0, <1>2, <1>4, BecomeOwn DEF ThrowCreated, Pcs
  <1>6. Onward(t) /\ MainPart(t) /\ Slotted'
    <2>1. Onward(t)
      BY <1>0, Steady DEF ThrowCreated
    <2>2. MainPart(t)
      BY <1>0, MainBecomes DEF Pcs
    <2>3. Slotted'
      BY <1>0, <1>4, <2>1, StillPending DEF ThrowCreated, Unwinding
    <2> QED
      BY <2>1, <2>2, <2>3
  <1> QED
    BY <1>4, <1>5, <1>6, ThreadStep

LEMMA AthrowKeepsInv ==
    ASSUME Inv, NEW t \in Threads, Athrow(t)
    PROVE  Inv'
  <1> USE DEF slot, outside
  <1> DEFINE r == Thrown(t, TRUE)
  <1>0. /\ TypeOK /\ stack[t] # <<>> /\ Top(t) = "run" /\ Op(t)
        /\ Become(t, "thrown") /\ Gives(t, r)
    BY DEF Athrow, At, Inv
  <1>1. r \in Result /\ r.kind = "thrown" /\ r.var = t
    BY ThrownFacts DEF Values
  <1> HIDE DEF r
  <1>2. TypeOK' /\ OthersStay(t) /\ result'[t] = r
    BY <1>0, <1>1, MoveFacts, GivesFacts, OpFacts DEF Athrow, TypeOK, OthersStay, Pcs
  <1>3. OwnPart(t)
    BY <1>0, <1>1, <1>2, BecomeOwn DEF Athrow, Pcs
  <1>4. Onward(t) /\ MainPart(t) /\ Slotted'
    <2>1. Onward(t)
      BY <1>0, Steady DEF Athrow
    <2>2. MainPart(t)
      BY <1>0, MainBecomes DEF Pcs
    <2>3. Slotted'
      BY <1>0, <1>2, Quiet, <2>1, StillPending DEF Athrow
    <2> QED
      BY <2>1, <2>2, <2>3
  <1> QED
    BY <1>2, <1>3, <1>4, ThreadStep

LEMMA LeaveKeepsInv ==
    ASSUME Inv, NEW t \in Threads, Leave(t)
    PROVE  Inv'
  <1> USE DEF slot, outside
  <1>0. TypeOK /\ stack[t] # <<>> /\ Top(t) = "run" /\ Pop(t)
    BY DEF Leave, At, Inv
  <1>1. PICK r \in {Ok, Invalid} : Gives(t, r)
    BY DEF Leave
  <1>2. r \in Result /\ ~r.catchable
    BY <1>1, ResultFacts
  <1>3. TypeOK' /\ OthersStay(t) /\ result'[t] = r
    BY <1>0, <1>1, <1>2, MoveFacts, GivesFacts DEF Leave, TypeOK, OthersStay
  <1>4. OwnPart(t)
    BY <1>0, <1>2, <1>3, PopOwn DEF Leave
  <1>5. Onward(t) /\ MainPart(t) /\ Slotted'
    <2>1. Onward(t)
      BY <1>0, Steady DEF Leave
    <2>2. MainPart(t)
      BY <1>0, <1>1, <1>3, MainPops, ResultFacts
    <2>3. Slotted'
      BY <1>0, <1>3, Quiet, <2>1, StillPending DEF Leave
    <2> QED
      BY <2>1, <2>2, <2>3
  <1> QED
    BY <1>3, <1>4, <1>5, ThreadStep

-----------------------------------------------------------------------------
(* DoExecuteCode: an instruction threw                                       *)

\* A step that at most ends the process.
LEMMA ProcessKeepsInv ==
    ASSUME Inv, UNCHANGED <<throwable, thrower, stack, result, base, got, dropped, ops>>,
           process' \in {"up", "exited", "crashed"}
    PROVE  Inv'
  <1>1. TypeOK'
    BY DEF Inv, TypeOK
  <1>2. ASSUME NEW t \in Threads
        PROVE  StackShape(t)' /\ ResultShape(t)'
    BY DEF Inv, StackShape, ResultShape, Top
  <1>3. OwnThrowableCaught' /\ SlotIsPending' /\ SlotHasThrower'
    BY DEF Inv, OwnThrowableCaught, SlotIsPending, SlotHasThrower, Unwinding, Top
  <1>4. (Alone(Main) => Registered)'
    BY DEF Inv, Alone, Registered, Top
  <1> QED
    BY <1>1, <1>2, <1>3, <1>4 DEF Inv

LEMMA NullThrownKeepsInv ==
    ASSUME Inv, NEW t \in Threads, NullThrown(t)
    PROVE  Inv'
  BY ProcessKeepsInv DEF NullThrown, slot

LEMMA HandlerKeepsInv ==
    ASSUME Inv, NEW t \in Threads, Handler(t)
    PROVE  Inv'
  <1> USE DEF outside, EmptySlot
  <1>0. /\ TypeOK /\ stack[t] # <<>> /\ Top(t) = "thrown"
        /\ Become(t, "run") /\ Gives(t, None)
    BY DEF Handler, At, Inv
  <1>1. TypeOK' /\ OthersStay(t) /\ result'[t] = None
    BY <1>0, MoveFacts, GivesFacts, ResultFacts
       DEF Handler, TypeOK, OthersStay, Pcs, Values
  <1>2. OwnPart(t)
    BY <1>0, <1>1, BecomeOwn, ResultFacts DEF Handler, Pcs
  <1>3. Onward(t) /\ MainPart(t) /\ Slotted'
    <2>1. Onward(t)
      BY <1>0, Steady DEF Handler
    <2>2. MainPart(t)
      BY <1>0, MainBecomes DEF Pcs
    <2>3. Slotted'
      BY DEF Handler, Slotted, SlotIsPending, SlotHasThrower
    <2> QED
      BY <2>1, <2>2, <2>3
  <1> QED
    BY <1>1, <1>2, <1>3, ThreadStep

\* What an execution that deals with a throw has.
LEMMA Throwing ==
    ASSUME Inv, NEW t \in Threads, stack[t] # <<>>,
           Top(t) \in {"check", "register"} \/ (Top(t) = "thrown" /\ result[t].var # Null)
    PROVE  Unwinding(t) /\ result[t].kind = "thrown" /\ result[t].var # Null
  BY DEF Inv, ResultShape, Unwinding

LEMMA NoHandlerKeepsInv ==
    ASSUME Inv, NEW t \in Threads, NoHandler(t)
    PROVE  Inv'
  <1> USE DEF slot, outside
  <1>0. /\ TypeOK /\ stack[t] # <<>> /\ Top(t) = "thrown" /\ Become(t, "check")
        /\ Unwinding(t) /\ result[t].kind = "thrown" /\ result[t].var # Null
    BY Throwing DEF NoHandler, At, Inv
  <1>1. TypeOK' /\ OthersStay(t) /\ Top(t)' = "check"
    BY <1>0, MoveFacts, BecomeFacts DEF NoHandler, TypeOK, OthersStay, Pcs
  <1>2. OwnPart(t)
    BY <1>0, BecomeOwn DEF NoHandler, Pcs, Inv, OwnThrowableCaught
  <1>3. Onward(t) /\ MainPart(t) /\ Slotted'
    <2>1. Onward(t)
      BY <1>0, Steady DEF NoHandler
    <2>2. MainPart(t)
      BY <1>0, MainBecomes DEF Pcs
    <2>3. Slotted'
      BY <1>0, <1>1, <2>1, StillPending DEF NoHandler, Unwinding
    <2> QED
      BY <2>1, <2>2, <2>3
  <1> QED
    BY <1>1, <1>2, <1>3, ThreadStep

\* A thread that leaves an execution with a throw goes on unwinding.
LEMMA PopUnwinding ==
    ASSUME Inv, NEW t \in Threads, stack[t] # <<>>, Unwinding(t),
           Top(t) \in {"check", "register"}, Pop(t), result' = result
    PROVE  Unwinding(t)'
  <1>1. TypeOK /\ StackShape(t)
    BY DEF Inv
  <1>2. stack'[t] # <<>> => Top(t)' \notin {"create", "internal"}
    BY <1>1, PopShape
  <1> QED
    BY <1>2 DEF Unwinding

LEMMA CheckThrownKeepsInv ==
    ASSUME Inv, NEW t \in Threads, CheckThrown(t)
    PROVE  Inv'
  <1> USE DEF slot, outside
  <1>0. /\ TypeOK /\ stack[t] # <<>> /\ Top(t) = "check"
        /\ Unwinding(t) /\ result[t].kind = "thrown" /\ result[t].var # Null
    BY Throwing DEF CheckThrown, At, Inv
  <1>1. CASE throwable # Null /\ Pop(t)
    <2>1. TypeOK' /\ OthersStay(t)
      BY <1>0, <1>1, MoveFacts DEF CheckThrown, TypeOK, OthersStay
    <2>2. OwnPart(t)
      BY <1>0, <1>1, PopOwn DEF CheckThrown, Inv, OwnThrowableCaught
    <2>3. Onward(t) /\ MainPart(t) /\ Slotted'
      <3>1. Onward(t)
        BY <1>0, Steady DEF CheckThrown
      <3>2. MainPart(t)
        BY <1>0, <1>1, MainPops DEF CheckThrown
      <3>3. Slotted'
        BY <1>0, <1>1, <2>1, PopUnwinding, <3>1, StillPending DEF CheckThrown
      <3> QED
        BY <3>1, <3>2, <3>3
    <2> QED
      BY <2>1, <2>2, <2>3, ThreadStep
  <1>2. CASE Become(t, "register")
    <2>1. TypeOK' /\ OthersStay(t) /\ Top(t)' = "register"
      BY <1>0, <1>2, MoveFacts, BecomeFacts DEF CheckThrown, TypeOK, OthersStay, Pcs
    <2>2. OwnPart(t)
      BY <1>0, <1>2, BecomeOwn DEF CheckThrown, Pcs, Inv, OwnThrowableCaught
    <2>3. Onward(t) /\ MainPart(t) /\ Slotted'
      <3>1. Onward(t)
        BY <1>0, Steady DEF CheckThrown
      <3>2. MainPart(t)
        BY <1>0, <1>2, MainBecomes DEF Pcs
      <3>3. Slotted'
        BY <1>0, <2>1, <3>1, StillPending DEF CheckThrown, Unwinding
      <3> QED
        BY <3>1, <3>2, <3>3
    <2> QED
      BY <2>1, <2>2, <2>3, ThreadStep
  <1> QED
    BY <1>1, <1>2 DEF CheckThrown

LEMMA RegisterKeepsInv ==
    ASSUME Inv, NEW t \in Threads, Register(t)
    PROVE  Inv'
  <1> USE DEF outside, FillSlot
  <1>0. /\ TypeOK /\ stack[t] # <<>> /\ Top(t) = "register" /\ Pop(t)
        /\ Unwinding(t) /\ result[t].kind = "thrown" /\ result[t].var # Null
    BY Throwing DEF Register, At, Inv
  <1>1. result[t].var \in Values /\ t \in Values
    BY <1>0, OnlyThrown DEF TypeOK, Values
  <1>2. TypeOK' /\ OthersStay(t)
    BY <1>0, <1>1, MoveFacts DEF Register, TypeOK, OthersStay
  <1>3. OwnPart(t)
    BY <1>0, PopOwn DEF Register, Inv, OwnThrowableCaught
  <1>4. Unwinding(t)' /\ result'[t].var = throwable'
    BY <1>0, PopUnwinding DEF Register
  <1>5. Onward(t) /\ MainPart(t) /\ Slotted'
    <2>1. Onward(t)
      BY <1>0, Steady DEF Register
    <2>2. MainPart(t)
      BY <1>0, MainPops DEF Register
    <2>3. Slotted'
      BY <1>0, <1>4, SlotFilled DEF Register
    <2> QED
      BY <2>1, <2>2, <2>3
  <1> QED
    BY <1>2, <1>3, <1>5, ThreadStep

-----------------------------------------------------------------------------
(* Below the first execution                                                 *)

\* What a thread that executes nothing has to keep.
LEMMA FreeOwn ==
    ASSUME Inv, NEW t \in Threads, stack[t] = <<>>,
           \/ /\ stack'[t] = <<>>
              /\ base'[t] \in {"idle", "thread"} => result'[t].kind = "none"
              /\ base'[t] = "retrieve" => result'[t].kind = "thrown"
           \/ /\ stack'[t] = <<"enter">> /\ result'[t].kind = "none"
              /\ base'[t] \notin {"idle", "thread", "retrieve"},
           result'[t].catchable => result'[t].var \in {t, Null}
    PROVE  OwnPart(t)
  <1>1. CASE stack'[t] = <<>>
    <2>1. StackShape(t)'
      BY <1>1 DEF StackShape
    <2> QED
      BY <1>1, <2>1 DEF OwnPart, ResultShape
  <1>2. CASE stack'[t] = <<"enter">>
    <2>1. Len(stack'[t]) = 1 /\ stack'[t][1] = "enter" /\ stack'[t] # <<>>
      BY <1>2
    <2>2. Top(t)' = "enter"
      BY <2>1 DEF Top
    <2>3. StackShape(t)'
      BY <2>1 DEF StackShape
    <2> QED
      BY <2>1, <2>2, <2>3 DEF OwnPart, ResultShape
  <1> QED
    BY <1>1, <1>2

\* The first execution of a call begins.
LEMMA BeginFacts ==
    ASSUME TypeOK, NEW t \in Threads, Begin(t)
    PROVE  /\ stack' \in [Threads -> Seq(Pcs)]
           /\ stack'[t] = <<"enter">>
           /\ \A u \in Threads \ {t} : stack'[u] = stack[u]
  <1>1. <<"enter">> \in Seq(Pcs)
    BY DEF Pcs
  <1> QED
    BY <1>1 DEF Begin, TypeOK

LEMMA ToFacts ==
    ASSUME TypeOK, NEW t \in Threads, NEW b \in Bases, To(t, b)
    PROVE  /\ base' \in [Threads -> Bases]
           /\ base'[t] = b
           /\ \A u \in Threads \ {t} : base'[u] = base[u]
  BY DEF To, TypeOK

LEMMA BaseCallsKeepsInv ==
    ASSUME Inv, NEW t \in Threads, BaseCalls(t)
    PROVE  Inv'
  <1> USE DEF slot
  <1>0. /\ TypeOK /\ stack[t] = <<>> /\ base[t] = "idle" /\ result[t].kind = "none"
        /\ Op(t) /\ To(t, "call") /\ Begin(t)
    BY DEF BaseCalls, Free, Inv, ResultShape
  <1>1. TypeOK' /\ OthersStay(t) /\ stack'[t] = <<"enter">> /\ base'[t] = "call"
    BY <1>0, BeginFacts, ToFacts, OpFacts DEF BaseCalls, TypeOK, OthersStay, Bases
  <1>2. OwnPart(t)
    BY <1>0, <1>1, FreeOwn DEF BaseCalls, Inv, OwnThrowableCaught
  <1>3. Onward(t) /\ MainPart(t) /\ Slotted'
    <2>1. Onward(t)
      BY <1>0, <1>1 DEF BaseCalls, Onward
    <2>2. MainPart(t)
      BY <1>1, MainBelow
    <2>3. Slotted'
      BY <1>0, <1>1, <2>1, StillPending DEF BaseCalls, Unwinding
    <2> QED
      BY <2>1, <2>2, <2>3
  <1> QED
    BY <1>1, <1>2, <1>3, ThreadStep

\* A step that only moves the C++ code below.
LEMMA BaseMoveKeepsInv ==
    ASSUME Inv, NEW t \in Threads, stack[t] = <<>>,
           NEW b \in Bases \ {"idle", "thread"}, To(t, b),
           b = "retrieve" => result[t].kind = "thrown",
           base[t] \notin {"name", "print"}, UNCHANGED <<slot, stack, result, got, process, dropped, ops>>
    PROVE  Inv'
  <1> USE DEF slot
  <1>0. TypeOK
    BY DEF Inv
  <1>1. TypeOK' /\ OthersStay(t) /\ base'[t] = b
    BY <1>0, ToFacts DEF TypeOK, OthersStay
  <1>2. OwnPart(t)
    BY <1>1, FreeOwn DEF Inv, OwnThrowableCaught
  <1>3. Onward(t) /\ MainPart(t) /\ Slotted'
    <2>1. Onward(t)
      BY <1>1 DEF Onward
    <2>2. MainPart(t)
      BY DEF MainPart, Inv, Registered, Top
    <2>3. Slotted'
      BY <1>1, <2>1, StillPending DEF Unwinding
    <2> QED
      BY <2>1, <2>2, <2>3
  <1> QED
    BY <1>1, <1>2, <1>3, ThreadStep

LEMMA RunReturnsKeepsInv ==
    ASSUME Inv, NEW t \in Threads, RunReturns(t)
    PROVE  Inv'
  BY BaseMoveKeepsInv DEF RunReturns, Free, Bases

LEMMA EntrypointChecksKeepsInv ==
    ASSUME Inv, NEW t \in Threads, EntrypointChecks(t)
    PROVE  Inv'
  BY BaseMoveKeepsInv DEF EntrypointChecks, Free, Bases

LEMMA EntrypointRegistersKeepsInv ==
    ASSUME Inv, NEW t \in Threads, EntrypointRegisters(t)
    PROVE  Inv'
  <1> USE DEF FillSlot
  <1>0. TypeOK /\ stack[t] = <<>> /\ To(t, "done")
    BY DEF EntrypointRegisters, Free, Inv
  <1>1. /\ result[t].var \in Values /\ t \in Values
        /\ result[t].kind # "thrown" => result[t].var = Null
    BY <1>0, OnlyThrown DEF TypeOK, Values
  <1>2. TypeOK' /\ OthersStay(t) /\ base'[t] = "done"
    BY <1>0, <1>1, ToFacts DEF EntrypointRegisters, TypeOK, OthersStay, Bases
  <1>3. OwnPart(t)
    BY <1>0, <1>2, FreeOwn DEF EntrypointRegisters, Inv, OwnThrowableCaught
  <1>4. throwable' = Null \/ (Unwinding(t)' /\ result'[t].var = throwable')
    BY <1>0, <1>1 DEF EntrypointRegisters, Unwinding
  <1>5. Onward(t) /\ MainPart(t) /\ Slotted'
    <2>1. Onward(t)
      BY <1>0, <1>2 DEF EntrypointRegisters, Free, Onward
    <2>2. MainPart(t)
      BY DEF EntrypointRegisters, MainPart
    <2>3. Slotted'
      BY <1>4, SlotFilled DEF EntrypointRegisters
    <2> QED
      BY <2>1, <2>2, <2>3
  <1> QED
    BY <1>2, <1>3, <1>5, ThreadStep

-----------------------------------------------------------------------------
(* The embedder                                                              *)

LEMMA EmbedderChecksKeepsInv ==
    ASSUME Inv, EmbedderChecks
    PROVE  Inv'
  <1> USE DEF slot
  <1>0. TypeOK /\ stack[Main] = <<>> /\ base[Main] = "call" /\ Main \in Threads
    BY ConstantsAssumption DEF EmbedderChecks, Free, Inv
  <1>1. CASE /\ result[Main].kind = "ok"
             /\ To(Main, "idle") /\ Gives(Main, None) /\ UNCHANGED process
    <2>1. TypeOK' /\ OthersStay(Main) /\ result'[Main] = None /\ base'[Main] = "idle"
      BY <1>0, <1>1, ToFacts, GivesFacts, ResultFacts
         DEF EmbedderChecks, TypeOK, OthersStay, Bases
    <2>2. OwnPart(Main)
      BY <1>0, <1>1, <2>1, FreeOwn, ResultFacts DEF EmbedderChecks
    <2>3. Onward(Main) /\ MainPart(Main) /\ Slotted'
      <3>1. Onward(Main)
        BY <1>0, <1>1, <2>1, ToFacts DEF EmbedderChecks, Onward, Bases
      <3>2. MainPart(Main)
        BY <1>0, <1>1, <2>1, MainBelow, ResultFacts DEF EmbedderChecks
      <3>3. Slotted'
        BY <1>0, <1>1, <2>1, <3>1, StillPending DEF EmbedderChecks, Unwinding
      <3> QED
        BY <3>1, <3>2, <3>3
    <2> QED
      BY <1>0, <2>1, <2>2, <2>3, ThreadStep
  <1>2. CASE process' = "exited" /\ UNCHANGED <<base, result>>
    BY <1>2, ProcessKeepsInv DEF EmbedderChecks
  <1>3. CASE /\ result[Main].kind = "thrown"
             /\ To(Main, "retrieve") /\ UNCHANGED <<result, process>>
    BY <1>0, <1>3, BaseMoveKeepsInv DEF EmbedderChecks, Bases
  <1> QED
    BY <1>1, <1>2, <1>3 DEF EmbedderChecks

LEMMA RetrieveThrownThrowableKeepsInv ==
    ASSUME Inv, RetrieveThrownThrowable
    PROVE  Inv'
  <1>0. /\ TypeOK /\ stack[Main] = <<>> /\ Main \in Threads
        /\ To(Main, "thread") /\ Gives(Main, None)
    BY ConstantsAssumption DEF RetrieveThrownThrowable, Free, Inv
  <1>1. TypeOK' /\ OthersStay(Main) /\ result'[Main] = None /\ base'[Main] = "thread"
    BY <1>0, ToFacts, GivesFacts, ResultFacts
       DEF RetrieveThrownThrowable, TypeOK, OthersStay, Bases, Values
  <1>2. OwnPart(Main)
    BY <1>0, <1>1, FreeOwn, ResultFacts DEF RetrieveThrownThrowable
  <1>3. Onward(Main) /\ MainPart(Main) /\ Slotted'
    <2>1. Onward(Main)
      BY <1>0, ToFacts DEF RetrieveThrownThrowable, Free, Onward, Bases
    <2>2. MainPart(Main)
      BY <1>0, <1>1, MainBelow, ResultFacts DEF RetrieveThrownThrowable
    <2>3. Slotted'
      BY DEF RetrieveThrownThrowable, Slotted, SlotIsPending, SlotHasThrower
    <2> QED
      BY <2>1, <2>2, <2>3
  <1> QED
    BY <1>0, <1>1, <1>2, <1>3, ThreadStep

LEMMA RetrieveThrownThreadKeepsInv ==
    ASSUME Inv, RetrieveThrownThread
    PROVE  Inv'
  <1>0. TypeOK /\ stack[Main] = <<>> /\ result[Main].kind = "none" /\ Main \in Threads
    BY ConstantsAssumption DEF RetrieveThrownThread, Free, Inv, ResultShape
  <1>1. CASE thrower = Null /\ process' = "crashed" /\ UNCHANGED <<stack, base>>
    BY <1>1, ProcessKeepsInv DEF RetrieveThrownThread
  <1>2. CASE thrower # Null /\ Begin(Main) /\ To(Main, "name") /\ UNCHANGED process
    <2>1. /\ TypeOK' /\ OthersStay(Main)
          /\ stack'[Main] = <<"enter">> /\ base'[Main] = "name"
      BY <1>0, <1>2, BeginFacts, ToFacts
         DEF RetrieveThrownThread, TypeOK, OthersStay, Bases, Values
    <2>2. OwnPart(Main)
      BY <1>0, <2>1, FreeOwn DEF RetrieveThrownThread, Inv, OwnThrowableCaught
    <2>3. Onward(Main) /\ MainPart(Main) /\ Slotted'
      <3>1. Onward(Main)
        BY <2>1 DEF RetrieveThrownThread, Onward
      <3>2. MainPart(Main)
        BY <1>0, <2>1, MainBelow
      <3>3. SlotIsPending'
        BY <1>0, <2>1, <3>1, PendingStays DEF RetrieveThrownThread, Unwinding
      <3>4. ASSUME throwable # Null, dropped = {}
            PROVE  \E u \in Threads \ {Main} : base[u] # "idle"
        <4>1. thrower \in Threads /\ Unwinding(thrower)
          BY <1>2, <3>4 DEF Inv, SlotHasThrower, TypeOK, Values
        <4>2. thrower # Main
          BY <1>0, <4>1 DEF Unwinding
        <4> QED
          BY <4>1, <4>2 DEF Inv, ResultShape, Unwinding
      <3>5. SlotHasThrower'
        BY <2>1, <3>4 DEF RetrieveThrownThread, SlotHasThrower, OthersStay
      <3> QED
        BY <3>1, <3>2, <3>3, <3>5 DEF Slotted
    <2> QED
      BY <1>0, <2>1, <2>2, <2>3, ThreadStep
  <1> QED
    BY <1>1, <1>2 DEF RetrieveThrownThread

LEMMA PrintStackTraceKeepsInv ==
    ASSUME Inv, PrintStackTrace
    PROVE  Inv'
  <1> USE DEF slot
  <1>0. /\ TypeOK /\ stack[Main] = <<>> /\ base[Main] = "name" /\ Main \in Threads
        /\ Gives(Main, None) /\ Drop(Main)
    BY ConstantsAssumption DEF PrintStackTrace, Free, Inv
  <1>1. result'[Main] = None /\ result' \in [Threads -> Result]
        /\ \A u \in Threads \ {Main} : result'[u] = result[u]
    BY <1>0, GivesFacts, ResultFacts
  <1>2. /\ dropped \subseteq dropped' /\ dropped' \subseteq Threads
        /\ Unwinding(Main) => result[Main].var \in dropped'
    BY <1>0, DropFacts
  <1>3. CASE process' = "crashed" /\ UNCHANGED <<stack, base>>
    <2>1. TypeOK' /\ OthersStay(Main)
      BY <1>0, <1>1, <1>2, <1>3 DEF PrintStackTrace, TypeOK, OthersStay
    <2>2. OwnPart(Main)
      BY <1>0, <1>1, <1>3, FreeOwn, ResultFacts
    <2>3. Onward(Main) /\ MainPart(Main)
      BY <1>0, <1>1, <1>2, <1>3, MainBelow, ResultFacts DEF Onward
    <2>4. Slotted'
      BY <1>0, <1>2, <2>1, <2>3, StillPending DEF PrintStackTrace
    <2> QED
      BY <1>0, <2>1, <2>2, <2>3, <2>4, ThreadStep
  <1>4. CASE Begin(Main) /\ To(Main, "print") /\ UNCHANGED process
    <2>1. /\ TypeOK' /\ OthersStay(Main)
          /\ stack'[Main] = <<"enter">> /\ base'[Main] = "print"
      BY <1>0, <1>1, <1>2, <1>4, BeginFacts, ToFacts
         DEF PrintStackTrace, TypeOK, OthersStay, Bases
    <2>2. OwnPart(Main)
      BY <1>0, <1>1, <2>1, FreeOwn, ResultFacts
    <2>3. Onward(Main) /\ MainPart(Main)
      BY <1>0, <1>2, <2>1, MainBelow DEF Onward
    <2>4. Slotted'
      BY <1>0, <1>2, <2>1, <2>3, StillPending DEF PrintStackTrace
    <2> QED
      BY <1>0, <2>1, <2>2, <2>3, <2>4, ThreadStep
  <1> QED
    BY <1>3, <1>4 DEF PrintStackTrace

LEMMA ExitKeepsInv ==
    ASSUME Inv, Exit
    PROVE  Inv'
  BY ProcessKeepsInv DEF Exit, slot

-----------------------------------------------------------------------------
(* All steps together                                                        *)

LEMMA InitInv == Init => Inv
  <1> SUFFICES ASSUME Init
               PROVE  Inv
    OBVIOUS
  <1>1. <<>> \in Seq(Pcs) /\ Len(<<>>) = 0
    OBVIOUS
  <1>2. TypeOK
    BY <1>1, ConstantsAssumption, ResultFacts DEF Init, TypeOK, Values, Bases
  <1>3. ASSUME NEW t \in Threads
        PROVE  StackShape(t) /\ ResultShape(t)
    BY <1>1, ResultFacts DEF Init, StackShape, ResultShape
  <1>4. OwnThrowableCaught /\ SlotIsPending /\ SlotHasThrower /\ Registered
    BY ConstantsAssumption, ResultFacts
       DEF Init, OwnThrowableCaught, SlotIsPending, SlotHasThrower, Registered
  <1> QED
    BY <1>2, <1>3, <1>4 DEF Inv

LEMMA StutterKeepsInv ==
    ASSUME Inv, UNCHANGED vars
    PROVE  Inv'
  BY ProcessKeepsInv DEF vars, Inv, TypeOK

LEMMA NextKeepsInv ==
    ASSUME Inv, [Next]_vars
    PROVE  Inv'
  <1>1. ASSUME NEW t \in Threads, Execute(t)
        PROVE  Inv'
    BY <1>1, EnterKeepsInv, ConstructKeepsInv, ThrowAlreadyThrownKeepsInv, CallKeepsInv,
       CallReturnsKeepsInv, DropReturnsKeepsInv, ThrowKeepsInv, ThrowCreatedKeepsInv,
       AthrowKeepsInv, LeaveKeepsInv, NullThrownKeepsInv, HandlerKeepsInv,
       NoHandlerKeepsInv, CheckThrownKeepsInv, RegisterKeepsInv DEF Execute
  <1>2. ASSUME NEW t \in Threads,
               \/ BaseCalls(t) \/ RunReturns(t)
               \/ EntrypointChecks(t) \/ EntrypointRegisters(t)
        PROVE  Inv'
    BY <1>2, BaseCallsKeepsInv, RunReturnsKeepsInv, EntrypointChecksKeepsInv,
       EntrypointRegistersKeepsInv
  <1>3. CASE Embedder
    BY <1>3, EmbedderChecksKeepsInv, RetrieveThrownThrowableKeepsInv,
       RetrieveThrownThreadKeepsInv, PrintStackTraceKeepsInv, ExitKeepsInv DEF Embedder
  <1> QED
    BY <1>1, <1>2, <1>3, StutterKeepsInv DEF Next

\* The inductive invariant of ThrownState (DoExecuteCode and the thrown slot of
\* vm_Thread.cpp) holds in every reachable state.
THEOREM InvHolds == Spec => []Inv
  BY InitInv, NextKeepsInv, PTL DEF Spec

\* Whatever threads throw, catch, pick up from the slot and retrieve, a handler
\* only ever gets a throwable that its own thread has thrown.
THEOREM OwnThrowableCaughtHolds == Spec => []OwnThrowableCaught
  <1>1. Inv => OwnThrowableCaught
    BY DEF Inv
  <1> QED
    BY <1>1, InvHolds, PTL

\* A throwable in the slot is one that some thread is unwound by or ended by, or
\* one whose result was ignored: no throw is left behind after it was dealt with.
THEOREM SlotIsPendingHolds == Spec => []SlotIsPending
  <1>1. Inv => SlotIsPending
    BY DEF Inv
  <1> QED
    BY <1>1, InvHolds, PTL

\* While one thread alone has run, a full slot means that it is being unwound by
\* the throwable there: DoExecuteCode starts, and goes on with, nothing.
THEOREM QuietWhileThrownHolds == Spec => []QuietWhileThrown
  <1>1. ASSUME Inv, NEW t \in Threads, Alone(t), throwable # Null
        PROVE  /\ Unwinding(t) /\ result[t].var = throwable /\ thrower = t
               /\ stack[t] # <<>> => Top(t) \notin {"enter", "run"}
    BY <1>1, SlotIsOwn, Quiet
  <1>2. Inv => QuietWhileThrown
    BY <1>1 DEF QuietWhileThrown
  <1> QED
    BY <1>2, InvHolds, PTL

\* While only the embedder's thread has run, what CheckHandleException retrieves
\* after a failed call is the throwable of that call, and its thread.
THEOREM EmbedderFindsThrowHolds == Spec => []EmbedderFindsThrow
  <1>1. ASSUME Inv, Alone(Main), Free(Main, "retrieve")
        PROVE  throwable = result[Main].var /\ throwable # Null /\ thrower = Main
    <2>1. Main \in Threads /\ Registered /\ stack[Main] = <<>>
      BY <1>1, ConstantsAssumption DEF Inv, Free
    <2>2. result[Main].kind = "thrown"
      BY <1>1, <2>1 DEF Inv, ResultShape, Free
    <2>3. throwable # Null
      BY <2>1, <2>2 DEF Registered
    <2> QED
      BY <1>1, <2>1, <2>3, SlotIsOwn
  <1>2. Inv => EmbedderFindsThrow
    BY <1>1 DEF EmbedderFindsThrow
  <1> QED
    BY <1>2, InvHolds, PTL

=============================================================================

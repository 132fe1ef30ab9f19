--------------------------- MODULE ClassInitProofs ---------------------------
(***************************************************************************)
(* Proofs about ClassInit, for any classes, any hierarchy and any number of *)
(* threads.  Inv is inductive, and with it OncePerThread and SuperFirst.   *)
(* Then what becomes of a claim, that is, of the setting of                *)
(* static_block_called: with ClaimInv it follows that the Ensure which     *)
(* CallClassMethod begins with never fails, that a claimed class with a    *)
(* <clinit> is initialised, about to be, or was refused, and that a claim  *)
(* is the end of the race; CauseInv says who can have filled the slot when *)
(* one is refused, and FailInv counts failures.                            *)
(***************************************************************************)
EXTENDS ClassInit, SequenceTheorems, TLAPS

-----------------------------------------------------------------------------
(* What the three moves of an activation do to the stacks.                   *)

\* The stack without its top activation.
LEMMA BelowFacts ==
    ASSUME TypeOK, NEW t \in Threads, stack[t] # <<>>
    PROVE  /\ Below(t) \in Seq(Frame)
           /\ Len(Below(t)) = Len(stack[t]) - 1
           /\ Len(stack[t]) \in Nat \ {0}
           /\ \A i \in 1..(Len(stack[t]) - 1) : Below(t)[i] = stack[t][i]
  <1> DEFINE s == stack[t]
  <1>1. s \in Seq(Frame) /\ s # <<>>
    BY DEF TypeOK
  <1>2. Len(s) \in Nat \ {0}
    BY <1>1
  <1> HIDE DEF s
  <1>4. /\ SubSeq(s, 1, Len(s) - 1) \in Seq(Frame)
        /\ Len(SubSeq(s, 1, Len(s) - 1)) = Len(s) - 1
        /\ \A i \in 1..(Len(s) - 1) : SubSeq(s, 1, Len(s) - 1)[i] = s[i]
    <2>1. \A i \in 1..(Len(s) - 1) : s[i] \in Frame
      BY <1>1, <1>2
    <2>2. SubSeq(s, 1, Len(s) - 1) \in Seq(Frame)
      BY <1>2, <2>1, SubSeqProperties
    <2> DEFINE b == SubSeq(s, 1, Len(s) - 1)
               n == Len(s) - 1
    <2>3. Len(b) = IF 1 <= n THEN n - 1 + 1 ELSE 0
      BY <1>2, <2>1, SubSeqProperties
    <2>4. \A i \in 1..(n - 1 + 1) : b[i] = s[1 + i - 1]
      BY <1>2, <2>1, SubSeqProperties
    <2> HIDE DEF b
    <2>5. n \in Nat /\ n - 1 + 1 = n
      BY <1>2
    <2> HIDE DEF n
    <2>6. Len(b) = n
      BY <2>3, <2>5
    <2>7. ASSUME NEW i \in 1..n
          PROVE  b[i] = s[i]
      <3>1. 1 + i - 1 = i
        BY <2>5
      <3> QED
        BY <2>4, <2>5, <3>1
    <2> QED
      BY <2>2, <2>6, <2>7 DEF b, n
  <1> QED
    BY <1>2, <1>4 DEF Below, s

\* The top activation is replaced; nothing else changes.
LEMMA GotoFacts ==
    ASSUME TypeOK, NEW t \in Threads, stack[t] # <<>>, NEW f \in Frame, Goto(t, f)
    PROVE  /\ stack' \in [Threads -> Seq(Frame)]
           /\ Len(stack'[t]) = Len(stack[t])
           /\ \A i \in 1..(Len(stack[t]) - 1) : stack'[t][i] = stack[t][i]
           /\ stack'[t][Len(stack[t])] = f
           /\ \A u \in Threads \ {t} : stack'[u] = stack[u]
  <1> DEFINE b == Below(t)
             s == Append(b, f)
  <1>1. /\ b \in Seq(Frame)
        /\ Len(b) = Len(stack[t]) - 1
        /\ Len(stack[t]) \in Nat \ {0}
        /\ \A i \in 1..(Len(stack[t]) - 1) : b[i] = stack[t][i]
    BY BelowFacts
  <1>2. stack' = [stack EXCEPT ![t] = s]
    BY DEF Goto
  <1> HIDE DEF b
  <1>3. /\ s \in Seq(Frame)
        /\ Len(s) = Len(b) + 1
        /\ \A i \in 1..Len(b) : s[i] = b[i]
        /\ s[Len(b) + 1] = f
    BY <1>1
  <1> HIDE DEF s
  <1>4. stack'[t] = s /\ \A u \in Threads \ {t} : stack'[u] = stack[u]
    BY <1>2 DEF TypeOK
  <1>5. stack' \in [Threads -> Seq(Frame)]
    BY <1>2, <1>3 DEF TypeOK
  <1> QED
    BY <1>1, <1>3, <1>4, <1>5

\* The top activation is replaced and a fresh one for class c put on it.
LEMMA CallEnsureFacts ==
    ASSUME TypeOK, NEW t \in Threads, stack[t] # <<>>, NEW f \in Frame,
           NEW c \in Classes, CallEnsure(t, f, c)
    PROVE  /\ stack' \in [Threads -> Seq(Frame)]
           /\ Len(stack'[t]) = Len(stack[t]) + 1
           /\ \A i \in 1..(Len(stack[t]) - 1) : stack'[t][i] = stack[t][i]
           /\ stack'[t][Len(stack[t])] = f
           /\ stack'[t][Len(stack[t]) + 1] = Activation(c)
           /\ \A u \in Threads \ {t} : stack'[u] = stack[u]
  <1> DEFINE b == Below(t)
             g == Activation(c)
             s == Append(Append(b, f), g)
  <1>1. /\ b \in Seq(Frame)
        /\ Len(b) = Len(stack[t]) - 1
        /\ Len(stack[t]) \in Nat \ {0}
        /\ \A i \in 1..(Len(stack[t]) - 1) : b[i] = stack[t][i]
    BY BelowFacts
  <1>2. stack' = [stack EXCEPT ![t] = s]
    BY DEF CallEnsure
  <1>3. g \in Frame
    BY DEF Activation, Frame, PCs
  <1> HIDE DEF b, g
  <1>4. /\ s \in Seq(Frame)
        /\ Len(s) = Len(b) + 2
        /\ \A i \in 1..Len(b) : s[i] = b[i]
        /\ s[Len(b) + 1] = f
        /\ s[Len(b) + 2] = g
    BY <1>1, <1>3
  <1> HIDE DEF s
  <1>5. stack'[t] = s /\ \A u \in Threads \ {t} : stack'[u] = stack[u]
    BY <1>2 DEF TypeOK
  <1>6. stack' \in [Threads -> Seq(Frame)]
    BY <1>2, <1>4 DEF TypeOK
  <1> QED
    BY <1>1, <1>4, <1>5, <1>6 DEF g

\* The top activation is dropped.
LEMMA ReturnFacts ==
    ASSUME TypeOK, NEW t \in Threads, stack[t] # <<>>, NEW r \in Results, Return(t, r)
    PROVE  /\ stack' \in [Threads -> Seq(Frame)]
           /\ Len(stack'[t]) = Len(stack[t]) - 1
           /\ \A i \in 1..(Len(stack[t]) - 1) : stack'[t][i] = stack[t][i]
           /\ \A u \in Threads \ {t} : stack'[u] = stack[u]
           /\ ret' \in [Threads -> Results]
           /\ ret'[t] = r
           /\ \A u \in Threads \ {t} : ret'[u] = ret[u]
  <1> DEFINE b == Below(t)
  <1>1. /\ b \in Seq(Frame)
        /\ Len(b) = Len(stack[t]) - 1
        /\ Len(stack[t]) \in Nat \ {0}
        /\ \A i \in 1..(Len(stack[t]) - 1) : b[i] = stack[t][i]
    BY BelowFacts
  <1>2. stack' = [stack EXCEPT ![t] = b] /\ ret' = [ret EXCEPT ![t] = r]
    BY DEF Return
  <1> HIDE DEF b
  <1> QED
    BY <1>1, <1>2 DEF TypeOK

\* The top activation of a non-empty stack is a frame.
LEMMA TopFacts ==
    ASSUME TypeOK, NEW t \in Threads, stack[t] # <<>>
    PROVE  /\ Len(stack[t]) \in Nat \ {0}
           /\ Top(t) \in Frame
           /\ Top(t) = stack[t][Len(stack[t])]
           /\ Top(t).cls \in Classes
           /\ \A i \in 1..Len(stack[t]) : stack[t][i] \in Frame
  <1>1. stack[t] \in Seq(Frame) /\ stack[t] # <<>>
    BY DEF TypeOK
  <1>2. /\ Len(stack[t]) \in Nat \ {0}
        /\ \A i \in 1..Len(stack[t]) : stack[t][i] \in Frame
    BY <1>1
  <1> QED
    BY <1>2 DEF Top, Frame

\* Every activation is a frame.
LEMMA FrameFacts ==
    ASSUME TypeOK, NEW t \in Threads
    PROVE  /\ Len(stack[t]) \in Nat
           /\ \A i \in 1..Len(stack[t]) :
                 /\ stack[t][i] \in Frame
                 /\ stack[t][i].cls \in Classes
                 /\ stack[t][i].pc \in PCs
  <1>1. stack[t] \in Seq(Frame)
    BY DEF TypeOK
  <1>2. /\ Len(stack[t]) \in Nat
        /\ \A i \in 1..Len(stack[t]) : stack[t][i] \in Frame
    BY <1>1
  <1> QED
    BY <1>2 DEF Frame

-----------------------------------------------------------------------------
(* Steps of one thread leave the others' invariant alone: flags only get     *)
(* set, initialisers only get switched off and refusals are not forgotten.   *)

Monotone ==
    /\ called' \in [Classes -> BOOLEAN]
    /\ enabled' \in [Classes -> BOOLEAN]
    /\ \A c \in Classes : (called[c] => called'[c]) /\ (enabled'[c] => enabled[c])
    /\ \A u \in Threads : skipped[u] \subseteq skipped'[u]

SettledAfter(c) ==  \* SuperSettled(c) in the next state
    Super[c] = NoClass \/ called'[Super[c]] \/ ~enabled'[Super[c]]

\* What is settled stays settled.
LEMMA SettledStays ==
    ASSUME ConstantsAssumption, Monotone, NEW c \in Classes, SuperSettled(c)
    PROVE  SettledAfter(c)
  BY DEF ConstantsAssumption, Monotone, SuperSettled, Settled, SettledAfter

\* A thread whose stack, result and history are unchanged keeps its invariant.
LEMMA OthersKeepInv ==
    ASSUME Inv, Monotone, NEW u \in Threads,
           stack'[u] = stack[u], ret'[u] = ret[u], runs'[u] = runs[u]
    PROVE  ThreadInv(u)'
  <1>1. ThreadInv(u) /\ TypeOK
    BY DEF Inv
  <1>2. Frames(u)' = Frames(u)
    BY DEF Frames
  <1>3. \A i \in Frames(u) : stack[u][i] \in Frame /\ stack[u][i].cls \in Classes
    BY <1>1, FrameFacts DEF Frames
  <1>4. stack[u] # <<>> => Top(u) \in Frame /\ Top(u).cls \in Classes
    BY <1>1, TopFacts
  <1>5. StackShape(u)'
    BY <1>1, <1>2 DEF ThreadInv, StackShape, Top
  <1>6. ClaimedFirst(u)'
    BY <1>1, <1>2, <1>3 DEF ThreadInv, ClaimedFirst, Monotone
  <1>7. OneClaim(u)' /\ RunsOnce(u)'
    BY <1>1, <1>2 DEF ThreadInv, OneClaim, RunsOnce
  <1>8. SuperChain(u)'
    BY <1>1, <1>2, <1>3, <1>4, ConstantsAssumption, SettledStays
    DEF ThreadInv, SuperChain, Returned, Top, SuperSettled, Settled, SettledAfter
  <1> QED
    BY <1>5, <1>6, <1>7, <1>8 DEF ThreadInv

-----------------------------------------------------------------------------
(* What each move of the top activation needs to keep its thread's invariant *)

\* A call of Ensure(c): the activation that makes it waits as f.
LEMMA CallKeepsInv ==
    ASSUME Inv, Monotone, NEW t \in Threads, stack[t] # <<>>,
           NEW f \in Frame, NEW c \in Classes, CallEnsure(t, f, c),
           ret[t] = "none", ret' = ret, runs'[t] = runs[t],
           f.cls = Top(t).cls,
           f.pc \in Awaiting,
           f.pc = "super" => Super[f.cls] = c,
           f.pc # "super" => called'[f.cls] /\ SuperSettled(f.cls),
           f.pc = "nested" => Top(t).pc = "set"
    PROVE  ThreadInv(t)'
  <1> DEFINE n == Len(stack[t])
  <1>1. /\ TypeOK /\ ThreadInv(t)
        /\ n \in Nat \ {0} /\ Top(t) = stack[t][n]
        /\ \A i \in 1..n : stack[t][i].cls \in Classes
    BY TopFacts, FrameFacts DEF Inv
  <1>2. /\ Len(stack'[t]) = n + 1
        /\ \A i \in 1..(n - 1) : stack'[t][i] = stack[t][i]
        /\ stack'[t][n] = f
        /\ stack'[t][n + 1] = Activation(c)
    BY <1>1, CallEnsureFacts
  <1>3. Activation(c).pc = "enter" /\ Activation(c).cls = c
    BY DEF Activation
  <1>4. /\ Frames(t) = 1..n /\ Frames(t)' = 1..(n + 1)
        /\ \A i \in 1..(n + 1) : i \in 1..(n - 1) \/ i = n \/ i = n + 1
        /\ \A i \in 1..(n - 1) : i \in 1..n /\ i < n /\ i # n /\ i + 1 \in 1..n
        /\ n \in 1..n
        /\ ~(n + 1 < n + 1)
    BY <1>1, <1>2 DEF Frames
  <1>5. Top(t)' = Activation(c) /\ stack'[t] # <<>>
    BY <1>1, <1>2 DEF Top
  <1>6. StackShape(t)'
    <2>1. \A i \in 1..(n + 1) : i < n + 1 => stack'[t][i].pc \in Awaiting
      BY <1>1, <1>2, <1>4 DEF ThreadInv, StackShape
    <2> QED
      BY <2>1, <1>2, <1>3, <1>4, <1>5 DEF StackShape, Awaiting
  <1>7. ClaimedFirst(t)'
    <2>1. \A i \in 1..(n + 1) : stack'[t][i].pc \in {"nested", "body", "touch", "threw"} =>
                                   called'[stack'[t][i].cls]
      BY <1>1, <1>2, <1>3, <1>4 DEF ThreadInv, ClaimedFirst, Monotone, Awaiting
    <2> QED
      BY <1>1, <1>4, <2>1 DEF ThreadInv, ClaimedFirst, Monotone
  <1>8. OneClaim(t)'
    <2> SUFFICES ASSUME NEW i \in 1..(n + 1), stack'[t][i].pc \in {"set", "nested"}
                 PROVE  /\ runs[t][stack'[t][i].cls] = 0
                        /\ \A j \in 1..(n + 1) :
                              j # i /\ stack'[t][j].pc = "nested" =>
                                 stack'[t][j].cls # stack'[t][i].cls
      BY <1>4 DEF OneClaim
    <2>1. i \in 1..n /\ stack[t][i].pc \in {"set", "nested"} /\ stack'[t][i].cls = stack[t][i].cls
      <3>1. CASE i \in 1..(n - 1)
        BY <1>2, <1>4, <3>1
      <3>2. CASE i = n
        <4>1. f.pc = "nested" /\ stack'[t][i] = f
          BY <1>2, <3>2 DEF Awaiting
        <4> QED
          BY <1>1, <1>4, <3>2, <4>1
      <3>3. CASE i = n + 1
        BY <1>2, <1>3, <3>3
      <3> QED
        BY <1>4, <3>1, <3>2, <3>3
    <2>2. ASSUME NEW j \in 1..(n + 1), j # i, stack'[t][j].pc = "nested"
          PROVE  stack'[t][j].cls # stack'[t][i].cls
      <3>1. CASE j \in 1..(n - 1)
        <4>1. j \in 1..n /\ stack[t][j] = stack'[t][j]
          BY <1>2, <1>4, <3>1
        <4>2. stack[t][j].cls # stack[t][i].cls
          <5>1. OneClaim(t)
            BY <1>1 DEF ThreadInv
          <5>2. j # i /\ stack[t][j].pc = "nested" /\ stack[t][i].pc \in {"set", "nested"}
            BY <2>1, <2>2, <4>1
          <5>3. i \in Frames(t) /\ j \in Frames(t)
            BY <1>4, <2>1, <4>1
          <5> QED
            BY <5>1, <5>2, <5>3, Zenon DEF OneClaim
        <4> QED
          BY <2>1, <4>1, <4>2
      <3>2. CASE j = n
        <4>1. stack[t][n].pc = "set" /\ stack[t][n].cls = f.cls /\ i \in 1..(n - 1)
          BY <1>1, <1>2, <1>3, <1>4, <2>1, <2>2, <3>2
        <4>2. stack[t][i].pc = "nested"
          BY <1>1, <1>4, <2>1, <4>1 DEF ThreadInv, StackShape, Awaiting
        <4>3. stack[t][i].cls # stack[t][n].cls
          BY <1>1, <1>4, <2>1, <4>1, <4>2 DEF ThreadInv, OneClaim
        <4> QED
          BY <1>2, <2>1, <3>2, <4>1, <4>3
      <3>3. CASE j = n + 1
        BY <1>2, <1>3, <2>2, <3>3
      <3> QED
        BY <1>4, <3>1, <3>2, <3>3
    <2> QED
      BY <1>1, <1>4, <2>1, <2>2 DEF ThreadInv, OneClaim
  <1>9. RunsOnce(t)'
    BY <1>1 DEF ThreadInv, RunsOnce
  <1>10. SuperChain(t)'
    <2>1. ASSUME NEW i \in 1..(n + 1)
          PROVE  /\ stack'[t][i].cls \in Classes
                 /\ stack'[t][i].pc \notin {"enter", "super"} => SettledAfter(stack'[t][i].cls)
                 /\ stack'[t][i].pc = "super" => Super[stack'[t][i].cls] # NoClass
      <3>1. CASE i \in 1..(n - 1)
        <4>1. /\ stack'[t][i] = stack[t][i] /\ stack[t][i].cls \in Classes
              /\ stack[t][i].pc \notin {"enter", "super"} => SuperSettled(stack[t][i].cls)
              /\ stack[t][i].pc = "super" => Super[stack[t][i].cls] # NoClass
          BY <1>1, <1>2, <1>4, <3>1 DEF ThreadInv, SuperChain
        <4>2. SuperSettled(stack[t][i].cls) => SettledAfter(stack[t][i].cls)
          BY <4>1, SettledStays, ConstantsAssumption
        <4> QED
          BY <4>1, <4>2 DEF SettledAfter
      <3>2. CASE i = n
        <4>1. stack'[t][i] = f /\ f.cls \in Classes
          BY <1>1, <1>2, <3>2
        <4>2. f.pc # "super" => SettledAfter(f.cls)
          BY <4>1, SettledStays, ConstantsAssumption
        <4> QED
          BY <4>1, <4>2, ConstantsAssumption DEF SettledAfter, ConstantsAssumption
      <3>3. CASE i = n + 1
        BY <1>2, <1>3, <3>3
      <3> QED
        BY <1>4, <3>1, <3>2, <3>3
    <2>3. \A i \in 1..(n + 1) : i < n + 1 /\ stack'[t][i].pc = "super" =>
              stack'[t][i + 1].cls = Super[stack'[t][i].cls]
      <3> SUFFICES ASSUME NEW i \in 1..(n + 1), i < n + 1, stack'[t][i].pc = "super"
                   PROVE  stack'[t][i + 1].cls = Super[stack'[t][i].cls]
        OBVIOUS
      <3>1. CASE i = n
        BY <1>2, <1>3, <3>1
      <3>2. CASE i \in 1..(n - 1)
        <4>1. stack[t][i + 1].cls = Super[stack[t][i].cls]
          <5>1. SuperChain(t)
            BY <1>1 DEF ThreadInv
          <5>2. i \in Frames(t) /\ i < Len(stack[t]) /\ stack[t][i].pc = "super"
            BY <1>2, <1>4, <3>2
          <5> QED
            BY <5>1, <5>2, Zenon DEF SuperChain
        <4>2. i + 1 \in 1..(n - 1) \/ i + 1 = n
          BY <1>1, <3>2
        <4>3. stack'[t][i + 1].cls = stack[t][i + 1].cls
          BY <1>1, <1>2, <4>2
        <4> QED
          BY <1>2, <3>2, <4>1, <4>3
      <3> QED
        BY <1>4, <3>1, <3>2
    <2>4. ~Returned(t, "super")'
      BY <1>3, <1>5 DEF Returned
    <2>5. \A d \in Classes : runs'[t][d] > 0 => SettledAfter(d)
      BY <1>1, SettledStays, ConstantsAssumption DEF ThreadInv, SuperChain
    <2> QED
      BY <1>2, <1>4, <2>1, <2>3, <2>4, <2>5
      DEF SuperChain, SuperSettled, Settled, SettledAfter
  <1> QED
    BY <1>6, <1>7, <1>8, <1>9, <1>10 DEF ThreadInv

\* The top activation goes on as f, with the control or a failure of its own.
\* Only the step that starts the <clinit> it had claimed changes the history.
LEMMA GotoKeepsInv ==
    ASSUME Inv, Monotone, NEW t \in Threads, stack[t] # <<>>,
           NEW f \in Frame, Goto(t, f), ret'[t] = "none" <=> f.pc # "threw",
           f.cls = Top(t).cls,
           f.pc \in {"check", "set", "body", "threw"},
           SuperSettled(f.cls),
           f.pc = "set" => ~called[f.cls],
           f.pc \in {"body", "threw"} => called[f.cls],
           runs' \in [Threads -> [Classes -> Nat]],
           \/ runs'[t] = runs[t]
           \/ /\ Top(t).pc = "nested" /\ f.pc = "body"
              /\ runs'[t] = [runs[t] EXCEPT ![f.cls] = @ + 1]
    PROVE  ThreadInv(t)'
  <1> DEFINE n == Len(stack[t])
  <1>1. /\ TypeOK /\ ThreadInv(t)
        /\ n \in Nat \ {0} /\ Top(t) = stack[t][n]
        /\ \A i \in 1..n : stack[t][i].cls \in Classes
    BY TopFacts, FrameFacts DEF Inv
  <1>2. /\ Len(stack'[t]) = n
        /\ \A i \in 1..(n - 1) : stack'[t][i] = stack[t][i]
        /\ stack'[t][n] = f
    BY <1>1, GotoFacts
  <1>3. /\ Frames(t) = 1..n /\ Frames(t)' = 1..n
        /\ \A i \in 1..n : i \in 1..(n - 1) \/ i = n
        /\ \A i \in 1..(n - 1) : i \in 1..n /\ i < n /\ i # n /\ i + 1 \in 1..n
        /\ n \in 1..n /\ ~(n < n)
        /\ f.cls \in Classes /\ f.cls = stack[t][n].cls
    BY <1>1, <1>2 DEF Frames
  <1>4. Top(t)' = f /\ stack'[t] # <<>>
    BY <1>1, <1>2 DEF Top
  <1>5. \A i \in 1..(n - 1) : stack'[t][i].pc \in Awaiting
    BY <1>1, <1>2, <1>3 DEF ThreadInv, StackShape
  <1>6. /\ \A d \in Classes : d # f.cls => runs'[t][d] = runs[t][d]
        /\ runs'[t][f.cls] = runs[t][f.cls] \/
              (Top(t).pc = "nested" /\ f.pc = "body" /\ runs'[t][f.cls] = runs[t][f.cls] + 1)
        /\ runs[t] \in [Classes -> Nat]
    BY <1>1, <1>3, SMTT(20) DEF TypeOK
  <1>7. f.pc = "set" => /\ \A i \in 1..(n - 1) : stack[t][i].pc = "nested" => stack[t][i].cls # f.cls
                        /\ runs[t][f.cls] = 0
    <2>1. f.pc = "set" => \A i \in 1..(n - 1) : stack[t][i].pc = "nested" => stack[t][i].cls # f.cls
      BY <1>1, <1>3 DEF ThreadInv, ClaimedFirst
    <2>2. f.pc = "set" => ~(runs[t][f.cls] > 0)
      BY <1>1, <1>3 DEF ThreadInv, ClaimedFirst
    <2>3. runs[t][f.cls] \in Nat
      BY <1>3, <1>6, Zenon
    <2>4. f.pc = "set" => runs[t][f.cls] = 0
      BY <2>2, <2>3
    <2> QED
      BY <2>1, <2>4
  <1>8. Top(t).pc = "nested" =>
           /\ \A i \in 1..(n - 1) : stack[t][i].pc = "nested" => stack[t][i].cls # f.cls
           /\ runs[t][f.cls] = 0
    <2>1. \A i \in 1..n : stack[t][i].pc = "nested" =>
             /\ runs[t][stack[t][i].cls] = 0
             /\ \A j \in 1..n : j # i /\ stack[t][j].pc = "nested" =>
                                    stack[t][j].cls # stack[t][i].cls
      BY <1>1, <1>3 DEF ThreadInv, OneClaim
    <2> SUFFICES ASSUME stack[t][n].pc = "nested"
                 PROVE  /\ \A i \in 1..(n - 1) : stack[t][i].pc = "nested" =>
                                                 stack[t][i].cls # stack[t][n].cls
                        /\ runs[t][stack[t][n].cls] = 0
      BY <1>1, <1>3
    <2>2. \A j \in 1..n : j # n /\ stack[t][j].pc = "nested" => stack[t][j].cls # stack[t][n].cls
      BY <1>3, <2>1
    <2> QED
      BY <1>3, <2>1, <2>2
  <1>9. StackShape(t)'
    BY <1>2, <1>3, <1>4, <1>5 DEF StackShape, Awaiting
  <1>10. ClaimedFirst(t)'
    <2>1. \A i \in 1..n : stack'[t][i].pc \in {"nested", "body", "touch", "threw"} => called'[stack'[t][i].cls]
      BY <1>1, <1>2, <1>3 DEF ThreadInv, ClaimedFirst, Monotone
    <2>2. \A c \in Classes : runs'[t][c] > 0 => called'[c]
      <3>1. \A c \in Classes : runs[t][c] > 0 => called[c]
        BY <1>1 DEF ThreadInv, ClaimedFirst
      <3> QED
        BY <3>1, <1>3, <1>6 DEF Monotone
    <2> QED
      BY <1>3, <2>1, <2>2 DEF ClaimedFirst
  <1>11. OneClaim(t)'
    <2> SUFFICES ASSUME NEW i \in 1..n, stack'[t][i].pc \in {"set", "nested"}
                 PROVE  /\ runs'[t][stack'[t][i].cls] = 0
                        /\ \A j \in 1..n : j # i /\ stack'[t][j].pc = "nested" =>
                                               stack'[t][j].cls # stack'[t][i].cls
      BY <1>3 DEF OneClaim
    <2>1. ASSUME NEW j \in 1..n, j # i, stack'[t][j].pc = "nested"
          PROVE  stack'[t][j].cls # stack'[t][i].cls
      <3>1. j \in 1..(n - 1) /\ stack'[t][j] = stack[t][j]
        BY <1>2, <1>3, <2>1
      <3>2. CASE i = n
        BY <1>2, <1>7, <2>1, <3>1, <3>2
      <3>3. CASE i \in 1..(n - 1)
        <4>1. stack'[t][i] = stack[t][i] /\ i \in 1..n /\ j \in 1..n
          BY <1>2, <1>3, <3>3
        <4>2. stack[t][i].pc \in {"set", "nested"} /\ stack[t][j].pc = "nested" /\ j # i
          BY <2>1, <3>1, <4>1
        <4>3. stack[t][j].cls # stack[t][i].cls
          BY <1>1, <1>3, <4>1, <4>2 DEF ThreadInv, OneClaim
        <4> QED
          BY <3>1, <4>1, <4>3
      <3> QED
        BY <1>3, <3>2, <3>3
    <2>2. runs'[t][stack'[t][i].cls] = 0
      <3>1. CASE i = n
        BY <1>2, <1>3, <1>6, <1>7, <3>1
      <3>2. CASE i \in 1..(n - 1)
        <4>1. /\ stack'[t][i] = stack[t][i] /\ stack[t][i].pc = "nested"
              /\ stack[t][i].cls \in Classes /\ runs[t][stack[t][i].cls] = 0
          BY <1>1, <1>2, <1>3, <1>5, <3>2 DEF ThreadInv, OneClaim, Awaiting
        <4>2. Top(t).pc = "nested" => stack[t][i].cls # f.cls
          BY <1>8, <3>2, <4>1
        <4> QED
          BY <1>6, <4>1, <4>2
      <3> QED
        BY <1>3, <3>1, <3>2
    <2> QED
      BY <2>1, <2>2
  <1>12. RunsOnce(t)'
    <2>1. \A d \in Classes : runs[t][d] <= 1
      BY <1>1 DEF ThreadInv, RunsOnce
    <2>2. runs'[t][f.cls] <= 1
      <3>1. runs[t][f.cls] \in Nat /\ runs[t][f.cls] <= 1
        BY <1>3, <1>6, <2>1
      <3>2. runs'[t][f.cls] = runs[t][f.cls] \/ (runs[t][f.cls] = 0 /\ runs'[t][f.cls] = 1)
        BY <1>6, <1>8, <3>1
      <3> QED
        BY <3>1, <3>2
    <2> QED
      BY <1>6, <2>1, <2>2 DEF RunsOnce
  <1>13. SuperChain(t)'
    <2>1. \A d \in Classes : SuperSettled(d) => SettledAfter(d)
      BY SettledStays, ConstantsAssumption
    <2>2. ASSUME NEW i \in 1..n
          PROVE  /\ stack'[t][i].pc \notin {"enter", "super"} => SettledAfter(stack'[t][i].cls)
                 /\ stack'[t][i].pc = "super" => Super[stack'[t][i].cls] # NoClass
      <3>1. CASE i = n
        BY <1>2, <1>3, <2>1, <3>1
      <3>2. CASE i \in 1..(n - 1)
        <4>1. stack'[t][i] = stack[t][i] /\ stack[t][i].cls \in Classes
          BY <1>1, <1>2, <3>2
        <4>2. /\ stack[t][i].pc \notin {"enter", "super"} => SuperSettled(stack[t][i].cls)
              /\ stack[t][i].pc = "super" => Super[stack[t][i].cls] # NoClass
          BY <1>1, <1>3 DEF ThreadInv, SuperChain
        <4> QED
          BY <2>1, <4>1, <4>2
      <3> QED
        BY <1>3, <3>1, <3>2
    <2>3. ASSUME NEW i \in 1..n, i < n, stack'[t][i].pc = "super"
          PROVE  stack'[t][i + 1].cls = Super[stack'[t][i].cls]
      <3>1. i \in 1..(n - 1) /\ stack'[t][i] = stack[t][i] /\ (i + 1 \in 1..(n - 1) \/ i + 1 = n)
        BY <1>1, <1>2, <2>3
      <3>2. stack[t][i + 1].cls = Super[stack[t][i].cls]
        BY <1>1, <1>3, <2>3, <3>1 DEF ThreadInv, SuperChain
      <3>3. stack'[t][i + 1].cls = stack[t][i + 1].cls
        BY <1>2, <1>3, <3>1
      <3> QED
        BY <3>1, <3>2, <3>3
    <2>4. ~Returned(t, "super")'
      BY <1>4 DEF Returned
    <2>5. \A d \in Classes : runs'[t][d] > 0 => SettledAfter(d)
      <3>1. \A d \in Classes : runs[t][d] > 0 => SettledAfter(d)
        BY <1>1, <2>1 DEF ThreadInv, SuperChain
      <3> QED
        BY <3>1, <2>1, <1>3, <1>6
    <2> QED
      BY <1>2, <1>3, <2>2, <2>3, <2>4, <2>5 DEF SuperChain, SuperSettled, Settled, SettledAfter
  <1> QED
    BY <1>9, <1>10, <1>11, <1>12, <1>13 DEF ThreadInv

\* The top activation is left with result r; a success is a settled class.
LEMMA ReturnKeepsInv ==
    ASSUME Inv, Monotone, NEW t \in Threads, stack[t] # <<>>,
           NEW r \in {"ok"} \cup Failures, Return(t, r), runs'[t] = runs[t],
           r = "ok" => called'[Top(t).cls] \/ ~enabled'[Top(t).cls]
    PROVE  ThreadInv(t)'
  <1> DEFINE n == Len(stack[t])
  <1>1. /\ TypeOK /\ ThreadInv(t)
        /\ n \in Nat \ {0} /\ Top(t) = stack[t][n]
        /\ \A i \in 1..n : stack[t][i].cls \in Classes
    BY TopFacts, FrameFacts DEF Inv
  <1>2. /\ Len(stack'[t]) = n - 1
        /\ \A i \in 1..(n - 1) : stack'[t][i] = stack[t][i]
        /\ ret'[t] = r
        /\ stack' \in [Threads -> Seq(Frame)]
    BY <1>1, ReturnFacts DEF Results, Failures
  <1>3. /\ Frames(t) = 1..n /\ Frames(t)' = 1..(n - 1)
        /\ \A i \in 1..(n - 1) : i \in 1..n /\ i < n /\ i + 1 \in 1..n
        /\ \A i \in 1..(n - 1) : i < n - 1 => i + 1 \in 1..(n - 1)
    BY <1>1, <1>2 DEF Frames
  <1>4. stack'[t] # <<>> => /\ n - 1 \in 1..(n - 1)
                            /\ Top(t)' = stack[t][n - 1]
                            /\ stack[t][n - 1].pc \in Awaiting
    <2> SUFFICES ASSUME stack'[t] # <<>>
                 PROVE  n - 1 \in 1..(n - 1)
      BY <1>1, <1>2, <1>3 DEF Top, ThreadInv, StackShape
    <2>1. stack'[t] \in Seq(Frame)
      BY <1>2
    <2>2. Len(stack'[t]) # 0
      BY <2>1
    <2> QED
      BY <1>1, <1>2, <2>2
  <1>5. StackShape(t)'
    <2>1. r # "none"
      BY DEF Failures
    <2> QED
      BY <1>1, <1>2, <1>3, <1>4, <2>1 DEF ThreadInv, StackShape
  <1>6. ClaimedFirst(t)'
    BY <1>1, <1>2, <1>3 DEF ThreadInv, ClaimedFirst, Monotone
  <1>7. OneClaim(t)' /\ RunsOnce(t)'
    <2>1. RunsOnce(t)'
      BY <1>1, Zenon DEF ThreadInv, RunsOnce
    <2>2. \A i \in 1..n : stack[t][i].pc \in {"set", "nested"} =>
             /\ runs[t][stack[t][i].cls] = 0
             /\ \A j \in 1..n : j # i /\ stack[t][j].pc = "nested" =>
                                    stack[t][j].cls # stack[t][i].cls
      BY <1>1, <1>3, Zenon DEF ThreadInv, OneClaim
    <2>3. \A i \in 1..(n - 1) : stack'[t][i].pc \in {"set", "nested"} =>
             /\ runs'[t][stack'[t][i].cls] = 0
             /\ \A j \in 1..(n - 1) : j # i /\ stack'[t][j].pc = "nested" =>
                                    stack'[t][j].cls # stack'[t][i].cls
      <3>1. \A i \in 1..(n - 1) : i \in 1..n /\ stack'[t][i] = stack[t][i]
        BY <1>2, <1>3, Zenon
      <3>2. runs'[t] = runs[t]
        OBVIOUS
      <3> SUFFICES ASSUME NEW i \in 1..(n - 1), stack'[t][i].pc \in {"set", "nested"}
                   PROVE  /\ runs'[t][stack'[t][i].cls] = 0
                          /\ \A j \in 1..(n - 1) : j # i /\ stack'[t][j].pc = "nested" =>
                                                      stack'[t][j].cls # stack'[t][i].cls
        OBVIOUS
      <3>3. i \in 1..n /\ stack'[t][i] = stack[t][i]
        BY <3>1
      <3>4. runs[t][stack[t][i].cls] = 0
        BY <2>2, <3>3
      <3>5. ASSUME NEW j \in 1..(n - 1), j # i, stack'[t][j].pc = "nested"
            PROVE  stack'[t][j].cls # stack'[t][i].cls
        <4>1. j \in 1..n /\ stack'[t][j] = stack[t][j]
          BY <3>1
        <4> QED
          BY <2>2, <3>3, <3>5, <4>1
      <3> QED
        BY <3>2, <3>3, <3>4, <3>5
    <2>4. OneClaim(t)'
      BY <1>3, <2>3, Zenon DEF OneClaim
    <2> QED
      BY <2>1, <2>4
  <1>8. SuperChain(t)'
    <2>1. \A d \in Classes : SuperSettled(d) => SettledAfter(d)
      BY SettledStays, ConstantsAssumption
    <2>2. ASSUME NEW i \in 1..(n - 1)
          PROVE  /\ stack'[t][i].pc \notin {"enter", "super"} => SettledAfter(stack'[t][i].cls)
                 /\ stack'[t][i].pc = "super" => Super[stack'[t][i].cls] # NoClass
                 /\ i < n - 1 /\ stack'[t][i].pc = "super" =>
                        stack'[t][i + 1].cls = Super[stack'[t][i].cls]
      BY <1>1, <1>2, <1>3, <2>1 DEF ThreadInv, SuperChain
    <2>3. Returned(t, "super")' /\ r = "ok" => SettledAfter(stack[t][n - 1].cls)
      <3> SUFFICES ASSUME stack'[t] # <<>>, stack[t][n - 1].pc = "super", r = "ok"
                   PROVE  SettledAfter(stack[t][n - 1].cls)
        BY <1>4 DEF Returned
      <3>1. n - 1 \in 1..n /\ n - 1 < n /\ n - 1 + 1 = n
        BY <1>1, <1>4
      <3>2. stack[t][n].cls = Super[stack[t][n - 1].cls]
        BY <1>1, <1>3, <3>1 DEF ThreadInv, SuperChain
      <3> QED
        BY <1>1, <3>2 DEF SettledAfter
    <2>4. \A d \in Classes : runs'[t][d] > 0 => SettledAfter(d)
      BY <1>1, <2>1 DEF ThreadInv, SuperChain
    <2>5. stack'[t] # <<>> => Top(t)' = stack[t][n - 1]
      BY <1>4
    <2> QED
      BY <1>2, <1>3, <2>2, <2>3, <2>4, <2>5
      DEF SuperChain, Returned, SuperSettled, Settled, SettledAfter
  <1> QED
    BY <1>5, <1>6, <1>7, <1>8 DEF ThreadInv

\* Inv after a step of t that touches no other thread.
LEMMA ThreadStep ==
    ASSUME Inv, Monotone, TypeOK', NEW t \in Threads, ThreadInv(t)',
           \A u \in Threads \ {t} :
              stack'[u] = stack[u] /\ ret'[u] = ret[u] /\ runs'[u] = runs[u]
    PROVE  Inv'
  <1>1. \A u \in Threads : ThreadInv(u)'
    BY OthersKeepInv
  <1> QED
    BY <1>1 DEF Inv

-----------------------------------------------------------------------------
(* Every step keeps Inv.                                                     *)

LEMMA UseKeepsInv ==
    ASSUME Inv, NEW t \in Threads, NEW c \in Classes, Use(t, c)
    PROVE  Inv'
  <1>1. TypeOK /\ ThreadInv(t)
    BY DEF Inv
  <1>2. Monotone
    BY <1>1 DEF Use, Monotone, TypeOK, slots
  <1>3. Activation(c) \in Frame /\ Activation(c).pc = "enter"
    BY DEF Activation, Frame, PCs
  <1> DEFINE s == <<Activation(c)>>
  <1>4. s \in Seq(Frame) /\ Len(s) = 1 /\ s[1] = Activation(c) /\ s # <<>>
    BY <1>3
  <1> HIDE DEF s
  <1>5. stack' = [stack EXCEPT ![t] = s] /\ stack'[t] = s
    BY <1>1 DEF Use, s, TypeOK
  <1>6. TypeOK'
    <2>1. stack' \in [Threads -> Seq(Frame)]
      BY <1>1, <1>4, <1>5 DEF TypeOK
    <2>2. calls' \in 0..MaxCalls
      BY <1>1, ConstantsAssumption DEF Use, Counted, TypeOK, ConstantsAssumption
    <2> QED
      BY <1>1, <2>1, <2>2 DEF Use, TypeOK, slots
  <1>7. ThreadInv(t)'
    <2>1. Frames(t)' = {1} /\ Top(t)' = Activation(c) /\ stack'[t][1] = Activation(c)
      <3>1. Len(stack'[t]) = 1 /\ stack'[t][1] = Activation(c)
        BY <1>4, <1>5
      <3>2. 1..1 = {1}
        OBVIOUS
      <3> QED
        BY <3>1, <3>2 DEF Frames, Top
    <2>2. ret'[t] = "none" /\ runs' = runs
      BY DEF Use, Outside
    <2>3. StackShape(t)'
      <3>1. Len(stack'[t]) = 1 /\ ~(1 < 1)
        BY <1>4, <1>5
      <3> QED
        BY <1>3, <2>1, <2>2, <3>1 DEF StackShape, Awaiting
    <2>4. ClaimedFirst(t)' /\ OneClaim(t)' /\ RunsOnce(t)'
      BY <1>1, <1>2, <1>3, <2>1, <2>2
      DEF ThreadInv, ClaimedFirst, OneClaim, RunsOnce, Monotone
    <2>5. SuperChain(t)'
      <3>1. \A d \in Classes : runs[t][d] > 0 => SettledAfter(d)
        BY <1>1, <1>2, SettledStays, ConstantsAssumption DEF ThreadInv, SuperChain
      <3> QED
        BY <1>3, <2>1, <2>2, <3>1
        DEF SuperChain, Returned, SuperSettled, Settled, SettledAfter
    <2> QED
      BY <2>3, <2>4, <2>5 DEF ThreadInv
  <1>8. \A u \in Threads \ {t} : stack'[u] = stack[u] /\ ret'[u] = ret[u] /\ runs'[u] = runs[u]
    BY <1>1 DEF Use, TypeOK
  <1> QED
    BY <1>2, <1>6, <1>7, <1>8, ThreadStep

LEMMA UseEndsKeepsInv ==
    ASSUME Inv, NEW t \in Threads, UseEnds(t)
    PROVE  Inv'
  <1>1. /\ TypeOK /\ ThreadInv(t) /\ stack[t] = <<>>
        /\ UNCHANGED <<enabled, called, stack, calls, runs, thrown, slot, skipped, unwound>>
        /\ ret' = [ret EXCEPT ![t] = "none"]
    BY DEF Inv, UseEnds, UseReturns, UseFails, slots
  <1>2. Monotone
    BY <1>1 DEF Monotone, TypeOK
  <1>3. TypeOK'
    <2>1. failed' \in [Threads -> Nat] /\ code' \in [Threads -> {"run"} \cup Failures]
             /\ dropped' \subseteq Threads
      <3>1. CASE UseReturns(t)
        BY <1>1, <3>1 DEF UseReturns, TypeOK, slots
      <3>2. CASE UseFails(t)
        <4>1. ret[t] \in {"run"} \cup Failures
          BY <3>2 DEF UseFails
        <4>2. failed' \in [Threads -> Nat]
          BY <1>1, <3>2 DEF UseFails, TypeOK
        <4> QED
          BY <1>1, <3>2, <4>1, <4>2 DEF UseFails, TypeOK
      <3> QED
        BY <3>1, <3>2 DEF UseEnds
    <2> QED
      BY <1>1, <2>1 DEF TypeOK, Results
  <1>4. ThreadInv(t)'
    <2>1. /\ stack' = stack /\ runs' = runs /\ called' = called /\ enabled' = enabled
          /\ Frames(t)' = Frames(t) /\ Frames(t) = {}
      BY <1>1 DEF Frames
    <2>2. StackShape(t)' /\ ClaimedFirst(t)' /\ OneClaim(t)' /\ RunsOnce(t)'
      BY <1>1, <2>1 DEF ThreadInv, StackShape, ClaimedFirst, OneClaim, RunsOnce
    <2>3. SuperChain(t)'
      BY <1>1, <2>1 DEF ThreadInv, SuperChain, Returned, SuperSettled, Settled
    <2> QED
      BY <2>2, <2>3 DEF ThreadInv
  <1>5. \A u \in Threads \ {t} : stack'[u] = stack[u] /\ ret'[u] = ret[u] /\ runs'[u] = runs[u]
    BY <1>1 DEF TypeOK
  <1> QED
    BY <1>2, <1>3, <1>4, <1>5, ThreadStep

\* What the code outside uses, and the embedder, do to the slot.
CodeStep == EmbedderRetrieves \/ \E t \in Threads : Code(t)

LEMMA CodeFacts ==
    ASSUME TypeOK, CodeStep
    PROVE  /\ TypeOK' /\ Monotone
           /\ UNCHANGED <<enabled, called, stack, ret, runs, thrown, failed, skipped, dropped>>
  <1>1. CASE EmbedderRetrieves
    BY <1>1 DEF EmbedderRetrieves, TypeOK, Monotone
  <1>2. ASSUME NEW t \in Threads, CodeThrows(t)
        PROVE  /\ TypeOK' /\ Monotone
               /\ UNCHANGED <<enabled, called, stack, ret, runs, thrown, failed, skipped, dropped>>
    <2>1. UNCHANGED <<enabled, called, stack, ret, runs, thrown, failed, skipped, dropped>>
      BY <1>2 DEF CodeThrows
    <2>2. calls' \in 0..MaxCalls
      BY <1>2, ConstantsAssumption DEF CodeThrows, Counted, TypeOK, ConstantsAssumption
    <2>3. /\ slot' \in BOOLEAN /\ code' \in [Threads -> {"run"} \cup Failures]
          /\ unwound' \subseteq Threads
      BY <1>2 DEF CodeThrows, TypeOK
    <2> QED
      BY <2>1, <2>2, <2>3 DEF TypeOK, Monotone
  <1>3. ASSUME NEW t \in Threads, CodePassesOn(t) \/ CodeCatches(t)
        PROVE  /\ TypeOK' /\ Monotone
               /\ UNCHANGED <<enabled, called, stack, ret, runs, thrown, failed, skipped, dropped>>
    BY <1>3 DEF CodePassesOn, CodeCatches, TypeOK, Monotone
  <1> QED
    BY <1>1, <1>2, <1>3 DEF CodeStep, Code

LEMMA CodeKeepsInv ==
    ASSUME Inv, CodeStep
    PROVE  Inv'
  <1>1. TypeOK' /\ Monotone /\ UNCHANGED <<stack, ret, runs>>
    BY CodeFacts DEF Inv
  <1>2. \A u \in Threads : stack'[u] = stack[u] /\ ret'[u] = ret[u] /\ runs'[u] = runs[u]
    BY <1>1
  <1> QED
    BY <1>1, <1>2, OthersKeepInv DEF Inv

LEMMA DisableKeepsInv ==
    ASSUME Inv, NEW c \in Classes, DisableStaticInitializer(c)
    PROVE  Inv'
  <1>1. TypeOK' /\ Monotone
    BY DEF Inv, DisableStaticInitializer, Monotone, TypeOK, slots
  <1>2. \A u \in Threads : stack'[u] = stack[u] /\ ret'[u] = ret[u] /\ runs'[u] = runs[u]
    BY DEF DisableStaticInitializer
  <1> QED
    BY <1>1, <1>2, OthersKeepInv DEF Inv

LEMMA EnsureSuperKeepsInv ==
    ASSUME Inv, NEW t \in Threads, EnsureSuper(t)
    PROVE  Inv'
  <1> DEFINE f == Top(t)
  <1>1. /\ TypeOK /\ ThreadInv(t)
        /\ stack[t] # <<>> /\ f.pc = "enter" /\ ret[t] = "none"
        /\ UNCHANGED <<enabled, called, ret, calls, runs, thrown, failed, slot, code, skipped, unwound, dropped>>
    BY DEF Inv, EnsureSuper, Running, slots
  <1>2. f \in Frame /\ f.cls \in Classes
    BY <1>1, TopFacts
  <1>3. Monotone
    BY <1>1 DEF Monotone, TypeOK
  <1>4. CASE Super[f.cls] # NoClass
    <2> DEFINE g == [f EXCEPT !.pc = "super"]
               s == Super[f.cls]
    <2>1. s \in Classes
      BY <1>2, <1>4, ConstantsAssumption DEF ConstantsAssumption
    <2>2. g \in Frame /\ g.pc = "super" /\ g.cls = f.cls
      BY <1>2 DEF Frame, PCs
    <2>3. CallEnsure(t, g, s)
      BY <1>4 DEF EnsureSuper
    <2> HIDE DEF g
    <2>4. ThreadInv(t)'
      BY <1>1, <1>3, <2>1, <2>2, <2>3, CallKeepsInv DEF Awaiting
    <2>5. /\ stack' \in [Threads -> Seq(Frame)]
          /\ \A u \in Threads \ {t} : stack'[u] = stack[u]
      BY <1>1, <2>1, <2>2, <2>3, CallEnsureFacts
    <2>6. TypeOK'
      BY <1>1, <2>5 DEF TypeOK
    <2> QED
      BY <1>1, <1>3, <2>4, <2>5, <2>6, ThreadStep
  <1>5. CASE Super[f.cls] = NoClass
    <2> DEFINE g == [f EXCEPT !.pc = "check"]
    <2>1. g \in Frame /\ g.pc = "check" /\ g.cls = f.cls
      BY <1>2 DEF Frame, PCs
    <2>2. Goto(t, g)
      BY <1>5 DEF EnsureSuper
    <2> HIDE DEF g
    <2>3. /\ stack' \in [Threads -> Seq(Frame)]
          /\ \A u \in Threads \ {t} : stack'[u] = stack[u]
      BY <1>1, <2>1, <2>2, GotoFacts
    <2>4. TypeOK'
      BY <1>1, <2>3 DEF TypeOK
    <2>5. SuperSettled(g.cls) /\ ret'[t] = "none" /\ runs'[t] = runs[t]
             /\ runs' \in [Threads -> [Classes -> Nat]]
      BY <1>1, <1>5, <2>1 DEF SuperSettled, TypeOK
    <2>6. ThreadInv(t)'
      BY <1>1, <1>3, <2>1, <2>2, <2>5, GotoKeepsInv
    <2> QED
      BY <1>1, <1>3, <2>3, <2>4, <2>6, ThreadStep
  <1> QED
    BY <1>4, <1>5

LEMMA SuperEnsuredKeepsInv ==
    ASSUME Inv, NEW t \in Threads, SuperEnsured(t)
    PROVE  Inv'
  <1> DEFINE f == Top(t)
  <1>1. /\ TypeOK /\ ThreadInv(t)
        /\ stack[t] # <<>> /\ f.pc = "super" /\ ret[t] # "none"
        /\ UNCHANGED <<enabled, called, calls, runs, thrown, failed, slot, code, skipped, unwound, dropped>>
    BY DEF Inv, SuperEnsured, Returned, slots
  <1>2. f \in Frame /\ f.cls \in Classes /\ ret[t] \in Results
    BY <1>1, TopFacts DEF TypeOK
  <1>3. Monotone
    BY <1>1 DEF Monotone, TypeOK
  <1>4. CASE ret[t] \in Failures
    <2>1. /\ Return(t, ret[t]) /\ ret[t] \in Results /\ ret[t] # "ok"
          /\ ret[t] \in {"ok"} \cup Failures
      BY <1>4 DEF SuperEnsured, Results, Failures
    <2>2. ThreadInv(t)'
      BY <1>1, <1>3, <2>1, ReturnKeepsInv
    <2>3. /\ stack' \in [Threads -> Seq(Frame)] /\ ret' \in [Threads -> Results]
          /\ \A u \in Threads \ {t} : stack'[u] = stack[u] /\ ret'[u] = ret[u]
      BY <1>1, <2>1, ReturnFacts
    <2>4. TypeOK'
      BY <1>1, <2>3 DEF TypeOK
    <2> QED
      BY <1>1, <1>3, <2>2, <2>3, <2>4, ThreadStep
  <1>5. CASE ret[t] \notin Failures
    <2> DEFINE g == [f EXCEPT !.pc = "check"]
    <2>1. g \in Frame /\ g.pc = "check" /\ g.cls = f.cls
      BY <1>2 DEF Frame, PCs
    <2>2. Goto(t, g) /\ ret' = [ret EXCEPT ![t] = "none"]
      BY <1>5 DEF SuperEnsured
    <2>3. SuperSettled(g.cls)
      BY <1>1, <1>2, <1>5, <2>1 DEF ThreadInv, SuperChain, Returned, Results, Failures
    <2> HIDE DEF g
    <2>4. /\ stack' \in [Threads -> Seq(Frame)]
          /\ \A u \in Threads \ {t} : stack'[u] = stack[u]
      BY <1>1, <2>1, <2>2, GotoFacts
    <2>5. TypeOK' /\ ret'[t] = "none" /\ \A u \in Threads \ {t} : ret'[u] = ret[u]
      BY <1>1, <2>2, <2>4 DEF TypeOK, Results, Failures
    <2>6. runs' \in [Threads -> [Classes -> Nat]] /\ runs'[t] = runs[t]
      BY <1>1 DEF TypeOK
    <2>7. ThreadInv(t)'
      BY <1>1, <1>3, <2>1, <2>2, <2>3, <2>5, <2>6, GotoKeepsInv
    <2> QED
      BY <1>1, <1>3, <2>4, <2>5, <2>7, ThreadStep
  <1> QED
    BY <1>4, <1>5

LEMMA CheckCalledKeepsInv ==
    ASSUME Inv, NEW t \in Threads, CheckCalled(t)
    PROVE  Inv'
  <1> DEFINE f == Top(t)
  <1>1. /\ TypeOK /\ ThreadInv(t)
        /\ stack[t] # <<>> /\ f.pc = "check" /\ ret[t] = "none"
        /\ UNCHANGED <<enabled, called, calls, runs, thrown, failed, slot, code, skipped, unwound, dropped>>
    BY DEF Inv, CheckCalled, Running, slots
  <1>2. f \in Frame /\ f.cls \in Classes
    BY <1>1, TopFacts
  <1>3. Monotone
    BY <1>1 DEF Monotone, TypeOK
  <1>4. CASE enabled[f.cls] /\ ~called[f.cls]
    <2> DEFINE g == [f EXCEPT !.pc = "set"]
    <2>1. g \in Frame /\ g.pc = "set" /\ g.cls = f.cls
      BY <1>2 DEF Frame, PCs
    <2>2. Goto(t, g) /\ ret' = ret
      BY <1>4 DEF CheckCalled
    <2>3. SuperSettled(g.cls)
      <3>1. Len(stack[t]) \in Frames(t) /\ f = stack[t][Len(stack[t])]
        BY <1>1, TopFacts DEF Frames
      <3> QED
        BY <1>1, <2>1, <3>1 DEF ThreadInv, SuperChain
    <2> HIDE DEF g
    <2>4. /\ stack' \in [Threads -> Seq(Frame)]
          /\ \A u \in Threads \ {t} : stack'[u] = stack[u]
      BY <1>1, <2>1, <2>2, GotoFacts
    <2>5. TypeOK'
      BY <1>1, <2>2, <2>4 DEF TypeOK
    <2>6. /\ runs' \in [Threads -> [Classes -> Nat]] /\ runs'[t] = runs[t]
          /\ ret'[t] = "none"
      BY <1>1, <2>2 DEF TypeOK
    <2>7. ThreadInv(t)'
      BY <1>1, <1>3, <1>4, <2>1, <2>2, <2>3, <2>6, GotoKeepsInv
    <2> QED
      BY <1>1, <1>3, <2>2, <2>4, <2>5, <2>7, ThreadStep
  <1>5. CASE ~(enabled[f.cls] /\ ~called[f.cls])
    <2>1. Return(t, "ok")
      BY <1>5 DEF CheckCalled
    <2>2. called'[f.cls] \/ ~enabled'[f.cls]
      BY <1>1, <1>5
    <2>3. ThreadInv(t)'
      BY <1>1, <1>3, <2>1, <2>2, ReturnKeepsInv
    <2>4. /\ stack' \in [Threads -> Seq(Frame)] /\ ret' \in [Threads -> Results]
          /\ \A u \in Threads \ {t} : stack'[u] = stack[u] /\ ret'[u] = ret[u]
      BY <1>1, <2>1, ReturnFacts DEF Results, Failures
    <2>5. TypeOK'
      BY <1>1, <2>4 DEF TypeOK
    <2> QED
      BY <1>1, <1>3, <2>3, <2>4, <2>5, ThreadStep
  <1> QED
    BY <1>4, <1>5

LEMMA SetCalledKeepsInv ==
    ASSUME Inv, NEW t \in Threads, SetCalled(t)
    PROVE  Inv'
  <1> DEFINE f == Top(t)
  <1>1. /\ TypeOK /\ ThreadInv(t)
        /\ stack[t] # <<>> /\ f.pc = "set" /\ ret[t] = "none"
        /\ UNCHANGED <<enabled, calls, runs, thrown, failed, slot, code, skipped, unwound, dropped>>
        /\ called' = [called EXCEPT ![f.cls] = TRUE]
    BY DEF Inv, SetCalled, Running, slots
  <1>2. f \in Frame /\ f.cls \in Classes
    BY <1>1, TopFacts
  <1>3. Monotone /\ called'[f.cls]
    BY <1>1, <1>2 DEF Monotone, TypeOK
  <1>4. CASE f.cls \in HasClinit
    <2> DEFINE g == [f EXCEPT !.pc = "nested"]
    <2>1. g \in Frame /\ g.pc = "nested" /\ g.cls = f.cls
      BY <1>2 DEF Frame, PCs
    <2>2. CallEnsure(t, g, f.cls) /\ ret' = ret
      BY <1>4 DEF SetCalled
    <2>3. SuperSettled(g.cls)
      <3>1. Len(stack[t]) \in Frames(t) /\ f = stack[t][Len(stack[t])]
        BY <1>1, TopFacts DEF Frames
      <3> QED
        BY <1>1, <2>1, <3>1 DEF ThreadInv, SuperChain
    <2> HIDE DEF g
    <2>4. ThreadInv(t)'
      BY <1>1, <1>2, <1>3, <2>1, <2>2, <2>3, CallKeepsInv DEF Awaiting
    <2>5. /\ stack' \in [Threads -> Seq(Frame)]
          /\ \A u \in Threads \ {t} : stack'[u] = stack[u]
      BY <1>1, <1>2, <2>1, <2>2, CallEnsureFacts
    <2>6. TypeOK'
      BY <1>1, <1>2, <2>2, <2>5 DEF TypeOK
    <2> QED
      BY <1>1, <1>3, <2>2, <2>4, <2>5, <2>6, ThreadStep
  <1>5. CASE f.cls \notin HasClinit
    <2>1. Return(t, "ok")
      BY <1>5 DEF SetCalled
    <2>2. ThreadInv(t)'
      BY <1>1, <1>3, <2>1, ReturnKeepsInv
    <2>3. /\ stack' \in [Threads -> Seq(Frame)] /\ ret' \in [Threads -> Results]
          /\ \A u \in Threads \ {t} : stack'[u] = stack[u] /\ ret'[u] = ret[u]
      BY <1>1, <2>1, ReturnFacts DEF Results, Failures
    <2>4. TypeOK'
      BY <1>1, <1>2, <2>3 DEF TypeOK
    <2> QED
      BY <1>1, <1>3, <2>2, <2>3, <2>4, ThreadStep
  <1> QED
    BY <1>4, <1>5

LEMMA BeginClinitKeepsInv ==
    ASSUME Inv, NEW t \in Threads, BeginClinit(t)
    PROVE  Inv'
  <1> DEFINE f == Top(t)
  <1>1. /\ TypeOK /\ ThreadInv(t)
        /\ stack[t] # <<>> /\ f.pc = "nested"
        /\ UNCHANGED <<enabled, called, calls, failed, slot, code, dropped>>
    BY DEF Inv, BeginClinit, Returned
  <1>2. f \in Frame /\ f.cls \in Classes
    BY <1>1, TopFacts
  <1>3. /\ thrown' \in [Threads -> Nat] /\ skipped' \in [Threads -> SUBSET Classes]
        /\ unwound' \subseteq Threads /\ \A u \in Threads : skipped[u] \subseteq skipped'[u]
    <2>1. \/ UNCHANGED <<thrown, skipped, unwound>>
          \/ /\ skipped' = [skipped EXCEPT ![t] = @ \cup {f.cls}]
             /\ thrown' = [thrown EXCEPT ![t] = @ + 1]
             /\ unwound' = unwound \cup {t}
      BY DEF BeginClinit
    <2> QED
      <3>1. thrown[t] \in Nat /\ thrown[t] + 1 \in Nat
        BY <1>1 DEF TypeOK
      <3>2. thrown' \in [Threads -> Nat]
        BY <1>1, <2>1, <3>1 DEF TypeOK
      <3>3. unwound' \subseteq Threads
        BY <1>1, <2>1 DEF TypeOK
      <3>4. skipped[t] \cup {f.cls} \in SUBSET Classes
        BY <1>1, <1>2 DEF TypeOK
      <3>5. skipped' \in [Threads -> SUBSET Classes]
        BY <1>1, <2>1, <3>4 DEF TypeOK
      <3>6. ASSUME NEW u \in Threads PROVE skipped[u] \subseteq skipped'[u]
        <4>1. skipped \in [Threads -> SUBSET Classes]
          BY <1>1, Zenon DEF TypeOK
        <4>2. skipped' = skipped \/ skipped' = [skipped EXCEPT ![t] = @ \cup {f.cls}]
          BY <2>1, Zenon
        <4> HIDE DEF f
        <4>3. CASE skipped' = skipped
          BY <4>3, Zenon
        <4>4. CASE skipped' = [skipped EXCEPT ![t] = @ \cup {f.cls}]
          <5>1. skipped'[u] = IF u = t THEN skipped[u] \cup {f.cls} ELSE skipped[u]
            BY <4>1, <4>4
          <5> QED
            BY <5>1
        <4> QED
          BY <4>2, <4>3, <4>4
      <3> QED
        BY <3>2, <3>3, <3>5, <3>6
  <1>4. Monotone
    BY <1>1, <1>3 DEF Monotone, TypeOK
  <1>5. ASSUME NEW r \in Failures, Return(t, r), runs' = runs
        PROVE  Inv'
    <2>1. r \in Results /\ r \in {"ok"} \cup Failures /\ r # "ok"
      BY DEF Results, Failures
    <2>2. ThreadInv(t)'
      BY <1>1, <1>4, <1>5, <2>1, ReturnKeepsInv
    <2>3. /\ stack' \in [Threads -> Seq(Frame)] /\ ret' \in [Threads -> Results]
          /\ \A u \in Threads \ {t} : stack'[u] = stack[u] /\ ret'[u] = ret[u]
      BY <1>1, <1>5, <2>1, ReturnFacts
    <2>4. TypeOK'
      BY <1>1, <1>3, <1>5, <2>3 DEF TypeOK
    <2> QED
      BY <1>4, <1>5, <2>2, <2>3, <2>4, ThreadStep
  <1>6. CASE ~(ret[t] = "ok" /\ ~slot)
    <2>1. \E r \in Failures : Return(t, r) /\ runs' = runs
      BY <1>6 DEF BeginClinit, Failures
    <2> QED
      BY <1>5, <2>1
  <1>7. CASE ret[t] = "ok" /\ ~slot
    <2> DEFINE g == [f EXCEPT !.pc = "body", !.todo = Touches[f.cls]]
    <2>1. g \in Frame /\ g.pc = "body" /\ g.cls = f.cls
      BY <1>2, ConstantsAssumption DEF Frame, PCs, ConstantsAssumption
    <2>2. /\ Goto(t, g) /\ ret' = [ret EXCEPT ![t] = "none"]
          /\ runs' = [runs EXCEPT ![t][f.cls] = @ + 1]
      BY <1>7 DEF BeginClinit, Failures
    <2>3. SuperSettled(g.cls) /\ called[g.cls]
      <3>1. Len(stack[t]) \in Frames(t) /\ f = stack[t][Len(stack[t])]
        BY <1>1, TopFacts DEF Frames
      <3> QED
        BY <1>1, <2>1, <3>1 DEF ThreadInv, SuperChain, ClaimedFirst
    <2> HIDE DEF g
    <2>4. /\ stack' \in [Threads -> Seq(Frame)]
          /\ \A u \in Threads \ {t} : stack'[u] = stack[u]
      BY <1>1, <2>1, <2>2, GotoFacts
    <2>5. /\ runs' \in [Threads -> [Classes -> Nat]]
          /\ runs'[t] = [runs[t] EXCEPT ![f.cls] = @ + 1]
          /\ \A u \in Threads \ {t} : runs'[u] = runs[u]
      BY <1>1, <1>2, <2>2 DEF TypeOK
    <2>6. TypeOK' /\ ret'[t] = "none" /\ \A u \in Threads \ {t} : ret'[u] = ret[u]
      BY <1>1, <1>3, <2>2, <2>4, <2>5 DEF TypeOK, Results
    <2>7. ThreadInv(t)'
      BY <1>1, <1>4, <2>1, <2>2, <2>3, <2>5, <2>6, GotoKeepsInv
    <2> QED
      BY <1>4, <2>4, <2>5, <2>6, <2>7, ThreadStep
  <1> QED
    BY <1>6, <1>7

LEMMA ClinitTouchesKeepsInv ==
    ASSUME Inv, NEW t \in Threads, NEW d \in Classes, ClinitTouches(t, d)
    PROVE  Inv'
  <1> DEFINE f == Top(t)
             g == [f EXCEPT !.pc = "touch", !.todo = @ \ {d}]
  <1>1. /\ TypeOK /\ ThreadInv(t)
        /\ stack[t] # <<>> /\ f.pc = "body" /\ ret[t] = "none"
        /\ CallEnsure(t, g, d)
        /\ UNCHANGED <<enabled, called, ret, calls, runs, thrown, failed, slot, code, skipped, unwound, dropped>>
    BY DEF Inv, ClinitTouches, Running, slots
  <1>2. f \in Frame /\ f.cls \in Classes
    BY <1>1, TopFacts
  <1>3. Monotone
    BY <1>1 DEF Monotone, TypeOK
  <1>4. g \in Frame /\ g.pc = "touch" /\ g.cls = f.cls
    BY <1>2 DEF Frame, PCs
  <1>5. SuperSettled(g.cls) /\ called'[g.cls]
    <2>1. Len(stack[t]) \in Frames(t) /\ f = stack[t][Len(stack[t])]
      BY <1>1, TopFacts DEF Frames
    <2> QED
      BY <1>1, <1>4, <2>1 DEF ThreadInv, SuperChain, ClaimedFirst
  <1> HIDE DEF g
  <1>6. ThreadInv(t)'
    BY <1>1, <1>3, <1>4, <1>5, CallKeepsInv DEF Awaiting
  <1>7. /\ stack' \in [Threads -> Seq(Frame)]
        /\ \A u \in Threads \ {t} : stack'[u] = stack[u]
    BY <1>1, <1>4, CallEnsureFacts
  <1>8. TypeOK'
    BY <1>1, <1>7 DEF TypeOK
  <1> QED
    BY <1>1, <1>3, <1>6, <1>7, <1>8, ThreadStep

\* The <clinit> goes on after what it has called, or what has failed in it.
GoesOnAfter(t) == ClinitContinues(t) \/ ClinitDrops(t) \/ ClinitCatches(t)

LEMMA ClinitGoesOnKeepsInv ==
    ASSUME Inv, NEW t \in Threads, GoesOnAfter(t)
    PROVE  Inv'
  <1> DEFINE f == Top(t)
             g == [f EXCEPT !.pc = "body"]
  <1>1. /\ TypeOK /\ ThreadInv(t)
        /\ stack[t] # <<>> /\ f.pc \in {"touch", "threw"}
        /\ Goto(t, g) /\ ret' = [ret EXCEPT ![t] = "none"]
        /\ UNCHANGED <<enabled, called, calls, runs, thrown, failed, code, skipped, unwound>>
        /\ slot' \in BOOLEAN /\ dropped' \subseteq Threads
    BY DEF Inv, TypeOK, GoesOnAfter, ClinitContinues, ClinitDrops, ClinitCatches,
           Failed, Returned, slots
  <1>2. f \in Frame /\ f.cls \in Classes
    BY <1>1, TopFacts
  <1>3. Monotone
    BY <1>1 DEF Monotone, TypeOK
  <1>4. g \in Frame /\ g.pc = "body" /\ g.cls = f.cls
    BY <1>2 DEF Frame, PCs
  <1>5. SuperSettled(g.cls) /\ called[g.cls]
    <2>1. Len(stack[t]) \in Frames(t) /\ f = stack[t][Len(stack[t])]
      BY <1>1, TopFacts DEF Frames
    <2> QED
      BY <1>1, <1>4, <2>1 DEF ThreadInv, SuperChain, ClaimedFirst
  <1> HIDE DEF g
  <1>6. /\ stack' \in [Threads -> Seq(Frame)]
        /\ \A u \in Threads \ {t} : stack'[u] = stack[u]
    BY <1>1, <1>4, GotoFacts
  <1>7. TypeOK' /\ ret'[t] = "none" /\ \A u \in Threads \ {t} : ret'[u] = ret[u]
    BY <1>1, <1>6 DEF TypeOK, Results
  <1>8. runs' \in [Threads -> [Classes -> Nat]] /\ runs'[t] = runs[t]
    BY <1>1 DEF TypeOK
  <1>9. ThreadInv(t)'
    BY <1>1, <1>3, <1>4, <1>5, <1>7, <1>8, GotoKeepsInv
  <1> QED
    BY <1>1, <1>3, <1>6, <1>7, <1>9, ThreadStep

LEMMA ClinitThrowsKeepsInv ==
    ASSUME Inv, NEW t \in Threads, ClinitThrows(t)
    PROVE  Inv'
  <1> DEFINE f == Top(t)
             g == [f EXCEPT !.pc = "threw"]
  <1>1. /\ TypeOK /\ ThreadInv(t)
        /\ stack[t] # <<>> /\ f.pc = "body" /\ Goto(t, g)
        /\ UNCHANGED <<enabled, called, calls, runs, failed, code, skipped, dropped>>
        /\ slot' \in BOOLEAN /\ thrown' \in [Threads -> Nat] /\ unwound' \subseteq Threads
    <2>1. /\ TypeOK /\ ThreadInv(t)
          /\ stack[t] # <<>> /\ f.pc = "body" /\ Goto(t, g)
          /\ UNCHANGED <<enabled, called, calls, runs, failed, code, skipped, dropped>>
          /\ slot' \in {slot, TRUE} /\ thrown' = [thrown EXCEPT ![t] = @ + 1]
          /\ unwound' = unwound \cup {t}
      BY DEF Inv, ClinitThrows, Running
    <2>2. thrown[t] + 1 \in Nat
      BY <2>1 DEF TypeOK
    <2>3. slot' \in BOOLEAN /\ thrown' \in [Threads -> Nat] /\ unwound' \subseteq Threads
      BY <2>1, <2>2 DEF TypeOK
    <2> QED
      BY <2>1, <2>3
  <1>2. PICK r \in Failures : ret' = [ret EXCEPT ![t] = r]
    BY DEF ClinitThrows
  <1>3. f \in Frame /\ f.cls \in Classes
    BY <1>1, TopFacts
  <1>4. Monotone
    BY <1>1 DEF Monotone, TypeOK
  <1>5. g \in Frame /\ g.pc = "threw" /\ g.cls = f.cls
    BY <1>3 DEF Frame, PCs
  <1>6. SuperSettled(g.cls) /\ called[g.cls]
    <2>1. Len(stack[t]) \in Frames(t) /\ f = stack[t][Len(stack[t])]
      BY <1>1, TopFacts DEF Frames
    <2> QED
      BY <1>1, <1>5, <2>1 DEF ThreadInv, SuperChain, ClaimedFirst
  <1> HIDE DEF g
  <1>7. /\ stack' \in [Threads -> Seq(Frame)]
        /\ \A u \in Threads \ {t} : stack'[u] = stack[u]
    BY <1>1, <1>5, GotoFacts
  <1>8. TypeOK' /\ ret'[t] # "none" /\ \A u \in Threads \ {t} : ret'[u] = ret[u]
    BY <1>1, <1>2, <1>7 DEF TypeOK, Results, Failures
  <1>9. runs' \in [Threads -> [Classes -> Nat]] /\ runs'[t] = runs[t]
    BY <1>1 DEF TypeOK
  <1>10. ThreadInv(t)'
    BY <1>1, <1>4, <1>5, <1>6, <1>8, <1>9, GotoKeepsInv
  <1> QED
    BY <1>1, <1>4, <1>7, <1>8, <1>10, ThreadStep

LEMMA ClinitEndsKeepsInv ==
    ASSUME Inv, NEW t \in Threads, ClinitPropagates(t) \/ ClinitReturns(t)
    PROVE  Inv'
  <1> DEFINE f == Top(t)
  <1>1. /\ TypeOK /\ ThreadInv(t)
        /\ stack[t] # <<>> /\ slot' \in BOOLEAN
        /\ UNCHANGED <<enabled, called, calls, runs, thrown, failed, code, skipped, unwound, dropped>>
    BY DEF Inv, TypeOK, ClinitPropagates, ClinitReturns, Running, Failed, Returned, slots
  <1>2. PICK r \in {"ok"} \cup Failures : Return(t, r) /\ (r = "ok" => f.pc = "body")
    <2>1. CASE ClinitReturns(t)
      BY <2>1 DEF ClinitReturns, Running
    <2>2. CASE ClinitPropagates(t)
      BY <2>2 DEF ClinitPropagates, Failed, Failures
    <2> QED
      BY <2>1, <2>2
  <1>3. f \in Frame /\ f.cls \in Classes
    BY <1>1, TopFacts
  <1>4. Monotone
    BY <1>1 DEF Monotone, TypeOK
  <1>5. r = "ok" => called'[f.cls]
    <2>1. Len(stack[t]) \in Frames(t) /\ f = stack[t][Len(stack[t])]
      BY <1>1, TopFacts DEF Frames
    <2> QED
      BY <1>1, <1>2, <2>1 DEF ThreadInv, ClaimedFirst
  <1>6. ThreadInv(t)'
    BY <1>1, <1>2, <1>4, <1>5, ReturnKeepsInv
  <1>7. /\ stack' \in [Threads -> Seq(Frame)] /\ ret' \in [Threads -> Results]
        /\ \A u \in Threads \ {t} : stack'[u] = stack[u] /\ ret'[u] = ret[u]
    BY <1>1, <1>2, ReturnFacts DEF Results
  <1>8. TypeOK'
    BY <1>1, <1>7 DEF TypeOK
  <1> QED
    BY <1>1, <1>4, <1>6, <1>7, <1>8, ThreadStep

-----------------------------------------------------------------------------
(* The theorems                                                              *)

LEMMA InitInv ==
    ASSUME Init
    PROVE  Inv
  <1>1. TypeOK
    <2>1. <<>> \in Seq(Frame)
      OBVIOUS
    <2>2. stack \in [Threads -> Seq(Frame)]
      BY <2>1 DEF Init
    <2>3. calls \in 0..MaxCalls
      BY ConstantsAssumption DEF Init, ConstantsAssumption
    <2>4. [c \in Classes |-> 0] \in [Classes -> Nat]
      OBVIOUS
    <2>5. runs \in [Threads -> [Classes -> Nat]]
      BY <2>4, Zenon DEF Init
    <2> QED
      BY <2>2, <2>3, <2>5 DEF Init, TypeOK, Results
  <1>2. ASSUME NEW t \in Threads
        PROVE  ThreadInv(t)
    <2>1. Frames(t) = {} /\ stack[t] = <<>> /\ runs[t] = [c \in Classes |-> 0]
      BY DEF Init, Frames
    <2>2. \A c \in Classes : runs[t][c] = 0
      BY <2>1
    <2>3. StackShape(t) /\ OneClaim(t)
      BY <2>1 DEF StackShape, OneClaim
    <2>4. ClaimedFirst(t) /\ RunsOnce(t)
      BY <2>1, <2>2 DEF ClaimedFirst, RunsOnce
    <2>5. SuperChain(t)
      BY <2>1, <2>2 DEF SuperChain, Returned
    <2> QED
      BY <2>3, <2>4, <2>5 DEF ThreadInv
  <1> QED
    BY <1>1, <1>2 DEF Inv

LEMMA StutterKeepsInv ==
    ASSUME Inv, UNCHANGED vars
    PROVE  Inv'
  <1>1. TypeOK' /\ Monotone
    BY DEF Inv, vars, slots, Monotone, TypeOK
  <1>2. \A u \in Threads : stack'[u] = stack[u] /\ ret'[u] = ret[u] /\ runs'[u] = runs[u]
    BY DEF vars
  <1> QED
    BY <1>1, <1>2, OthersKeepInv DEF Inv

LEMMA NextKeepsInv ==
    ASSUME Inv, [Next]_vars
    PROVE  Inv'
  <1>1. ASSUME NEW t \in Threads, NEW c \in Classes, Use(t, c)
        PROVE  Inv'
    BY <1>1, UseKeepsInv
  <1>2. ASSUME NEW t \in Threads, UseEnds(t)
        PROVE  Inv'
    BY <1>2, UseEndsKeepsInv
  <1>3. CASE CodeStep
    BY <1>3, CodeKeepsInv
  <1>4. ASSUME NEW t \in Threads, Ensure(t)
        PROVE  Inv'
    BY <1>4, EnsureSuperKeepsInv, SuperEnsuredKeepsInv, CheckCalledKeepsInv,
       SetCalledKeepsInv, BeginClinitKeepsInv DEF Ensure
  <1>5. ASSUME NEW t \in Threads, Clinit(t)
        PROVE  Inv'
    BY <1>5, ClinitTouchesKeepsInv, ClinitGoesOnKeepsInv, ClinitThrowsKeepsInv,
       ClinitEndsKeepsInv DEF Clinit, GoesOnAfter
  <1>6. ASSUME NEW c \in Classes, DisableStaticInitializer(c)
        PROVE  Inv'
    BY <1>6, DisableKeepsInv
  <1>7. CASE UNCHANGED vars
    BY <1>7, StutterKeepsInv
  <1> QED
    BY <1>1, <1>2, <1>3, <1>4, <1>5, <1>6, <1>7 DEF Next, CodeStep

\* The stack discipline, the flags and the history of EnsureStaticInitializer-
\* Called stay in the relation Inv states, for any classes and threads.
THEOREM InvHolds == Spec => []Inv
  <1>1. Init => Inv
    BY InitInv
  <1>2. Inv /\ [Next]_vars => Inv'
    BY NextKeepsInv
  <1> QED
    BY <1>1, <1>2, PTL DEF Spec

\* However classes are used, no thread interprets one class's <clinit> twice.
THEOREM OncePerThreadHolds == Spec => []OncePerThread
  <1>1. Inv => OncePerThread
    BY DEF Inv, ThreadInv, RunsOnce, OncePerThread
  <1> QED
    BY <1>1, InvHolds, PTL

\* The flag of the superclass is set, or its initialiser is switched off,
\* before a <clinit> starts.
THEOREM SuperFirstHolds == Spec => []SuperFirst
  <1>1. Inv => SuperFirst
    BY DEF Inv, ThreadInv, SuperChain, SuperFirst
  <1> QED
    BY <1>1, InvHolds, PTL

-----------------------------------------------------------------------------
(* The invariant about claims                                              *)

\* Class c and all its superclasses are settled: they are in a set of settled
\* classes that has the superclass of each of its members.
AllSettled(c) == \E S \in SUBSET Classes :
    c \in S /\ \A x \in S : Settled(x) /\ (Super[x] # NoClass => Super[x] \in S)

SupersSettled(c) == Super[c] = NoClass \/ AllSettled(Super[c])

\* An activation past its superclass has all superclasses settled.
Deep(t) ==
    /\ \A i \in Frames(t) :
          stack[t][i].pc \notin {"enter", "super"} => SupersSettled(stack[t][i].cls)
    /\ Returned(t, "super") /\ ret[t] = "ok" => SupersSettled(Top(t).cls)

\* Above an activation that is about to run a <clinit> there is only the
\* Ensure of CallClassMethod, on classes that are settled: it fails nowhere.
Quiet(t) ==
    /\ \A i, j \in Frames(t) :
          j < i /\ stack[t][j].pc = "nested" =>
             stack[t][i].pc \in {"enter", "super", "check"} /\ AllSettled(stack[t][i].cls)
    /\ \A j \in Frames(t) : stack[t][j].pc = "nested" => ret[t] \notin Failures

\* The thread has run c's <clinit>, or is about to, or was refused.
Honours(t, c) ==
    \/ runs[t][c] > 0
    \/ c \in skipped[t]
    \/ \E i \in Frames(t) : stack[t][i].cls = c /\ stack[t][i].pc = "nested"

ClaimInv ==
    /\ \A c \in Classes : called[c] => AllSettled(c)
    /\ \A t \in Threads : Deep(t) /\ Quiet(t)
    /\ \A c \in HasClinit : called[c] => \E t \in Threads : Honours(t, c)

\* No activation of t is between the read of c's flag and c's <clinit>.
NotWithin(t, c) == \A i \in Frames(t) :
    stack[t][i].cls = c => stack[t][i].pc \notin {"set", "nested"}

\* What a step may do to the claims of a thread: it forgets none, and begins
\* none on a class that is claimed.
Keeps(t) == \A c \in Classes : Honours(t, c) => Honours(t, c)'
Late(t) == \A c \in Classes :
    called[c] /\ NotWithin(t, c) => runs'[t][c] = runs[t][c] /\ NotWithin(t, c)'

-----------------------------------------------------------------------------
(* Settled classes                                                         *)

LEMMA SettledOnce ==
    ASSUME NEW c \in Classes, AllSettled(c)
    PROVE  Settled(c) /\ SupersSettled(c)
  BY DEF AllSettled, SupersSettled

\* What is settled stays settled.
LEMMA AllSettledStays ==
    ASSUME Monotone, NEW c, AllSettled(c)
    PROVE  AllSettled(c)'
  <1>1. PICK S \in SUBSET Classes : c \in S /\ \A x \in S :
                Settled(x) /\ (Super[x] # NoClass => Super[x] \in S)
    BY DEF AllSettled
  <1>2. \A x \in S : Settled(x)'
    BY <1>1 DEF Settled, Monotone
  <1> QED
    BY <1>1, <1>2 DEF AllSettled

LEMMA SupersSettledStays ==
    ASSUME Monotone, NEW c, SupersSettled(c)
    PROVE  SupersSettled(c)'
  BY AllSettledStays DEF SupersSettled

\* A class that gets settled after its superclasses.
LEMMA SettledNow ==
    ASSUME ConstantsAssumption, Monotone, NEW c \in Classes,
           SupersSettled(c), Settled(c)'
    PROVE  AllSettled(c)'
  <1>1. CASE Super[c] = NoClass
    <2>1. \A x \in {c} : Settled(x)' /\ (Super[x] # NoClass => Super[x] \in {c})
      BY <1>1
    <2>2. {c} \in SUBSET Classes /\ c \in {c}
      OBVIOUS
    <2> QED
      BY <2>1, <2>2 DEF AllSettled
  <1>2. CASE Super[c] # NoClass
    <2>1. AllSettled(Super[c])'
      BY <1>2, AllSettledStays DEF SupersSettled
    <2>2. PICK S \in SUBSET Classes : Super[c] \in S /\ \A x \in S :
                  Settled(x)' /\ (Super[x] # NoClass => Super[x] \in S)
      BY <2>1 DEF AllSettled
    <2> DEFINE T == S \cup {c}
    <2>3. T \in SUBSET Classes /\ c \in T
      BY <2>2
    <2>4. \A x \in T : Settled(x)' /\ (Super[x] # NoClass => Super[x] \in T)
      BY <2>2
    <2> HIDE DEF T
    <2> QED
      BY <2>3, <2>4 DEF AllSettled
  <1> QED
    BY <1>1, <1>2

-----------------------------------------------------------------------------
(* The three moves of the top activation                                   *)

\* What all of them start from.
LEMMA Before ==
    ASSUME Inv, ClaimInv, NEW t \in Threads, stack[t] # <<>>
    PROVE  /\ TypeOK /\ Deep(t) /\ Quiet(t)
           /\ Len(stack[t]) \in Nat \ {0}
           /\ Frames(t) = 1..Len(stack[t])
           /\ Top(t) = stack[t][Len(stack[t])]
           /\ \A i \in 1..Len(stack[t]) : stack[t][i].cls \in Classes
           /\ \A i \in 1..(Len(stack[t]) - 1) : i \in 1..Len(stack[t]) /\ i < Len(stack[t])
  <1>1. TypeOK /\ Deep(t) /\ Quiet(t)
    BY DEF Inv, ClaimInv
  <1>2. /\ Len(stack[t]) \in Nat \ {0} /\ Top(t) = stack[t][Len(stack[t])]
        /\ \A i \in 1..Len(stack[t]) : stack[t][i].cls \in Classes
    BY <1>1, TopFacts, FrameFacts
  <1> QED
    BY <1>1, <1>2 DEF Frames

\* Nothing below an activation that could throw or claim is about to run a
\* <clinit>.
LEMMA NoneNested ==
    ASSUME Inv, ClaimInv, NEW t \in Threads, stack[t] # <<>>,
           NEW j \in 1..(Len(stack[t]) - 1), stack[t][j].pc = "nested"
    PROVE  /\ Top(t).pc \in {"enter", "super", "check"}
           /\ AllSettled(Top(t).cls) /\ ret[t] \notin Failures
  <1>1. /\ Quiet(t) /\ Len(stack[t]) \in Nat \ {0}
        /\ Frames(t) = 1..Len(stack[t]) /\ Top(t) = stack[t][Len(stack[t])]
    BY Before
  <1>2. j \in Frames(t) /\ Len(stack[t]) \in Frames(t) /\ j < Len(stack[t])
    BY <1>1
  <1> QED
    BY <1>1, <1>2 DEF Quiet

\* Deep and Quiet, which only the moving thread's stack and the flags decide.
Claims(t) == Deep(t) /\ Quiet(t)

\* A call of Ensure on c: for the superclass, for the <clinit> just claimed,
\* or from within a <clinit>.
CallsFor(t, f, c) ==
    \/ f.pc = "super" /\ Top(t).pc = "enter" /\ Super[f.cls] = c
    \/ f.pc = "nested" /\ Top(t).pc = "set" /\ c = f.cls /\ called'[c]
    \/ f.pc = "touch" /\ Top(t).pc = "body"

LEMMA CallKeepsClaims ==
    ASSUME Inv, ClaimInv, Monotone, NEW t \in Threads, stack[t] # <<>>,
           NEW f \in Frame, NEW c \in Classes, CallEnsure(t, f, c),
           ret[t] = "none", ret' = ret, runs'[t] = runs[t],
           f.cls = Top(t).cls, CallsFor(t, f, c)
    PROVE  /\ Claims(t)' /\ Keeps(t) /\ Late(t)
           /\ f.pc = "nested" => \A d \in Classes : f.cls = d => Honours(t, d)'
  <1> DEFINE n == Len(stack[t])
  <1>1. /\ TypeOK /\ Deep(t) /\ Quiet(t) /\ n \in Nat \ {0} /\ Frames(t) = 1..n
        /\ Top(t) = stack[t][n]
        /\ \A i \in 1..n : stack[t][i].cls \in Classes
        /\ \A i \in 1..(n - 1) : i \in 1..n /\ i < n
    BY Before
  <1>2. /\ Len(stack'[t]) = n + 1
        /\ \A i \in 1..(n - 1) : stack'[t][i] = stack[t][i]
        /\ stack'[t][n] = f
        /\ stack'[t][n + 1] = Activation(c)
    BY <1>1, CallEnsureFacts
  <1>3. Activation(c).pc = "enter" /\ Activation(c).cls = c
    BY DEF Activation
  <1>4. /\ Frames(t)' = 1..(n + 1) /\ n \in 1..n /\ n \in 1..(n + 1)
        /\ \A i \in 1..(n + 1) : i \in 1..(n - 1) \/ i = n \/ i = n + 1
        /\ \A i \in 1..n : i \in 1..(n - 1) \/ i = n
        /\ \A i \in 1..(n - 1) : i \in 1..(n + 1)
        /\ \A i, j \in 1..(n + 1) : j < i => j \in 1..(n - 1) \/ (j = n /\ i = n + 1)
    BY <1>1, <1>2 DEF Frames
  <1>5. Top(t)' = Activation(c) /\ ret'[t] = "none"
    BY <1>1, <1>2 DEF Top
  <1>6. f.cls \in Classes /\ f.cls = stack[t][n].cls
    BY <1>1, <1>4
  <1>7. f.pc # "super" => SupersSettled(f.cls)
    BY <1>1, <1>4, <1>6 DEF CallsFor, Deep
  <1>8. /\ \A d \in Classes : SupersSettled(d) => SupersSettled(d)'
        /\ \A d \in Classes : AllSettled(d) => AllSettled(d)'
    BY SupersSettledStays, AllSettledStays
  <1>9. Deep(t)'
    <2>1. ASSUME NEW i \in 1..(n + 1), stack'[t][i].pc \notin {"enter", "super"}
          PROVE  SupersSettled(stack[t][i].cls)'
      <3>1. CASE i \in 1..(n - 1)
        <4>1. stack'[t][i] = stack[t][i] /\ SupersSettled(stack[t][i].cls)
          BY <1>1, <1>2, <2>1, <3>1 DEF Deep
        <4>2. i \in 1..n
          BY <1>1, <3>1
        <4> QED
          BY <1>1, <1>8, <4>1, <4>2
      <3>2. CASE i = n
        BY <1>2, <1>6, <1>7, <1>8, <2>1, <3>2
      <3>3. CASE i = n + 1
        BY <1>2, <1>3, <2>1, <3>3
      <3> QED
        BY <1>4, <3>1, <3>2, <3>3
    <2>2. ~Returned(t, "super")'
      BY <1>3, <1>5 DEF Returned
    <2> QED
      BY <1>4, <2>1, <2>2 DEF Deep
  <1>10. Quiet(t)'
    <2>1. ASSUME NEW i \in 1..(n + 1), NEW j \in 1..(n + 1), j < i,
                 stack'[t][j].pc = "nested"
          PROVE  stack'[t][i].pc \in {"enter", "super", "check"} /\ AllSettled(stack[t][i].cls)'
      <3>1. CASE i \in 1..(n - 1)
        <4>1. stack'[t][i] = stack[t][i] /\ stack'[t][j] = stack[t][j] /\ i \in 1..n /\ j \in 1..n
          BY <1>1, <1>2, <2>1, <3>1
        <4>2. stack[t][i].pc \in {"enter", "super", "check"} /\ AllSettled(stack[t][i].cls)
          BY <1>1, <2>1, <4>1 DEF Quiet
        <4> QED
          BY <1>1, <1>8, <4>1, <4>2
      <3>2. CASE i = n
        <4>1. j \in 1..(n - 1) /\ stack[t][j].pc = "nested"
          BY <1>1, <1>2, <2>1, <3>2
        <4>2. Top(t).pc \in {"enter", "super", "check"} /\ AllSettled(f.cls)
          BY <4>1, NoneNested
        <4>3. f.pc = "super"
          BY <4>2 DEF CallsFor
        <4> QED
          BY <1>2, <1>6, <1>8, <3>2, <4>2, <4>3
      <3>3. CASE i = n + 1
        <4>1. stack'[t][i].pc = "enter" /\ stack'[t][i].cls = c
          BY <1>2, <1>3, <3>3
        <4>2. AllSettled(c)'
          <5>1. CASE j \in 1..(n - 1)
            <6>1. Top(t).pc \in {"enter", "super", "check"} /\ AllSettled(f.cls)
              BY <1>2, <2>1, <5>1, NoneNested
            <6>2. Super[f.cls] = c
              BY <6>1 DEF CallsFor
            <6>3. c # NoClass
              BY ConstantsAssumption DEF ConstantsAssumption
            <6>4. AllSettled(c)
              BY <1>6, <6>1, <6>2, <6>3, SettledOnce DEF SupersSettled
            <6> QED
              BY <1>8, <6>4
          <5>2. CASE j = n
            <6>1. f.pc = "nested"
              BY <1>2, <2>1, <5>2
            <6>2. c = f.cls /\ called'[c]
              BY <6>1 DEF CallsFor
            <6>3. Settled(c)' /\ SupersSettled(c)
              BY <1>7, <6>1, <6>2 DEF Settled
            <6> QED
              BY <6>3, SettledNow, ConstantsAssumption
          <5> QED
            BY <1>4, <2>1, <5>1, <5>2
        <4> QED
          BY <4>1, <4>2
      <3> QED
        BY <1>4, <3>1, <3>2, <3>3
    <2> QED
      BY <1>4, <1>5, <2>1 DEF Quiet, Failures
  <1>11. \A i \in 1..n : stack[t][i].pc = "nested" => i \in 1..(n - 1)
    BY <1>1, <1>4 DEF CallsFor
  <1>12. Keeps(t)
    <2> SUFFICES ASSUME NEW d \in Classes, Honours(t, d)
                 PROVE  Honours(t, d)'
      BY DEF Keeps
    <2>1. CASE runs[t][d] > 0
      BY <2>1 DEF Honours
    <2>3. CASE d \in skipped[t]
      BY <2>3 DEF Honours, Monotone
    <2>2. CASE \E i \in Frames(t) : stack[t][i].cls = d /\ stack[t][i].pc = "nested"
      BY <1>1, <1>2, <1>4, <1>11, <2>2 DEF Honours
    <2> QED
      BY <2>1, <2>2, <2>3 DEF Honours
  <1>13. Late(t)
    <2> SUFFICES ASSUME NEW d \in Classes, called[d], NotWithin(t, d)
                 PROVE  NotWithin(t, d)'
      BY DEF Late
    <2>1. \A i \in 1..n : stack[t][i].cls = d => stack[t][i].pc \notin {"set", "nested"}
      BY <1>1 DEF NotWithin
    <2>2. ASSUME NEW i \in 1..(n + 1), stack'[t][i].cls = d
          PROVE  stack'[t][i].pc \notin {"set", "nested"}
      <3>1. CASE i \in 1..(n - 1)
        BY <1>1, <1>2, <2>1, <2>2, <3>1
      <3>2. CASE i = n
        <4>1. Top(t).pc # "set"
          BY <1>1, <1>2, <1>4, <1>6, <2>1, <2>2, <3>2
        <4> QED
          BY <1>2, <3>2, <4>1 DEF CallsFor
      <3>3. CASE i = n + 1
        BY <1>2, <1>3, <3>3
      <3> QED
        BY <1>4, <3>1, <3>2, <3>3
    <2> QED
      BY <1>4, <2>2 DEF NotWithin
  <1>14. f.pc = "nested" => \A d \in Classes : f.cls = d => Honours(t, d)'
    BY <1>2, <1>4 DEF Honours
  <1> QED
    BY <1>9, <1>10, <1>12, <1>13, <1>14 DEF Claims

LEMMA Incremented ==
    ASSUME NEW g, NEW x, g \in [Classes -> Nat], x \in Classes
    PROVE  /\ [g EXCEPT ![x] = g[x] + 1][x] = g[x] + 1
           /\ \A d \in Classes : d # x => [g EXCEPT ![x] = g[x] + 1][d] = g[d]
  OBVIOUS

\* The top activation goes on as f: past its superclass, past the read of the
\* flag, or in a <clinit>, which begins, goes on or fails.
GoesOn(t, f) ==
    \/ /\ f.pc = "check"
       /\ \/ Top(t).pc = "enter" /\ Super[f.cls] = NoClass
          \/ Returned(t, "super") /\ ret[t] = "ok"
    \/ f.pc = "set" /\ Top(t).pc = "check" /\ ~Settled(f.cls)
    \/ f.pc = "body" /\ Top(t).pc \in {"nested", "touch", "threw"}
    \/ f.pc = "threw" /\ Top(t).pc = "body"

LEMMA GotoKeepsClaims ==
    ASSUME Inv, ClaimInv, Monotone, NEW t \in Threads, stack[t] # <<>>,
           NEW f \in Frame, Goto(t, f), ret'[t] = "none" \/ f.pc = "threw",
           f.cls = Top(t).cls, GoesOn(t, f),
           runs'[t] = IF Top(t).pc = "nested" THEN [runs[t] EXCEPT ![f.cls] = @ + 1]
                      ELSE runs[t]
    PROVE  Claims(t)' /\ Keeps(t) /\ Late(t)
  <1> DEFINE n == Len(stack[t])
  <1>1. /\ TypeOK /\ Deep(t) /\ Quiet(t) /\ n \in Nat \ {0} /\ Frames(t) = 1..n
        /\ Top(t) = stack[t][n]
        /\ \A i \in 1..n : stack[t][i].cls \in Classes
        /\ \A i \in 1..(n - 1) : i \in 1..n /\ i < n
    BY Before
  <1>2. /\ Len(stack'[t]) = n
        /\ \A i \in 1..(n - 1) : stack'[t][i] = stack[t][i]
        /\ stack'[t][n] = f
    BY <1>1, GotoFacts
  <1>3. /\ Frames(t)' = 1..n /\ n \in 1..n
        /\ \A i \in 1..n : i \in 1..(n - 1) \/ i = n
        /\ \A i, j \in 1..n : j < i => j \in 1..(n - 1)
    BY <1>1, <1>2 DEF Frames
  <1>4. Top(t)' = f
    BY <1>1, <1>2 DEF Top
  <1>5. f.cls \in Classes /\ f.cls = stack[t][n].cls
    BY <1>1, <1>3
  <1>6. SupersSettled(f.cls)
    BY <1>1, <1>3, <1>5 DEF GoesOn, Deep, SupersSettled
  <1>7. /\ \A d \in Classes : SupersSettled(d) => SupersSettled(d)'
        /\ \A d \in Classes : AllSettled(d) => AllSettled(d)'
    BY SupersSettledStays, AllSettledStays
  <1>8. /\ \A d \in Classes : runs'[t][d] = runs[t][d] \/ runs'[t][d] > 0
        /\ \A d \in Classes : d # f.cls \/ Top(t).pc # "nested" => runs'[t][d] = runs[t][d]
        /\ Top(t).pc = "nested" => runs'[t][f.cls] > 0
    <2>1. runs[t] \in [Classes -> Nat] /\ runs[t][f.cls] \in Nat
      BY <1>1, <1>5 DEF TypeOK
    <2>2. Top(t).pc = "nested" => runs'[t] = [runs[t] EXCEPT ![f.cls] = runs[t][f.cls] + 1]
      OBVIOUS
    <2>3. Top(t).pc # "nested" => runs'[t] = runs[t]
      OBVIOUS
    <2>4. Top(t).pc = "nested" =>
             /\ runs'[t][f.cls] = runs[t][f.cls] + 1
             /\ \A d \in Classes : d # f.cls => runs'[t][d] = runs[t][d]
      BY <1>5, <2>1, <2>2, Incremented
    <2> QED
      BY <1>5, <2>1, <2>3, <2>4
  <1>9. Deep(t)'
    <2>1. ASSUME NEW i \in 1..n, stack'[t][i].pc \notin {"enter", "super"}
          PROVE  SupersSettled(stack[t][i].cls)'
      <3>1. CASE i \in 1..(n - 1)
        <4>1. stack'[t][i] = stack[t][i] /\ SupersSettled(stack[t][i].cls)
          BY <1>1, <1>2, <2>1, <3>1 DEF Deep
        <4> QED
          BY <1>1, <1>7, <2>1, <4>1
      <3>2. CASE i = n
        BY <1>2, <1>5, <1>6, <1>7, <3>2
      <3> QED
        BY <1>3, <3>1, <3>2
    <2>2. ~Returned(t, "super")'
      BY <1>4 DEF Returned, GoesOn
    <2> QED
      BY <1>3, <2>1, <2>2 DEF Deep
  <1>10. Quiet(t)'
    <2>1. ASSUME NEW i \in 1..n, NEW j \in 1..n, j < i, stack'[t][j].pc = "nested"
          PROVE  stack'[t][i].pc \in {"enter", "super", "check"} /\ AllSettled(stack[t][i].cls)'
      <3>0. j \in 1..(n - 1) /\ stack[t][j].pc = "nested" /\ stack'[t][j] = stack[t][j]
        BY <1>2, <1>3, <2>1
      <3>1. CASE i \in 1..(n - 1)
        <4>1. stack'[t][i] = stack[t][i] /\ i \in 1..n /\ j \in 1..n
          BY <1>1, <1>2, <2>1, <3>1
        <4>2. stack[t][i].pc \in {"enter", "super", "check"} /\ AllSettled(stack[t][i].cls)
          BY <1>1, <2>1, <3>0, <4>1 DEF Quiet
        <4> QED
          BY <1>1, <1>7, <4>1, <4>2
      <3>2. CASE i = n
        <4>1. Top(t).pc \in {"enter", "super", "check"} /\ AllSettled(f.cls)
          BY <3>0, NoneNested
        <4>2. Settled(f.cls)
          BY <1>5, <4>1, SettledOnce
        <4>3. f.pc = "check"
          BY <4>1, <4>2 DEF GoesOn
        <4> QED
          BY <1>2, <1>5, <1>7, <3>2, <4>1, <4>3
      <3> QED
        BY <1>3, <3>1, <3>2
    <2>2. ASSUME NEW j \in 1..n, stack'[t][j].pc = "nested"
          PROVE  ret'[t] \notin Failures
      <3>1. f.pc # "threw"
        <4>1. CASE j = n
          BY <1>2, <2>2, <4>1
        <4>2. CASE j \in 1..(n - 1)
          <5>1. stack[t][j].pc = "nested"
            BY <1>2, <2>2, <4>2
          <5>2. Top(t).pc \in {"enter", "super", "check"}
            BY <4>2, <5>1, NoneNested
          <5> QED
            BY <5>2 DEF GoesOn
        <4> QED
          BY <1>3, <4>1, <4>2
      <3> QED
        BY <3>1 DEF Failures
    <2> QED
      BY <1>3, <2>1, <2>2 DEF Quiet
  <1>11. Keeps(t)
    <2> SUFFICES ASSUME NEW d \in Classes, Honours(t, d)
                 PROVE  Honours(t, d)'
      BY DEF Keeps
    <2>1. CASE runs[t][d] > 0
      BY <1>8, <2>1 DEF Honours
    <2>3. CASE d \in skipped[t]
      BY <2>3 DEF Honours, Monotone
    <2>2. CASE \E i \in Frames(t) : stack[t][i].cls = d /\ stack[t][i].pc = "nested"
      <3>1. PICK i \in 1..n : stack[t][i].cls = d /\ stack[t][i].pc = "nested"
        BY <1>1, <2>2
      <3>2. CASE i \in 1..(n - 1)
        BY <1>2, <1>3, <3>1, <3>2 DEF Honours
      <3>3. CASE i = n
        BY <1>1, <1>5, <1>8, <3>1, <3>3 DEF Honours
      <3> QED
        BY <1>3, <3>2, <3>3
    <2> QED
      BY <2>1, <2>2, <2>3 DEF Honours
  <1>12. Late(t)
    <2> SUFFICES ASSUME NEW d \in Classes, called[d], NotWithin(t, d)
                 PROVE  runs'[t][d] = runs[t][d] /\ NotWithin(t, d)'
      BY DEF Late
    <2>1. \A i \in 1..n : stack[t][i].cls = d => stack[t][i].pc \notin {"set", "nested"}
      BY <1>1 DEF NotWithin
    <2>2. f.cls = d => Top(t).pc # "nested" /\ f.pc # "set"
      BY <1>1, <1>3, <1>5, <2>1 DEF GoesOn, Settled
    <2>3. ASSUME NEW i \in 1..n, stack'[t][i].cls = d
          PROVE  stack'[t][i].pc \notin {"set", "nested"}
      <3>1. CASE i \in 1..(n - 1)
        BY <1>1, <1>2, <2>1, <2>3, <3>1
      <3>2. CASE i = n
        BY <1>2, <2>2, <2>3, <3>2 DEF GoesOn
      <3> QED
        BY <1>3, <3>1, <3>2
    <2> QED
      BY <1>3, <1>8, <2>2, <2>3 DEF NotWithin
  <1> QED
    BY <1>9, <1>10, <1>11, <1>12 DEF Claims

\* The top activation is left: a success is of a settled class, past its
\* superclass, a failure is passed on or leaves a <clinit>, or the <clinit> is
\* refused.
Ends(t, r) ==
    \/ /\ r = "ok" /\ Top(t).pc \in {"check", "set", "body"}
       /\ Settled(Top(t).cls) \/ called'[Top(t).cls]
    \/ r \in Failures /\ Top(t).pc \in {"super", "nested"} /\ ret[t] \in Failures
    \/ r \in Failures /\ Top(t).pc \in {"touch", "threw"}
    \/ r = "refused" /\ Top(t).pc = "nested" /\ Top(t).cls \in skipped'[t]

LEMMA ReturnKeepsClaims ==
    ASSUME Inv, ClaimInv, Monotone, NEW t \in Threads, stack[t] # <<>>,
           NEW r \in {"ok"} \cup Failures, Return(t, r), runs'[t] = runs[t], Ends(t, r)
    PROVE  Claims(t)' /\ Keeps(t) /\ Late(t)
  <1> DEFINE n == Len(stack[t])
  <1>1. /\ TypeOK /\ Deep(t) /\ Quiet(t) /\ n \in Nat \ {0} /\ Frames(t) = 1..n
        /\ Top(t) = stack[t][n]
        /\ \A i \in 1..n : stack[t][i].cls \in Classes
        /\ \A i \in 1..(n - 1) : i \in 1..n /\ i < n
    BY Before
  <1>2. /\ Len(stack'[t]) = n - 1
        /\ \A i \in 1..(n - 1) : stack'[t][i] = stack[t][i]
        /\ stack' \in [Threads -> Seq(Frame)]
        /\ ret'[t] = r
    BY <1>1, ReturnFacts DEF Results, Failures
  <1>3. /\ Frames(t)' = 1..(n - 1) /\ n \in 1..n
        /\ \A i \in 1..n : i \in 1..(n - 1) \/ i = n
    BY <1>1, <1>2 DEF Frames
  <1>4. /\ \A d \in Classes : SupersSettled(d) => SupersSettled(d)'
        /\ \A d \in Classes : AllSettled(d) => AllSettled(d)'
    BY SupersSettledStays, AllSettledStays
  <1>5. PICK c \in Classes : c = stack[t][n].cls /\ c = Top(t).cls
    BY <1>1, <1>3
  <1>6. r = "ok" => AllSettled(c)'
    <2> SUFFICES ASSUME r = "ok"
                 PROVE  AllSettled(c)'
      OBVIOUS
    <2>1. Top(t).pc \in {"check", "set", "body"} /\ (Settled(c) \/ called'[c])
      BY <1>5 DEF Ends, Failures
    <2>2. SupersSettled(c)
      BY <1>1, <1>3, <1>5, <2>1 DEF Deep
    <2>3. Settled(c)'
      BY <2>1 DEF Settled, Monotone
    <2> QED
      BY <2>2, <2>3, SettledNow, ConstantsAssumption
  <1>7. Deep(t)'
    <2>1. ASSUME NEW i \in 1..(n - 1), stack'[t][i].pc \notin {"enter", "super"}
          PROVE  SupersSettled(stack[t][i].cls)'
      <3>1. stack'[t][i] = stack[t][i] /\ SupersSettled(stack[t][i].cls)
        BY <1>1, <1>2, <2>1 DEF Deep
      <3> QED
        BY <1>1, <1>4, <2>1, <3>1
    <2>2. ASSUME Returned(t, "super")', ret'[t] = "ok"
          PROVE  SupersSettled(Top(t).cls)'
      <3>1. stack'[t] # <<>> /\ stack'[t] \in Seq(Frame)
        BY <1>2, <2>2 DEF Returned
      <3>2. Len(stack'[t]) # 0
        BY <3>1
      <3>3. /\ n - 1 \in 1..(n - 1) /\ n - 1 \in 1..n /\ n - 1 < n /\ n - 1 + 1 = n
        <4>1. n \in Nat \ {0} /\ n - 1 # 0
          BY <1>1, <1>2, <3>2
        <4> HIDE DEF n
        <4> QED
          BY <4>1
      <3>4. Top(t)' = stack[t][n - 1] /\ stack[t][n - 1].pc = "super"
        BY <1>2, <2>2, <3>3 DEF Returned, Top
      <3>5. SuperChain(t)
        BY DEF Inv, ThreadInv
      <3>6. Super[stack[t][n - 1].cls] = c
        BY <1>1, <1>5, <3>3, <3>4, <3>5 DEF SuperChain
      <3>7. AllSettled(c)'
        BY <1>2, <1>6, <2>2
      <3>8. PICK d \in Classes : d = stack[t][n - 1].cls /\ Super[d] = c
        BY <1>1, <3>3, <3>6
      <3>9. SupersSettled(d)'
        BY <3>7, <3>8 DEF SupersSettled
      <3> QED
        BY <3>4, <3>8, <3>9
    <2> QED
      BY <1>3, <2>1, <2>2 DEF Deep
  <1>8. ASSUME NEW j \in 1..(n - 1), stack[t][j].pc = "nested"
        PROVE  r \notin Failures
    <2>1. Top(t).pc \in {"enter", "super", "check"} /\ ret[t] \notin Failures
      BY <1>8, NoneNested
    <2> QED
      BY <2>1 DEF Ends, Failures
  <1>9. Quiet(t)'
    <2>1. ASSUME NEW i \in 1..(n - 1), NEW j \in 1..(n - 1), j < i, stack'[t][j].pc = "nested"
          PROVE  stack'[t][i].pc \in {"enter", "super", "check"} /\ AllSettled(stack[t][i].cls)'
      <3>1. stack'[t][i] = stack[t][i] /\ stack'[t][j] = stack[t][j] /\ i \in 1..n /\ j \in 1..n
        BY <1>1, <1>2, <2>1
      <3>2. stack[t][i].pc \in {"enter", "super", "check"} /\ AllSettled(stack[t][i].cls)
        BY <1>1, <2>1, <3>1 DEF Quiet
      <3> QED
        BY <1>1, <1>4, <3>1, <3>2
    <2>2. \A j \in 1..(n - 1) : stack[t][j].pc = "nested" => ret'[t] \notin Failures
      BY <1>2, <1>8
    <2> QED
      BY <1>2, <1>3, <2>1, <2>2 DEF Quiet
  <1>10. Top(t).pc = "nested" => c \in skipped'[t]
    <2>1. Top(t).pc = "nested" => ret[t] \notin Failures
      BY <1>1, <1>3 DEF Quiet
    <2> QED
      BY <1>5, <2>1 DEF Ends, Failures
  <1>11. Keeps(t)
    <2> SUFFICES ASSUME NEW d \in Classes, Honours(t, d)
                 PROVE  Honours(t, d)'
      BY DEF Keeps
    <2>1. CASE runs[t][d] > 0
      BY <2>1 DEF Honours
    <2>2. CASE d \in skipped[t]
      BY <2>2 DEF Honours, Monotone
    <2>3. CASE \E i \in Frames(t) : stack[t][i].cls = d /\ stack[t][i].pc = "nested"
      <3>1. PICK i \in 1..n : stack[t][i].cls = d /\ stack[t][i].pc = "nested"
        BY <1>1, <2>3
      <3>2. CASE i = n
        BY <1>1, <1>5, <1>10, <3>1, <3>2 DEF Honours
      <3>3. CASE i \in 1..(n - 1)
        BY <1>2, <1>3, <3>1, <3>3 DEF Honours
      <3> QED
        BY <1>3, <3>2, <3>3
    <2> QED
      BY <2>1, <2>2, <2>3 DEF Honours
  <1>12. Late(t)
    BY <1>1, <1>2, <1>3 DEF Late, NotWithin
  <1> QED
    BY <1>7, <1>9, <1>11, <1>12 DEF Claims

-----------------------------------------------------------------------------
(* Every step keeps ClaimInv                                               *)

\* A step of t that leaves the other threads alone and claims a class with a
\* <clinit> only to run it.
LEMMA ClaimStep ==
    ASSUME Inv, ClaimInv, Monotone, NEW t \in Threads, Claims(t)', Keeps(t), Late(t),
           \A u \in Threads \ {t} :
              stack'[u] = stack[u] /\ ret'[u] = ret[u] /\ runs'[u] = runs[u],
           \A c \in Classes : called'[c] => called[c] \/ SupersSettled(c),
           \A c \in HasClinit : called'[c] => called[c] \/ Honours(t, c)'
    PROVE  ClaimInv' /\ \A u \in Threads : Late(u)
  <1>1. ASSUME NEW u \in Threads \ {t}
        PROVE  Claims(u)' /\ \A c \in Classes : Honours(u, c) => Honours(u, c)'
    <2>1. /\ Deep(u) /\ Quiet(u) /\ TypeOK /\ u \in Threads
          /\ stack'[u] = stack[u] /\ ret'[u] = ret[u] /\ runs'[u] = runs[u]
      BY DEF ClaimInv, Inv
    <2>2. /\ \A d \in Classes : SupersSettled(d) => SupersSettled(d)'
          /\ \A d \in Classes : AllSettled(d) => AllSettled(d)'
      BY SupersSettledStays, AllSettledStays
    <2>3. Frames(u)' = Frames(u) /\ \A i \in Frames(u) : stack[u][i].cls \in Classes
      BY <2>1, FrameFacts DEF Frames
    <2>4. stack[u] # <<>> => Top(u).cls \in Classes /\ Top(u)' = Top(u)
      BY <2>1, TopFacts DEF Top
    <2>5. Deep(u)'
      BY <2>1, <2>2, <2>3, <2>4 DEF Deep, Returned
    <2>6. Quiet(u)'
      BY <2>1, <2>2, <2>3 DEF Quiet
    <2>7. \A c \in Classes : Honours(u, c) => Honours(u, c)'
      BY <2>1, <2>3 DEF Honours, Monotone
    <2> QED
      BY <2>5, <2>6, <2>7 DEF Claims
  <1>2. \A u \in Threads : Deep(u)' /\ Quiet(u)'
    BY <1>1 DEF Claims
  <1>3. ASSUME NEW c \in Classes, called'[c]
        PROVE  AllSettled(c)'
    <2>1. CASE called[c]
      BY <2>1, AllSettledStays DEF ClaimInv
    <2>2. CASE SupersSettled(c)
      <3>1. Settled(c)'
        BY <1>3 DEF Settled
      <3> QED
        BY <2>2, <3>1, SettledNow, ConstantsAssumption
    <2> QED
      BY <1>3, <2>1, <2>2
  <1>4. ASSUME NEW c \in HasClinit, called'[c]
        PROVE  \E u \in Threads : Honours(u, c)'
    <2>1. CASE called[c]
      <3>1. PICK u \in Threads : Honours(u, c)
        BY <2>1 DEF ClaimInv
      <3>2. c \in Classes
        BY ConstantsAssumption DEF ConstantsAssumption
      <3>3. Honours(u, c)'
        BY <1>1, <3>1, <3>2 DEF Keeps
      <3> QED
        BY <3>3
    <2>2. CASE Honours(t, c)'
      BY <2>2
    <2> QED
      BY <1>4, <2>1, <2>2
  <1>5. ASSUME NEW u \in Threads \ {t}
        PROVE  Late(u)
    BY DEF Late, NotWithin, Frames
  <1> QED
    BY <1>2, <1>3, <1>4, <1>5 DEF ClaimInv

\* The conclusion for each action.
Claimed == ClaimInv' /\ \A u \in Threads : Late(u)

LEMMA UseClaims ==
    ASSUME Inv, ClaimInv, NEW t \in Threads, NEW c \in Classes, Use(t, c)
    PROVE  Claimed
  <1>1. TypeOK /\ stack[t] = <<>> /\ Frames(t) = {}
    BY DEF Inv, Use, Outside, Frames
  <1>2. Monotone
    BY <1>1 DEF Use, Monotone, TypeOK, slots
  <1>3. /\ stack'[t] = <<Activation(c)>> /\ ret'[t] = "none"
        /\ UNCHANGED <<called, enabled, runs>>
        /\ \A u \in Threads \ {t} : stack'[u] = stack[u] /\ ret'[u] = ret[u] /\ runs'[u] = runs[u]
    BY <1>1 DEF Use, Outside, TypeOK
  <1>4. Frames(t)' = {1} /\ stack'[t][1].pc = "enter" /\ Top(t)' = stack'[t][1]
    <2>1. Len(stack'[t]) = 1 /\ stack'[t][1] = Activation(c)
      BY <1>3
    <2>2. 1..1 = {1}
      OBVIOUS
    <2> QED
      BY <2>1, <2>2 DEF Frames, Top, Activation
  <1>5. Claims(t)'
    <2>1. Deep(t)'
      BY <1>4 DEF Deep, Returned
    <2>2. ~(1 < 1)
      OBVIOUS
    <2>3. Quiet(t)'
      BY <1>4, <2>2 DEF Quiet
    <2> QED
      BY <2>1, <2>3 DEF Claims
  <1>6. Keeps(t)
    BY <1>1, <1>2, <1>3 DEF Keeps, Honours, Monotone
  <1>7. Late(t)
    BY <1>3, <1>4 DEF Late, NotWithin
  <1>8. \A d \in Classes : called'[d] => called[d]
    BY <1>3
  <1>9. \A d \in HasClinit : called'[d] => called[d]
    BY <1>3
  <1> QED
    BY <1>2, <1>3, <1>5, <1>6, <1>7, <1>8, <1>9, ClaimStep DEF Claimed

LEMMA UseEndsClaims ==
    ASSUME Inv, ClaimInv, NEW t \in Threads, UseEnds(t)
    PROVE  Claimed
  <1>1. TypeOK /\ stack[t] = <<>> /\ Frames(t) = {}
    BY DEF Inv, UseEnds, UseReturns, UseFails, Frames
  <1>2. /\ UNCHANGED <<stack, called, enabled, runs, skipped>>
        /\ ret' = [ret EXCEPT ![t] = "none"]
    BY DEF UseEnds, UseReturns, UseFails, slots
  <1>3. Monotone
    BY <1>1, <1>2 DEF Monotone, TypeOK
  <1>4. /\ stack'[t] = <<>> /\ Frames(t)' = {}
        /\ \A u \in Threads \ {t} : stack'[u] = stack[u] /\ ret'[u] = ret[u] /\ runs'[u] = runs[u]
    BY <1>1, <1>2 DEF Frames, TypeOK
  <1>5. Claims(t)'
    BY <1>4 DEF Claims, Deep, Quiet, Returned
  <1>6. Keeps(t) /\ Late(t)
    BY <1>1, <1>2, <1>4 DEF Keeps, Honours, Late, NotWithin
  <1>7. \A d \in Classes : called'[d] => called[d]
    BY <1>2
  <1>8. \A d \in HasClinit : called'[d] => called[d]
    BY <1>2
  <1> QED
    BY <1>3, <1>4, <1>5, <1>6, <1>7, <1>8, ClaimStep DEF Claimed

\* Steps that leave the stacks alone: those of the code outside uses, switching
\* an initialiser off, and none.
LEMMA IdleClaims ==
    ASSUME Inv, ClaimInv, Monotone, UNCHANGED <<stack, ret, runs, called>>
    PROVE  Claimed
  <1>1. /\ \A d \in Classes : SupersSettled(d) => SupersSettled(d)'
        /\ \A d \in Classes : AllSettled(d) => AllSettled(d)'
    BY SupersSettledStays, AllSettledStays
  <1>2. ASSUME NEW u \in Threads
        PROVE  Deep(u)' /\ Quiet(u)' /\ Late(u) /\ \A c \in Classes : Honours(u, c) => Honours(u, c)'
    <2>1. Deep(u) /\ Quiet(u) /\ TypeOK
      BY DEF ClaimInv, Inv
    <2>2. Frames(u)' = Frames(u) /\ \A i \in Frames(u) : stack[u][i].cls \in Classes
      BY <2>1, FrameFacts DEF Frames
    <2>3. stack[u] # <<>> => Top(u).cls \in Classes /\ Top(u)' = Top(u)
      BY <2>1, TopFacts DEF Top
    <2>4. Deep(u)'
      BY <1>1, <2>1, <2>2, <2>3 DEF Deep, Returned
    <2>5. Quiet(u)'
      BY <1>1, <2>1, <2>2 DEF Quiet
    <2>6. Late(u)
      BY <2>2 DEF Late, NotWithin
    <2>7. \A c \in Classes : Honours(u, c) => Honours(u, c)'
      BY <2>2 DEF Honours, Monotone
    <2> QED
      BY <2>4, <2>5, <2>6, <2>7
  <1>3. \A c \in Classes : called'[c] => AllSettled(c)'
    BY <1>1 DEF ClaimInv
  <1>4. \A c \in HasClinit : called'[c] => \E t \in Threads : Honours(t, c)'
    BY <1>2, ConstantsAssumption DEF ClaimInv, ConstantsAssumption
  <1> QED
    BY <1>2, <1>3, <1>4 DEF ClaimInv, Claimed

\* A step of t that claims nothing.
LEMMA NoClaimStep ==
    ASSUME Inv, ClaimInv, NEW t \in Threads, Claims(t)', Keeps(t), Late(t),
           Monotone, called' = called,
           \A u \in Threads \ {t} :
              stack'[u] = stack[u] /\ ret'[u] = ret[u] /\ runs'[u] = runs[u]
    PROVE  Claimed
  <1>1. \A c \in Classes : called'[c] => called[c]
    OBVIOUS
  <1>2. \A c \in HasClinit : called'[c] => called[c]
    OBVIOUS
  <1> QED
    BY <1>1, <1>2, ClaimStep DEF Claimed

LEMMA EnsureSuperClaims ==
    ASSUME Inv, ClaimInv, NEW t \in Threads, EnsureSuper(t)
    PROVE  Claimed
  <1> DEFINE f == Top(t)
  <1>1. /\ TypeOK /\ stack[t] # <<>> /\ f.pc = "enter" /\ ret[t] = "none"
        /\ UNCHANGED <<enabled, called, ret, calls, runs, thrown, failed, slot, code, skipped, unwound, dropped>>
    BY DEF Inv, EnsureSuper, Running, slots
  <1>2. f \in Frame /\ f.cls \in Classes
    BY <1>1, TopFacts
  <1>3. Monotone
    BY <1>1 DEF Monotone, TypeOK
  <1>4. CASE Super[f.cls] # NoClass
    <2> DEFINE g == [f EXCEPT !.pc = "super"]
               s == Super[f.cls]
    <2>1. s \in Classes
      BY <1>2, <1>4, ConstantsAssumption DEF ConstantsAssumption
    <2>2. g \in Frame /\ g.pc = "super" /\ g.cls = f.cls
      BY <1>2 DEF Frame, PCs
    <2>3. CallEnsure(t, g, s)
      BY <1>4 DEF EnsureSuper
    <2> HIDE DEF g
    <2>4. CallsFor(t, g, s)
      BY <1>1, <2>2 DEF CallsFor
    <2>5. Claims(t)' /\ Keeps(t) /\ Late(t)
      BY <1>1, <1>3, <2>1, <2>2, <2>3, <2>4, CallKeepsClaims
    <2>6. \A u \in Threads \ {t} : stack'[u] = stack[u]
      BY <1>1, <2>1, <2>2, <2>3, CallEnsureFacts
    <2> QED
      BY <1>1, <1>3, <2>5, <2>6, NoClaimStep
  <1>5. CASE Super[f.cls] = NoClass
    <2> DEFINE g == [f EXCEPT !.pc = "check"]
    <2>1. g \in Frame /\ g.pc = "check" /\ g.cls = f.cls
      BY <1>2 DEF Frame, PCs
    <2>2. Goto(t, g)
      BY <1>5 DEF EnsureSuper
    <2> HIDE DEF g
    <2>3. GoesOn(t, g)
      BY <1>1, <1>5, <2>1 DEF GoesOn
    <2>4. runs'[t] = IF f.pc = "nested" THEN [runs[t] EXCEPT ![g.cls] = @ + 1] ELSE runs[t]
      BY <1>1
    <2>5. Claims(t)' /\ Keeps(t) /\ Late(t)
      BY <1>1, <1>3, <2>1, <2>2, <2>3, <2>4, GotoKeepsClaims
    <2>6. \A u \in Threads \ {t} : stack'[u] = stack[u]
      BY <1>1, <2>1, <2>2, GotoFacts
    <2> QED
      BY <1>1, <1>3, <2>5, <2>6, NoClaimStep
  <1> QED
    BY <1>4, <1>5

LEMMA SuperEnsuredClaims ==
    ASSUME Inv, ClaimInv, NEW t \in Threads, SuperEnsured(t)
    PROVE  Claimed
  <1> DEFINE f == Top(t)
  <1>1. /\ TypeOK /\ stack[t] # <<>> /\ f.pc = "super" /\ ret[t] # "none"
        /\ UNCHANGED <<enabled, called, calls, runs, thrown, failed, slot, code, skipped, unwound, dropped>>
    BY DEF Inv, SuperEnsured, Returned, slots
  <1>2. f \in Frame /\ f.cls \in Classes /\ ret[t] \in Results
    BY <1>1, TopFacts DEF TypeOK
  <1>3. Monotone
    BY <1>1 DEF Monotone, TypeOK
  <1>4. CASE ret[t] \in Failures
    <2>1. /\ Return(t, ret[t]) /\ Ends(t, ret[t])
          /\ ret[t] \in Results /\ ret[t] \in {"ok"} \cup Failures
      BY <1>1, <1>4 DEF SuperEnsured, Ends, Results
    <2>2. Claims(t)' /\ Keeps(t) /\ Late(t)
      BY <1>1, <1>3, <2>1, ReturnKeepsClaims
    <2>3. \A u \in Threads \ {t} : stack'[u] = stack[u] /\ ret'[u] = ret[u]
      BY <1>1, <2>1, ReturnFacts
    <2> QED
      BY <1>1, <1>3, <2>2, <2>3, NoClaimStep
  <1>5. CASE ret[t] \notin Failures
    <2> DEFINE g == [f EXCEPT !.pc = "check"]
    <2>1. g \in Frame /\ g.pc = "check" /\ g.cls = f.cls
      BY <1>2 DEF Frame, PCs
    <2>2. Goto(t, g) /\ ret' = [ret EXCEPT ![t] = "none"]
      BY <1>5 DEF SuperEnsured
    <2> HIDE DEF g
    <2>3. GoesOn(t, g)
      BY <1>1, <1>2, <1>5, <2>1 DEF GoesOn, Returned, Results, Failures
    <2>4. runs'[t] = IF f.pc = "nested" THEN [runs[t] EXCEPT ![g.cls] = @ + 1] ELSE runs[t]
      BY <1>1
    <2>5. ret'[t] = "none" /\ \A u \in Threads \ {t} : ret'[u] = ret[u]
      BY <1>1, <2>2 DEF TypeOK
    <2>6. Claims(t)' /\ Keeps(t) /\ Late(t)
      BY <1>1, <1>3, <2>1, <2>2, <2>3, <2>4, <2>5, GotoKeepsClaims
    <2>7. \A u \in Threads \ {t} : stack'[u] = stack[u]
      BY <1>1, <2>1, <2>2, GotoFacts
    <2> QED
      BY <1>1, <1>3, <2>5, <2>6, <2>7, NoClaimStep
  <1> QED
    BY <1>4, <1>5

LEMMA CheckCalledClaims ==
    ASSUME Inv, ClaimInv, NEW t \in Threads, CheckCalled(t)
    PROVE  Claimed
  <1> DEFINE f == Top(t)
  <1>1. /\ TypeOK /\ stack[t] # <<>> /\ f.pc = "check" /\ ret[t] = "none"
        /\ UNCHANGED <<enabled, called, calls, runs, thrown, failed, slot, code, skipped, unwound, dropped>>
    BY DEF Inv, CheckCalled, Running, slots
  <1>2. f \in Frame /\ f.cls \in Classes
    BY <1>1, TopFacts
  <1>3. Monotone
    BY <1>1 DEF Monotone, TypeOK
  <1>4. CASE ~Settled(f.cls)
    <2> DEFINE g == [f EXCEPT !.pc = "set"]
    <2>1. g \in Frame /\ g.pc = "set" /\ g.cls = f.cls
      BY <1>2 DEF Frame, PCs
    <2>2. Goto(t, g) /\ ret' = ret
      BY <1>4 DEF CheckCalled, Settled
    <2> HIDE DEF g
    <2>3. GoesOn(t, g)
      BY <1>1, <1>4, <2>1 DEF GoesOn
    <2>4. runs'[t] = IF f.pc = "nested" THEN [runs[t] EXCEPT ![g.cls] = @ + 1] ELSE runs[t]
      BY <1>1
    <2>5. Claims(t)' /\ Keeps(t) /\ Late(t)
      BY <1>1, <1>3, <2>1, <2>2, <2>3, <2>4, GotoKeepsClaims
    <2>6. \A u \in Threads \ {t} : stack'[u] = stack[u]
      BY <1>1, <2>1, <2>2, GotoFacts
    <2> QED
      BY <1>1, <1>3, <2>2, <2>5, <2>6, NoClaimStep
  <1>5. CASE Settled(f.cls)
    <2>1. Return(t, "ok") /\ Ends(t, "ok")
      BY <1>1, <1>5 DEF CheckCalled, Settled, Ends
    <2>2. Claims(t)' /\ Keeps(t) /\ Late(t)
      BY <1>1, <1>3, <2>1, ReturnKeepsClaims
    <2>3. \A u \in Threads \ {t} : stack'[u] = stack[u] /\ ret'[u] = ret[u]
      BY <1>1, <2>1, ReturnFacts DEF Results, Failures
    <2> QED
      BY <1>1, <1>3, <2>2, <2>3, NoClaimStep
  <1> QED
    BY <1>4, <1>5

\* The one step that claims.
LEMMA SetCalledClaims ==
    ASSUME Inv, ClaimInv, NEW t \in Threads, SetCalled(t)
    PROVE  Claimed
  <1> DEFINE f == Top(t)
  <1>1. /\ TypeOK /\ stack[t] # <<>> /\ f.pc = "set" /\ ret[t] = "none"
        /\ UNCHANGED <<enabled, calls, runs, thrown, failed, slot, code, skipped, unwound, dropped>>
        /\ called' = [called EXCEPT ![f.cls] = TRUE]
    BY DEF Inv, SetCalled, Running, slots
  <1>2. f \in Frame /\ f.cls \in Classes
    BY <1>1, TopFacts
  <1>3. Monotone /\ called'[f.cls]
    BY <1>1, <1>2 DEF Monotone, TypeOK
  <1>4. \A c \in Classes : called'[c] => called[c] \/ c = f.cls
    BY <1>1, <1>2 DEF TypeOK
  <1>5. SupersSettled(f.cls)
    <2>1. /\ Deep(t) /\ Len(stack[t]) \in Nat \ {0}
          /\ Frames(t) = 1..Len(stack[t]) /\ f = stack[t][Len(stack[t])]
      BY <1>1, Before
    <2>2. Len(stack[t]) \in Frames(t)
      BY <2>1
    <2> QED
      BY <1>1, <2>1, <2>2 DEF Deep
  <1>6. CASE f.cls \in HasClinit
    <2> DEFINE g == [f EXCEPT !.pc = "nested"]
    <2>1. g \in Frame /\ g.pc = "nested" /\ g.cls = f.cls
      BY <1>2 DEF Frame, PCs
    <2>2. CallEnsure(t, g, f.cls) /\ ret' = ret
      BY <1>6 DEF SetCalled
    <2> HIDE DEF g
    <2>3. CallsFor(t, g, f.cls)
      BY <1>1, <1>3, <2>1 DEF CallsFor
    <2>4. /\ Claims(t)' /\ Keeps(t) /\ Late(t)
          /\ \A d \in Classes : g.cls = d => Honours(t, d)'
      BY <1>1, <1>2, <1>3, <2>1, <2>2, <2>3, CallKeepsClaims
    <2>5. \A u \in Threads \ {t} : stack'[u] = stack[u]
      BY <1>1, <1>2, <2>1, <2>2, CallEnsureFacts
    <2>6. \A d \in Classes : f.cls = d => Honours(t, d)'
      BY <2>1, <2>4
    <2>7. \A c \in Classes : called'[c] => called[c] \/ SupersSettled(c)
      BY <1>4, <1>5
    <2>8. \A c \in HasClinit : called'[c] => called[c] \/ Honours(t, c)'
      BY <1>4, <2>6, ConstantsAssumption DEF ConstantsAssumption
    <2> QED
      BY <1>1, <1>3, <2>2, <2>4, <2>5, <2>7, <2>8, ClaimStep DEF Claimed
  <1>7. CASE f.cls \notin HasClinit
    <2>1. Return(t, "ok") /\ Ends(t, "ok")
      BY <1>1, <1>3, <1>7 DEF SetCalled, Ends
    <2>2. Claims(t)' /\ Keeps(t) /\ Late(t)
      BY <1>1, <1>3, <2>1, ReturnKeepsClaims
    <2>3. \A u \in Threads \ {t} : stack'[u] = stack[u] /\ ret'[u] = ret[u]
      BY <1>1, <2>1, ReturnFacts DEF Results, Failures
    <2>4. \A c \in Classes : called'[c] => called[c] \/ SupersSettled(c)
      BY <1>4, <1>5
    <2>5. \A c \in HasClinit : called'[c] => called[c]
      BY <1>4, <1>7, ConstantsAssumption DEF ConstantsAssumption
    <2> QED
      BY <1>1, <1>3, <2>2, <2>3, <2>4, <2>5, ClaimStep DEF Claimed
  <1> QED
    BY <1>6, <1>7

LEMMA BeginClinitClaims ==
    ASSUME Inv, ClaimInv, NEW t \in Threads, BeginClinit(t)
    PROVE  Claimed
  <1> DEFINE f == Top(t)
  <1>1. /\ TypeOK /\ stack[t] # <<>> /\ f.pc = "nested" /\ ret[t] # "none"
        /\ UNCHANGED <<enabled, called>>
        /\ \A u \in Threads \ {t} : runs'[u] = runs[u]
    BY DEF Inv, TypeOK, BeginClinit, Returned
  <1>2. f \in Frame /\ f.cls \in Classes
    BY <1>1, TopFacts
  <1>3. Monotone
    BY <1>1, <1>2 DEF Monotone, TypeOK, BeginClinit
  <1>4. ret[t] \notin Failures
    <2>1. /\ Quiet(t) /\ Len(stack[t]) \in Nat \ {0}
          /\ Frames(t) = 1..Len(stack[t]) /\ f = stack[t][Len(stack[t])]
      BY <1>1, Before
    <2>2. Len(stack[t]) \in Frames(t)
      BY <2>1
    <2> QED
      BY <1>1, <2>1, <2>2 DEF Quiet
  <1>5. CASE slot
    <2>1. Return(t, "refused") /\ runs' = runs /\ f.cls \in skipped'[t]
      BY <1>1, <1>2, <1>4, <1>5 DEF BeginClinit, TypeOK
    <2>2. Ends(t, "refused")
      BY <1>1, <2>1 DEF Ends
    <2>3. "refused" \in {"ok"} \cup Failures /\ "refused" \in Results
      BY DEF Failures, Results
    <2>4. Claims(t)' /\ Keeps(t) /\ Late(t)
      BY <1>1, <1>3, <2>1, <2>2, <2>3, ReturnKeepsClaims
    <2>5. \A u \in Threads \ {t} : stack'[u] = stack[u] /\ ret'[u] = ret[u]
      BY <1>1, <2>1, <2>3, ReturnFacts
    <2> QED
      BY <1>1, <1>3, <2>4, <2>5, NoClaimStep
  <1>6. CASE ~slot
    <2> DEFINE g == [f EXCEPT !.pc = "body", !.todo = Touches[f.cls]]
    <2>1. g \in Frame /\ g.pc = "body" /\ g.cls = f.cls
      BY <1>2, ConstantsAssumption DEF Frame, PCs, ConstantsAssumption
    <2>2. /\ Goto(t, g) /\ ret' = [ret EXCEPT ![t] = "none"]
          /\ runs' = [runs EXCEPT ![t][f.cls] = @ + 1]
      BY <1>4, <1>6 DEF BeginClinit
    <2> HIDE DEF g
    <2>3. GoesOn(t, g)
      BY <1>1, <2>1 DEF GoesOn
    <2>4. runs'[t] = [runs[t] EXCEPT ![g.cls] = @ + 1]
      BY <1>1, <2>1, <2>2 DEF TypeOK
    <2>5. ret'[t] = "none" /\ \A u \in Threads \ {t} : ret'[u] = ret[u]
      BY <1>1, <2>2 DEF TypeOK
    <2>6. Claims(t)' /\ Keeps(t) /\ Late(t)
      BY <1>1, <1>3, <2>1, <2>2, <2>3, <2>4, <2>5, GotoKeepsClaims
    <2>7. \A u \in Threads \ {t} : stack'[u] = stack[u]
      BY <1>1, <2>1, <2>2, GotoFacts
    <2> QED
      BY <1>1, <1>3, <2>5, <2>6, <2>7, NoClaimStep
  <1> QED
    BY <1>5, <1>6

LEMMA ClinitTouchesClaims ==
    ASSUME Inv, ClaimInv, NEW t \in Threads, NEW d \in Classes, ClinitTouches(t, d)
    PROVE  Claimed
  <1> DEFINE f == Top(t)
             g == [f EXCEPT !.pc = "touch", !.todo = @ \ {d}]
  <1>1. /\ TypeOK /\ stack[t] # <<>> /\ f.pc = "body" /\ ret[t] = "none"
        /\ CallEnsure(t, g, d)
        /\ UNCHANGED <<enabled, called, ret, calls, runs, thrown, failed, slot, code, skipped, unwound, dropped>>
    BY DEF Inv, ClinitTouches, Running, slots
  <1>2. f \in Frame /\ f.cls \in Classes
    BY <1>1, TopFacts
  <1>3. Monotone
    BY <1>1 DEF Monotone, TypeOK
  <1>4. g \in Frame /\ g.pc = "touch" /\ g.cls = f.cls
    BY <1>2 DEF Frame, PCs
  <1> HIDE DEF g
  <1>5. CallsFor(t, g, d)
    BY <1>1, <1>4 DEF CallsFor
  <1>6. Claims(t)' /\ Keeps(t) /\ Late(t)
    BY <1>1, <1>3, <1>4, <1>5, CallKeepsClaims
  <1>7. \A u \in Threads \ {t} : stack'[u] = stack[u]
    BY <1>1, <1>4, CallEnsureFacts
  <1> QED
    BY <1>1, <1>3, <1>6, <1>7, NoClaimStep

LEMMA ClinitGoesOnClaims ==
    ASSUME Inv, ClaimInv, NEW t \in Threads, GoesOnAfter(t)
    PROVE  Claimed
  <1> DEFINE f == Top(t)
             g == [f EXCEPT !.pc = "body"]
  <1>1. /\ TypeOK /\ stack[t] # <<>> /\ f.pc \in {"touch", "threw"}
        /\ Goto(t, g) /\ ret' = [ret EXCEPT ![t] = "none"]
        /\ UNCHANGED <<enabled, called, runs, skipped>>
    BY DEF Inv, GoesOnAfter, ClinitContinues, ClinitDrops, ClinitCatches, Failed, Returned, slots
  <1>2. f \in Frame /\ f.cls \in Classes
    BY <1>1, TopFacts
  <1>3. Monotone
    BY <1>1 DEF Monotone, TypeOK
  <1>4. g \in Frame /\ g.pc = "body" /\ g.cls = f.cls
    BY <1>2 DEF Frame, PCs
  <1> HIDE DEF g
  <1>5. GoesOn(t, g)
    BY <1>1, <1>4 DEF GoesOn
  <1>6. ret'[t] = "none" /\ \A u \in Threads \ {t} : ret'[u] = ret[u]
    BY <1>1 DEF TypeOK
  <1>7. runs'[t] = IF f.pc = "nested" THEN [runs[t] EXCEPT ![g.cls] = @ + 1] ELSE runs[t]
    BY <1>1
  <1>8. Claims(t)' /\ Keeps(t) /\ Late(t)
    BY <1>1, <1>3, <1>4, <1>5, <1>6, <1>7, GotoKeepsClaims
  <1>9. \A u \in Threads \ {t} : stack'[u] = stack[u]
    BY <1>1, <1>4, GotoFacts
  <1> QED
    BY <1>1, <1>3, <1>6, <1>8, <1>9, NoClaimStep

LEMMA ClinitThrowsClaims ==
    ASSUME Inv, ClaimInv, NEW t \in Threads, ClinitThrows(t)
    PROVE  Claimed
  <1> DEFINE f == Top(t)
             g == [f EXCEPT !.pc = "threw"]
  <1>1. /\ TypeOK /\ stack[t] # <<>> /\ f.pc = "body" /\ Goto(t, g)
        /\ UNCHANGED <<enabled, called, runs, skipped>>
        /\ \A u \in Threads \ {t} : ret'[u] = ret[u]
    BY DEF Inv, TypeOK, ClinitThrows, Running
  <1>2. f \in Frame /\ f.cls \in Classes
    BY <1>1, TopFacts
  <1>3. Monotone
    BY <1>1 DEF Monotone, TypeOK
  <1>4. g \in Frame /\ g.pc = "threw" /\ g.cls = f.cls
    BY <1>2 DEF Frame, PCs
  <1> HIDE DEF g
  <1>5. GoesOn(t, g)
    BY <1>1, <1>4 DEF GoesOn
  <1>6. runs'[t] = IF f.pc = "nested" THEN [runs[t] EXCEPT ![g.cls] = @ + 1] ELSE runs[t]
    BY <1>1
  <1>7. Claims(t)' /\ Keeps(t) /\ Late(t)
    BY <1>1, <1>3, <1>4, <1>5, <1>6, GotoKeepsClaims
  <1>8. \A u \in Threads \ {t} : stack'[u] = stack[u]
    BY <1>1, <1>4, GotoFacts
  <1> QED
    BY <1>1, <1>3, <1>7, <1>8, NoClaimStep

LEMMA ClinitEndsClaims ==
    ASSUME Inv, ClaimInv, NEW t \in Threads, ClinitPropagates(t) \/ ClinitReturns(t)
    PROVE  Claimed
  <1> DEFINE f == Top(t)
  <1>1. /\ TypeOK /\ stack[t] # <<>>
        /\ UNCHANGED <<enabled, called, runs, skipped>>
    BY DEF Inv, ClinitPropagates, ClinitReturns, Running, Failed, Returned, slots
  <1>2. PICK r \in {"ok"} \cup Failures :
            /\ Return(t, r) /\ (r = "ok" => f.pc = "body")
            /\ r \in Failures => f.pc \in {"touch", "threw"}
    <2>1. CASE ClinitReturns(t)
      BY <2>1 DEF ClinitReturns, Running, Failures
    <2>2. CASE ClinitPropagates(t)
      BY <2>2 DEF ClinitPropagates, Failed, Returned, Failures
    <2> QED
      BY <2>1, <2>2
  <1>3. Monotone
    BY <1>1 DEF Monotone, TypeOK
  <1>4. f.pc = "body" => called[f.cls]
    <2>1. ClaimedFirst(t) /\ Len(stack[t]) \in Frames(t) /\ f = stack[t][Len(stack[t])]
      BY <1>1, TopFacts DEF Inv, ThreadInv, Frames
    <2> QED
      BY <2>1 DEF ClaimedFirst
  <1>5. Ends(t, r)
    BY <1>2, <1>4 DEF Ends, Settled
  <1>6. Claims(t)' /\ Keeps(t) /\ Late(t)
    BY <1>1, <1>2, <1>3, <1>5, ReturnKeepsClaims
  <1>7. \A u \in Threads \ {t} : stack'[u] = stack[u] /\ ret'[u] = ret[u]
    BY <1>1, <1>2, ReturnFacts DEF Results
  <1> QED
    BY <1>1, <1>3, <1>6, <1>7, NoClaimStep

LEMMA NextClaims ==
    ASSUME Inv, ClaimInv, [Next]_vars
    PROVE  Claimed
  <1>1. ASSUME NEW t \in Threads, NEW c \in Classes, Use(t, c)
        PROVE  Claimed
    BY <1>1, UseClaims
  <1>2. ASSUME NEW t \in Threads, UseEnds(t)
        PROVE  Claimed
    BY <1>2, UseEndsClaims
  <1>3. CASE CodeStep
    BY <1>3, CodeFacts, IdleClaims DEF Inv
  <1>4. ASSUME NEW t \in Threads, Ensure(t)
        PROVE  Claimed
    BY <1>4, EnsureSuperClaims, SuperEnsuredClaims, CheckCalledClaims, SetCalledClaims,
       BeginClinitClaims DEF Ensure
  <1>5. ASSUME NEW t \in Threads, Clinit(t)
        PROVE  Claimed
    BY <1>5, ClinitTouchesClaims, ClinitGoesOnClaims, ClinitThrowsClaims, ClinitEndsClaims
    DEF Clinit, GoesOnAfter
  <1>6. ASSUME NEW c \in Classes, DisableStaticInitializer(c)
        PROVE  Claimed
    <2>1. Monotone /\ UNCHANGED <<stack, ret, runs, called>>
      BY <1>6 DEF Inv, DisableStaticInitializer, Monotone, TypeOK, slots
    <2> QED
      BY <2>1, IdleClaims
  <1>7. CASE UNCHANGED vars
    <2>1. Monotone /\ UNCHANGED <<stack, ret, runs, called>>
      BY <1>7 DEF Inv, vars, slots, Monotone, TypeOK
    <2> QED
      BY <2>1, IdleClaims
  <1> QED
    BY <1>1, <1>2, <1>3, <1>4, <1>5, <1>6, <1>7 DEF Next, CodeStep

LEMMA InitClaims ==
    ASSUME Init
    PROVE  ClaimInv
  <1>1. \A c \in Classes : ~called[c]
    BY DEF Init
  <1>2. ASSUME NEW t \in Threads
        PROVE  stack[t] = <<>> /\ Frames(t) = {}
    BY DEF Init, Frames
  <1>3. \A t \in Threads : Deep(t) /\ Quiet(t)
    BY <1>2 DEF Deep, Quiet, Returned
  <1> QED
    BY <1>1, <1>3, ConstantsAssumption DEF ClaimInv, ConstantsAssumption

-----------------------------------------------------------------------------
(* Why the slot can be full when a thread claims a class                   *)

Unwinding(t) == code[t] # "run" \/ ret[t] \in Failures

\* A throwable in the slot is the work of a thread that is unwinding or went
\* on past a failure: to any other, that is another thread's doing.
CauseInv ==
    /\ \A t \in Threads : Unwinding(t) => t \in unwound
    /\ \A t \in Threads : stack[t] # <<>> \/ ret[t] # "none" => code[t] = "run"
    /\ slot => \A t \in Threads : Disturbed(t) \/ Unwinding(t)
    /\ \A t \in Threads : skipped[t] # {} => Disturbed(t)

\* A step of t that refuses nothing: it may fill the slot while it unwinds,
\* and stops unwinding only with the slot empty or by dropping the failure.
Unrefused(t) ==
    /\ skipped' = skipped /\ unwound \subseteq unwound' /\ dropped \subseteq dropped'
    /\ \A u \in Threads \ {t} :
          stack'[u] = stack[u] /\ ret'[u] = ret[u] /\ code'[u] = code[u]
    /\ Unwinding(t)' => t \in unwound'
    /\ stack'[t] # <<>> \/ ret'[t] # "none" => code'[t] = "run"
    /\ slot' => slot \/ (t \in unwound' /\ Unwinding(t)')
    /\ slot' /\ Unwinding(t) => Unwinding(t)' \/ t \in dropped'

LEMMA CauseStep ==
    ASSUME TypeOK, CauseInv, NEW t \in Threads, Unrefused(t)
    PROVE  CauseInv'
  <1>1. ASSUME NEW u \in Threads, Disturbed(u)
        PROVE  Disturbed(u)'
    BY <1>1 DEF Disturbed, Unrefused
  <1>2. ASSUME NEW u \in Threads \ {t}
        PROVE  /\ Unwinding(u)' <=> Unwinding(u)
               /\ t \in unwound' => Disturbed(u)'
    BY DEF Unwinding, Disturbed, Unrefused
  <1>3. ASSUME NEW u \in Threads
        PROVE  /\ Unwinding(u)' => u \in unwound'
               /\ stack'[u] # <<>> \/ ret'[u] # "none" => code'[u] = "run"
               /\ skipped'[u] # {} => Disturbed(u)'
    BY <1>1, <1>2 DEF CauseInv, Unrefused
  <1>4. ASSUME slot', NEW u \in Threads
        PROVE  Disturbed(u)' \/ Unwinding(u)'
    <2>1. CASE u = t
      BY <1>1, <1>4, <2>1 DEF CauseInv, Disturbed, Unrefused
    <2>2. CASE u # t
      BY <1>1, <1>2, <1>4, <2>2 DEF CauseInv, Unrefused
    <2> QED
      BY <2>1, <2>2
  <1> QED
    BY <1>3, <1>4 DEF CauseInv

\* A step that changes neither what a thread does nor the slot.
LEMMA CauseStutter ==
    ASSUME CauseInv, UNCHANGED slots,
           \A u \in Threads : (stack'[u] # <<>> => stack[u] # <<>>) /\ ret'[u] = ret[u]
    PROVE  CauseInv'
  BY DEF CauseInv, Unwinding, Disturbed, slots

LEMMA NextCauses ==
    ASSUME Inv, CauseInv, [Next]_vars
    PROVE  CauseInv'
  <1>0. TypeOK /\ TypeOK'
    BY NextKeepsInv DEF Inv
  <1>1. ASSUME NEW t \in Threads, NEW c \in Classes, Use(t, c)
        PROVE  CauseInv'
    <2>1. Unrefused(t)
      BY <1>0, <1>1 DEF Unrefused, Use, Outside, Unwinding, Failures, TypeOK, slots
    <2> QED
      BY <1>0, <2>1, CauseStep
  <1>2. ASSUME NEW t \in Threads, UseEnds(t)
        PROVE  CauseInv'
    <2>1. ret[t] # "none" /\ code[t] = "run" /\ (Unwinding(t) => t \in unwound)
      BY <1>2 DEF CauseInv, UseEnds, UseReturns, UseFails, Failures
    <2>2. CASE UseReturns(t)
      BY <1>0, <2>1, <2>2, CauseStep
      DEF Unrefused, UseReturns, Unwinding, Failures, TypeOK, slots
    <2>3. CASE UseFails(t)
      BY <1>0, <2>1, <2>3, CauseStep DEF Unrefused, UseFails, Unwinding, Failures, TypeOK
    <2> QED
      BY <1>2, <2>2, <2>3 DEF UseEnds
  <1>3. ASSUME NEW t \in Threads, Code(t)
        PROVE  CauseInv'
    <2>1. code[t] # "run" => t \in unwound /\ stack[t] = <<>> /\ ret[t] = "none"
      BY DEF CauseInv, Unwinding
    <2>2. CASE CodeThrows(t)
      BY <1>0, <2>2, CauseStep
      DEF Unrefused, CodeThrows, Outside, Unwinding, Failures, TypeOK
    <2>3. CASE CodePassesOn(t)
      BY <1>0, <2>1, <2>3, CauseStep DEF Unrefused, CodePassesOn, Unwinding, Failures, TypeOK
    <2>4. CASE CodeCatches(t)
      BY <1>0, <2>1, <2>4, CauseStep DEF Unrefused, CodeCatches, Unwinding, Failures, TypeOK
    <2> QED
      BY <1>3, <2>2, <2>3, <2>4 DEF Code
  <1>4. CASE EmbedderRetrieves
    <2>1. Main \in Threads
      BY ConstantsAssumption DEF ConstantsAssumption
    <2>2. code[Main] # "run" /\ stack[Main] = <<>> /\ ret[Main] = "none"
      BY <1>4, <2>1 DEF CauseInv, EmbedderRetrieves, Failures
    <2>3. Unrefused(Main)
      BY <1>0, <1>4, <2>1, <2>2
      DEF Unrefused, EmbedderRetrieves, Unwinding, Failures, TypeOK
    <2> QED
      BY <1>0, <2>1, <2>3, CauseStep
  <1>5. ASSUME NEW t \in Threads, stack[t] # <<>>
        PROVE  code[t] = "run" /\ (ret[t] \in Failures => t \in unwound)
    BY <1>5 DEF CauseInv, Unwinding
  <1>6. ASSUME NEW t \in Threads, BeginClinit(t), ret[t] = "ok" /\ slot
        PROVE  CauseInv'
    <2>1. /\ code[t] = "run" /\ "ok" \notin Failures /\ "refused" \in Failures
          /\ ret'[t] = "refused" /\ slot' = slot /\ code' = code /\ dropped' = dropped
          /\ unwound' = unwound \cup {t}
      BY <1>0, <1>5, <1>6 DEF BeginClinit, Returned, Return, Failures, TypeOK
    <2>2. /\ \A u \in Threads \ {t} :
                stack'[u] = stack[u] /\ ret'[u] = ret[u] /\ skipped'[u] = skipped[u]
      BY <1>0, <1>6 DEF BeginClinit, Return, Failures, TypeOK
    <2>3. ~Unwinding(t)
      BY <1>6, <2>1 DEF Unwinding
    <2>4. Disturbed(t)
      BY <1>6, <2>3 DEF CauseInv
    <2>5. \A u \in Threads : Disturbed(u) => Disturbed(u)'
      BY <2>1 DEF Disturbed
    <2>6. ASSUME NEW u \in Threads \ {t}
          PROVE  Unwinding(u)' <=> Unwinding(u)
      BY <2>1, <2>2 DEF Unwinding
    <2>7. ASSUME NEW u \in Threads
          PROVE  /\ Unwinding(u)' => u \in unwound'
                 /\ stack'[u] # <<>> \/ ret'[u] # "none" => code'[u] = "run"
                 /\ Disturbed(u)' \/ Unwinding(u)'
                 /\ skipped'[u] # {} => Disturbed(u)'
      <3>1. CASE u = t
        BY <2>1, <2>4, <2>5, <3>1
      <3>2. CASE u # t
        BY <1>6, <2>1, <2>2, <2>5, <2>6, <3>2 DEF CauseInv
      <3> QED
        BY <3>1, <3>2
    <2> QED
      BY <2>7 DEF CauseInv
  <1>7. ASSUME NEW t \in Threads, BeginClinit(t), ~(ret[t] = "ok" /\ slot)
        PROVE  CauseInv'
    <2>1. /\ code[t] = "run" /\ code' = code /\ slot' = slot
          /\ UNCHANGED <<skipped, unwound, dropped>>
          /\ ret[t] \in Failures => t \in unwound
      BY <1>5, <1>7 DEF BeginClinit, Returned, Failures
    <2>2. \A u \in Threads \ {t} : stack'[u] = stack[u] /\ ret'[u] = ret[u]
      BY <1>0, <1>7 DEF BeginClinit, Return, Goto, TypeOK
    <2>3. ret'[t] \in Failures <=> ret[t] \in Failures
      BY <1>0, <1>7 DEF BeginClinit, Return, Failures, TypeOK
    <2>4. Unrefused(t)
      BY <2>1, <2>2, <2>3 DEF Unrefused, Unwinding
    <2> QED
      BY <1>0, <2>4, CauseStep
  <1>8. ASSUME NEW t \in Threads, EnsureSuper(t) \/ \E d \in Classes : ClinitTouches(t, d)
        PROVE  CauseInv'
    <2>1. stack[t] # <<>> /\ UNCHANGED slots /\ ret' = ret
      BY <1>8 DEF EnsureSuper, ClinitTouches, Running
    <2>2. \A u \in Threads \ {t} : stack'[u] = stack[u]
      BY <1>0, <1>8 DEF EnsureSuper, ClinitTouches, CallEnsure, Goto, TypeOK
    <2> QED
      BY <2>1, <2>2, CauseStutter
  <1>9. ASSUME NEW t \in Threads, SuperEnsured(t) \/ CheckCalled(t) \/ SetCalled(t) \/
                                   ClinitContinues(t) \/ ClinitReturns(t)
        PROVE  CauseInv'
    <2>1. stack[t] # <<>> /\ UNCHANGED slots
      BY <1>9 DEF SuperEnsured, CheckCalled, SetCalled, ClinitContinues, ClinitReturns,
                  Running, Returned
    <2>2. /\ \A u \in Threads \ {t} : stack'[u] = stack[u] /\ ret'[u] = ret[u]
          /\ ret'[t] \in Failures <=> ret[t] \in Failures
      <3>1. CASE SuperEnsured(t)
        BY <1>0, <3>1 DEF SuperEnsured, Goto, Return, TypeOK, Failures
      <3>2. CASE CheckCalled(t)
        BY <1>0, <3>2 DEF CheckCalled, Running, Goto, Return, TypeOK, Failures
      <3>3. CASE SetCalled(t)
        BY <1>0, <3>3 DEF SetCalled, Running, CallEnsure, Return, TypeOK, Failures
      <3>4. CASE ClinitContinues(t)
        BY <1>0, <3>4 DEF ClinitContinues, Goto, TypeOK, Failures
      <3>5. CASE ClinitReturns(t)
        BY <1>0, <3>5 DEF ClinitReturns, Running, Return, TypeOK, Failures
      <3> QED
        BY <1>9, <3>1, <3>2, <3>3, <3>4, <3>5
    <2>3. Unrefused(t)
      BY <1>5, <2>1, <2>2 DEF Unrefused, Unwinding, slots
    <2> QED
      BY <1>0, <2>3, CauseStep
  <1>10. ASSUME NEW t \in Threads, ClinitDrops(t) \/ ClinitCatches(t) \/ ClinitThrows(t) \/
                                    ClinitPropagates(t)
         PROVE  CauseInv'
    <2>1. /\ stack[t] # <<>> /\ code' = code /\ skipped' = skipped
          /\ unwound \subseteq unwound' /\ dropped \subseteq dropped'
      BY <1>10 DEF ClinitDrops, ClinitCatches, ClinitThrows, ClinitPropagates,
                   Running, Returned, Failed
    <2>2. /\ \A u \in Threads \ {t} : stack'[u] = stack[u] /\ ret'[u] = ret[u]
          /\ ret'[t] \in Failures => t \in unwound'
          /\ slot' => slot \/ (t \in unwound' /\ ret'[t] \in Failures)
          /\ slot' /\ ret[t] \in Failures => ret'[t] \in Failures \/ t \in dropped'
      <3>1. CASE ClinitDrops(t)
        BY <1>0, <3>1 DEF ClinitDrops, Goto, TypeOK, Failures
      <3>2. CASE ClinitCatches(t)
        BY <1>0, <3>2 DEF ClinitCatches, Goto, TypeOK, Failures
      <3>3. CASE ClinitThrows(t)
        BY <1>0, <3>3 DEF ClinitThrows, Goto, TypeOK
      <3>4. CASE ClinitPropagates(t)
        BY <1>0, <1>5, <2>1, <3>4 DEF ClinitPropagates, Failed, Return, TypeOK
      <3> QED
        BY <1>10, <3>1, <3>2, <3>3, <3>4
    <2>3. Unrefused(t)
      BY <1>5, <2>1, <2>2 DEF Unrefused, Unwinding
    <2> QED
      BY <1>0, <2>3, CauseStep
  <1>11. CASE (\E c \in Classes : DisableStaticInitializer(c)) \/ UNCHANGED vars
    BY <1>11, CauseStutter DEF DisableStaticInitializer, vars, slots
  <1> QED
    BY <1>1, <1>2, <1>3, <1>4, <1>6, <1>7, <1>8, <1>9, <1>10, <1>11
    DEF Next, Ensure, Clinit

LEMMA InitCauses ==
    ASSUME Init
    PROVE  CauseInv
  BY DEF Init, CauseInv, Unwinding, Failures

-----------------------------------------------------------------------------
(* Failures                                                                *)

\* Each failure that t has reported, or is passing on, began in a <clinit> of
\* its own.
FailInv ==
    \A t \in Threads : failed[t] + (IF ret[t] \in Failures THEN 1 ELSE 0) <= thrown[t]

\* A step of t whose failures still add up.
LEMMA FailStep ==
    ASSUME FailInv, NEW t \in Threads,
           \A u \in Threads \ {t} :
              ret'[u] = ret[u] /\ thrown'[u] = thrown[u] /\ failed'[u] = failed[u],
           failed'[t] + (IF ret'[t] \in Failures THEN 1 ELSE 0) <= thrown'[t]
    PROVE  FailInv'
  BY DEF FailInv

LEMMA NextFails ==
    ASSUME TypeOK, FailInv, [Next]_vars
    PROVE  FailInv'
  <1>1. ASSUME NEW t \in Threads
        PROVE  /\ failed[t] \in Nat /\ thrown[t] \in Nat
               /\ failed[t] <= thrown[t]
               /\ ret[t] \in Failures => failed[t] + 1 <= thrown[t]
    BY DEF TypeOK, FailInv
  <1>2. ASSUME NEW t \in Threads, UNCHANGED <<thrown, failed>>,
               \A u \in Threads \ {t} : ret'[u] = ret[u],
               ret'[t] \in Failures => ret[t] \in Failures
        PROVE  FailInv'
    BY <1>1, <1>2, FailStep
  <1>3. ASSUME ret' = ret, UNCHANGED <<thrown, failed>>
        PROVE  FailInv'
    BY <1>3 DEF FailInv
  <1>4. ASSUME NEW t \in Threads, NEW c \in Classes, Use(t, c)
        PROVE  FailInv'
    BY <1>3, <1>4 DEF Use
  <1>5. ASSUME NEW t \in Threads, UseReturns(t)
        PROVE  FailInv'
    BY <1>2, <1>5 DEF UseReturns, TypeOK, Failures
  <1>6. ASSUME NEW t \in Threads, UseFails(t)
        PROVE  FailInv'
    <2>1. /\ \A u \in Threads \ {t} :
                ret'[u] = ret[u] /\ thrown'[u] = thrown[u] /\ failed'[u] = failed[u]
          /\ ret'[t] \notin Failures /\ failed'[t] = failed[t] + 1 /\ thrown'[t] = thrown[t]
          /\ ret[t] \in Failures
      BY <1>6 DEF UseFails, TypeOK, Failures
    <2> QED
      BY <1>1, <2>1, FailStep
  <1>7. CASE CodeStep
    BY <1>3, <1>7, CodeFacts
  <1>8. ASSUME NEW t \in Threads, EnsureSuper(t) \/ \E d \in Classes : ClinitTouches(t, d)
        PROVE  FailInv'
    BY <1>3, <1>8 DEF EnsureSuper, ClinitTouches
  <1>9. ASSUME NEW t \in Threads, SuperEnsured(t) \/ CheckCalled(t) \/ SetCalled(t)
        PROVE  FailInv'
    <2>1. UNCHANGED <<thrown, failed>> /\ \A u \in Threads \ {t} : ret'[u] = ret[u]
      BY <1>9 DEF SuperEnsured, CheckCalled, SetCalled, Return, TypeOK
    <2>2. ret'[t] \in Failures => ret[t] \in Failures
      BY <1>9 DEF SuperEnsured, CheckCalled, SetCalled, Running, Return, TypeOK, Failures
    <2> QED
      BY <1>2, <2>1, <2>2
  <1>10. ASSUME NEW t \in Threads, BeginClinit(t)
         PROVE  FailInv'
    <2>1. \A u \in Threads \ {t} :
             ret'[u] = ret[u] /\ thrown'[u] = thrown[u] /\ failed'[u] = failed[u]
      BY <1>10 DEF BeginClinit, Return, TypeOK
    <2>2. \/ ret'[t] \in Failures /\ ret[t] \in Failures /\ thrown'[t] = thrown[t]
          \/ ret'[t] = "refused" /\ thrown'[t] = thrown[t] + 1
          \/ ret'[t] = "none" /\ thrown'[t] = thrown[t]
      BY <1>10 DEF BeginClinit, Return, TypeOK
    <2>3. failed' = failed /\ "none" \notin Failures
      BY <1>10 DEF BeginClinit, Failures
    <2> QED
      BY <1>1, <2>1, <2>2, <2>3, FailStep
  <1>11. ASSUME NEW t \in Threads, ClinitContinues(t) \/ ClinitDrops(t) \/ ClinitCatches(t) \/
                                    ClinitPropagates(t) \/ ClinitReturns(t)
         PROVE  FailInv'
    <2>1. UNCHANGED <<thrown, failed>> /\ \A u \in Threads \ {t} : ret'[u] = ret[u]
      BY <1>11 DEF ClinitContinues, ClinitDrops, ClinitCatches, ClinitPropagates,
                   ClinitReturns, Return, TypeOK
    <2>2. ret'[t] \in Failures => ret[t] \in Failures
      BY <1>11 DEF ClinitContinues, ClinitDrops, ClinitCatches, ClinitPropagates,
                   ClinitReturns, Return, Failed, TypeOK, Failures
    <2> QED
      BY <1>2, <2>1, <2>2
  <1>12. ASSUME NEW t \in Threads, ClinitThrows(t)
         PROVE  FailInv'
    <2>1. /\ \A u \in Threads \ {t} :
                ret'[u] = ret[u] /\ thrown'[u] = thrown[u] /\ failed'[u] = failed[u]
          /\ thrown'[t] = thrown[t] + 1 /\ failed'[t] = failed[t]
      BY <1>12 DEF ClinitThrows, TypeOK
    <2> QED
      BY <1>1, <2>1, FailStep
  <1>13. CASE (\E c \in Classes : DisableStaticInitializer(c)) \/ UNCHANGED vars
    BY <1>3, <1>13 DEF DisableStaticInitializer, vars
  <1> QED
    BY <1>4, <1>5, <1>6, <1>7, <1>8, <1>9, <1>10, <1>11, <1>12, <1>13
    DEF Next, UseEnds, CodeStep, Ensure, Clinit

LEMMA InitFails ==
    ASSUME Init
    PROVE  FailInv
  <1>1. ASSUME NEW t \in Threads
        PROVE  failed[t] = 0 /\ thrown[t] = 0 /\ ret[t] \notin Failures
    BY DEF Init, Failures
  <1>2. ASSUME NEW t \in Threads
        PROVE  failed[t] + (IF ret[t] \in Failures THEN 1 ELSE 0) <= thrown[t]
    BY <1>1
  <1> QED
    BY <1>2 DEF FailInv

-----------------------------------------------------------------------------
(* The theorems                                                            *)

LEMMA ClaimInvHolds == Spec => [](Inv /\ ClaimInv)
  <1>1. Init => Inv /\ ClaimInv
    BY InitInv, InitClaims
  <1>2. Inv /\ ClaimInv /\ [Next]_vars => Inv' /\ ClaimInv'
    BY NextKeepsInv, NextClaims DEF Claimed
  <1> QED
    BY <1>1, <1>2, PTL DEF Spec

\* The Ensure that CallClassMethod repeats before it runs a <clinit> succeeds,
\* whatever fails, is disabled or is claimed by other threads meanwhile: the
\* claim just made is not lost there.
THEOREM NestedEnsureSucceedsHolds == Spec => []NestedEnsureSucceeds
  <1>1. ASSUME Inv, ClaimInv, NEW t \in Threads, Returned(t, "nested")
        PROVE  ret[t] = "ok"
    <2>1. stack[t] # <<>> /\ Top(t).pc = "nested" /\ ret[t] # "none"
      BY <1>1 DEF Returned
    <2>2. /\ TypeOK /\ Quiet(t) /\ Len(stack[t]) \in Nat \ {0}
          /\ Frames(t) = 1..Len(stack[t]) /\ Top(t) = stack[t][Len(stack[t])]
      BY <1>1, <2>1, Before
    <2>3. Len(stack[t]) \in Frames(t)
      BY <2>2
    <2>4. ret[t] \notin Failures
      BY <2>1, <2>2, <2>3 DEF Quiet
    <2> QED
      BY <2>1, <2>2, <2>4 DEF TypeOK, Results, Failures
  <1>2. Inv /\ ClaimInv => NestedEnsureSucceeds
    BY <1>1 DEF NestedEnsureSucceeds
  <1> QED
    BY <1>2, ClaimInvHolds, PTL

\* Whoever sets the flag of a class with a <clinit> runs it or is about to,
\* unless DoExecuteCode refused to begin it; and then the throwable that it
\* found in the slot was not left there by the thread's own throws, but by
\* another thread or by a failure which the thread went on without looking at.
THEOREM ClaimIsHonouredHolds == Spec => []ClaimIsHonoured
  <1>1. Init => CauseInv
    BY InitCauses
  <1>2. Inv /\ CauseInv /\ [Next]_vars => CauseInv'
    BY NextCauses
  <1>3. ASSUME ClaimInv, CauseInv
        PROVE  ClaimIsHonoured
    <2> SUFFICES ASSUME NEW c \in HasClinit, called[c]
                 PROVE  \E t \in Threads :
                           \/ runs[t][c] > 0
                           \/ \E i \in Frames(t) :
                                 stack[t][i].cls = c /\ stack[t][i].pc = "nested"
                           \/ c \in skipped[t] /\ Disturbed(t)
      BY DEF ClaimIsHonoured
    <2>1. PICK t \in Threads : Honours(t, c)
      BY <1>3 DEF ClaimInv
    <2>2. c \in skipped[t] => Disturbed(t)
      BY <1>3 DEF CauseInv
    <2> QED
      BY <2>1, <2>2 DEF Honours
  <1> QED
    BY <1>1, <1>2, <1>3, ClaimInvHolds, PTL DEF Spec

\* Once a class is claimed, only threads that had read the flag before can
\* still begin to run its <clinit>, for any number of threads.
THEOREM NoLateRunHolds == Spec => NoLateRun
  <1> DEFINE A == \A t \in Threads, c \in Classes :
          (called[c] /\ \A i \in Frames(t) :
              stack[t][i].cls = c => stack[t][i].pc \notin {"set", "nested"})
          => /\ runs'[t][c] = runs[t][c]
             /\ \A i \in DOMAIN stack'[t] :
                   stack'[t][i].cls = c => stack'[t][i].pc \notin {"set", "nested"}
  <1>1. Inv /\ ClaimInv /\ [Next]_vars => A
    <2> SUFFICES ASSUME Inv, ClaimInv, [Next]_vars
                 PROVE  A
      OBVIOUS
    <2>1. /\ Inv' /\ \A t \in Threads : Late(t)
      BY NextKeepsInv, NextClaims DEF Claimed
    <2>2. ASSUME NEW t \in Threads
          PROVE  DOMAIN stack'[t] = Frames(t)'
      <3>1. stack'[t] \in Seq(Frame)
        BY <2>1 DEF Inv, TypeOK
      <3> QED
        BY <3>1 DEF Frames
    <2> QED
      BY <2>1, <2>2 DEF Late, NotWithin
  <1>2. [](Inv /\ ClaimInv) /\ [][Next]_vars => [][A]_vars
    BY <1>1, PTL
  <1> QED
    BY <1>2, ClaimInvHolds, PTL DEF Spec, NoLateRun

\* A use of a class fails only for a <clinit> that threw in the same thread, or
\* was refused there, and for which no other use of that thread has failed:
\* later uses of the class find the flag set and go on.
THEOREM FailureReportedOnceHolds == Spec => []FailureReportedOnce
  <1>1. Init => FailInv
    BY InitFails
  <1>2. Inv /\ FailInv /\ [Next]_vars => FailInv'
    BY NextFails DEF Inv
  <1>3. ASSUME TypeOK, FailInv, NEW t \in Threads
        PROVE  failed[t] <= thrown[t]
    <2>1. failed[t] \in Nat /\ thrown[t] \in Nat
      BY <1>3 DEF TypeOK
    <2>2. failed[t] + (IF ret[t] \in Failures THEN 1 ELSE 0) <= thrown[t]
      BY <1>3 DEF FailInv
    <2> QED
      BY <2>1, <2>2
  <1>4. Inv /\ FailInv => FailureReportedOnce
    BY <1>3 DEF Inv, FailureReportedOnce
  <1> QED
    BY <1>1, <1>2, <1>4, InvHolds, PTL DEF Spec

=============================================================================

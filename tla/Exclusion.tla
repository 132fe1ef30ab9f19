----------------------------- MODULE Exclusion -----------------------------
(***************************************************************************)
(* What monitors promise to the code they guard: at any moment at most one *)
(* thread is inside a monitor, and it has left before another one enters.  *)
(* A step is of one thread; it can enter and leave several monitors.       *)
(***************************************************************************)
CONSTANTS Threads, Monitors

VARIABLE inside  \* inside[m]: the threads that run code guarded by m

Init == inside = [m \in Monitors |-> {}]

\* t enters the monitors of a set and leaves those of another.
Step(t) ==
    /\ inside' \in [Monitors -> SUBSET Threads]
    /\ \A m \in Monitors :
          \/ inside'[m] = inside[m]
          \/ inside[m] = {} /\ inside'[m] = {t}
          \/ inside[m] = {t} /\ inside'[m] = {}

Next == \E t \in Threads : Step(t)

Spec == Init /\ [][Next]_inside
=============================================================================

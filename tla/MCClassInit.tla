----------------------------- MODULE MCClassInit -----------------------------
(* Class b extends d extends a; a has no <clinit>, d's uses its subclass b   *)
(* and b's uses d, so the initialisers form a cycle; d may be disabled.      *)
EXTENDS ClassInit, TLC

CONSTANTS t1, t2, a, b, d

MCThreads == {t1, t2}
MCDisabled == {d}
MCClasses == {a, b, d}
MCSuper == (a :> NoClass) @@ (d :> a) @@ (b :> d)
MCHasClinit == {b, d}
MCTouches == (a :> {}) @@ (d :> {b}) @@ (b :> {d})

=============================================================================

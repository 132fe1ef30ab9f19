-------------------------- MODULE MCThreadLifecycle --------------------------
(* ThreadLifecycle for TLC: the main thread and two threads it, or one of   *)
(* them, starts.                                                            *)
EXTENDS ThreadLifecycle

CONSTANTS main, a, b

MCThreads == {main, a, b}

=============================================================================

----------------------------- MODULE JavaThreads -----------------------------
(* The threads of a program (ThreadLifecycle, ThrownState).                  *)

CONSTANTS Threads,  \* threads that execute Java code
          Main      \* the embedder's thread, which calls PrepareExecution

=============================================================================

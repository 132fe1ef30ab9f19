---------------------------- MODULE MCThrownState ----------------------------
(* ThrownState for TLC: the embedder's thread and one more.                 *)
EXTENDS ThrownState

CONSTANTS main, other

MCThreads == {main, other}

=============================================================================

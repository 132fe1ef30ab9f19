--------------------------- MODULE MCClassSource ---------------------------
(* The library's archive and the program's, which has a class of its own    *)
(* under a name that the library has too, and the file of another class.    *)
EXTENDS ClassSource, TLC

MCHolds == [rt |-> {"a"}, main |-> {"a", "b"}, file |-> {"b"}]
Symmetry == Permutations(Threads)
=============================================================================

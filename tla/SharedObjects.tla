---------------------------- MODULE SharedObjects ----------------------------
(***************************************************************************)
(* What Java threads share without a lock of the VM: the fields of their   *)
(* objects (Heap), and the lists of strings and Class objects              *)
(* (StringPool).  The two have no variable in common, so that how steps of *)
(* the one lie between steps of the other makes no difference to either:   *)
(* in each behaviour the threads use one of the two.                       *)
(***************************************************************************)
EXTENDS Heap

CONSTANTS Texts, Empty, ClassNames, MaxObjects

VARIABLES objects, list, frames, answer, returned,
          table  \* which of the two the threads use

pool == INSTANCE StringPool

ASSUME NamesAssumption == pool!NamesAreTexts

poolvars == <<objects, list, frames, answer, returned>>
allvars == <<vars, poolvars, table>>

SharedInit == Init /\ pool!Init /\ table \in {"fields", "names"}

UseFields == table = "fields" /\ Next /\ UNCHANGED <<poolvars, table>>
UseNames == table = "names" /\ pool!Next /\ UNCHANGED <<vars, table>>

SharedNext == UseFields \/ UseNames

SharedSpec == SharedInit /\ [][SharedNext]_allvars

-----------------------------------------------------------------------------
(* Properties                                                              *)

\* The type invariants of the two.
SharedTypeOK == TypeOK /\ pool!TypeOK

\* A call for a name for which a call had returned gives the one object of
\* that name (StringPool).
LaterCallsAgree == pool!LaterCallsAgree

\* The object of a name is never replaced (StringPool).
CanonicalNeverChanges == pool!CanonicalNeverChanges

=============================================================================

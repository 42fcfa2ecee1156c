---------------------------- MODULE Preparation ----------------------------
(***************************************************************************)
(* The steps of memin before the search for classes, one after the other:  *)
(* unreachable states are removed, incompatible states are found and the   *)
(* transitions of states that may be merged are given the same inputs.     *)
(***************************************************************************)
EXTENDS RemoveUnreachable, Incompat, SplitTransitions

vars == <<sharedVars, removeVars, incompVars, splitVars>>

Init == Parsed /\ RemoveInit /\ IncompatInit /\ SplitInit

Next ==
    \/ RemoveNext /\ UNCHANGED <<incompVars, splitVars>>
    \/ IncompatNext /\ UNCHANGED <<removeVars, splitVars>>
    \/ SplitTransitionsNext /\ UNCHANGED <<removeVars, incompVars>>

Spec == Init /\ [][Next]_vars /\ WF_vars(Next)

-----------------------------------------------------------------------------
(* Properties                                                              *)

\* The shrinking vector, the recursion and the queue of inputs, which grows
\* while it is worked off, come to an end.
PreparationEnds == <>(pc = "sort")
=============================================================================

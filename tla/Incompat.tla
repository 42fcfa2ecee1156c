------------------------------ MODULE Incompat ------------------------------
(***************************************************************************)
(* computeIncompMatrix and propagateIncompStates of memin/minimizer.cpp:   *)
(* which pairs of states cannot be merged.  A pair is marked if a word     *)
(* gives it conflicting outputs, and the marks are propagated at once, by  *)
(* recursion, to all pairs that lead to a marked one.                      *)
(***************************************************************************)
EXTENDS MeMinState

VARIABLES s1, s2,     \* the pair at work in the loops
          calls       \* the calls of propagateIncompStates that are active

incompVars == <<s1, s2, calls>>

Both(p) == {p, <<p[2], p[1]>>}

IncompatInit == s1 = 0 /\ s2 = 0 /\ calls = {}

\* The loops go on with the next pair s1 <= s2.
Advance ==
    IF s2 + 1 < nStates THEN s1' = s1 /\ s2' = s2 + 1 ELSE s1' = s1 + 1 /\ s2' = s1 + 1

OutputConflict(s, r) ==
    \E t \in machine[s], u \in machine[r] :
        ~ isDisjoint(t.in, u.in) /\ ~ isCompatible(t.out, u.out)

\* One round of the loops over s1 and s2; a new mark starts a propagation.
Compare ==
    /\ pc = "compare" /\ s1 < nStates
    /\ IF <<s1, s2>> \notin incomp /\ OutputConflict(s1, s2)
       THEN /\ incomp' = incomp \cup Both(<<s1, s2>>)
            /\ calls' = {<<s1, s2>>}
            /\ pc' = "propagate"
       ELSE UNCHANGED <<incomp, calls, pc>>
    /\ Advance
    /\ UNCHANGED <<given, machine, resetState>>

\* Mutant: the inputs must be equal.
predPairsEqual(p) ==
    {q \in States(machine) \X States(machine) :
        \E t \in machine[q[1]], u \in machine[q[2]] :
            t.to = p[1] /\ u.to = p[2] /\ t.in = u.in}

\* The pairs of predecessors, with overlapping inputs, of the pair p: what
\* computePredecessorMap and the loops of propagateIncompStates enumerate.
predPairs(p) ==
    {q \in States(machine) \X States(machine) :
        \E t \in machine[q[1]], u \in machine[q[2]] :
            t.to = p[1] /\ u.to = p[2] /\ ~ isDisjoint(t.in, u.in)}

\* An active call marks a pair of predecessors and calls itself for it.  The
\* innermost call is the one at work; which one that is, and in which order
\* it lists the predecessors, is left open.
Propagate ==
    /\ pc = "propagate"
    /\ \E p \in calls : \E q \in predPairs(p) \ incomp :
          /\ incomp' = incomp \cup Both(q)
          /\ calls' = calls \cup {q}
    /\ UNCHANGED <<given, machine, resetState, s1, s2, pc>>

\* Mutant: a call returns after its first pair of predecessors.
ReturnEarly ==
    /\ pc = "propagate"
    /\ \E p \in calls :
          /\ predPairs(p) \ incomp = {} \/ predPairs(p) \cap incomp # {}
          /\ calls' = calls \ {p}
    /\ pc' = IF calls' = {} THEN "compare" ELSE "propagate"
    /\ UNCHANGED <<given, machine, resetState, s1, s2, incomp>>

\* A call returns when all pairs of predecessors are marked.
Return ==
    /\ pc = "propagate"
    /\ \E p \in calls :
          /\ predPairs(p) \subseteq incomp
          /\ calls' = calls \ {p}
    /\ pc' = IF calls' = {} THEN "compare" ELSE "propagate"
    /\ UNCHANGED <<given, machine, resetState, s1, s2, incomp>>

Compared ==
    /\ pc = "compare" /\ s1 = nStates
    /\ pc' = "classes"
    /\ UNCHANGED <<given, machine, resetState, s1, s2, incomp, calls>>

IncompatNext == Compare \/ Propagate \/ Return \/ Compared

-----------------------------------------------------------------------------
(* Properties                                                              *)

\* A marked pair whose predecessors are not all marked, in either order, is
\* still waiting on the call stack.
MarkedIsPropagated ==
    \A p \in incomp :
        \/ p \in calls \/ <<p[2], p[1]>> \in calls
        \/ predPairs(p) \cup predPairs(<<p[2], p[1]>>) \subseteq incomp

\* When it is used the matrix holds exactly the pairs of states that some sequence
\* of words distinguishes.
MatrixCorrect ==
    pc = "classes" => incomp = Distinguishable(machine)
=============================================================================

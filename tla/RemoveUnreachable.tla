------------------------- MODULE RemoveUnreachable -------------------------
(***************************************************************************)
(* removeUnreachableStates of memin/minimizer.cpp: the states that cannot  *)
(* be reached from the reset state leave the vector of states, whose gaps  *)
(* are filled from its end.                                                *)
(***************************************************************************)
EXTENDS MeMinState, Sequences, Functions

VARIABLES reachableStates, worklist, stateRemapping,
          pos    \* the loop over the states

removeVars == <<reachableStates, worklist, stateRemapping, pos>>

size == Cardinality(DOMAIN machine)

\* The entry of stateRemapping that was never written: no state's number.
Unset == Cardinality(DOMAIN given.trans)

RemoveInit ==
    /\ reachableStates = {resetState} /\ worklist = <<resetState>>
    /\ stateRemapping = [s \in DOMAIN machine |-> Unset]
    /\ pos = 0

\* The worklist is a queue; new states are pushed in the order of the
\* transitions, whichever it is in the file.
Listings(S) == Bijection(1 .. Cardinality(S), S)

Visit ==
    /\ pc = "reach" /\ worklist # <<>>
    /\ LET new == {t.to : t \in machine[worklist[1]]} \ reachableStates
       IN /\ reachableStates' = reachableStates \cup new
          /\ \E order \in Listings(new) : worklist' = Tail(worklist) \o order
    /\ UNCHANGED <<given, incomp, machine, resetState, stateRemapping, pos, pc>>

Visited ==
    /\ pc = "reach" /\ worklist = <<>>
    /\ pc' = "compact"
    /\ UNCHANGED <<given, incomp, machine, resetState, reachableStates, worklist, stateRemapping, pos>>

\* Compaction, which changes the size that bounds the loop and the marks
\* that it reads.
Keep ==
    /\ pc = "compact" /\ pos < size /\ pos \in reachableStates
    /\ stateRemapping' = [stateRemapping EXCEPT ![pos] = pos]
    /\ pos' = pos + 1
    /\ UNCHANGED <<given, incomp, machine, resetState, reachableStates, worklist, pc>>

lastReachableState ==
    CHOOSE s \in reachableStates \cap DOMAIN machine :
        \A r \in reachableStates \cap DOMAIN machine : r <= s

\* Mutant: the gap is filled with the last state, reachable or not.
FillFromEnd ==
    /\ pc = "compact" /\ pos < size /\ pos \notin reachableStates
    /\ LET last == size - 1
       IN IF last > pos
          THEN /\ stateRemapping' = [stateRemapping EXCEPT ![last] = pos]
               /\ machine' = Restrict([machine EXCEPT ![pos] = machine[last]], 0 .. size - 2)
               /\ reachableStates' = (reachableStates \cup {pos}) \ {last}
          ELSE /\ machine' = Restrict(machine, 0 .. last)
               /\ UNCHANGED <<stateRemapping, reachableStates>>
    /\ pos' = pos + 1
    /\ UNCHANGED <<given, incomp, resetState, worklist, pc>>

Fill ==
    /\ pc = "compact" /\ pos < size /\ pos \notin reachableStates
    /\ LET last == lastReachableState
       IN IF last > pos
          THEN /\ stateRemapping' = [stateRemapping EXCEPT ![last] = pos]
               /\ machine' = Restrict([machine EXCEPT ![pos] = machine[last]], 0 .. size - 2)
               /\ reachableStates' = (reachableStates \cup {pos}) \ {last}
          ELSE /\ machine' = Restrict(machine, 0 .. last)
               /\ UNCHANGED <<stateRemapping, reachableStates>>
    /\ pos' = pos + 1
    /\ UNCHANGED <<given, incomp, resetState, worklist, pc>>

\* The transitions and the reset state follow the states that moved.
Remap ==
    /\ pc = "compact" /\ pos >= size
    /\ machine' = [s \in DOMAIN machine |->
                      {[t EXCEPT !.to = stateRemapping[t.to]] : t \in machine[s]}]
    /\ resetState' = stateRemapping[resetState]
    /\ pc' = "compare"
    /\ UNCHANGED <<given, incomp, reachableStates, worklist, stateRemapping, pos>>

RemoveNext == Visit \/ Visited \/ Keep \/ Fill \/ Remap

-----------------------------------------------------------------------------
(* Properties                                                              *)

\* States reached in at most k steps, for k up to the number of states.
Reachable ==
    LET n == Cardinality(DOMAIN given.trans)
        within[k \in 0 .. n] ==
            IF k = 0 THEN {given.reset}
            ELSE LET nearer == within[k - 1]
                 IN nearer \cup {t.to : t \in UNION {given.trans[s] : s \in nearer}}
    IN within[n]

\* What is left is the reachable part of the machine that was parsed, with
\* its states renamed one to one and in no other way changed.
ReachablePartRenamed ==
    given.reset # NoState /\ pc = "compare" =>
        LET kept == Restrict(stateRemapping, Reachable)
        IN /\ kept \in Bijection(Reachable, DOMAIN machine)
           /\ \A s \in Reachable : machine[kept[s]] =
                 {[t EXCEPT !.to = kept[t.to]] : t \in given.trans[s]}
           /\ resetState = kept[given.reset]

=============================================================================

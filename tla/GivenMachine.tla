---------------------------- MODULE GivenMachine ----------------------------
(***************************************************************************)
(* What a machine promises that may replace an incompletely specified one: *)
(* from the reset state on, as long as every input is one that the given   *)
(* machine has a transition for, the outputs are those of the transition   *)
(* wherever it specifies them.                                             *)
(***************************************************************************)
EXTENDS Machine

CONSTANTS NIn, NOut, Machines, NoState

VARIABLES given,    \* the machine to replace
          state,    \* its state, NoState before the replacement is running
          out       \* the latest output of the replacement

Init == given \in Machines /\ state = NoState /\ out = <<>>

Start ==
    /\ state = NoState
    /\ state' \in IF given.reset = NoState THEN States(given.trans) ELSE {given.reset}
    /\ UNCHANGED <<given, out>>

Answer ==
    /\ state # NoState
    /\ \E w \in Words(NIn), t \in given.trans[state] :
          /\ Matches(w, t.in)
          /\ state' = t.to
          /\ out' \in {o \in Words(NOut) : Matches(o, t.out)}
    /\ UNCHANGED given

Next == Start \/ Answer

Spec == Init /\ [][Next]_<<given, state, out>>
=============================================================================

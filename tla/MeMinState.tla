----------------------------- MODULE MeMinState -----------------------------
(***************************************************************************)
(* What the steps of the command memin share (MeMin_Command of             *)
(* memin/minimizer.cpp): the machine that parseKISSFile returns, which the *)
(* steps change in place, and the matrix of incompatible states.           *)
(***************************************************************************)
EXTENDS Machine, Integers

CONSTANTS NIn, NOut,
          Machines    \* [trans, reset]; reset is NoState if any state may be

NoState == -1

ASSUME MachinesAssumption ==
    /\ NIn \in Nat /\ NOut \in Nat
    /\ \A m \in Machines :
          /\ m.reset \in DOMAIN m.trans \cup {NoState}
          /\ NStates(m.trans) \in Nat \ {0} /\ DOMAIN m.trans = 0 .. NStates(m.trans) - 1
          /\ \A s \in DOMAIN m.trans : m.trans[s] \subseteq Trans(NIn, NOut, NStates(m.trans))
          /\ Deterministic(m.trans)

VARIABLES given,              \* the machine that was parsed
          machine, resetState,
          incomp,             \* incompMatrix: the ordered pairs that are marked
          pc

sharedVars == <<given, machine, resetState, incomp, pc>>

nStates == NStates(machine)

\* Without a reset state no state is unreachable.
Parsed ==
    /\ given \in Machines
    /\ machine = given.trans /\ resetState = given.reset
    /\ incomp = {}
    /\ pc = IF resetState = NoState THEN "compare" ELSE "reach"
=============================================================================

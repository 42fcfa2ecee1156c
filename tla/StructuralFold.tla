--------------------------- MODULE StructuralFold ---------------------------
(***************************************************************************)
(* What the two structural folds share (timeMux3, timeMux4): a strashed    *)
(* circuit, the number of output pins, the ring latches, and the clock of  *)
(* the folded circuit.                                                     *)
(***************************************************************************)
EXTENDS Aig, FrameRing, Functions, Sequences

CONSTANTS NPi,         \* input pins of the folded circuit
          Circuits     \* circuits to fold, each with NTimeFrame * NPi inputs

NCi == NTimeFrame * NPi

ASSUME StructuralFoldAssumption ==
    /\ NPi \in Nat
    /\ \A c \in Circuits : IsStrashed(c, NCi)

VARIABLES
    ntk,       \* pNtkComb
    nPo,       \* output pins of the folded circuit
    ring,      \* running: values of the ring latches
    cycle,     \* running: the frame of the next clock cycle
    got,       \* running: inputs read in this batch
    out        \* running: output pins in the latest cycle

PinValues == [0 .. NPi - 1 -> BOOLEAN]

\* Output k of the circuit.
Value(c, k, in) == PoValue(c, NCi, k, in)
=============================================================================

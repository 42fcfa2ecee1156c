--------------------------- MODULE FoldedCircuit ---------------------------
(***************************************************************************)
(* What a folded circuit promises, whichever command built it.  A          *)
(* combinational circuit with NTimeFrame * NPi inputs is replaced by a     *)
(* sequential one with NPi input pins, which reads the inputs of frame t   *)
(* in clock cycle t and, for the output k that the fold placed in slot     *)
(* slot[k] = frame * pins + pin, shows the value of k on that pin in the   *)
(* cycle of that frame.  The value is shown while the inputs of the later  *)
(* frames are still unknown, so it must be right for every completion of   *)
(* them.  After NTimeFrame cycles the next batch of inputs may follow.     *)
(***************************************************************************)
EXTENDS Naturals, Sequences

CONSTANTS NTimeFrame, NPi,
          Circuits,          \* the circuits that may be folded
          Outputs(_),        \* the outputs of a circuit
          Value(_, _, _)     \* Value(c, k, in): output k of c for inputs in

VARIABLES ntk,               \* the circuit that is folded
          folded,            \* whether the fold is done
          pins,              \* number of output pins, once it is
          slot,              \* output -> slot, once the fold is done
          cycle,             \* frame of the next clock cycle
          got,               \* the inputs read so far in this batch
          out                \* the output pins in the latest clock cycle

avars == <<ntk, folded, pins, slot, cycle, got, out>>

Init ==
    /\ ntk \in Circuits
    /\ folded = FALSE
    /\ cycle = 0 /\ got = <<>> /\ out = <<>>

\* The fold picks a slot of its own for every output.
Fold ==
    /\ ~ folded /\ folded'
    /\ pins' \in Nat
    /\ slot' \in [Outputs(ntk) -> 0 .. pins' * NTimeFrame - 1]
    /\ \A k, m \in Outputs(ntk) : slot'[k] = slot'[m] => k = m
    /\ UNCHANGED <<ntk, cycle, got, out>>

\* The inputs of a batch, as the combinational circuit numbers them, given
\* one function of the pins per frame.
Flat(frames) ==
    [j \in 0 .. NTimeFrame * NPi - 1 |-> frames[j \div NPi + 1][j % NPi]]

PinValues == [0 .. NPi - 1 -> BOOLEAN]

Completions(read) ==
    {Flat(read \o rest) : rest \in [1 .. NTimeFrame - Len(read) -> PinValues]}

Clock ==
    /\ folded
    /\ \E in \in PinValues :
          got' = Append(IF cycle = 0 THEN <<>> ELSE got, in)
    /\ out' \in [0 .. pins - 1 -> BOOLEAN]
    /\ \A k \in Outputs(ntk) : slot[k] \div pins = cycle =>
          \A full \in Completions(got') : out'[slot[k] % pins] = Value(ntk, k, full)
    /\ cycle' = (cycle + 1) % NTimeFrame
    /\ UNCHANGED <<ntk, folded, pins, slot>>

Next == Fold \/ Clock

Spec == Init /\ [][Next]_avars
=============================================================================

----------------------------- MODULE MCCommands -----------------------------
(***************************************************************************)
(* Instances of Commands: two machines and parts of a circuit with four    *)
(* inputs.                                                                 *)
(***************************************************************************)
EXTENDS Commands, TLC

\* One input, a latch that starts with 1, two outputs.
Toggle ==
    [pi |-> 1, init |-> (0 :> TRUE),
     po   |-> (0 :> [u \in Ins(2) |-> u[0] /\ u[1]]) @@ (1 :> [u \in Ins(2) |-> u[1]]),
     next |-> (0 :> [u \in Ins(2) |-> u[0] # u[1]])]

\* Two inputs, two latches, one output.
Follow ==
    [pi |-> 2, init |-> (0 :> FALSE) @@ (1 :> TRUE),
     po   |-> (0 :> [u \in Ins(4) |-> u[3] # u[1]]),
     next |-> (0 :> [u \in Ins(4) |-> u[0]]) @@ (1 :> [u \in Ins(4) |-> u[2] /\ ~ u[1]])]

\* Without latches: outputs with supports of three, one and two inputs.
Gates ==
    Comb(4, (0 :> [v \in Ins(4) |-> v[0] # (v[2] /\ v[3])])
            @@ (1 :> [v \in Ins(4) |-> v[3]])
            @@ (2 :> [v \in Ins(4) |-> v[1] \/ v[3]]))

Machines == {Toggle, Follow, Gates}

\* Two inputs that were folded into two frames the other way round, on one pin
\* where the circuit has two; a part with three inputs, of which one
\* is a dummy of its fold; two inputs that share a frame of a circuit.
TwoParts ==
    {[kids |-> (0 :> 3) @@ (1 :> 0), iPerm0 |-> (0 :> 1) @@ (1 :> 0), T |-> 2],
     [kids |-> (0 :> 2) @@ (1 :> 1) @@ (2 :> 3),
      iPerm0 |-> (0 :> 2) @@ (1 :> 0) @@ (2 :> 1) @@ (3 :> 3), T |-> 2],
     [kids |-> (0 :> 1), iPerm0 |-> (0 :> 1) @@ (1 :> 0), T |-> 2]}
=============================================================================

----------------------------- MODULE MCBddMux -----------------------------
(***************************************************************************)
(* Instances of BddMux: two outputs of three inputs read in any order.     *)
(***************************************************************************)
EXTENDS BddMux, TLC

\* One output tells one input from a function of two others, the second
\* depends on two inputs, or the other way round.
ThreeInputs ==
    {[nCo |-> 2,
      func |-> (0 :> [v \in Ins(3) |-> v[2] # g[v[0], v[1]]]) @@ (1 :> [v \in Ins(3) |-> h /\ v[a] /\ ~ v[0]])] :
        g \in [BOOLEAN \X BOOLEAN -> BOOLEAN], h \in BOOLEAN, a \in {1, 2}}
=============================================================================

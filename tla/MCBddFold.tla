----------------------------- MODULE MCBddFold -----------------------------
(***************************************************************************)
(* Instances of BddFold: every function of some frames, a few for others.  *)
(***************************************************************************)
EXTENDS BddFold, TLC

\* One pin, three frames: any function in frame 1 and one of three
\* inputs in frame 2; frame 0 shows nothing.
ThreeFrames ==
    {[nPo |-> 1, iPerm |-> [m \in 0 .. 2 |-> m], oPerm |-> (0 :> 2) @@ (1 :> 1),
      func |-> (0 :> [w \in Words(3) |-> g[w[1][0], w[2][0]] # (h /\ w[3][0])]) @@ (1 :> f)] :
        f \in [Words(2) -> BOOLEAN], g \in [BOOLEAN \X BOOLEAN -> BOOLEAN], h \in BOOLEAN}

\* Two input and two output pins, two frames: an output on the second pin in
\* frame 0 and two in frame 1, of which one compares inputs of the frames.
TwoPins ==
    {[nPo |-> 2, iPerm |-> (0 :> 2) @@ (1 :> 0) @@ (2 :> 3) @@ (3 :> 1), oPerm |-> (0 :> 2) @@ (1 :> 1) @@ (2 :> 3),
      func |-> (0 :> [w \in Words(2) |-> (w[1][a] = w[2][b]) \/ w[1][1]])
                @@ (1 :> [w \in Words(1) |-> e /\ w[1][0] # w[1][1]])
                @@ (2 :> [w \in Words(2) |-> w[2][1] /\ (w[1][0] => d)])] :
        a \in {0, 1}, b \in {0, 1}, d \in BOOLEAN, e \in BOOLEAN}
=============================================================================

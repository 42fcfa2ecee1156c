---------------------------- MODULE MCNaiveFold ----------------------------
(***************************************************************************)
(* Instances of NaiveFold: two AND nodes over six inputs, both of them,    *)
(* the last input and constant 1 as outputs.                               *)
(***************************************************************************)
EXTENDS NaiveFold, TLC

SixInputs ==
    {[fan |-> (7 :> <<Lit(a, FALSE), Lit(b, TRUE)>>)
                @@ (8 :> <<Lit(d, TRUE), Lit(7, FALSE)>>),
      po  |-> (0 :> Lit(8, TRUE)) @@ (1 :> Lit(7, FALSE))
                @@ (2 :> Lit(6, FALSE)) @@ (3 :> Lit(Const1, TRUE))] :
        a \in 1..3, b \in 4..6, d \in {2, 5}}
=============================================================================

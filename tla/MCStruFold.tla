----------------------------- MODULE MCStruFold -----------------------------
(***************************************************************************)
(* Instances of StruFold.  SmallStrashed: the strashed circuits with two   *)
(* AND nodes over three inputs, with the second AND node and any object    *)
(* at all (a constant and an input among them) as outputs.                 *)
(***************************************************************************)
EXTENDS StruFold, TLC

Edge(o) == Lit(o, FALSE)

\* Fanin pairs; complementing the second fanin is enough to tell the phases apart.
Pairs(S) == {<<Edge(a), Lit(b, c)>> : a, b \in S, c \in BOOLEAN}
FaninPairs(S) == {p \in Pairs(S) : p[1].obj < p[2].obj}

SmallCircuits ==
    {[fan |-> (4 :> p) @@ (5 :> q), po |-> (0 :> Lit(5, c)) @@ (1 :> Edge(o))] :
        p \in FaninPairs(1..3), q \in FaninPairs(1..4), c \in BOOLEAN, o \in 0..5}

SmallStrashed == {c \in SmallCircuits : c.fan[4] # c.fan[5]}

\* Three AND nodes over four inputs, uncomplemented except for one edge: with
\* four frames some objects wait across several frames while latches of
\* others fall free and are taken again.
LongCircuits ==
    {[fan |-> (5 :> p) @@ (6 :> q) @@ (7 :> <<Edge(a), Lit(b, TRUE)>>),
      po  |-> (0 :> Edge(7)) @@ (1 :> Edge(6)) @@ (2 :> Edge(1))] :
        p \in {<<Edge(x), Edge(y)>> : x, y \in 1..4},
        q \in {<<Edge(x), Edge(y)>> : x, y \in 1..5}, a, b \in 1..6}

LongStrashed ==
    {c \in LongCircuits : c.fan[5] # c.fan[6] /\ \A n \in 5..7 :
        c.fan[n][1].obj < c.fan[n][2].obj}
=============================================================================

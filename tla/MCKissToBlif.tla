---------------------------- MODULE MCKissToBlif ----------------------------
(***************************************************************************)
(* Files of up to four rows over the states A and B and the state "*" that *)
(* folding ends in.                                                        *)
(***************************************************************************)
EXTENDS KissToBlif

CONSTANTS A, B

AB == {A, B, Star}

Row(c, s, r, o) == [in |-> [b \in {0} |-> c], from |-> s, to |-> r, out |-> [b \in {0} |-> o]]
Reset(s)        == <<[reset |-> s]>>

\* Machines that keep their rows in any order, with the reset state named
\* first, and the states of a fold: the last ones lead to "*".
Machines ==
    {{Row("0", A, r, "1"), Row("1", A, q, "-"), Row("-", B, p, o)} :
        r \in {A, B}, q \in {B, Star}, p \in {A, Star}, o \in {"0", "1", "-"}}
    \cup {{Row("0", A, B, "-"), Row("1", B, Star, "1")}}

\* The reset state is named late or not at all, and rows stand for all states.
Loose ==
    {{Row("0", Star, q, "0"), Row("1", A, r, "1"), Row("1", B, Star, "-")} : q, r \in {A, B, Star}}

MCFiles ==
    UNION {{Reset(s) \o f : f \in SetToSeqs(m)} : m \in Machines, s \in {A, B}}
    \cup UNION {{f \o Reset(B) : f \in SetToSeqs(m)} \cup SetToSeqs(m) : m \in Loose}
=============================================================================

--------------------------- MODULE MCPreparation ---------------------------
(***************************************************************************)
(* Machines for the steps of memin before the search: some with states to  *)
(* remove, some with conflicts that travel back over transitions, some     *)
(* whose inputs overlap in every way.                                      *)
(***************************************************************************)
EXTENDS Preparation, TLC

Bits(c, d)    == (0 :> c) @@ (1 :> d)
Out(c)        == 0 :> c
T(a, r, o)    == [in |-> a, to |-> r, out |-> Out(o)]

\* Four states with one successor each, or two for the state 3.
Graphs ==
    {[trans |-> [s \in 0 .. 3 |->
          IF s = 3 THEN {T(Bits("0", "-"), f[3], "0"), T(Bits("1", "-"), r, "-")}
          ELSE {T(Bits("-", "-"), f[s], IF s = 1 THEN "1" ELSE "-")}], reset |-> r0] :
        f \in [0 .. 3 -> 0 .. 3], r \in {0}, r0 \in {0, 2}}

\* The transitions of a state: none, one for all words, or one for a word.
Lists ==
    {{}} \cup {{T(Bits("-", "-"), r, "0")} : r \in 0 .. 2}
         \cup {{T(Bits("-", "0"), r, o), T(Bits("-", "1"), q, "-")} :
                  r \in 0 .. 2, q \in {0, 2}, o \in {"0", "1"}}

Conflicting ==
    {[trans |-> (0 :> a) @@ (1 :> b) @@ (2 :> c), reset |-> NoState] :
        a \in {x \in Lists : Cardinality(x) = 2}, b \in Lists,
        c \in {{}, {T(Bits("-", "-"), 1, "0")}, {T(Bits("-", "0"), 0, "1"), T(Bits("-", "1"), 2, "-")}}}

\* Two compatible states, and a third one that is compatible with none or
\* with all, whose inputs overlap in every way.
InputSets(k) == {A \in SUBSET IncSpecSeqs(NIn) :
                    Cardinality(A) \in 1 .. k /\ \A a, b \in A : a # b => isDisjoint(a, b)}

Overlapping ==
    {[trans |-> (0 :> {T(a, 1, "0") : a \in A}) @@ (1 :> {T(a, 2, "-") : a \in B})
                @@ (2 :> {T(Bits("-", c), 0, IF c = "-" THEN "-" ELSE "1")}), reset |-> NoState] :
        A \in {X \in InputSets(2) : Bits("-", "0") \notin X}, B \in InputSets(2), c \in {"-", "0"}}

All == Graphs \cup Conflicting \cup Overlapping
=============================================================================

------------------------------ MODULE MCMemin ------------------------------
(***************************************************************************)
(* Machines for the command memin.                                         *)
(***************************************************************************)
EXTENDS Memin, TLC

T(c, r, o) == [in |-> 0 :> c, to |-> r, out |-> 0 :> o]

\* Three states.  State 0 may lack an answer, state 1 may take both words
\* together, state 2 leaves one answer open; a state may be out of reach.
Three ==
    {[trans |-> (0 :> a) @@ (1 :> b) @@ (2 :> {T("0", r2, "-"), T("1", 0, "1")}), reset |-> r] :
        a \in {{T("0", r0, "0")} : r0 \in 0 .. 2}
              \cup {{T("0", r0, "0"), T("1", 1, "-")} : r0 \in 0 .. 2},
        b \in {{T("-", r1, "-")} : r1 \in {0, 2}}
              \cup {{T("0", r1, "1"), T("1", 2, "-")} : r1 \in 0 .. 2},
        r2 \in 0 .. 2, r \in {0, NoState}}

\* Four states, 0 and 1 distinguished by their answers to the word 0 and the
\* others by where that leads.
Four ==
    {[trans |-> (0 :> {T("0", r0, "0"), T("1", 0, "-")}) @@ (1 :> {T("0", 0, "1")})
                @@ (2 :> {T("0", r2, "-")}) @@ (3 :> {T("0", 0, "-"), T("1", 0, "1")}),
      reset |-> 0] : r0 \in {2, 3}, r2 \in {1, 3}}

\* Each state is distinguished from two of the others, and two are enough.
Ring ==
    {[trans |-> (0 :> {T("0", 1, "0")}) @@ (1 :> {T("0", r, "1"), T("1", 0, "0")})
                @@ (2 :> {T("0", 3, "0"), T("1", 0, "1")}) @@ (3 :> {T("0", 2, "1")}),
      reset |-> 0] : r \in {1, 2}}

\* No three states are pairwise incompatible, but whichever two classes cover
\* the states, successors of one lie in both, unless r is 0.
Open ==
    {[trans |-> (0 :> {T("0", 0, "0"), T("1", 1, "-")}) @@ (1 :> {T("0", 1, "1")})
                @@ (2 :> {T("0", r, "-"), T("1", 1, "0")}) @@ (3 :> {T("1", 2, "1")}),
      reset |-> NoState] : r \in {0, 3}}

All == Three \cup Four \cup Ring \cup Open
=============================================================================

------------------------------ MODULE Machine ------------------------------
(***************************************************************************)
(* Incompletely specified Mealy machines, as memin keeps them: state s     *)
(* (states are numbered from 0) has the transitions m[s], records with an  *)
(* input sequence, the next state and an output sequence.  The second half *)
(* says, independently of the algorithms of memin, when two states cannot  *)
(* be merged and what a machine with merged states must satisfy.           *)
(***************************************************************************)
EXTENDS Naturals, FiniteSets, IncSpecSeq

States(m) == DOMAIN m
NStates(m) == Cardinality(DOMAIN m)

Trans(nIn, nOut, n) ==
    [in : IncSpecSeqs(nIn), to : 0 .. n - 1, out : IncSpecSeqs(nOut)]

\* At most one transition applies to an input word.
Deterministic(m) ==
    \A s \in States(m) : \A t, u \in m[s] : t # u => isDisjoint(t.in, u.in)

-----------------------------------------------------------------------------

\* Pairs of states that some word distinguishes at once.
Conflicts(m) ==
    {p \in States(m) \X States(m) :
        \E t \in m[p[1]], u \in m[p[2]] :
            ~ isDisjoint(t.in, u.in) /\ ~ isCompatible(t.out, u.out)}

\* What one word may do to a pair of states.
PairSteps(m) ==
    {e \in (States(m) \X States(m)) \X (States(m) \X States(m)) :
        \E t \in m[e[1][1]], u \in m[e[1][2]] :
            ~ isDisjoint(t.in, u.in) /\ e[2] = <<t.to, u.to>>}

\* Pairs of states that a sequence of words distinguishes: a shortest one is
\* not longer than the number of pairs.
Distinguishable(m) ==
    LET steps == PairSteps(m)
        within[k \in 0 .. NStates(m) * NStates(m)] ==
            IF k = 0 THEN {p : p \in Conflicts(m)}
            ELSE LET shorter == within[k - 1]
                 IN shorter \cup {e[1] : e \in {d \in steps : d[2] \in shorter}}
    IN within[NStates(m) * NStates(m)]

\* The states that a set of states leads to under a word.
Image(m, S, w) == {t.to : t \in {u \in UNION {m[s] : s \in S} : Matches(w, u.in)}}

\* Classes of states that cover all, each of compatible states, such that
\* under every word the successors of a class lie together in one of them.
ClosedCover(m, nIn, C) ==
    /\ UNION C = States(m)
    /\ \A p \in Distinguishable(m) : \A c \in C : ~ ({p[1], p[2]} \subseteq c)
    /\ \A c \in C, w \in Words(nIn) : \E d \in C : Image(m, c, w) \subseteq d
=============================================================================

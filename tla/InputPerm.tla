----------------------------- MODULE InputPerm -----------------------------
(***************************************************************************)
(* How stru_fold moves the inputs before it folds (timeMux4/perm.cpp): -p  *)
(* puts the inputs of outputs with small supports first, -i puts the       *)
(* inputs of a part of the circuit where the fold of that part had them.   *)
(***************************************************************************)
EXTENDS AigUtils

\* Mutant: large supports first.
SmallestLast(sup, s) ==
    \A a, b \in DOMAIN s : a < b => Cardinality(sup[s[a]]) >= Cardinality(sup[s[b]])

\* std::sort leaves outputs with supports of one size in any order.
SmallestFirst(sup, s) ==
    \A a, b \in DOMAIN s : a < b => Cardinality(sup[s[a]]) <= Cardinality(sup[s[b]])

\* The ways in which the outputs can be sorted by size of support.
Sorted(sup) ==
    {s \in Bijection(0 .. Num(sup) - 1, DOMAIN sup) : SmallestFirst(sup, s)}

\* permPi for nPi inputs and the order s: every output in turn appends its
\* inputs that are not placed yet, then come the inputs that no output has.
permPi(nPi, sup, s) ==
    LET round(j) == IF \E a \in DOMAIN s : j \in sup[s[a]]
                    THEN CHOOSE a \in DOMAIN s :
                             j \in sup[s[a]] /\ \A b \in 0 .. a - 1 : j \notin sup[s[b]]
                    ELSE Num(sup)
    IN [j \in 0 .. nPi - 1 |->
           Cardinality({m \in 0 .. nPi - 1 : round(m) < round(j) \/ (round(m) = round(j) /\ m < j)})]

\* A part: kids are the inputs of the circuit that it has, in its own order,
\* and iPerm0 is how stru_fold has permuted its inputs, dummies included, to
\* fold it into T frames.
IsPart(part) ==
    /\ part.T \in Nat \ {0} /\ IsFiniteSet(DOMAIN part.kids) /\ IsFiniteSet(DOMAIN part.iPerm0)
    /\ Num(part.iPerm0) > 0
    /\ part.kids \in Injection(0 .. Num(part.kids) - 1, Nat)
    /\ part.iPerm0 \in Bijection(0 .. Num(part.iPerm0) - 1, 0 .. Num(part.iPerm0) - 1)

\* Where input i of the part is to be: in the frame and on the pin that the
\* fold of the part, with fewer pins, had for it.
KidPlace(iPerm0, nPi, T, i) ==
    LET nPi0 == Num(iPerm0) \div T
    IN (iPerm0[i] \div nPi0) * nPi + (iPerm0[i] % nPi0)

\* The assertions of readInfo on the two files.
readInfoAsserts(kids, iPerm0, T) ==
    /\ Num(kids) <= Num(iPerm0) /\ Num(iPerm0) % T = 0
    /\ \A i \in DOMAIN iPerm0 : i >= Num(kids) => iPerm0[i] = i

\* readInfo for nCi inputs: the inputs of the part have their places, the
\* others fill the places that are left from the first on.
readInfo(nCi, kids, iPerm0, T) ==
    LET nPi  == nCi \div T
        Kids == Range(kids)
        Place(c) == KidPlace(iPerm0, nPi, T, CHOOSE i \in DOMAIN kids : kids[i] = c)
        rest == (0 .. nCi - 1) \ {Place(c) : c \in Kids}
    IN [c \in 0 .. nCi - 1 |->
           IF c \in Kids THEN Place(c)
           ELSE CHOOSE p \in rest :
                    Cardinality({q \in rest : q < p}) = Cardinality({m \in 0 .. c - 1 : m \notin Kids})]

\* Input i of the network that is folded: the input whose place i is.
invPerm(iPerm) == [p \in DOMAIN iPerm |-> CHOOSE c \in DOMAIN iPerm : iPerm[c] = p]
=============================================================================

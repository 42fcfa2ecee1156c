--------------------------------- MODULE STG ---------------------------------
(***************************************************************************)
(* The state transition graph that the functional folds write              *)
(* (utils/stg.cpp), the machine it describes, run here from reset to the   *)
(* end of a batch, and its expansion over the frames, which the            *)
(* equivalence checks compare with the circuit.                            *)
(***************************************************************************)
EXTENDS Naturals, FiniteSets, Sequences, Functions

CONSTANTS NTimeFrame, NPi

\* There is a frame to fold into.
ASSUME STGAssumption == NTimeFrame \in Nat \ {0} /\ NPi \in Nat

VARIABLES
    transs,   \* the transitions of the STG
    st,       \* the machine's state,
    cycle,    \* its frame,
    got,      \* the inputs it has read in this batch
    out       \* and its output pins in the latest cycle

runVars == <<st, cycle, got, out>>

PinValues == [0 .. NPi - 1 -> BOOLEAN]

\* The inputs of n frames.
Words(n) == [1 .. n -> PinValues]

\* State number n of frame f.  "*" follows the last frame.
Name(f, n) == <<f, n>>
S0_0 == Name(0, 0)
Star == Name(NTimeFrame, 0)

-----------------------------------------------------------------------------
(* Tables of states: number -> the words that lead to the state            *)

\* bddCreateDummyState: one state, which all words of n frames lead to.
DummyState(n) == [s \in {0} |-> Words(n)]

\* The order in which st__foreach_item lists a table: any, but the same
\* whenever the table is listed.
Listed(S) == CHOOSE f \in Bijection(0 .. Cardinality(S) - 1, S) : TRUE

-----------------------------------------------------------------------------
STGInit ==
    /\ transs = {}
    /\ st = S0_0 /\ cycle = 0 /\ got = <<>> /\ out = <<>>

-----------------------------------------------------------------------------
(* addOneTrans                                                             *)

\* The input part of a transition.
Patterns == [0 .. NPi - 1 -> {"0", "1", "-"}]
Matches(x, p) == \A q \in 0 .. NPi - 1 : p[q] = "-" \/ (p[q] = "1" <=> x[q])

\* The ways in which the loop can take G apart, given the inputs of G and
\* the codes with which G is 1 under each of them: the inputs of a cube, which
\* is a path of a BDD with B below the inputs, share their codes.
Cubes(G, sign) ==
    LET usable == {p \in Patterns :
                      \A x, y \in PinValues : Matches(x, p) /\ Matches(y, p) =>
                          x \in G /\ sign[x] = sign[y]}
    IN {C \in SUBSET usable : \A x \in G : \E p \in C : \A r \in C : Matches(x, r) <=> r = p}

\* Mutant: the second negation of bddNotVec is left out.
OutBitsNegated(oFuncs, pins, p) ==
    [k \in pins |->
        IF k \notin DOMAIN oFuncs THEN "-"
        ELSE IF \A x \in PinValues : Matches(x, p) => oFuncs[k][x] THEN "0" ELSE "1"]

\* The output part: the cofactor of every output by the cube.
OutBits(oFuncs, pins, p) ==
    [k \in pins |->
        IF k \notin DOMAIN oFuncs THEN "-"
        ELSE IF \A x \in PinValues : Matches(x, p) => ~ oFuncs[k][x] THEN "0" ELSE "1"]

\* The transitions from state c of frame f to state n of the next one.
AddOneTrans(G, sign, oFuncs, pins, f, c, n) ==
    \E C \in Cubes(G, sign) :
       transs' = transs \cup
           {[in |-> p, cst |-> Name(f, c), nst |-> Name(f + 1, n), out |-> OutBits(oFuncs, pins, p)] :
               p \in C}

\* Mutant: the off-sets are not encoded.
SignOn(oFuncs, pins) ==
    [x \in PinValues |->
        IF DOMAIN oFuncs = {} THEN {0} ELSE {k \in DOMAIN oFuncs : oFuncs[k][x]}]

\* The codes B for which F is 1 under every input: the off-set of output k has
\* code k, its on-set code nPo + k.  Without outputs F is 1 whatever the code.
Sign(oFuncs, pins) ==
    [x \in PinValues |->
        IF DOMAIN oFuncs = {} THEN {0}
        ELSE {IF oFuncs[k][x] THEN Cardinality(pins) + k ELSE k : k \in DOMAIN oFuncs}]

-----------------------------------------------------------------------------
(* The machine of the STG, from reset to "*"; an output "-" can be         *)
(* anything, and so can the state "*", so it is reset before the next      *)
(* batch.                                                                  *)

Clock ==
    /\ st # Star
    /\ \E x \in PinValues, t \in transs :
          /\ t.cst = st /\ Matches(x, t.in)
          /\ st' = t.nst
          /\ got' = Append(IF cycle = 0 THEN <<>> ELSE got, x)
          /\ out' \in {o \in [DOMAIN t.out -> BOOLEAN] :
                          \A k \in DOMAIN t.out : t.out[k] = "-" \/ (t.out[k] = "1" <=> o[k])}
    /\ cycle' = (cycle + 1) % NTimeFrame
    /\ UNCHANGED transs

ResetMachine ==
    /\ st = Star
    /\ st' = S0_0
    /\ UNCHANGED <<transs, cycle, got, out>>

States == {S0_0} \cup {t.cst : t \in transs} \cup {t.nst : t \in transs}

Step(s, x) == CHOOSE t \in transs : t.cst = s /\ Matches(x, t.in)

\* The transitions that the machine takes from state s on reading the word.
Run(s, word) ==
    LET state[n \in 0 .. Len(word)] == IF n = 0 THEN s ELSE Step(state[n - 1], word[n]).nst
    IN [n \in 1 .. Len(word) |-> Step(state[n - 1], word[n])]

\* The inputs of the frames, numbered through, as a word.
WordOf(in, n) == [f \in 1 .. n |-> [q \in 0 .. NPi - 1 |-> in[(f - 1) * NPi + q]]]

\* Abc_NtkFrames: the outputs of the expanded machine, frame by frame, as
\* functions of all its inputs.  dc is the value of the outputs left open.
FramesOutputs(pins, dc) ==
    LET nPo == Cardinality(pins)
        runs == [in \in [0 .. NTimeFrame * NPi - 1 -> BOOLEAN] |-> Run(S0_0, WordOf(in, NTimeFrame))]
    IN [j \in 0 .. NTimeFrame * nPo - 1 |->
           [in \in [0 .. NTimeFrame * NPi - 1 -> BOOLEAN] |->
               LET o == runs[in][j \div nPo + 1].out[j % nPo]
               IN o = "1" \/ (o = "-" /\ dc)]]
=============================================================================

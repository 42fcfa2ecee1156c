------------------------------ MODULE BddFold ------------------------------
(***************************************************************************)
(* The functional folding of time_fold (timeFold/bddFold.cpp) and          *)
(* func_fold (timeMux2/bddMux2.cpp).  From the last frame to the first,    *)
(* the words of inputs read before a frame are grouped into states: two    *)
(* words are in one state if the outputs of the frame and the next states  *)
(* are the same for every way to go on.  buildTrans then lists the         *)
(* transitions of the frame in an STG (utils/stg.cpp), whose machine is    *)
(* run here from reset to the end of a batch.                              *)
(*                                                                         *)
(* A BDD is canonical, so it is the set or the function it stands for.     *)
(***************************************************************************)
EXTENDS STG, AigUtils

CONSTANT Circuits    \* [nPo, iPerm, oPerm, func]: pins, the places of inputs and
                     \* outputs, and the outputs as functions of the frames

Outputs(c)    == DOMAIN c.oPerm
FrameOf(c, k) == c.oPerm[k] \div c.nPo

\* Outputs are numbered from 0.  Every input and output has a place of its own,
\* an output in a frame that has read all it depends on: what reordIO sees to
\* for func_fold, and what the expansion of a sequential circuit gives time_fold.
ASSUME BddFoldAssumption ==
    /\ \A c \in Circuits :
          /\ c.nPo \in Nat
          /\ c.iPerm \in Bijection(0 .. NTimeFrame * NPi - 1, 0 .. NTimeFrame * NPi - 1)
          /\ c.oPerm \in Injection(Outputs(c), 0 .. c.nPo * NTimeFrame - 1)
          /\ IsFiniteSet(Outputs(c)) /\ Outputs(c) = 0 .. Cardinality(Outputs(c)) - 1
          /\ \A k \in Outputs(c) : c.func[k] \in [Words(FrameOf(c, k) + 1) -> BOOLEAN]

VARIABLES
    ntk,      \* the circuit to fold
    pc,       \* "cut", "path", "trans" or "done"
    i,        \* the frame at work
    csts,     \* number -> state of frame i: the words that lead to it
    nsts,     \* the same for frame i + 1
    cCnt,     \* the state of frame i at work
    path,     \* a word that leads to it
    nCnt,     \* the state of frame i + 1 at work
    stsSum,   \* number of states
    eqv       \* what the equivalence check says

foldVars == <<pc, i, csts, nsts, cCnt, path, nCnt, stsSum>>
vars     == <<ntk, foldVars, eqv, transs, runVars>>

nPo == ntk.nPo
Pos == 0 .. nPo - 1

Init ==
    /\ ntk \in Circuits
    /\ pc = "cut" /\ i = NTimeFrame - 1
    /\ csts = <<>> /\ nsts = DummyState(NTimeFrame)
    /\ cCnt = 0 /\ path = <<>> /\ nCnt = 0
    /\ stsSum = 1 /\ eqv = "unknown"
    /\ STGInit

-----------------------------------------------------------------------------
(* The states of a frame                                                   *)

\* The pins that show an output in frame i (nodeVec is NULL for the others),
\* and its value after a word of the frames 0 .. i.
Valid == {k \in Pos : \E m \in Outputs(ntk) : ntk.oPerm[m] = i * nPo + k}

nodeVec(k, w) == ntk.func[CHOOSE m \in Outputs(ntk) : ntk.oPerm[m] = i * nPo + k][w]

\* Mutant: the states of the next frame are left out.
HyperOutputsOnly(w) == <<{a \in Valid \X PinValues : nodeVec(a[1], Append(w, a[2]))}, {}>>

\* What is left of the hyper-function below the word w: the codes, with the
\* inputs, for which it is 1, those of the outputs and those of the next
\* states (variable a[0] tells the two apart).
Hyper(w) ==
    <<{a \in Valid \X PinValues : nodeVec(a[1], Append(w, a[2]))},
      {a \in (DOMAIN nsts) \X PinValues : Append(w, a[2]) \in nsts[a[1]]}>>

\* Mutant: the paths to a node are not joined.
NodePathsSingle == {{w} : w \in Words(i)}

\* Extra_bddNodePathsUnderCut: for every node below the cut the words that
\* lead to it.
NodePathsUnderCut == {{w \in Words(i) : Hyper(w) = h} : h \in {Hyper(w) : w \in Words(i)}}

\* Mutant: the state of the first frame is not counted.
CutCountsLater ==
    /\ pc = "cut"
    /\ csts' = IF i = 0 THEN DummyState(0) ELSE Listed(NodePathsUnderCut)
    /\ stsSum' = IF i = 0 THEN stsSum ELSE stsSum + Cardinality(DOMAIN csts')
    /\ cCnt' = 0
    /\ pc' = "path"
    /\ UNCHANGED <<ntk, i, nsts, path, nCnt, eqv, transs, runVars>>

Cut ==
    /\ pc = "cut"
    /\ csts' = IF i = 0 THEN DummyState(0) ELSE Listed(NodePathsUnderCut)
    /\ stsSum' = stsSum + Cardinality(DOMAIN csts')
    /\ cCnt' = 0
    /\ pc' = "path"
    /\ UNCHANGED <<ntk, i, nsts, path, nCnt, eqv, transs, runVars>>

-----------------------------------------------------------------------------
(* buildTrans                                                              *)

\* The outer loop: Cudd_FirstCube picks a path to the state, whichever.
FindPath ==
    /\ pc = "path" /\ cCnt \in DOMAIN csts
    /\ path' \in csts[cCnt]
    /\ nCnt' = 0
    /\ pc' = "trans"
    /\ UNCHANGED <<ntk, i, csts, nsts, cCnt, stsSum, eqv, transs, runVars>>

\* The cofactors of the outputs by the path.
oFuncs == [k \in Valid |-> [x \in PinValues |-> nodeVec(k, Append(path, x))]]

\* G: the inputs that lead to state n of the next frame, with some code.
Guarded(n) == {x \in PinValues : Append(path, x) \in nsts[n] /\ Sign(oFuncs, Pos)[x] # {}}

\* The inner loop: the transitions to one state of the next frame, if a word
\* of this state leads there at all.
AddTrans ==
    /\ pc = "trans" /\ nCnt \in DOMAIN nsts
    /\ IF \E w \in csts[cCnt], x \in PinValues : Append(w, x) \in nsts[nCnt]
       THEN AddOneTrans(Guarded(nCnt), Sign(oFuncs, Pos), oFuncs, Pos, i, cCnt, nCnt)
       ELSE UNCHANGED transs
    /\ nCnt' = nCnt + 1
    /\ UNCHANGED <<ntk, pc, i, csts, nsts, cCnt, path, stsSum, eqv, runVars>>

\* Mutant: the state is not left.
NextStateStays ==
    /\ pc = "trans" /\ nCnt \notin DOMAIN nsts
    /\ pc' = "path"
    /\ UNCHANGED <<ntk, i, csts, nsts, cCnt, path, nCnt, stsSum, eqv, transs, runVars>>

NextState ==
    /\ pc = "trans" /\ nCnt \notin DOMAIN nsts
    /\ cCnt' = cCnt + 1
    /\ pc' = "path"
    /\ UNCHANGED <<ntk, i, csts, nsts, path, nCnt, stsSum, eqv, transs, runVars>>

\* Mutant: the states of this frame are not kept for the one before it.
NextFrameKeeps ==
    /\ pc = "path" /\ cCnt \notin DOMAIN csts
    /\ pc' = IF i = 0 THEN "done" ELSE "cut"
    /\ i' = IF i = 0 THEN 0 ELSE i - 1
    /\ UNCHANGED <<ntk, csts, nsts, cCnt, path, nCnt, stsSum, eqv, transs, runVars>>

\* The loop over the frames goes on with the frame before, or ends.
NextFrame ==
    /\ pc = "path" /\ cCnt \notin DOMAIN csts
    /\ nsts' = csts
    /\ pc' = IF i = 0 THEN "done" ELSE "cut"
    /\ i' = IF i = 0 THEN 0 ELSE i - 1
    /\ UNCHANGED <<ntk, csts, cCnt, path, nCnt, stsSum, eqv, transs, runVars>>

-----------------------------------------------------------------------------
(* The equivalence check of func_fold and the machine                     *)

\* The slots that no output has follow the slots of the outputs, in order.
extendPerm(perm, fromSize, toSize) ==
    LET rest == {s \in 0 .. toSize - 1 : \A k \in 0 .. fromSize - 1 : perm[k] # s}
    IN [k \in 0 .. toSize - 1 |->
           IF k < fromSize THEN perm[k]
           ELSE CHOOSE s \in rest : Cardinality({r \in rest : r < s}) = k - fromSize]

NumCi == NTimeFrame * NPi

\* The circuit as it was before its inputs were moved.
Original ==
    Comb(NumCi,
         [k \in Outputs(ntk) |-> [v \in Ins(NumCi) |->
             LET moved == [p \in 0 .. NumCi - 1 |-> v[CHOOSE m \in DOMAIN ntk.iPerm : ntk.iPerm[m] = p]]
             IN ntk.func[k][WordOf(moved, FrameOf(ntk, k) + 1)]]])

\* prepNtkToCheck: the machine expanded over the frames, its inputs and
\* outputs brought back to where the circuit has them.
prepNtkToCheck(dc) ==
    LET nCo == Cardinality(Outputs(ntk))
        frames == Comb(NumCi, FramesOutputs(Pos, dc))
    IN aigCone(aigPermCo(aigPermCi(frames, ntk.iPerm),
                         extendPerm(ntk.oPerm, nCo, NTimeFrame * nPo)), 0, nCo)

\* The minimised machine may have any value where an output is left open.
CheckEqv ==
    /\ pc = "done" /\ eqv = "unknown"
    /\ \E dc \in BOOLEAN :
          eqv' = IF prepNtkToCheck(dc) = Original THEN "equivalent" ELSE "different"
    /\ UNCHANGED <<ntk, foldVars, transs, runVars>>

Running ==
    /\ pc = "done"
    /\ Clock \/ ResetMachine
    /\ UNCHANGED <<ntk, foldVars, eqv>>

Folding == Cut \/ FindPath \/ AddTrans \/ NextState \/ NextFrame

Next == Folding \/ CheckEqv \/ Running

Spec == Init /\ [][Next]_vars

FairSpec == Spec /\ WF_vars(Folding)

-----------------------------------------------------------------------------
(* Properties                                                              *)

\* The states of a frame are a partition of the words before it, which
\* assert(pFuncs[0] == b1) checks when there is only one.
StatesPartition ==
    pc # "done" =>
        /\ UNION Range(nsts) = Words(i + 1)
        /\ \A m, n \in DOMAIN nsts : m # n => nsts[m] \cap nsts[n] = {}

\* In the finished STG every state but "*" has exactly one transition for
\* every input.
OneTransition ==
    pc = "done" => \A s \in States \ {Star}, x \in PinValues :
        Cardinality({t \in transs : t.cst = s /\ Matches(x, t.in)}) = 1

\* The number of states in the header of the KISS file is the number of
\* states the transitions name, "*" among them.
StatesCounted == pc = "done" => stsSum = Cardinality(States)

\* The STG has no state too many: two states of a frame show different
\* outputs for some inputs of the frames that are left.
Shows(s, word) == LET ts == Run(s, word) IN [n \in DOMAIN word |-> ts[n].out]

Minimal ==
    pc = "done" => \A s, r \in States \ {Star} : s[1] = r[1] /\ s # r =>
        \E word \in Words(NTimeFrame - s[1]) : Shows(s, word) # Shows(r, word)

\* The machine does what a folded circuit promises, for every path the fold
\* may have taken as representative of a state.
Value(c, k, in) == c.func[k][WordOf(in, FrameOf(c, k) + 1)]

Fold == INSTANCE FoldedCircuit WITH
    folded <- pc = "done",
    pins   <- nPo,
    slot   <- ntk.oPerm

ImplementsFold == Fold!Spec

\* The equivalence check of func_fold finds the circuit in the machine: it
\* undoes the permutations of inputs and outputs the way they were done.
CheckAgrees == eqv # "different"

\* The fold ends.
FoldEnds == <>(pc = "done")
=============================================================================

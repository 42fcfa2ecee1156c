------------------------------- MODULE BddMux -------------------------------
(***************************************************************************)
(* The folding of time_mux (timeMux/bddMux.cpp): all outputs are shown in  *)
(* the last frame, and with -r the order in which the inputs are read is   *)
(* the one that suits the BDD of the hyper-function best.  From the first  *)
(* frame to the last, the nodes of the hyper-function below the frame are  *)
(* the next states, and buildTrans lists the transitions of the frame.     *)
(* With -c the command then compares the machine with the circuit          *)
(* (timeMux/checkEqv.cpp).                                                 *)
(***************************************************************************)
EXTENDS STG, AigUtils

CONSTANTS Circuits,   \* [nCo, func]: the outputs as functions of the inputs
          Reord       \* whether the inputs may be reordered

NumCi == NTimeFrame * NPi

\* In frames before the last no output is shown, and a hyper-function that is
\* constant 0 would leave no state to go to: some output can be 1.
ASSUME BddMuxAssumption ==
    /\ Reord \in BOOLEAN
    /\ \A c \in Circuits :
          /\ c.nCo \in Nat
          /\ c.func \in [0 .. c.nCo - 1 -> [Ins(NumCi) -> BOOLEAN]]
          /\ NTimeFrame > 1 => \E k \in 0 .. c.nCo - 1, v \in Ins(NumCi) : c.func[k][v]

VARIABLES
    ntk,      \* the circuit to fold
    perm,     \* input -> place: frame perm \div NPi, pin perm % NPi
    pc,       \* "cut", "path", "trans" or "done"
    i,        \* the frame at work
    csts,     \* number -> state of frame i: the words that lead to it
    nsts,     \* the same for frame i + 1
    cCnt,     \* the state of frame i at work
    path,     \* a word that leads to it
    nCnt,     \* the state of frame i + 1 at work
    stsSum,   \* number of states
    eqv       \* what the equivalence check says

foldVars == <<pc, i, csts, nsts, cCnt, path, nCnt, stsSum>>
vars     == <<ntk, perm, foldVars, eqv, transs, runVars>>

Outputs(c) == 0 .. c.nCo - 1
Pos        == Outputs(ntk)
Last       == NTimeFrame - 1

\* Where bddReordRange may leave the inputs; without -r they stay in place.
Orders == IF Reord THEN Bijection(0 .. NumCi - 1, 0 .. NumCi - 1)
          ELSE {[m \in 0 .. NumCi - 1 |-> m]}

Init ==
    /\ ntk \in Circuits
    /\ perm \in Orders
    /\ pc = "cut" /\ i = 0
    /\ csts = DummyState(0) /\ nsts = <<>>
    /\ cCnt = 0 /\ path = <<>> /\ nCnt = 0
    /\ stsSum = 1 /\ eqv = "unknown"
    /\ STGInit

-----------------------------------------------------------------------------
(* The states of a frame                                                   *)

\* Output k of circuit c for a word of all frames, read in the order p.
ValueOf(c, p, k, w) ==
    c.func[k][[m \in 0 .. NumCi - 1 |-> w[p[m] \div NPi + 1][p[m] % NPi]]]

nodeVec(k, w) == ValueOf(ntk, perm, k, w)

\* Mutant: only the first output is encoded.
HyperFirst(w) ==
    {a \in {0} \X Words(NTimeFrame - Len(w)) : nodeVec(a[1], w \o a[2])}

\* What is left of H below the word w: for every output code the ways to go
\* on for which the output is 1.
Hyper(w) ==
    {a \in Pos \X Words(NTimeFrame - Len(w)) : nodeVec(a[1], w \o a[2])}

\* Extra_bddNodePathsUnderCut: for every node below the cut the words of n
\* frames that lead to it.
NodePathsUnderCut(n) ==
    LET below == [w \in Words(n) |-> Hyper(w)]
    IN {{w \in Words(n) : below[w] = h} : h \in Range(below)}

Cut ==
    /\ pc = "cut"
    /\ nsts' = IF i # Last THEN Listed(NodePathsUnderCut(i + 1)) ELSE DummyState(NTimeFrame)
    /\ stsSum' = stsSum + Cardinality(DOMAIN csts)
    /\ cCnt' = 0
    /\ pc' = "path"
    /\ UNCHANGED <<ntk, perm, i, csts, path, nCnt, eqv, transs, runVars>>

-----------------------------------------------------------------------------
(* buildTrans                                                              *)

\* The outer loop: Cudd_FirstCube picks a path to the state, whichever.
FindPath ==
    /\ pc = "path" /\ cCnt \in DOMAIN csts
    /\ path' \in csts[cCnt]
    /\ nCnt' = 0
    /\ pc' = "trans"
    /\ UNCHANGED <<ntk, perm, i, csts, nsts, cCnt, stsSum, eqv, transs, runVars>>

\* The cofactors of the outputs by the path, in the last frame only.
oFuncs ==
    [k \in IF i = Last THEN Pos ELSE {} |-> [x \in PinValues |-> nodeVec(k, Append(path, x))]]

\* G: the inputs that lead to state n of the next frame, with some code.
Guarded(n) == {x \in PinValues : Append(path, x) \in nsts[n] /\ Sign(oFuncs, Pos)[x] # {}}

\* The inner loop: the transitions to one state of the next frame, if a word
\* of this state leads there at all.
AddTrans ==
    /\ pc = "trans" /\ nCnt \in DOMAIN nsts
    /\ IF \E w \in csts[cCnt], x \in PinValues : Append(w, x) \in nsts[nCnt]
       THEN AddOneTrans(Guarded(nCnt), Sign(oFuncs, Pos), oFuncs, Pos, i, cCnt, nCnt)
       ELSE UNCHANGED transs
    /\ nCnt' = nCnt + 1
    /\ UNCHANGED <<ntk, perm, pc, i, csts, nsts, cCnt, path, stsSum, eqv, runVars>>

NextState ==
    /\ pc = "trans" /\ nCnt \notin DOMAIN nsts
    /\ cCnt' = cCnt + 1
    /\ pc' = "path"
    /\ UNCHANGED <<ntk, perm, i, csts, nsts, path, nCnt, stsSum, eqv, transs, runVars>>

\* The next states are the states of the next frame.
NextFrame ==
    /\ pc = "path" /\ cCnt \notin DOMAIN csts
    /\ csts' = nsts
    /\ IF i = Last
       THEN pc' = "done" /\ UNCHANGED i
       ELSE pc' = "cut" /\ i' = i + 1
    /\ UNCHANGED <<ntk, perm, nsts, cCnt, path, nCnt, stsSum, eqv, transs, runVars>>

-----------------------------------------------------------------------------
(* The equivalence check and the machine                                   *)

\* The outputs of the last of the expanded frames, the inputs brought back to
\* where the circuit has them.
prepNtkToCheck(dc) ==
    LET frames == Comb(NumCi, FramesOutputs(Pos, dc))
        nPo    == PoNum(frames) \div NTimeFrame
    IN aigPermCi(aigCone(frames, PoNum(frames) - nPo, PoNum(frames)), perm)

\* The minimised machine may have any value where an output is left open.
CheckEqv ==
    /\ pc = "done" /\ eqv = "unknown"
    /\ \E dc \in BOOLEAN :
          eqv' = IF prepNtkToCheck(dc) = Comb(NumCi, ntk.func) THEN "equivalent" ELSE "different"
    /\ UNCHANGED <<ntk, perm, foldVars, transs, runVars>>

Running ==
    /\ pc = "done"
    /\ Clock \/ ResetMachine
    /\ UNCHANGED <<ntk, perm, foldVars, eqv>>

Folding == Cut \/ FindPath \/ AddTrans \/ NextState \/ NextFrame

Next == Folding \/ CheckEqv \/ Running

Spec == Init /\ [][Next]_vars

-----------------------------------------------------------------------------
(* Properties                                                              *)

\* The machine does what a folded circuit promises, with all outputs in the
\* last frame and input m of the circuit at place perm[m], which is what the
\* comment #iPerm of the KISS file tells.
Value(c, k, in) == ValueOf(c.ntk, c.perm, k, WordOf(in, NTimeFrame))

OutputsOf(c)    == Outputs(c.ntk)

Fold == INSTANCE FoldedCircuit WITH
    Circuits <- [ntk : Circuits, perm : Orders],
    Outputs  <- OutputsOf,
    ntk      <- [ntk |-> ntk, perm |-> perm],
    folded   <- pc = "done",
    pins     <- ntk.nCo,
    slot     <- [k \in Pos |-> Last * ntk.nCo + k]

ImplementsFold == Fold!Spec

\* The equivalence check of -c finds the circuit in the machine, whatever
\* order -r has chosen: it undoes the permutation that the fold has done.
CheckAgrees == eqv # "different"
=============================================================================

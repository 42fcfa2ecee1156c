------------------------------ MODULE StruFold ------------------------------
(***************************************************************************)
(* stru_fold (timeMux4): folds a combinational circuit without any change  *)
(* of its structure.  buildTM walks over the frames; in frame t every AND  *)
(* node whose fanins have both been reached is copied into the folded      *)
(* circuit, every output driven by a reached object is assigned to frame   *)
(* t, and what an unreached AND node still waits for is stored in a latch. *)
(* Afterwards the folded circuit runs, as checkEqv unrolls it.             *)
(*                                                                         *)
(* An object of the folded circuit is written by its structure, which is   *)
(* what structural hashing identifies it by.                               *)
(***************************************************************************)
EXTENDS StructuralFold

VARIABLES
    mff,       \* option -m: minimise the number of latches
    pc,        \* "frame", "traverse", "po" or "run"
    t,         \* the frame that is built
    que,       \* objects of this frame still to be visited
    vMap,      \* AND node -> the fanin that was reached first
    pCopy,     \* object -> literal of the folded circuit
    aig,       \* AND objects of the folded circuit that are copies
    lats,      \* storage latch -> what is loaded into it: pairs <<frame, literal>>
    poInfos,   \* frame -> pairs <<output, literal>>
    oPerm,     \* output -> slot
    latVal     \* running: values of the storage latches

buildVars == <<que, vMap, pCopy, aig, lats, poInfos, t>>
permVars  == <<nPo, oPerm>>
runVars   == <<ring, latVal, cycle, got, out>>
vars      == <<ntk, mff, pc, buildVars, permVars, runVars>>

Objs == {Const1} \cup 1..NCi \cup Ands(ntk)
Pi(f, i) == f * NPi + i + 1

-----------------------------------------------------------------------------
(* Objects of the folded circuit (external: ABC's structural hashing).     *)

MuxConst1   == [op |-> "one", id |-> 0, args |-> {}]
MuxPi(i)    == [op |-> "pi",  id |-> i, args |-> {}]
MuxBo(l)    == [op |-> "bo",  id |-> l, args |-> {}]
MuxAnd(a, b) == [op |-> "and", id |-> 0, args |-> {a, b}]

NotLit(a) == [a EXCEPT !.neg = ~ a.neg]
One  == Lit(MuxConst1, FALSE)
Zero == Lit(MuxConst1, TRUE)

\* Abc_AigAnd: trivial cases, then the hash table.
AigAnd(a, b) ==
    CASE a = b                    -> a
      [] a = NotLit(b)            -> Zero
      [] a.obj = MuxConst1 /\ a # b /\ a # NotLit(b) -> IF a.neg THEN Zero ELSE b
      [] b.obj = MuxConst1 /\ a # b /\ a # NotLit(b) -> IF b.neg THEN Zero ELSE a
      [] OTHER                    -> Lit(MuxAnd(a, b), FALSE)

NoCopy == Lit([op |-> "none", id |-> 0, args |-> {}], FALSE)
IsBo(a) == a.obj.op = "bo"

\* Abc_ObjChild0Copy and Abc_ObjChild1Copy: the copy of the object an edge
\* leads to, complemented as the edge is.
ChildCopy(copy, edge) == IF edge.neg THEN NotLit(copy[edge.obj]) ELSE copy[edge.obj]

-----------------------------------------------------------------------------
Init ==
    /\ ntk \in Circuits /\ mff \in BOOLEAN
    /\ pc = "frame" /\ t = 0
    /\ que = {} /\ vMap = <<>>
    /\ pCopy = [o \in Objs |-> IF o = Const1 THEN One ELSE NoCopy]
    /\ aig = {} /\ lats = <<>>
    /\ poInfos = [f \in Frames |-> {}]
    /\ nPo = 0 /\ oPerm = <<>>
    /\ ring = RingInit /\ latVal = <<>>
    /\ cycle = 0 /\ got = <<>> /\ out = <<>>

\* initQue: a frame starts with its inputs, the first one also with constant 1.
InitQue ==
    /\ pc = "frame" /\ t < NTimeFrame
    /\ que' = {Pi(t, i) : i \in 0 .. NPi - 1} \cup (IF t = 0 THEN {Const1} ELSE {})
    /\ pCopy' = [o \in Objs |->
          IF o \in {Pi(t, i) : i \in 0 .. NPi - 1}
          THEN Lit(MuxPi(o - Pi(t, 0)), FALSE) ELSE pCopy[o]]
    /\ pc' = "traverse"
    /\ UNCHANGED <<ntk, mff, t, vMap, aig, lats, poInfos, permVars, runVars>>

\* Mutants: only the second fanin completes a node; the visited node is
\* pushed again with its fanouts.
CompletedBySecond(o) == {n \in AndFanouts(ntk, o) : ntk.fan[n][2].obj = o}
CompletedAgain(o) ==
    {n \in AndFanouts(ntk, o) \cap DOMAIN vMap : vMap[n] # o} \cup ({o} \cap Ands(ntk))

\* The fanouts of o that wait for nothing else once o is visited.
Completed(o) == {n \in AndFanouts(ntk, o) \cap DOMAIN vMap : vMap[n] # o}

\* One round of the loop of processQue.  The code takes the object pushed
\* last; the model takes any, since the order of the fanouts on the stack
\* follows from the order in which the circuit was read.
Visit(o) ==
    /\ pc = "traverse" /\ o \in que
    /\ LET first == AndFanouts(ntk, o) \ DOMAIN vMap
           copyOf(n) == AigAnd(ChildCopy(pCopy, ntk.fan[n][1]),
                               ChildCopy(pCopy, ntk.fan[n][2]))
       IN /\ que' = (que \ {o}) \cup Completed(o)
          /\ vMap' = [n \in (DOMAIN vMap \ Completed(o)) \cup first |->
                        IF n \in first THEN o ELSE vMap[n]]
          /\ pCopy' = [n \in Objs |-> IF n \in Completed(o) THEN copyOf(n) ELSE pCopy[n]]
          /\ aig' = aig \cup {a \in {copyOf(n).obj : n \in Completed(o)} : a.op = "and"}
    /\ poInfos' = [poInfos EXCEPT ![t] = @ \cup
          {<<k, ChildCopy(pCopy, ntk.po[k])>> : k \in PoFanouts(ntk, o)}]
    /\ UNCHANGED <<ntk, mff, pc, t, lats, permVars, runVars>>

\* What the AND nodes still to come wait for, and which of it has no latch.
Waiting  == {vMap[n] : n \in DOMAIN vMap}
Unstored == {o \in Waiting : ~ IsBo(pCopy[o])}
HeldLats == {pCopy[o].obj.id : o \in Waiting \ Unstored}

LatIdx == DOMAIN lats

\* storeInLats: an object that has no latch gets a new one.
NewLats == Cardinality(LatIdx) .. Cardinality(LatIdx) + Cardinality(Unstored) - 1

\* Mutants: latches that are in use count as free; no latch is used again.
FreeLatsAll   == 0 .. Cardinality(LatIdx) + Cardinality(Unstored) - 1
FirstFreeLatsFresh == NewLats

\* storeInLats2 and storeInIthLat: it gets the first latch, old or new, that
\* no waiting object holds and no other object has just taken.
FreeLats == {l \in 0 .. Cardinality(LatIdx) + Cardinality(Unstored) - 1 : l \notin HeldLats}
FirstFreeLats == {l \in FreeLats : Cardinality({m \in FreeLats : m < l}) < Cardinality(Unstored)}

\* Mutant: an object that has a latch is not loaded again.
LoadedOnce(place, l) == {o \in Unstored : place[o] = l}

\* The objects that latch l is loaded with at the end of this frame.  A latch
\* of storeInLats keeps its value by itself; one of storeInLats2 must be
\* loaded again in every frame its object waits.
Loaded(place, l) ==
    {o \in Unstored : place[o] = l}
      \cup {o \in Waiting \ Unstored : mff /\ pCopy[o].obj.id = l}

\* The end of a frame.  Which object gets which of the latches is left open:
\* the code iterates over a hash table of pointers.
Store ==
    /\ pc = "traverse" /\ que = {}
    /\ LET target == IF mff THEN FirstFreeLats ELSE NewLats
       IN \E place \in Bijection(Unstored, target) :
          /\ lats' = [l \in LatIdx \cup target |->
                (IF l \in LatIdx THEN lats[l] ELSE {})
                   \cup {<<t, pCopy[o]>> : o \in Loaded(place, l)}]
          /\ pCopy' = [o \in Objs |->
                IF o \in Unstored THEN Lit(MuxBo(place[o]), FALSE) ELSE pCopy[o]]
    /\ t' = t + 1
    /\ pc' = IF t + 1 = NTimeFrame THEN "po" ELSE "frame"
    /\ UNCHANGED <<ntk, mff, que, vMap, aig, poInfos, permVars, runVars>>

-----------------------------------------------------------------------------
(* buildPoFuncs                                                            *)

\* The pin of an output: its rank among the outputs of its frame.
Rank(f, k) == Cardinality({p \in poInfos[f] : p[1] < k})

\* Mutant: the outputs of the last frame decide.
GetPoNumLast == Cardinality(poInfos[NTimeFrame - 1])

GetPoNum == CHOOSE n \in {Cardinality(poInfos[f]) : f \in Frames} :
                \A f \in Frames : Cardinality(poInfos[f]) <= n

BuildPoFuncs ==
    /\ pc = "po"
    /\ nPo' = GetPoNum
    /\ oPerm' = [k \in {p[1] : p \in UNION {poInfos[f] : f \in Frames}} |->
          LET f == CHOOSE f \in Frames : \E p \in poInfos[f] : p[1] = k
          IN f * GetPoNum + Rank(f, k)]
    /\ pc' = "run"
    /\ latVal' = [l \in LatIdx |-> FALSE]
    /\ UNCHANGED <<ntk, mff, buildVars, ring, cycle, got, out>>

-----------------------------------------------------------------------------
(* The folded circuit at work.                                             *)

\* The values of its objects in a cycle with inputs pis.
MuxValues(pis) ==
    LET val[m \in aig \cup {MuxConst1} \cup {MuxPi(i) : i \in 0 .. NPi - 1}
                      \cup {MuxBo(l) : l \in LatIdx}] ==
            CASE m.op = "one" -> TRUE
              [] m.op = "pi"  -> pis[m.id]
              [] m.op = "bo"  -> latVal[m.id]
              [] m.op = "and" -> \A a \in m.args : val[a.obj] # a.neg
    IN val

\* Pin i: whatever output has rank i in the frame that the ring enables.
PoFunc(val, i) ==
    \E f \in Frames : ring[f] /\ \E p \in poInfos[f] :
        Rank(f, p[1]) = i /\ val[p[2].obj] # p[2].neg

\* Mutant: the old value is kept in the enabled frames, too.
LatFuncKeeps(val, l) ==
    \/ \E p \in lats[l] : ring[p[1]] /\ val[p[2].obj] # p[2].neg
    \/ ~ mff /\ latVal[l]

\* The next value of a latch: what it loads in an enabled frame, and without
\* -m its own value in the other frames.
LatFunc(val, l) ==
    \/ \E p \in lats[l] : ring[p[1]] /\ val[p[2].obj] # p[2].neg
    \/ ~ mff /\ latVal[l] /\ \A p \in lats[l] : ~ ring[p[1]]

Clock ==
    /\ pc = "run"
    /\ \E pis \in PinValues :
          LET val == MuxValues(pis)
          IN /\ out' = [i \in 0 .. nPo - 1 |-> PoFunc(val, i)]
             /\ latVal' = [l \in LatIdx |-> LatFunc(val, l)]
             /\ got' = Append(IF cycle = 0 THEN <<>> ELSE got, pis)
    /\ ring' = RingNext(ring)
    /\ cycle' = (cycle + 1) % NTimeFrame
    /\ UNCHANGED <<ntk, mff, pc, buildVars, permVars>>

Build == InitQue \/ (\E o \in Objs : Visit(o)) \/ Store \/ BuildPoFuncs

Next == Build \/ Clock

Spec == Init /\ [][Next]_vars

FairSpec == Spec /\ WF_vars(Build)

-----------------------------------------------------------------------------
(* Properties                                                              *)

\* No latch is loaded with two objects in one frame: the OR that
\* storeInIthLat adds to the input of a reused latch never mixes values.
OneLoadPerFrame ==
    \A l \in LatIdx : \A p, q \in lats[l] : p[1] = q[1] => p = q

\* An output belongs to the earliest frame that has seen all inputs in its
\* structural support, and to that frame only, once.
FrameOf(o) == LET sup == Supports(ntk, NCi)[o]
              IN {f \in Frames : f = 0 \/ \E i \in sup : i >= Pi(f, 0)}
LastFrame(o) == CHOOSE f \in FrameOf(o) : \A g \in FrameOf(o) : g <= f

EarliestFrame ==
    /\ \A f \in Frames : \A p \in poInfos[f] :
          /\ f = LastFrame(ntk.po[p[1]].obj)
          /\ \A q \in poInfos[f] : p[1] = q[1] => p = q
    /\ pc \in {"po", "run"} =>
          \A k \in PoIdx(ntk) : \E f \in Frames : \E p \in poInfos[f] : p[1] = k

\* checkPerm after buildPoFuncs: every output has a slot of its own within
\* the slots of the folded circuit.
PermLegal ==
    pc = "run" =>
        /\ oPerm \in [PoIdx(ntk) -> 0 .. nPo * NTimeFrame - 1]
        /\ \A k, m \in PoIdx(ntk) : oPerm[k] = oPerm[m] => k = m

\* What -m is for: a frame adds latches only when more objects wait than
\* there are latches, so their number is the largest number of objects that
\* ever wait at the end of a frame.
NoMoreLatsThanNeeded ==
    [][mff => Cardinality(LatIdx') =
          IF t' # t /\ Cardinality(Waiting) > Cardinality(LatIdx)
          THEN Cardinality(Waiting) ELSE Cardinality(LatIdx)]_vars

\* The folded circuit computes the outputs of the circuit it was made from,
\* batch after batch, whatever was left in the latches by the batch before.
Fold == INSTANCE FoldedCircuit WITH
    Outputs <- PoIdx,
    Value   <- Value,
    folded  <- pc = "run",
    pins    <- nPo,
    slot    <- oPerm

ImplementsFold == Fold!Spec

\* Folding ends.
FoldingEnds == <>(pc = "run")
=============================================================================

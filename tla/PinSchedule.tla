---------------------------- MODULE PinSchedule ----------------------------
(***************************************************************************)
(* The pin scheduling of func_fold (timeMux2/reord.cpp).  reordIO decides, *)
(* from the support of every output, in which frame and on which pin each  *)
(* output is shown (schedulePO, reordPO) and in which frame each input is  *)
(* read (schedulePI), using as few output pins as its greedy walk over the *)
(* outputs can.  An output may only be scheduled in a frame that has read  *)
(* its whole support; the BDD folding that follows relies on that.         *)
(***************************************************************************)
EXTENDS Naturals, FiniteSets, Functions

CONSTANTS NTimeFrame, NPi, NCo

ASSUME PinScheduleAssumption ==
    /\ NTimeFrame \in Nat \ {0} /\ NPi \in Nat \ {0} /\ NCo \in Nat \ {0}

NCi    == NTimeFrame * NPi
Inputs == 0 .. NCi - 1
COs    == 0 .. NCo - 1
Frames == 0 .. NTimeFrame - 1

VARIABLES
    sVecs,      \* output -> its support
    sIdx,       \* the outputs sorted by the size of their support
    expConfig,  \* option -e of func_fold
    pc,         \* "grow", "place", "pi", "reordPi", "reordPo" or "done"
    nPo,        \* output pins tried
    i,          \* outputs placed
    sv,         \* union of their supports
    cnt,        \* slots left empty so far
    ct1, ct2,   \* frame and pin of the next free slot
    slots,      \* slot -> output, or -1 (here NCo)
    oPerm,      \* output -> slot
    iPerm       \* input -> position

loopVars == <<i, sv, cnt, ct1, ct2, slots>>
vars     == <<sVecs, sIdx, expConfig, pc, nPo, loopVars, oPerm, iPerm>>

None == NCo

Ceil(a, b) == (a + b - 1) \div b

Init ==
    /\ sVecs \in [COs -> SUBSET Inputs]
    /\ sIdx \in Bijection(COs, COs)
    /\ \A a, b \in COs : a < b => Cardinality(sVecs[sIdx[a]]) <= Cardinality(sVecs[sIdx[b]])
    /\ expConfig \in 0 .. 3
    /\ pc = "grow"
    /\ nPo = Ceil(NCo, NTimeFrame)
    /\ i = 0 /\ sv = {} /\ cnt = 0 /\ ct1 = 0 /\ ct2 = 0 /\ slots = <<>>
    /\ oPerm = <<>> /\ iPerm = <<>>

-----------------------------------------------------------------------------
(* schedulePO                                                              *)

NSlot == nPo * NTimeFrame

\* Mutants: all slots count as spare ones; one spare slot is never used.
CapAll   == NSlot
CapTight == NSlot - NCo - 1

\* The slots no output needs.
Cap == NSlot - NCo

\* The head of the do loop: an attempt with nPo pins.
Grow ==
    /\ pc = "grow"
    /\ slots' = [s \in 0 .. NSlot - 1 |-> None]
    /\ i' = 0 /\ sv' = {} /\ cnt' = 0 /\ ct1' = 0 /\ ct2' = 0
    /\ pc' = "place"
    /\ UNCHANGED <<sVecs, sIdx, expConfig, nPo, oPerm, iPerm>>

\* The first frame in which all inputs of the set S can have been read.
FrameFor(S) == LET f == Ceil(Cardinality(S), NPi) IN IF f = 0 THEN 0 ELSE f - 1

\* Mutant: the frame is never left.
AdvanceNoCarry(f, c) ==
    /\ ct1' = f
    /\ ct2' = IF c + 1 = nPo THEN 0 ELSE c + 1

\* The slot after pin c of frame f.
Advance(f, c) ==
    /\ ct1' = IF c + 1 = nPo THEN f + 1 ELSE f
    /\ ct2' = IF c + 1 = nPo THEN 0 ELSE c + 1

Placed(s) ==
    /\ slots' = [slots EXCEPT ![s] = sIdx[i]]
    /\ i' = i + 1
    /\ pc' = IF i = NCo - 1 THEN "pi" ELSE "place"
    /\ oPerm' = IF i = NCo - 1
                THEN [k \in COs |-> CHOOSE p \in DOMAIN slots' : slots'[p] = k]
                ELSE oPerm
    /\ UNCHANGED nPo

\* The next output goes into the next free slot if its frame has come.
PlaceNext ==
    /\ pc = "place" /\ i < NCo
    /\ sv' = sv \cup sVecs[sIdx[i]]
    /\ FrameFor(sv') <= ct1
    /\ Placed(ct1 * nPo + ct2)
    /\ Advance(ct1, ct2)
    /\ UNCHANGED <<sVecs, sIdx, expConfig, cnt, iPerm>>

\* The slots that are left empty when the next output goes to frame f.
Skipped(f) == cnt + nPo * (f - ct1) - ct2

\* Otherwise it opens its frame, if enough slots are left after that.
SkipToFrame ==
    /\ pc = "place" /\ i < NCo
    /\ sv' = sv \cup sVecs[sIdx[i]]
    /\ LET f == FrameFor(sv')
       IN /\ f > ct1
          /\ cnt' = Skipped(f) /\ cnt' <= Cap
          /\ Placed(f * nPo)
          /\ Advance(f, 0)
    /\ UNCHANGED <<sVecs, sIdx, expConfig, iPerm>>

\* Mutant: the attempt is repeated with the same number of pins.
GiveUpSamePins ==
    /\ pc = "place" /\ i < NCo
    /\ LET f == FrameFor(sv \cup sVecs[sIdx[i]])
       IN f > ct1 /\ Skipped(f) > Cap
    /\ pc' = "grow"
    /\ UNCHANGED <<sVecs, sIdx, expConfig, nPo, loopVars, oPerm, iPerm>>

\* If not, the attempt is given up and one more pin is tried.
GiveUp ==
    /\ pc = "place" /\ i < NCo
    /\ LET f == FrameFor(sv \cup sVecs[sIdx[i]])
       IN f > ct1 /\ Skipped(f) > Cap
    /\ nPo' = nPo + 1
    /\ pc' = "grow"
    /\ UNCHANGED <<sVecs, sIdx, expConfig, loopVars, oPerm, iPerm>>

-----------------------------------------------------------------------------
(* schedulePI                                                              *)

FrameOf(s) == s \div nPo

\* The inputs that outputs of the frames 0 .. f depend on (sv1 of the code).
Early(f) == UNION {sVecs[slots[s]] : s \in {s \in DOMAIN slots :
                        slots[s] # None /\ FrameOf(s) <= f}}

\* Mutant: the inputs are not sorted by frame.
BeforeByNumber(k, j) == k < j

\* Two inputs that are first needed in the same frame, or both never.
SameFrame(j, k) == \A f \in Frames : j \in Early(f) <=> k \in Early(f)

\* The inputs line up by the frame that first needs them, then by number; the
\* dummies, which no output depends on, come last.
Before(k, j) ==
    \/ \E f \in Frames : k \in Early(f) /\ j \notin Early(f)
    \/ SameFrame(j, k) /\ k < j

SchedulePI ==
    /\ pc = "pi"
    /\ iPerm' = [j \in Inputs |-> Cardinality({k \in Inputs : Before(k, j)})]
    /\ pc' = IF expConfig \in {0, 2} THEN "reordPi"
             ELSE IF expConfig = 1 THEN "reordPo" ELSE "done"
    /\ UNCHANGED <<sVecs, sIdx, expConfig, nPo, loopVars, oPerm>>

\* bddReordRange on the inputs of every frame: CUDD may permute them, but
\* among themselves only.  The dummies stay where they are.
ReordPI ==
    /\ pc = "reordPi"
    /\ \E perm \in Bijection(Inputs, Inputs) :
          /\ \A j \in Inputs : SameFrame(j, perm[j])
          /\ \A j \in Inputs \ Early(NTimeFrame - 1) : perm[j] = j
          /\ iPerm' = [j \in Inputs |-> iPerm[perm[j]]]
    /\ pc' = IF expConfig = 0 THEN "reordPo" ELSE "done"
    /\ UNCHANGED <<sVecs, sIdx, expConfig, nPo, loopVars, oPerm>>

-----------------------------------------------------------------------------
(* reordPO: the outputs of every frame but the first are swapped within    *)
(* their frame, by a score that is left open here.                         *)

ReordPO ==
    /\ pc = "reordPo"
    /\ \E perm \in [Frames -> Bijection(0 .. nPo - 1, 0 .. nPo - 1)] :
          /\ \A p \in 0 .. nPo - 1 : perm[0][p] = p
          /\ slots' = [s \in DOMAIN slots |->
                slots[FrameOf(s) * nPo + perm[FrameOf(s)][s % nPo]]]
    /\ oPerm' = [k \in COs |-> CHOOSE p \in DOMAIN slots' : slots'[p] = k]
    /\ pc' = "done"
    /\ UNCHANGED <<sVecs, sIdx, expConfig, nPo, i, sv, cnt, ct1, ct2, iPerm>>

Done == pc = "done" /\ UNCHANGED vars

Next ==
    \/ Grow \/ PlaceNext \/ SkipToFrame \/ GiveUp
    \/ SchedulePI \/ ReordPI \/ ReordPO
    \/ Done

Spec == Init /\ [][Next]_vars /\ WF_vars(Next)

-----------------------------------------------------------------------------
(* Properties                                                              *)

TypeOK ==
    /\ sVecs \in [COs -> SUBSET Inputs]
    /\ sIdx \in Bijection(COs, COs)
    /\ expConfig \in 0 .. 3
    /\ pc \in {"grow", "place", "pi", "reordPi", "reordPo", "done"}
    /\ nPo \in 1 .. NCo
    /\ i \in 0 .. NCo
    /\ sv \subseteq Inputs
    /\ cnt \in Nat /\ ct1 \in 0 .. NTimeFrame /\ ct2 \in 0 .. nPo - 1
    /\ pc \notin {"grow"} => slots \in [0 .. NSlot - 1 -> COs \cup {None}]
    /\ pc \in {"pi", "reordPi", "reordPo", "done"} =>
          oPerm \in [COs -> 0 .. NSlot - 1]
    /\ pc \in {"reordPi", "reordPo", "done"} => iPerm \in Bijection(Inputs, Inputs)

\* The position of the next free slot counts the outputs placed and the
\* slots skipped, and never more slots are skipped than there are spare
\* ones: the bookkeeping behind the assertion at the head of the loop.
SlotCount == pc = "place" => ct1 * nPo + ct2 = i + cnt /\ cnt <= Cap

\* assert((ct1 < nTimeFrame) && (ct2 < nPo)) when an output is to be placed.
NextSlotExists == pc = "place" /\ i < NCo => ct1 < NTimeFrame /\ ct2 < nPo

\* checkPerm in schedulePO and reordPO: no output is lost or overwritten in
\* slots, whatever was skipped and swapped.
PermLegal ==
    /\ pc = "place" => \A k \in COs :
          (\E s \in DOMAIN slots : slots[s] = k) <=> \E a \in 0 .. i - 1 : sIdx[a] = k
    /\ pc # "grow" => \A r, s \in DOMAIN slots : slots[r] = slots[s] /\ slots[s] # None => r = s
    /\ pc \in {"pi", "reordPi", "reordPo", "done"} =>
          \A s \in DOMAIN slots, k \in COs : slots[s] = k <=> oPerm[k] = s

\* What the folding relies on: when an output is shown, every input it
\* depends on has been read.
ReadBeforeShown ==
    pc \in {"reordPi", "reordPo", "done"} =>
        \A k \in COs : \A j \in sVecs[k] : iPerm[j] < (FrameOf(oPerm[k]) + 1) * NPi

\* assert(!sVecss[t][i][pos]) in reordPO: the inputs of an output that are
\* not read before its frame are all read in its frame, on different pins.
NewInputsOnOwnPins ==
    pc \in {"reordPo", "done"} =>
        \A k \in COs : LET f == FrameOf(oPerm[k])
                           new == {j \in sVecs[k] : iPerm[j] >= f * NPi}
                       IN \A j, m \in new : iPerm[j] % NPi = iPerm[m] % NPi => j = m

\* The number of pins is the least with which the outputs can be spread over
\* the frames, each no earlier than the sorted walk allows.
EarliestFrames ==
    [a \in COs |-> FrameFor(UNION {sVecs[sIdx[b]] : b \in 0 .. a})]

CanSpread(n) ==
    \E g \in [COs -> Frames] :
        /\ \A a \in COs : g[a] >= EarliestFrames[a]
        /\ \A f \in Frames : Cardinality({a \in COs : g[a] = f}) <= n

LeastPins == pc = "pi" => \A n \in 1 .. nPo : CanSpread(n) <=> n = nPo

\* The do loop ends: with one pin per output at the latest.
SchedulingEnds == <>(pc = "done")
=============================================================================

----------------------------- MODULE NaiveFold -----------------------------
(***************************************************************************)
(* time_mux3 (timeMux3/aigMux3.cpp): the naive structural folding.  The    *)
(* inputs of every frame but the last are kept in one latch each, the last *)
(* frame feeds its inputs to the copied circuit directly, and the outputs  *)
(* are let through in the last frame only.  aigStrMux builds all of it in  *)
(* one pass; the folded circuit then runs as checkEqv unrolls it.          *)
(***************************************************************************)
EXTENDS StructuralFold

VARIABLES
    built,     \* whether aigStrMux has returned
    store      \* values of the boxes that follow the ring latches

naiveVars == <<ntk, built, nPo, ring, store, cycle, got, out>>

\* The storage latches: box NTimeFrame + j is number j.
Stored == 0 .. (NTimeFrame - 1) * NPi - 1

NaiveInit ==
    /\ ntk \in Circuits
    /\ built = FALSE /\ nPo = 0
    /\ ring = RingInit
    /\ store = [j \in Stored |-> FALSE]
    /\ cycle = 0 /\ got = <<>> /\ out = <<>>

\* aigStrMux: as many output pins as the circuit has outputs.
AigStrMux ==
    /\ ~ built
    /\ built' = TRUE
    /\ nPo' = NumPo(ntk)
    /\ UNCHANGED <<ntk, ring, store, cycle, got, out>>

\* Mutant: a latch is cleared when its frame is over.
NaiveLatFuncClears(pis, j) == ring[j \div NPi] /\ pis[j % NPi]

\* buildPiStorage: latch t * NPi + i loads input i in frame t and keeps its
\* value otherwise.
NaiveLatFunc(pis, j) ==
    IF ring[j \div NPi] THEN pis[j % NPi] ELSE store[j]

\* Mutant: the inputs of earlier frames are not taken from the latches.
PiCopiesDirect(pis) == [j \in 0 .. NCi - 1 |-> pis[j % NPi]]

\* buildPoFuncs: what the copies of the inputs of the circuit stand for.
PiCopies(pis) ==
    [j \in 0 .. NCi - 1 |->
        IF j < (NTimeFrame - 1) * NPi THEN store[j]
        ELSE pis[j - (NTimeFrame - 1) * NPi]]

\* buildPoFuncs: output k, or 0 if this is not the last frame.
NaivePoFunc(pis, k) == ring[NTimeFrame - 1] /\ PoValue(ntk, NCi, k, PiCopies(pis))

NaiveClock ==
    /\ built
    /\ \E pis \in PinValues :
          /\ out' = [k \in 0 .. nPo - 1 |-> NaivePoFunc(pis, k)]
          /\ store' = [j \in Stored |-> NaiveLatFunc(pis, j)]
          /\ got' = Append(IF cycle = 0 THEN <<>> ELSE got, pis)
    /\ ring' = RingNext(ring)
    /\ cycle' = (cycle + 1) % NTimeFrame
    /\ UNCHANGED <<ntk, built, nPo>>

NaiveNext == AigStrMux \/ NaiveClock

NaiveSpec == NaiveInit /\ [][NaiveNext]_naiveVars

-----------------------------------------------------------------------------
(* Properties                                                              *)

TypeOK ==
    /\ ntk \in Circuits /\ built \in BOOLEAN /\ nPo \in Nat
    /\ ring \in [Frames -> BOOLEAN]
    /\ store \in [Stored -> BOOLEAN]
    /\ cycle \in Frames
    /\ got \in Seq(PinValues)
    /\ built => PoIdx(ntk) = 0 .. nPo - 1

\* buildLatchTransWithTime: exactly the ring latch of the current frame is 1,
\* in every batch.
RingCountsFrames == ring = [f \in Frames |-> f = cycle]

\* buildPiStorage: while a batch is read its inputs stay where buildPoFuncs
\* looks for them, however long ago they were read.
StoreKeepsBatch ==
    /\ cycle # 0 => Len(got) = cycle
    /\ \A f \in 0 .. cycle - 1 : \A i \in 0 .. NPi - 1 :
          store[f * NPi + i] = got[f + 1][i]

\* The circuit shows all its outputs in the last frame of every batch, and
\* they are those of the circuit it was made from.
Naive == INSTANCE FoldedCircuit WITH
    Outputs <- PoIdx,
    Value   <- Value,
    folded  <- built,
    pins    <- nPo,
    slot    <- [k \in PoIdx(ntk) |-> (NTimeFrame - 1) * nPo + k]

NaiveImplementsFold == Naive!Spec
=============================================================================

----------------------- MODULE StructuralFold_proofs -----------------------
(***************************************************************************)
(* Proofs about the structural folds, for every number of frames and of    *)
(* pins and every strashed circuit.                                        *)
(*                                                                         *)
(* NaiveFold: the ring counts the frames, the storage latches keep the     *)
(* batch, and the folded circuit shows the outputs of the circuit it was   *)
(* made from.                                                              *)
(*                                                                         *)
(* StruFold, with and without -m: copies are overwritten at the end of a   *)
(* frame, when what waits moves into latches, so the state alone does not  *)
(* say what an object of the folded circuit is for.  The invariant keeps   *)
(* it in a set D of triples <<f, m, o>>: in the cycle of frame f, object m *)
(* of the folded circuit has the value of object o of the given one.       *)
(***************************************************************************)
EXTENDS NaiveFold, StruFold, NumberLemmas

-----------------------------------------------------------------------------
(* NaiveFold                                                               *)

\* The ring and the storage latches together: neither is inductive alone,
\* since a latch of the storage loads when the ring says so.
NaiveIInv == TypeOK /\ RingCountsFrames /\ StoreKeepsBatch

LEMMA NextCycle ==
    ASSUME TypeOK
    PROVE  (cycle + 1) % NTimeFrame = IF cycle = NTimeFrame - 1 THEN 0 ELSE cycle + 1
<1>1. NTimeFrame \in Nat \ {0} /\ cycle \in 0 .. NTimeFrame - 1
    BY NTimeFrameAssumption DEF TypeOK, Frames
<1>2. CASE cycle = NTimeFrame - 1
    <2>1. cycle + 1 = NTimeFrame
        BY <1>1, <1>2
    <2> QED BY <1>1, <1>2, <2>1
<1>3. CASE cycle # NTimeFrame - 1
    <2>1. cycle + 1 \in 0 .. NTimeFrame - 1
        BY <1>1, <1>3
    <2> QED BY <1>1, <1>3, <2>1
<1> QED BY <1>2, <1>3

LEMMA NaiveInitIInv == NaiveInit => NaiveIInv
<1> SUFFICES ASSUME NaiveInit PROVE NaiveIInv
    OBVIOUS
<1>1. TypeOK
    BY NTimeFrameAssumption DEF NaiveInit, TypeOK, RingInit, Frames
<1>2. RingCountsFrames
    BY DEF NaiveInit, RingCountsFrames, RingInit
<1>3. StoreKeepsBatch
    BY DEF NaiveInit, StoreKeepsBatch
<1> QED BY <1>1, <1>2, <1>3 DEF NaiveIInv

LEMMA BuildIInv == NaiveIInv /\ AigStrMux => NaiveIInv'
<1> SUFFICES ASSUME NaiveIInv, AigStrMux PROVE NaiveIInv'
    OBVIOUS
<1> USE DEF NaiveIInv, AigStrMux
<1>1. TypeOK'
    <2>1. IsStrashed(ntk, NCi)
        BY StructuralFoldAssumption DEF TypeOK
    <2>2. NumPo(ntk) \in Nat /\ PoIdx(ntk) = 0 .. NumPo(ntk) - 1
        BY <2>1, FS_CardinalityType DEF IsStrashed, NumPo
    <2> QED BY <2>2 DEF TypeOK, PoIdx
<1>2. RingCountsFrames'
    BY DEF RingCountsFrames
<1>3. StoreKeepsBatch'
    BY DEF StoreKeepsBatch
<1> QED BY <1>1, <1>2, <1>3

\* A clock cycle, with the inputs of the frame named.
LEMMA NaiveClockIInv == NaiveIInv /\ NaiveClock => NaiveIInv'
<1> SUFFICES ASSUME NaiveIInv, NaiveClock PROVE NaiveIInv'
    OBVIOUS
<1> USE DEF NaiveIInv
<1> PICK pis \in PinValues :
        /\ out' = [k \in 0 .. nPo - 1 |-> NaivePoFunc(pis, k)]
        /\ store' = [j \in Stored |-> NaiveLatFunc(pis, j)]
        /\ got' = Append(IF cycle = 0 THEN <<>> ELSE got, pis)
    BY DEF NaiveClock
<1>0. /\ cycle \in Nat /\ cycle < NTimeFrame /\ NTimeFrame \in Nat \ {0} /\ NPi \in Nat
      /\ cycle' = IF cycle = NTimeFrame - 1 THEN 0 ELSE cycle + 1
    BY NextCycle, NTimeFrameAssumption, StructuralFoldAssumption DEF NaiveClock, TypeOK, Frames
<1>1. TypeOK'
    <2>1. ring' \in [Frames -> BOOLEAN]
        BY <1>0 DEF NaiveClock, TypeOK, RingNext, Frames
    <2>2. store' \in [Stored -> BOOLEAN]
        <3>1. ASSUME NEW j \in Stored PROVE NaiveLatFunc(pis, j) \in BOOLEAN
            <4>1. j \div NPi \in 0 .. (NTimeFrame - 1) - 1 /\ j % NPi \in 0 .. NPi - 1
                BY <1>0, FrameAndItem, NTimeFrame - 1 \in Nat DEF Stored
            <4>2. pis[j % NPi] \in BOOLEAN /\ store[j] \in BOOLEAN
                BY <4>1 DEF PinValues, TypeOK
            <4> QED BY <4>2 DEF NaiveLatFunc
        <3> QED BY <3>1
    <2>3. cycle' \in Frames
        BY <1>0 DEF Frames
    <2>4. got' \in Seq(PinValues)
        BY DEF TypeOK
    <2> QED BY <2>1, <2>2, <2>3, <2>4 DEF NaiveClock, TypeOK, PoIdx
<1>2. RingCountsFrames'
    BY <1>0 DEF NaiveClock, RingCountsFrames, RingNext, Frames
<1>3. StoreKeepsBatch'
    <2>1. /\ Len(got') = cycle + 1
          /\ \A f \in 1 .. cycle : got'[f] = got[f]
          /\ got'[cycle + 1] = pis
        BY <1>0 DEF StoreKeepsBatch, TypeOK
    <2>2. cycle' # 0 => Len(got') = cycle'
        BY <1>0, <2>1
    <2>3. ASSUME NEW f \in 0 .. cycle' - 1, NEW i \in 0 .. NPi - 1
          PROVE  store'[f * NPi + i] = got'[f + 1][i]
        <3>1. /\ cycle' = cycle + 1 /\ f \in 0 .. (NTimeFrame - 1) - 1
              /\ f \in Nat /\ NTimeFrame - 1 \in Nat
            BY <1>0
        <3>2. f * NPi + i \in Stored
            BY <3>1, <1>0, ItemInRange DEF Stored
        <3>3. (f * NPi + i) \div NPi = f /\ (f * NPi + i) % NPi = i
            BY <3>1, <1>0, ItemOfFrame
        <3>4. store'[f * NPi + i] = IF ring[f] THEN pis[i] ELSE store[f * NPi + i]
            BY <3>2, <3>3 DEF NaiveLatFunc
        <3>5. ring[f] = (f = cycle)
            BY <3>1, <1>0 DEF RingCountsFrames, Frames
        <3>6. CASE f = cycle
            BY <3>4, <3>5, <3>6, <2>1
        <3>7. CASE f # cycle
            <4>1. f \in 0 .. cycle - 1 /\ f + 1 \in 1 .. cycle
                BY <3>1, <3>7, <1>0
            <4>2. store[f * NPi + i] = got[f + 1][i]
                BY <4>1 DEF StoreKeepsBatch
            <4> QED BY <3>4, <3>5, <3>7, <4>1, <4>2, <2>1
        <3> QED BY <3>6, <3>7
    <2> QED BY <2>2, <2>3 DEF StoreKeepsBatch
<1> QED BY <1>1, <1>2, <1>3

LEMMA StutterIInv == NaiveIInv /\ UNCHANGED naiveVars => NaiveIInv'
BY DEF NaiveIInv, naiveVars, TypeOK, RingCountsFrames, StoreKeepsBatch, PoIdx

\* The invariant holds in every reachable state.
LEMMA NaiveSpecIInv == NaiveSpec => []NaiveIInv
<1>1. NaiveIInv /\ [NaiveNext]_naiveVars => NaiveIInv'
    BY BuildIInv, NaiveClockIInv, StutterIInv DEF NaiveNext
<1> QED BY NaiveInitIInv, <1>1, PTL DEF NaiveSpec

-----------------------------------------------------------------------------
(* The theorems                                                            *)

\* The state of the folded circuit keeps its types.
THEOREM TypeCorrect == NaiveSpec => []TypeOK
BY NaiveSpecIInv, PTL DEF NaiveIInv

\* Exactly the ring latch of the current frame is 1 in every cycle of every
\* batch (buildLatchTransWithTime).
THEOREM RingCorrect == NaiveSpec => []RingCountsFrames
BY NaiveSpecIInv, PTL DEF NaiveIInv

\* The inputs of the frames already read are in the latches that
\* buildPoFuncs takes them from.
THEOREM StoreCorrect == NaiveSpec => []StoreKeepsBatch
BY NaiveSpecIInv, PTL DEF NaiveIInv

-----------------------------------------------------------------------------
(* Refinement                                                              *)

\* The inputs that the copied circuit sees in the last frame are those of
\* the batch, in the order the circuit numbers them.
LEMMA CopiesAreBatch ==
    ASSUME NaiveIInv, cycle = NTimeFrame - 1, NEW pis \in PinValues, NEW g,
           g = Append(IF cycle = 0 THEN <<>> ELSE got, pis)
    PROVE  /\ Len(g) = NTimeFrame
           /\ PiCopies(pis) = Naive!Flat(g)
<1> USE DEF NaiveIInv
<1>0. NTimeFrame \in Nat \ {0} /\ NPi \in Nat /\ cycle \in Nat
    BY NTimeFrameAssumption, StructuralFoldAssumption
<1>1. /\ g \in Seq(PinValues)
      /\ Len(g) = NTimeFrame
      /\ \A f \in 1 .. cycle : g[f] = got[f]
      /\ g[NTimeFrame] = pis
    BY <1>0 DEF TypeOK, StoreKeepsBatch
<1>2. ASSUME NEW j \in 0 .. NCi - 1
      PROVE  PiCopies(pis)[j] = g[(j \div NPi) + 1][j % NPi]
    <2> DEFINE f == j \div NPi
               i == j % NPi
    <2>1. f \in 0 .. NTimeFrame - 1 /\ i \in 0 .. NPi - 1 /\ j = f * NPi + i
        BY <1>0, FrameAndItem DEF NCi
    <2> HIDE DEF f, i
    <2>2. CASE f = NTimeFrame - 1
        <3>1. /\ (NTimeFrame - 1) * NPi \in Nat
              /\ ~ (j < (NTimeFrame - 1) * NPi)
              /\ j - (NTimeFrame - 1) * NPi = i
            BY <2>1, <2>2, <1>0, (NTimeFrame - 1) * NPi \in Nat
        <3>2. PiCopies(pis)[j] = pis[i]
            BY <3>1 DEF PiCopies
        <3> QED BY <3>2, <2>2, <1>1, <1>0 DEF f, i
    <2>3. CASE f # NTimeFrame - 1
        <3>1. f \in 0 .. (NTimeFrame - 1) - 1 /\ f \in 0 .. cycle - 1
              /\ NTimeFrame - 1 \in Nat /\ f + 1 \in 1 .. cycle
            BY <2>1, <2>3, <1>0
        <3>2. j \in 0 .. (NTimeFrame - 1) * NPi - 1
            BY <3>1, <2>1, <1>0, ItemInRange
        <3>3. PiCopies(pis)[j] = store[j]
            BY <3>2, <3>1, <1>0, (NTimeFrame - 1) * NPi \in Nat DEF PiCopies
        <3>4. store[j] = got[f + 1][i]
            BY <3>1, <2>1 DEF StoreKeepsBatch
        <3> QED BY <3>3, <3>4, <3>1, <1>1 DEF f, i
    <2> QED BY <2>2, <2>3
<1>3. PiCopies(pis) = [j \in 0 .. NCi - 1 |-> PiCopies(pis)[j]]
    BY DEF PiCopies
<1> QED BY <1>1, <1>2, <1>3 DEF Naive!Flat, NCi

\* Nothing is left to complete once all frames are read.
LEMMA NoFramesLeft ==
    ASSUME NEW g \in Seq(PinValues), Len(g) = NTimeFrame, NEW full \in Naive!Completions(g)
    PROVE  full = Naive!Flat(g)
<1>1. PICK rest \in [1 .. NTimeFrame - Len(g) -> Naive!PinValues] : full = Naive!Flat(g \o rest)
    BY DEF Naive!Completions
<1>2. NTimeFrame - Len(g) = 0
    BY NTimeFrameAssumption
<1>3. rest = <<>>
    BY <1>1, <1>2
<1>4. g \o rest = g
    BY <1>3
<1> QED BY <1>1, <1>4

LEMMA NaiveInitRefines == NaiveInit => Naive!Init
BY DEF NaiveInit, Naive!Init

LEMMA BuildRefines == NaiveIInv /\ AigStrMux => Naive!Fold
<1> SUFFICES ASSUME NaiveIInv, AigStrMux PROVE Naive!Fold
    OBVIOUS
<1> DEFINE Slot == [k \in PoIdx(ntk') |-> (NTimeFrame - 1) * nPo' + k]
<1>1. nPo' \in Nat /\ PoIdx(ntk) = 0 .. nPo' - 1 /\ ntk' = ntk
    BY BuildIInv DEF NaiveIInv, TypeOK, AigStrMux
<1>2. ASSUME NEW k \in PoIdx(ntk)
      PROVE  /\ k \in Nat
             /\ (NTimeFrame - 1) * nPo' \in Nat
             /\ (NTimeFrame - 1) * nPo' + k \in 0 .. nPo' * NTimeFrame - 1
    <2>1. NTimeFrame \in Nat /\ NTimeFrame - 1 \in 0 .. NTimeFrame - 1
        BY NTimeFrameAssumption
    <2>2. (NTimeFrame - 1) * nPo' + k \in 0 .. NTimeFrame * nPo' - 1
        BY <1>1, <2>1, ItemInRange
    <2>3. NTimeFrame * nPo' = nPo' * NTimeFrame
        BY <1>1, <2>1
    <2>4. (NTimeFrame - 1) * nPo' \in Nat
        <3>1. NTimeFrame - 1 \in Nat /\ nPo' \in Nat
            BY <1>1, <2>1
        <3> QED BY <3>1
    <2>5. k \in Nat
        BY <1>1
    <2> QED BY <2>2, <2>3, <2>4, <2>5
<1>3. Slot \in [PoIdx(ntk) -> 0 .. nPo' * NTimeFrame - 1]
    BY <1>1, <1>2
<1>4. \A k, m \in PoIdx(ntk) : Slot[k] = Slot[m] => k = m
    BY <1>1, <1>2
<1> HIDE DEF Slot
<1>5. ~ built /\ built' /\ UNCHANGED <<ntk, cycle, got, out>>
    BY DEF AigStrMux
<1> QED BY <1>1, <1>3, <1>4, <1>5 DEF Naive!Fold, Slot

LEMMA NaiveClockRefines == NaiveIInv /\ NaiveClock => Naive!Clock
<1> SUFFICES ASSUME NaiveIInv, NaiveClock PROVE Naive!Clock
    OBVIOUS
<1> DEFINE Slot == [k \in PoIdx(ntk) |-> (NTimeFrame - 1) * nPo + k]
<1>0. /\ NTimeFrame \in Nat \ {0} /\ NTimeFrame - 1 \in Nat /\ NPi \in Nat
      /\ cycle \in Frames /\ built /\ nPo \in Nat /\ PoIdx(ntk) = 0 .. nPo - 1
    BY NTimeFrameAssumption, StructuralFoldAssumption DEF NaiveIInv, TypeOK, NaiveClock
<1> PICK pis \in PinValues :
        /\ out' = [k \in 0 .. nPo - 1 |-> NaivePoFunc(pis, k)]
        /\ got' = Append(IF cycle = 0 THEN <<>> ELSE got, pis)
    BY DEF NaiveClock
<1>1. \E in \in Naive!PinValues : got' = Append(IF cycle = 0 THEN <<>> ELSE got, in)
    BY DEF Naive!PinValues, PinValues
<1>2. out' \in [0 .. nPo - 1 -> BOOLEAN]
    <2>1. ASSUME NEW k \in 0 .. nPo - 1 PROVE NaivePoFunc(pis, k) \in BOOLEAN
        BY DEF NaivePoFunc, PoValue
    <2> QED BY <2>1
<1>3. ASSUME NEW k \in PoIdx(ntk), Slot[k] \div nPo = cycle,
             NEW full \in Naive!Completions(got')
      PROVE  out'[Slot[k] % nPo] = Value(ntk, k, full)
    <2>1. k \in 0 .. nPo - 1 /\ Slot[k] = (NTimeFrame - 1) * nPo + k
        BY <1>0
    <2>2. Slot[k] \div nPo = NTimeFrame - 1 /\ Slot[k] % nPo = k
        BY <2>1, <1>0, ItemOfFrame
    <2>3. cycle = NTimeFrame - 1
        BY <2>2, <1>3
    <2>4. Len(got') = NTimeFrame /\ PiCopies(pis) = Naive!Flat(got')
        BY <2>3, CopiesAreBatch
    <2>5. got' \in Seq(PinValues)
        BY DEF NaiveIInv, TypeOK
    <2>6. full = PiCopies(pis)
        BY <2>4, <2>5, NoFramesLeft
    <2>7. ring[NTimeFrame - 1]
        BY <2>3, <1>0 DEF NaiveIInv, RingCountsFrames, Frames
    <2>8. out'[k] = NaivePoFunc(pis, k)
        BY <2>1
    <2> QED BY <2>2, <2>6, <2>7, <2>8 DEF NaivePoFunc, Value, PoValue
<1>4. /\ cycle' = (cycle + 1) % NTimeFrame
      /\ UNCHANGED <<ntk, built, nPo>>
    BY DEF NaiveClock
<1>5. UNCHANGED Slot
    BY <1>4
<1> QED BY <1>0, <1>1, <1>2, <1>3, <1>4, <1>5 DEF Naive!Clock

\* time_mux3 is a fold: in the last frame of every batch the outputs of the
\* circuit are on the pins (buildPoFuncs, checkEqv).
THEOREM NaiveImplements == NaiveSpec => NaiveImplementsFold
<1>1. NaiveIInv /\ [NaiveNext]_naiveVars => [Naive!Next]_(Naive!avars)
    <2>1. NaiveIInv /\ UNCHANGED naiveVars => UNCHANGED Naive!avars
        BY DEF naiveVars, Naive!avars, PoIdx
    <2> QED BY <2>1, BuildRefines, NaiveClockRefines DEF NaiveNext, Naive!Next
<1> QED BY NaiveInitRefines, NaiveSpecIInv, <1>1, PTL DEF NaiveSpec, NaiveImplementsFold, Naive!Spec

-----------------------------------------------------------------------------
(* What the recursive functions of Aig compute: an object of a circuit has *)
(* a larger number than its fanins, so every object has a value and a      *)
(* support, and they satisfy the equations that define them.               *)

AigObjs(circ, nCi) == {Const1} \cup 1..nCi \cup Ands(circ)

\* The fanins of an AND node are objects with smaller numbers.
LEMMA FaninsBelow ==
    ASSUME NEW circ, NEW nCi \in Nat, IsStrashed(circ, nCi), NEW n \in Ands(circ)
    PROVE  /\ n \in Nat \ {Const1} /\ n \notin 1..nCi
           /\ \A j \in {1, 2} :
                 /\ circ.fan[n][j].obj \in AigObjs(circ, nCi) \ {Const1}
                 /\ circ.fan[n][j].obj \in Nat /\ circ.fan[n][j].obj < n
                 /\ circ.fan[n][j].neg \in BOOLEAN
<1>1. n \in Nat /\ n > nCi
    BY DEF IsStrashed
<1>2. \A j \in {1, 2} :
          circ.fan[n][j] \in [obj : 1..nCi \cup {m \in Ands(circ) : m < n}, neg : BOOLEAN]
    BY DEF IsStrashed
<1>3. \A m \in Ands(circ) : m \in Nat /\ m > nCi
    BY DEF IsStrashed
<1>4. n # Const1 /\ n \notin 1..nCi
    BY <1>1 DEF Const1
<1>5. ASSUME NEW j \in {1, 2}
      PROVE  /\ circ.fan[n][j].obj \in AigObjs(circ, nCi) \ {Const1}
             /\ circ.fan[n][j].obj \in Nat /\ circ.fan[n][j].obj < n
             /\ circ.fan[n][j].neg \in BOOLEAN
    <2>1. /\ circ.fan[n][j].obj \in 1..nCi \cup {m \in Ands(circ) : m < n}
          /\ circ.fan[n][j].neg \in BOOLEAN
        BY <1>2
    <2>2. CASE circ.fan[n][j].obj \in 1..nCi
        BY <2>1, <2>2, <1>1 DEF AigObjs, Const1
    <2>3. CASE circ.fan[n][j].obj \in {m \in Ands(circ) : m < n}
        BY <2>1, <2>3, <1>3 DEF AigObjs, Const1
    <2> QED BY <2>1, <2>2, <2>3
<1> QED BY <1>1, <1>4, <1>5

\* Every object has the value that its definition gives it.
LEMMA ValueOfObject ==
    ASSUME NEW circ, NEW nCi \in Nat, IsStrashed(circ, nCi), NEW in \in [0 .. nCi - 1 -> BOOLEAN]
    PROVE  LET val == ObjValues(circ, nCi, in)
           IN /\ val \in [AigObjs(circ, nCi) -> BOOLEAN]
              /\ val[Const1] = TRUE
              /\ \A o \in 1..nCi : val[o] = in[o - 1]
              /\ \A n \in Ands(circ) : val[n] =
                    \A j \in {1, 2} : val[circ.fan[n][j].obj] # circ.fan[n][j].neg
<1> DEFINE S == AigObjs(circ, nCi)
           B == {Const1} \cup 1..nCi
           rank == [o \in S |-> o]
           base == [o \in S |-> IF o \in 1..nCi THEN in[o - 1] ELSE TRUE]
           left == [o \in S |-> IF o \in B THEN o ELSE circ.fan[o][1].obj]
           right == [o \in S |-> IF o \in B THEN o ELSE circ.fan[o][2].obj]
           G == [p \in S \X BOOLEAN \X BOOLEAN |->
                    p[2] # circ.fan[p[1]][1].neg /\ p[3] # circ.fan[p[1]][2].neg]
           Equation(val) == val = [o \in {Const1} \cup 1..nCi \cup Ands(circ) |->
               IF o = Const1 THEN TRUE
               ELSE IF o \in 1..nCi THEN in[o - 1]
               ELSE \A j \in {1, 2} : val[circ.fan[o][j].obj] # circ.fan[o][j].neg]
<1>1. \A o \in S : o \in Nat /\ (o \notin B => o \in Ands(circ))
    BY FaninsBelow DEF AigObjs, Const1
<1>2. PICK f : Computes(f, S, BOOLEAN, B, base, left, right, G)
    <2>1. rank \in [S -> Nat]
        BY <1>1
    <2>2. base \in [S -> BOOLEAN]
        <3>1. \A o \in 1..nCi : in[o - 1] \in BOOLEAN
            OBVIOUS
        <3> QED BY <3>1
    <2>3. left \in [S -> S] /\ right \in [S -> S]
        BY <1>1, FaninsBelow
    <2>4. G \in [S \X BOOLEAN \X BOOLEAN -> BOOLEAN]
        OBVIOUS
    <2>5. \A o \in S \ B : rank[left[o]] < rank[o] /\ rank[right[o]] < rank[o]
        BY <1>1, <2>3, FaninsBelow
    <2>6. Ranked(S, B, left, right, rank)
        BY <2>1, <2>3, <2>5 DEF Ranked
    <2> HIDE DEF S, B, rank, base, left, right, G
    <2> QED BY <2>2, <2>4, <2>6, RecursionExists
<1>3. Equation(f)
    <2>1. ASSUME NEW o \in S
          PROVE  f[o] = IF o = Const1 THEN TRUE
               ELSE IF o \in 1..nCi THEN in[o - 1]
               ELSE \A j \in {1, 2} : f[circ.fan[o][j].obj] # circ.fan[o][j].neg
        <3>1. CASE o \in B
            <4>1. f[o] = base[o]
                BY <1>2, <3>1 DEF Computes
            <4>2. base[o] = IF o = Const1 THEN TRUE ELSE in[o - 1]
                <5>1. Const1 \notin 1..nCi
                    BY DEF Const1
                <5>2. base[o] = IF o \in 1..nCi THEN in[o - 1] ELSE TRUE
                    OBVIOUS
                <5> QED BY <5>1, <5>2, <3>1
            <4> HIDE DEF base
            <4> QED BY <4>1, <4>2, <3>1
        <3>2. CASE o \notin B
            <4>1. o \in Ands(circ) /\ left[o] \in S /\ right[o] \in S
                BY <1>1, <3>2, FaninsBelow
            <4>2. f[o] = G[<<o, f[left[o]], f[right[o]]>>] /\ f \in [S -> BOOLEAN]
                BY <1>2, <3>2 DEF Computes
            <4>3. f[o] <=> f[left[o]] # circ.fan[o][1].neg /\ f[right[o]] # circ.fan[o][2].neg
                BY <4>1, <4>2
            <4>4. left[o] = circ.fan[o][1].obj /\ right[o] = circ.fan[o][2].obj
                BY <3>2
            <4>5. (f[left[o]] # circ.fan[o][1].neg /\ f[right[o]] # circ.fan[o][2].neg)
                    <=> \A j \in {1, 2} : f[circ.fan[o][j].obj] # circ.fan[o][j].neg
                BY <4>4
            <4>6. f[o] \in BOOLEAN
                BY <4>2
            <4>7. f[o] = \A j \in {1, 2} : f[circ.fan[o][j].obj] # circ.fan[o][j].neg
                <5> HIDE DEF left, right
                <5> QED BY <4>3, <4>5, <4>6, Zenon
            <4> QED BY <4>7, <3>2, Zenon
        <3> QED BY <3>1, <3>2
    <2>2. f = [o \in {Const1} \cup 1..nCi \cup Ands(circ) |-> f[o]]
        BY <1>2 DEF Computes, AigObjs
    <2> QED BY <2>1, <2>2, Zenon DEF AigObjs
<1>4. Equation(ObjValues(circ, nCi, in))
    BY ZenonT(60), <1>3 DEF ObjValues
<1> DEFINE val == ObjValues(circ, nCi, in)
<1> HIDE DEF val
<1>5. Equation(val)
    BY <1>4 DEF val
<1>6. /\ val \in [AigObjs(circ, nCi) -> BOOLEAN]
      /\ val[Const1] = TRUE
      /\ \A o \in 1..nCi : val[o] = in[o - 1]
      /\ \A n \in Ands(circ) : val[n] =
            \A j \in {1, 2} : val[circ.fan[n][j].obj] # circ.fan[n][j].neg
    <2>1. \A o \in 1..nCi : o # Const1 /\ in[o - 1] \in BOOLEAN
        BY DEF Const1
    <2>2. \A n \in Ands(circ) : n # Const1 /\ n \notin 1..nCi
        BY FaninsBelow
    <2> QED BY <1>5, <2>1, <2>2 DEF AigObjs
<1> QED BY <1>6 DEF val

\* val holds the values of the objects.
AreValues(circ, nCi, in, val) ==
    /\ val \in [AigObjs(circ, nCi) -> BOOLEAN]
    /\ val[Const1] = TRUE
    /\ \A o \in 1..nCi : val[o] = in[o - 1]
    /\ \A n \in Ands(circ) : val[n] =
          \A j \in {1, 2} : val[circ.fan[n][j].obj] # circ.fan[n][j].neg

LEMMA ObjectValues ==
    ASSUME NEW circ, NEW nCi \in Nat, IsStrashed(circ, nCi), NEW in \in [0 .. nCi - 1 -> BOOLEAN]
    PROVE  AreValues(circ, nCi, in, ObjValues(circ, nCi, in))
<1>1. LET v == ObjValues(circ, nCi, in)
      IN /\ v \in [AigObjs(circ, nCi) -> BOOLEAN]
         /\ v[Const1] = TRUE
         /\ \A o \in 1..nCi : v[o] = in[o - 1]
         /\ \A n \in Ands(circ) : v[n] =
               \A j \in {1, 2} : v[circ.fan[n][j].obj] # circ.fan[n][j].neg
    BY ValueOfObject
<1> QED BY <1>1 DEF AreValues

\* An input supports itself, an AND node has what supports its fanins.
LEMMA SupportOfObject ==
    ASSUME NEW circ, NEW nCi \in Nat, IsStrashed(circ, nCi)
    PROVE  LET sup == Supports(circ, nCi)
           IN /\ sup \in [AigObjs(circ, nCi) -> SUBSET (1..nCi)]
              /\ sup[Const1] = {}
              /\ \A o \in 1..nCi : sup[o] = {o}
              /\ \A n \in Ands(circ) : 
                    sup[n] = sup[circ.fan[n][1].obj] \cup sup[circ.fan[n][2].obj]
<1> DEFINE S == AigObjs(circ, nCi)
           V == SUBSET (1..nCi)
           B == {Const1} \cup 1..nCi
           rank == [o \in S |-> o]
           base == [o \in S |-> IF o \in 1..nCi THEN {o} ELSE {}]
           left == [o \in S |-> IF o \in B THEN o ELSE circ.fan[o][1].obj]
           right == [o \in S |-> IF o \in B THEN o ELSE circ.fan[o][2].obj]
           G == [p \in S \X V \X V |-> p[2] \cup p[3]]
           Equation(sup) == sup = [o \in {Const1} \cup 1..nCi \cup Ands(circ) |->
               IF o = Const1 THEN {}
               ELSE IF o \in 1..nCi THEN {o}
               ELSE sup[circ.fan[o][1].obj] \cup sup[circ.fan[o][2].obj]]
<1>1. \A o \in S : o \in Nat /\ (o \notin B => o \in Ands(circ))
    BY FaninsBelow DEF AigObjs, Const1
<1>2. PICK f : Computes(f, S, V, B, base, left, right, G)
    <2>1. rank \in [S -> Nat]
        BY <1>1
    <2>2. base \in [S -> V]
        OBVIOUS
    <2>3. left \in [S -> S] /\ right \in [S -> S]
        BY <1>1, FaninsBelow
    <2>4. G \in [S \X V \X V -> V]
        OBVIOUS
    <2>5. \A o \in S \ B : rank[left[o]] < rank[o] /\ rank[right[o]] < rank[o]
        BY <1>1, <2>3, FaninsBelow
    <2>6. Ranked(S, B, left, right, rank)
        BY <2>1, <2>3, <2>5 DEF Ranked
    <2> HIDE DEF S, V, B, rank, base, left, right, G
    <2> QED BY <2>2, <2>4, <2>6, RecursionExists
<1>3. Equation(f)
    <2>1. ASSUME NEW o \in S
          PROVE  f[o] = IF o = Const1 THEN {}
               ELSE IF o \in 1..nCi THEN {o}
               ELSE f[circ.fan[o][1].obj] \cup f[circ.fan[o][2].obj]
        <3>1. CASE o \in B
            <4>1. f[o] = base[o]
                BY <1>2, <3>1 DEF Computes
            <4> QED BY <4>1, <3>1 DEF Const1
        <3>2. CASE o \notin B
            <4>1. o \in Ands(circ) /\ left[o] \in S /\ right[o] \in S
                BY <1>1, <3>2, FaninsBelow
            <4>2. f[o] = G[<<o, f[left[o]], f[right[o]]>>] /\ f \in [S -> V]
                BY <1>2, <3>2 DEF Computes
            <4>3. f[o] = f[left[o]] \cup f[right[o]]
                BY <4>1, <4>2
            <4> QED BY <4>3, <3>2
        <3> QED BY <3>1, <3>2
    <2>2. f = [o \in {Const1} \cup 1..nCi \cup Ands(circ) |-> f[o]]
        BY <1>2 DEF Computes, AigObjs
    <2> QED BY <2>1, <2>2, Zenon DEF AigObjs
<1>4. Equation(Supports(circ, nCi))
    BY <1>3 DEF Supports
<1> DEFINE sup == Supports(circ, nCi)
<1> HIDE DEF sup
<1>5. Equation(sup)
    BY <1>4 DEF sup
<1>6. sup \in [S -> V]
    <2> DEFINE Bad == {o \in S : sup[o] \notin V}
    <2>1. Bad \in SUBSET Nat
        BY <1>1
    <2>2. ASSUME NEW o \in S, \A u \in S : u < o => sup[u] \in V PROVE sup[o] \in V
        <3>1. sup[o] = IF o = Const1 THEN {}
                       ELSE IF o \in 1..nCi THEN {o}
                       ELSE sup[circ.fan[o][1].obj] \cup sup[circ.fan[o][2].obj]
            BY <1>5 DEF AigObjs
        <3>2. CASE o \in B
            BY <3>1, <3>2
        <3>3. CASE o \notin B
            BY <3>1, <3>3, <2>2, <1>1, FaninsBelow
        <3> QED BY <3>2, <3>3
    <2>3. Bad = {}
        <3> SUFFICES ASSUME Bad # {} PROVE FALSE
            OBVIOUS
        <3>1. PICK o \in Bad : \A u \in Bad : o <= u
            <4> HIDE DEF Bad
            <4> QED BY <2>1, LeastNumber
        <3>2. \A u \in S : u < o => sup[u] \in V
            BY <3>1, <1>1
        <3> QED BY <3>1, <3>2, <2>2
    <2>4. sup = [o \in S |-> sup[o]]
        BY <1>5 DEF AigObjs
    <2> HIDE DEF S, V
    <2> QED BY <2>3, <2>4
<1>7. /\ sup[Const1] = {}
      /\ \A o \in 1..nCi : sup[o] = {o}
      /\ \A n \in Ands(circ) :
            sup[n] = sup[circ.fan[n][1].obj] \cup sup[circ.fan[n][2].obj]
    <2>1. \A o \in 1..nCi : o # Const1
        BY DEF Const1
    <2>2. \A n \in Ands(circ) : n # Const1 /\ n \notin 1..nCi
        BY FaninsBelow
    <2> QED BY <1>5, <2>1, <2>2 DEF AigObjs
<1> QED BY <1>6, <1>7 DEF sup

\* sup holds the supports of the objects.
AreSupports(circ, nCi, sup) ==
    /\ sup[Const1] = {}
    /\ \A o \in 1..nCi : sup[o] = {o}
    /\ \A n \in Ands(circ) : sup[n] = sup[circ.fan[n][1].obj] \cup sup[circ.fan[n][2].obj]

LEMMA ObjectSupports ==
    ASSUME NEW circ, NEW nCi \in Nat, IsStrashed(circ, nCi)
    PROVE  AreSupports(circ, nCi, Supports(circ, nCi))
<1>1. LET sup == Supports(circ, nCi)
      IN /\ sup \in [AigObjs(circ, nCi) -> SUBSET (1..nCi)]
         /\ sup[Const1] = {}
         /\ \A o \in 1..nCi : sup[o] = {o}
         /\ \A n \in Ands(circ) : 
               sup[n] = sup[circ.fan[n][1].obj] \cup sup[circ.fan[n][2].obj]
    BY SupportOfObject
<1> QED BY <1>1 DEF AreSupports

-----------------------------------------------------------------------------
(* The invariant                                                           *)

\* Visited objects: copied and off the queue.  Constant 1 has its copy from
\* the start.
Visited == {o \in Objs : pCopy[o] # NoCopy /\ o \notin que}
                \ (IF t = 0 /\ pc = "frame" THEN {Const1} ELSE {})

InputsOf(f) == {Pi(f, i) : i \in 0 .. NPi - 1}

Shape ==
    /\ ntk \in Circuits /\ mff \in BOOLEAN
    /\ pc \in {"frame", "traverse", "po", "run"}
    /\ t \in 0 .. NTimeFrame
    /\ pc \in {"frame", "traverse"} => t < NTimeFrame
    /\ pc \in {"po", "run"} => t = NTimeFrame
    /\ que \subseteq Objs /\ (pc # "traverse" => que = {})
    /\ DOMAIN vMap \subseteq Ands(ntk)
    /\ pCopy = [o \in Objs |-> pCopy[o]]
    /\ poInfos = [f \in Frames |-> poInfos[f]]
    /\ \E n \in Nat : LatIdx = 0 .. n - 1

\* Inputs are reached frame by frame; what is queued has its copy.
InputsReached ==
    /\ pCopy[Const1] = One
    /\ \A o \in que : pCopy[o] # NoCopy
    /\ \A f \in Frames : \A o \in InputsOf(f) :
          pCopy[o] # NoCopy <=> f < t \/ (f = t /\ pc = "traverse")

\* An AND node is in vMap while some but not all of its fanins have been
\* visited, and copied when all have.
WaitsForOther ==
    \A n \in Ands(ntk) :
        /\ n \in DOMAIN vMap <=>
              (\E o \in FaninObjs(ntk, n) : o \in Visited)
                /\ ~ \A o \in FaninObjs(ntk, n) : o \in Visited
        /\ n \in DOMAIN vMap => vMap[n] \in FaninObjs(ntk, n) /\ vMap[n] \in Visited
        /\ pCopy[n] # NoCopy <=> \A o \in FaninObjs(ntk, n) : o \in Visited

-----------------------------------------------------------------------------
(* What the objects of the folded circuit stand for.                       *)

\* Latch l holds object o when frame f begins.
HeldFor(D, f, l, o) ==
    \/ \E m : <<f - 1, m, o>> \in D /\ <<f - 1, Lit(m, FALSE)>> \in lats[l]
    \/ ~ mff /\ <<f - 1, MuxBo(l), o>> \in D /\ \A p \in lats[l] : p[1] # f - 1

\* Node m is the AND of what stands for the fanins of AND node n.
MadeOf(D, f, m, n) ==
    \E a, b : /\ <<f, a, ntk.fan[n][1].obj>> \in D
             /\ <<f, b, ntk.fan[n][2].obj>> \in D
             /\ m = MuxAnd(Lit(a, ntk.fan[n][1].neg), Lit(b, ntk.fan[n][2].neg))

StandsFor(D, f, m, o) ==
    \/ f = 0 /\ o = Const1 /\ m = MuxConst1
    \/ f \in Frames /\ \E i \in 0 .. NPi - 1 : o = Pi(f, i) /\ m = MuxPi(i)
    \/ o \in Ands(ntk) /\ m \in aig /\ MadeOf(D, f, m, o)
    \/ f > 0 /\ o # Const1 /\ \E l \in LatIdx : m = MuxBo(l) /\ HeldFor(D, f, l, o)

Justified(D) ==
    \A f, m, o : <<f, m, o>> \in D => f \in 0 .. t /\ o \in Objs /\ StandsFor(D, f, m, o)

\* In the frame that is built a copy stands for one object only, which is the
\* one that has it, and whatever is still needed has its copy.
Current(D) ==
    pc \in {"frame", "traverse"} =>
        /\ \A m, o : <<t, m, o>> \in D => pCopy[o] = Lit(m, FALSE)
        /\ \A o, u, m : <<t, m, o>> \in D /\ <<t, m, u>> \in D => o = u
        /\ \A o \in que \cup Waiting : <<t, pCopy[o].obj, o>> \in D
        /\ pc = "frame" => \A m, o : <<t, m, o>> \in D => m.op = "bo"

\* Whatever a latch loads, an output shows or a node is made of is known.
AndsKnown(D) == \A m \in aig : m.op = "and" /\ \E f, o : <<f, m, o>> \in D

LoadsKnown(D) ==
    \A l \in LatIdx : \A p \in lats[l] :
        \E f \in 0 .. t - 1 : \E m, o : p = <<f, Lit(m, FALSE)>> /\ <<f, m, o>> \in D

PosKnown(D) ==
    \A f \in Frames : \A p \in poInfos[f] :
        \E k \in PoIdx(ntk) : \E m :
            p = <<k, Lit(m, ntk.po[k].neg)>> /\ <<f, m, ntk.po[k].obj>> \in D

Meaning(D) ==
    Justified(D) /\ Current(D) /\ AndsKnown(D) /\ LoadsKnown(D) /\ PosKnown(D)

\* An output is in poInfos exactly once, from when its driver is visited.
PosOnce ==
    /\ \A f, g \in Frames : \A p \in poInfos[f], q \in poInfos[g] :
          p[1] = q[1] => f = g /\ p = q
    /\ \A f \in Frames : \A p \in poInfos[f] : ntk.po[p[1]].obj \in Visited
    /\ \A k \in PoIdx(ntk) : ntk.po[k].obj \in Visited =>
          \E f \in Frames : \E p \in poInfos[f] : p[1] = k

BInv ==
    /\ Shape /\ InputsReached /\ WaitsForOther
    /\ PosOnce /\ OneLoadPerFrame
    /\ \E D : Meaning(D)

-----------------------------------------------------------------------------
(* Lemmas about the objects of both circuits.                              *)

LEMMA NCiNat == NCi \in Nat /\ NPi \in Nat /\ NTimeFrame \in Nat \ {0}
BY NTimeFrameAssumption, StructuralFoldAssumption DEF NCi

\* Every input is an input of one frame.
LEMMA InputsOfFrames ==
    /\ \A f \in Frames : \A i \in 0 .. NPi - 1 : Pi(f, i) \in 1 .. NCi /\ Pi(f, i) # Const1
    /\ \A o \in 1 .. NCi : \E f \in Frames : \E i \in 0 .. NPi - 1 : o = Pi(f, i)
    /\ \A f, g \in Frames : \A i, j \in 0 .. NPi - 1 : Pi(f, i) = Pi(g, j) => f = g /\ i = j
<1>1. ASSUME NEW f \in Frames, NEW i \in 0 .. NPi - 1
      PROVE  Pi(f, i) \in 1 .. NCi /\ Pi(f, i) # Const1
    <2>1. f * NPi + i \in 0 .. NTimeFrame * NPi - 1
        BY NCiNat, ItemInRange DEF Frames
    <2> QED BY <2>1, NCiNat DEF Pi, NCi, Const1
<1>2. ASSUME NEW o \in 1 .. NCi
      PROVE  \E f \in Frames : \E i \in 0 .. NPi - 1 : o = Pi(f, i)
    <2> DEFINE j == o - 1
    <2>1. j \in 0 .. NTimeFrame * NPi - 1
        BY NCiNat DEF NCi
    <2>2. j \div NPi \in 0 .. NTimeFrame - 1 /\ j % NPi \in 0 .. NPi - 1
            /\ j = (j \div NPi) * NPi + (j % NPi)
        BY <2>1, NCiNat, FrameAndItem
    <2>3. o = Pi(j \div NPi, j % NPi)
        BY <2>2 DEF Pi
    <2> QED BY <2>2, <2>3 DEF Frames
<1>3. ASSUME NEW f \in Frames, NEW g \in Frames, NEW i \in 0 .. NPi - 1, NEW j \in 0 .. NPi - 1,
             Pi(f, i) = Pi(g, j)
      PROVE  f = g /\ i = j
    <2>1. f \in Nat /\ g \in Nat
        BY DEF Frames
    <2>2. /\ f * NPi + i \in Nat /\ (f * NPi + i) \div NPi = f /\ (f * NPi + i) % NPi = i
        BY <2>1, NCiNat, ItemOfFrame
    <2>3. /\ g * NPi + j \in Nat /\ (g * NPi + j) \div NPi = g /\ (g * NPi + j) % NPi = j
        BY <2>1, NCiNat, ItemOfFrame
    <2>4. f * NPi + i = g * NPi + j
        BY <1>3, <2>2, <2>3 DEF Pi
    <2> QED BY <2>2, <2>3, <2>4
<1> QED BY <1>1, <1>2, <1>3

\* Both fanins of an AND node: two different objects below it, no constants.
LEMMA Fanins ==
    ASSUME Shape, NEW n \in Ands(ntk)
    PROVE  /\ FaninObjs(ntk, n) = {ntk.fan[n][1].obj, ntk.fan[n][2].obj}
           /\ ntk.fan[n][1].obj # ntk.fan[n][2].obj
           /\ \A j \in {1, 2} : /\ ntk.fan[n][j].obj \in Objs \ {Const1}
                                /\ ntk.fan[n][j].obj \in Nat /\ ntk.fan[n][j].obj < n
                                /\ ntk.fan[n][j].neg \in BOOLEAN
           /\ n \in Objs /\ n \in Nat /\ n # Const1 /\ n \notin 1 .. NCi
<1>1. IsStrashed(ntk, NCi)
    BY StructuralFoldAssumption DEF Shape
<1>2. ntk.fan[n][1].obj # ntk.fan[n][2].obj
    BY <1>1 DEF IsStrashed
<1>3. /\ n \in Nat \ {Const1} /\ n \notin 1 .. NCi
      /\ \A j \in {1, 2} :
            /\ ntk.fan[n][j].obj \in AigObjs(ntk, NCi) \ {Const1}
            /\ ntk.fan[n][j].obj \in Nat /\ ntk.fan[n][j].obj < n
            /\ ntk.fan[n][j].neg \in BOOLEAN
    BY <1>1, NCiNat, FaninsBelow
<1> QED BY <1>2, <1>3 DEF FaninObjs, Objs, AigObjs

\* Objects of different kinds, or with different names, are different.
LEMMA KindsDiffer ==
    /\ \A i, l : MuxPi(i) # MuxBo(l) /\ MuxPi(i) # MuxConst1 /\ MuxBo(l) # MuxConst1
    /\ \A i, j : (MuxPi(i) = MuxPi(j) => i = j) /\ (MuxBo(i) = MuxBo(j) => i = j)
    /\ \A a, b, i : MuxAnd(a, b) # MuxPi(i) /\ MuxAnd(a, b) # MuxBo(i) /\ MuxAnd(a, b) # MuxConst1
    /\ \A a, b, c, d : MuxAnd(a, b) = MuxAnd(c, d) => {a, b} = {c, d}
    /\ \A i : MuxPi(i).op = "pi" /\ MuxBo(i).op = "bo" /\ MuxBo(i).id = i
    /\ \A a, b : MuxAnd(a, b).op = "and" /\ MuxAnd(a, b).args = {a, b}
    /\ MuxConst1.op = "one" /\ NoCopy.obj.op = "none"
<1>1. \A i, l : MuxPi(i).op = "pi" /\ MuxBo(i).op = "bo" /\ MuxBo(i).id = i /\ MuxPi(i).id = i
    BY DEF MuxPi, MuxBo
<1>2. \A a, b : MuxAnd(a, b).op = "and" /\ MuxAnd(a, b).args = {a, b}
    BY DEF MuxAnd
<1>3. MuxConst1.op = "one" /\ NoCopy.obj.op = "none"
    BY DEF MuxConst1, NoCopy, Lit
<1>4. ASSUME NEW i, NEW l PROVE MuxPi(i) # MuxBo(l) /\ MuxPi(i) # MuxConst1 /\ MuxBo(l) # MuxConst1
    BY <1>1, <1>3
<1>5. ASSUME NEW i, NEW j PROVE (MuxPi(i) = MuxPi(j) => i = j) /\ (MuxBo(i) = MuxBo(j) => i = j)
    <2>1. MuxPi(i).id = i /\ MuxPi(j).id = j /\ MuxBo(i).id = i /\ MuxBo(j).id = j
        BY <1>1
    <2> QED BY <2>1
<1>6. ASSUME NEW a, NEW b, NEW i
      PROVE  MuxAnd(a, b) # MuxPi(i) /\ MuxAnd(a, b) # MuxBo(i) /\ MuxAnd(a, b) # MuxConst1
    <2>1. MuxAnd(a, b).op = "and" /\ MuxPi(i).op = "pi" /\ MuxBo(i).op = "bo"
        BY <1>1, <1>2
    <2> QED BY <2>1, <1>3
<1>7. ASSUME NEW a, NEW b, NEW c, NEW d, MuxAnd(a, b) = MuxAnd(c, d) PROVE {a, b} = {c, d}
    <2>1. MuxAnd(a, b).args = {a, b} /\ MuxAnd(c, d).args = {c, d}
        BY <1>2
    <2> QED BY <2>1, <1>7
<1>8. \A a, b, c, d : MuxAnd(a, b) = MuxAnd(c, d) => {a, b} = {c, d}
    BY <1>7
<1>9. \A i : MuxPi(i).op = "pi" /\ MuxBo(i).op = "bo" /\ MuxBo(i).id = i
    BY <1>1
<1>10. \A i, l : MuxPi(i) # MuxBo(l) /\ MuxPi(i) # MuxConst1 /\ MuxBo(l) # MuxConst1
    BY <1>4
<1>11. \A i, j : (MuxPi(i) = MuxPi(j) => i = j) /\ (MuxBo(i) = MuxBo(j) => i = j)
    BY <1>5
<1>12. \A a, b, i : MuxAnd(a, b) # MuxPi(i) /\ MuxAnd(a, b) # MuxBo(i) /\ MuxAnd(a, b) # MuxConst1
    BY <1>6
<1> QED BY <1>2, <1>3, <1>8, <1>9, <1>10, <1>11, <1>12

LEMMA Literals ==
    /\ \A m, b : Lit(m, b).obj = m /\ Lit(m, b).neg = b
    /\ \A m, n, b, c : Lit(m, b) = Lit(n, c) => m = n /\ b = c
    /\ \A m, b : m.op # "none" => Lit(m, b) # NoCopy
<1>1. \A m, b : Lit(m, b).obj = m /\ Lit(m, b).neg = b
    BY DEF Lit
<1> QED BY <1>1, KindsDiffer

\* The AND of two literals of different objects, none constant, is a new node.
LEMMA AndOfDifferent ==
    ASSUME NEW p, NEW q, p.obj # q.obj, p.obj # MuxConst1, q.obj # MuxConst1,
           NotLit(q).obj = q.obj
    PROVE  AigAnd(p, q) = Lit(MuxAnd(p, q), FALSE)
<1>1. p # q /\ p # NotLit(q)
    OBVIOUS
<1> QED BY <1>1 DEF AigAnd

LEMMA ChildOfCopy ==
    ASSUME NEW e, NEW a, pCopy[e.obj] = Lit(a, FALSE), e.neg \in BOOLEAN
    PROVE  ChildCopy(pCopy, e) = Lit(a, e.neg)
<1>1. ASSUME NEW y \in BOOLEAN PROVE NotLit(Lit(a, y)) = Lit(a, ~ y)
    BY DEF NotLit, Lit
<1>2. NotLit(pCopy[e.obj]) = Lit(a, TRUE)
    <2>1. NotLit(Lit(a, FALSE)) = Lit(a, ~ FALSE)
        BY <1>1
    <2>2. (~ FALSE) = TRUE
        OBVIOUS
    <2> QED BY <2>1, <2>2
<1>3. CASE e.neg = TRUE
    BY <1>2, <1>3 DEF ChildCopy
<1>4. CASE e.neg = FALSE
    BY <1>4 DEF ChildCopy
<1> QED BY <1>3, <1>4

\* What stands for an object goes on to do so: later frames add nodes, latches
\* and loads, but no load for a frame that is over.
LEMMA StandsForever ==
    ASSUME Shape, NEW D, NEW E, D \subseteq E, NEW f \in 0 .. t, NEW m, NEW o,
           StandsFor(D, f, m, o), ntk' = ntk, mff' = mff, aig \subseteq aig',
           \A l \in LatIdx : /\ l \in LatIdx' /\ lats[l] \subseteq lats'[l]
                             /\ \A p \in lats'[l] : p \in lats[l] \/ p[1] = t
    PROVE  StandsFor(E, f, m, o)'
<1>1. CASE f = 0 /\ o = Const1 /\ m = MuxConst1
    BY <1>1 DEF StandsFor
<1>2. CASE f \in Frames /\ \E i \in 0 .. NPi - 1 : o = Pi(f, i) /\ m = MuxPi(i)
    BY <1>2 DEF StandsFor
<1>3. CASE o \in Ands(ntk) /\ m \in aig /\ MadeOf(D, f, m, o)
    <2>1. MadeOf(E, f, m, o)'
        BY <1>3 DEF MadeOf
    <2> QED BY <1>3, <2>1 DEF StandsFor, Ands
<1>4. CASE f > 0 /\ o # Const1 /\ \E l \in LatIdx : m = MuxBo(l) /\ HeldFor(D, f, l, o)
    <2>1. PICK l \in LatIdx : m = MuxBo(l) /\ HeldFor(D, f, l, o)
        BY <1>4
    <2>2. HeldFor(E, f, l, o)'
        <3>1. CASE \E n : <<f - 1, n, o>> \in D /\ <<f - 1, Lit(n, FALSE)>> \in lats[l]
            BY <3>1 DEF HeldFor
        <3>2. CASE ~ mff /\ <<f - 1, MuxBo(l), o>> \in D /\ \A p \in lats[l] : p[1] # f - 1
            <4>1. f - 1 # t
                BY <1>4 DEF Shape
            <4>2. \A p \in lats'[l] : p[1] # f - 1
                BY <3>2, <4>1
            <4> QED BY <3>2, <4>2 DEF HeldFor
        <3> QED BY <2>1, <3>1, <3>2 DEF HeldFor
    <2>3. l \in LatIdx'
        OBVIOUS
    <2> QED BY <1>4, <2>1, <2>2, <2>3 DEF StandsFor
<1> QED BY <1>1, <1>2, <1>3, <1>4 DEF StandsFor

\* At the start nothing is reached.
LEMMA InitBInv == Init => BInv
<1> SUFFICES ASSUME Init PROVE BInv
    OBVIOUS
<1>1. /\ ntk \in Circuits /\ mff \in BOOLEAN /\ pc = "frame" /\ t = 0 /\ que = {}
      /\ DOMAIN vMap = {} /\ aig = {} /\ DOMAIN lats = {} /\ poInfos = [f \in Frames |-> {}]
      /\ pCopy = [o \in Objs |-> IF o = Const1 THEN One ELSE NoCopy]
    BY DEF Init
<1>2. Shape
    <2>1. LatIdx = 0 .. 0 - 1
        BY <1>1 DEF LatIdx
    <2> QED BY <1>1, <2>1, NCiNat DEF Shape
<1>3. Visited = {}
    BY <1>1 DEF Visited
<1>4. InputsReached
    <2>1. \A f \in Frames : \A o \in InputsOf(f) : o \in Objs /\ o # Const1 /\ ~ (f < t)
        BY <1>1, InputsOfFrames DEF InputsOf, Objs, Frames
    <2>2. Const1 \in Objs
        BY DEF Objs
    <2> QED BY <1>1, <2>1, <2>2 DEF InputsReached
<1>5. WaitsForOther
    BY <1>1, <1>2, <1>3, Fanins DEF WaitsForOther
<1>6. PosOnce /\ OneLoadPerFrame
    BY <1>1, <1>3 DEF PosOnce, OneLoadPerFrame, LatIdx
<1>7. Meaning({})
    <2>1. Justified({})
        BY DEF Justified
    <2>2. Current({})
        BY <1>1 DEF Current, Waiting
    <2>3. AndsKnown({}) /\ LoadsKnown({}) /\ PosKnown({})
        BY <1>1 DEF AndsKnown, LoadsKnown, PosKnown, LatIdx
    <2> QED BY <2>1, <2>2, <2>3 DEF Meaning
<1> QED BY <1>2, <1>4, <1>5, <1>6, <1>7 DEF BInv

-----------------------------------------------------------------------------
(* A frame begins.                                                         *)

LEMMA InitQueBInv == BInv /\ InitQue => BInv'
<1> SUFFICES ASSUME BInv, InitQue PROVE BInv'
    OBVIOUS
<1> USE DEF BInv
<1>1. /\ pc = "frame" /\ pc' = "traverse" /\ t \in Nat /\ t < NTimeFrame /\ t \in Frames
      /\ que = {} /\ que' = InputsOf(t) \cup (IF t = 0 THEN {Const1} ELSE {})
      /\ ntk' = ntk /\ mff' = mff /\ t' = t /\ vMap' = vMap /\ aig' = aig /\ lats' = lats
      /\ poInfos' = poInfos
      /\ pCopy' = [o \in Objs |-> IF o \in InputsOf(t) THEN Lit(MuxPi(o - Pi(t, 0)), FALSE) ELSE pCopy[o]]
    BY NCiNat DEF InitQue, Shape, InputsOf, Frames
<1>2. Objs' = Objs /\ Const1 \in Objs /\ Waiting' = Waiting /\ LatIdx' = LatIdx
    BY <1>1 DEF Objs, Waiting, LatIdx, Ands
<1>3. \A f \in Frames : InputsOf(f)' = InputsOf(f)
    BY DEF InputsOf, Pi
<1>4. \A f \in Frames : \A o \in InputsOf(f) :
          o \in Objs /\ o # Const1 /\ o \notin Ands(ntk) /\ (f # t => o \notin InputsOf(t))
    BY SMTT(40), <1>1, InputsOfFrames, Fanins DEF InputsOf, Objs
<1>5. \A i \in 0 .. NPi - 1 : Pi(t, i) \in InputsOf(t) /\ pCopy'[Pi(t, i)] = Lit(MuxPi(i), FALSE)
    <2> SUFFICES ASSUME NEW i \in 0 .. NPi - 1
                 PROVE  Pi(t, i) \in InputsOf(t) /\ pCopy'[Pi(t, i)] = Lit(MuxPi(i), FALSE)
        OBVIOUS
    <2>1. Pi(t, i) \in InputsOf(t) /\ Pi(t, i) \in Objs
        BY <1>1, <1>4 DEF InputsOf
    <2>2. t * NPi \in Nat
        BY <1>1, NCiNat
    <2>3. Pi(t, i) - Pi(t, 0) = i
        BY <2>2 DEF Pi
    <2> QED BY <1>1, <2>1, <2>3
<1>6. \A o \in InputsOf(t) : pCopy[o] = NoCopy /\ pCopy'[o] # NoCopy
    <2>1. \A o \in InputsOf(t) : pCopy[o] = NoCopy
        BY <1>1, NCiNat DEF InputsReached
    <2>2. \A i \in 0 .. NPi - 1 : Lit(MuxPi(i), FALSE) # NoCopy
        BY KindsDiffer, Literals
    <2> QED BY <2>1, <2>2, <1>5 DEF InputsOf
<1>7. \A o \in Objs \ InputsOf(t) : pCopy'[o] = pCopy[o]
    BY <1>1
<1>8. Visited' = Visited
    <2>1. ASSUME NEW o \in Objs PROVE o \in Visited' <=> o \in Visited
        <3>1. CASE o \in InputsOf(t)
            BY <3>1, <1>1, <1>6 DEF Visited
        <3>2. CASE o \notin InputsOf(t)
            BY <3>2, <1>1, <1>2, <1>7 DEF Visited
        <3> QED BY <3>1, <3>2
    <2> QED BY <2>1, <1>2 DEF Visited
<1>9. Shape'
    <2>1. que' \subseteq Objs
        BY <1>1, <1>2, <1>4
    <2>2. pCopy' = [o \in Objs |-> pCopy'[o]]
        BY <1>1
    <2> QED BY <1>1, <1>2, <2>1, <2>2, <1>3 DEF Shape
<1>10. InputsReached'
    <2>1. pCopy'[Const1] = One
        BY <1>1, <1>2, <1>4, <1>7 DEF InputsReached
    <2>2. \A o \in que' : pCopy'[o] # NoCopy
        <3>1. One # NoCopy
            BY KindsDiffer, Literals DEF One
        <3> QED BY <1>1, <1>6, <2>1, <3>1
    <2>3. \A f \in Frames : \A o \in InputsOf(f) : pCopy'[o] # NoCopy <=> f < t \/ f = t
        <3>1. ASSUME NEW f \in Frames, NEW o \in InputsOf(f) PROVE pCopy'[o] # NoCopy <=> f < t \/ f = t
            <4>1. CASE f = t
                BY <4>1, <3>1, <1>6
            <4>2. CASE f # t
                <5>1. pCopy'[o] = pCopy[o]
                    BY <4>2, <1>4, <1>7
                <5> QED BY <5>1, <4>2, <1>1 DEF InputsReached
            <4> QED BY <4>1, <4>2
        <3> QED BY <3>1
    <2> QED BY <2>1, <2>2, <2>3, <1>1, <1>3, <1>2 DEF InputsReached
<1>11. WaitsForOther'
    <2>1. \A n \in Ands(ntk) : pCopy'[n] = pCopy[n]
        BY <1>4, <1>7, Fanins, <1>1
    <2> QED BY ZenonT(60), <1>1, <1>8, <2>1 DEF WaitsForOther, Ands, FaninObjs
<1>12. PosOnce' /\ OneLoadPerFrame'
    BY <1>1, <1>2, <1>8 DEF PosOnce, OneLoadPerFrame, PoIdx
<1>13. \E D : Meaning(D)'
    <2>0. PICK D : Meaning(D)
        OBVIOUS
    <2>n. PICK N : N = {<<t, MuxPi(i), Pi(t, i)>> : i \in 0 .. NPi - 1}
                          \cup (IF t = 0 THEN {<<0, MuxConst1, Const1>>} ELSE {})
        OBVIOUS
    <2> DEFINE E == D \cup N
    <2>1. \A f, m, o : <<f, m, o>> \in N =>
              /\ f = t /\ o \in Objs /\ pCopy'[o] = Lit(m, FALSE) /\ m.op \in {"pi", "one"}
              /\ \/ f = 0 /\ o = Const1 /\ m = MuxConst1
                 \/ \E i \in 0 .. NPi - 1 : o = Pi(t, i) /\ m = MuxPi(i)
        <3>1. ASSUME NEW f, NEW m, NEW o, <<f, m, o>> \in N
              PROVE  /\ f = t /\ o \in Objs /\ pCopy'[o] = Lit(m, FALSE) /\ m.op \in {"pi", "one"}
                     /\ \/ f = 0 /\ o = Const1 /\ m = MuxConst1
                        \/ \E i \in 0 .. NPi - 1 : o = Pi(t, i) /\ m = MuxPi(i)
            <4>1. CASE \E i \in 0 .. NPi - 1 : <<f, m, o>> = <<t, MuxPi(i), Pi(t, i)>>
                <5>1. PICK i \in 0 .. NPi - 1 : f = t /\ m = MuxPi(i) /\ o = Pi(t, i)
                    BY <4>1
                <5>2. m.op = "pi"
                    BY <5>1, KindsDiffer
                <5>3. o \in Objs /\ pCopy'[o] = Lit(m, FALSE)
                    BY <5>1, <1>1, <1>4, <1>5
                <5> QED BY <5>1, <5>2, <5>3
            <4>2. CASE t = 0 /\ <<f, m, o>> = <<0, MuxConst1, Const1>>
                <5>1. t = 0 /\ f = 0 /\ m = MuxConst1 /\ o = Const1
                    BY <4>2
                <5>2. m.op = "one"
                    BY <5>1, KindsDiffer
                <5>3. pCopy'[o] = Lit(m, FALSE)
                    BY <5>1, <1>10 DEF InputsReached, One
                <5> QED BY <5>1, <5>2, <5>3, <1>2
            <4> QED BY <3>1, <4>1, <4>2, <2>n
        <3> QED BY <3>1
    <2>2. Justified(E)'
        <3>1. ASSUME NEW f, NEW m, NEW o, <<f, m, o>> \in E
              PROVE  f \in 0 .. t /\ o \in Objs /\ StandsFor(E, f, m, o)'
            <4>1. CASE <<f, m, o>> \in D
                <5>1. f \in 0 .. t /\ o \in Objs /\ StandsFor(D, f, m, o)
                    BY <4>1, <2>0 DEF Meaning, Justified
                <5> QED BY <5>1, <1>1, <1>2, StandsForever
            <4>2. CASE <<f, m, o>> \in N
                <5>1. f = t /\ t \in 0 .. t /\ o \in Objs
                    <6>1. f = t /\ o \in Objs
                        BY <4>2, <2>1
                    <6> QED BY <6>1, <1>1
                <5>2. CASE f = 0 /\ o = Const1 /\ m = MuxConst1
                    BY <5>1, <5>2 DEF StandsFor
                <5>3. CASE \E i \in 0 .. NPi - 1 : o = Pi(t, i) /\ m = MuxPi(i)
                    BY <5>1, <5>3, <1>1 DEF StandsFor, Pi
                <5> QED BY <4>2, <2>1, <5>1, <5>2, <5>3
            <4> QED BY <3>1, <4>1, <4>2
        <3> QED BY <3>1, <1>1, <1>2 DEF Justified
    <2>3. Current(E)'
        <3>1. /\ \A m, o : <<t, m, o>> \in D => pCopy[o] = Lit(m, FALSE) /\ m.op = "bo"
              /\ \A o, u, m : <<t, m, o>> \in D /\ <<t, m, u>> \in D => o = u
              /\ \A o \in Waiting : <<t, pCopy[o].obj, o>> \in D
            BY <2>0, <1>1 DEF Meaning, Current
        <3>2. \A m, o : <<t, m, o>> \in D => o \in Objs /\ pCopy'[o] = pCopy[o]
            <4>1. ASSUME NEW m, NEW o, <<t, m, o>> \in D PROVE o \in Objs /\ pCopy'[o] = pCopy[o]
                <5>1. o \in Objs
                    BY <4>1, <2>0 DEF Meaning, Justified
                <5>2. pCopy[o] # NoCopy
                    <6>1. pCopy[o] = Lit(m, FALSE) /\ m.op # "none"
                        BY <4>1, <3>1
                    <6> QED BY <6>1, Literals
                <5> QED BY <5>1, <5>2, <1>6, <1>7
            <4> QED BY <4>1
        <3>3. \A m, o : <<t, m, o>> \in E => pCopy'[o] = Lit(m, FALSE)
            BY <2>1, <3>1, <3>2
        <3>4. ASSUME NEW o, NEW u, NEW m, <<t, m, o>> \in E, <<t, m, u>> \in E PROVE o = u
            <4>1. CASE m.op = "bo"
                <5>1. <<t, m, o>> \in D /\ <<t, m, u>> \in D
                    BY <4>1, <3>4, <2>1
                <5> QED BY <5>1, <3>1
            <4>2. CASE m.op # "bo"
                <5>1. <<t, m, o>> \in N /\ <<t, m, u>> \in N
                    BY <4>2, <3>4, <3>1
                <5>2. CASE m = MuxConst1
                    <6>1. \A i \in 0 .. NPi - 1 : m # MuxPi(i)
                        BY <5>2, KindsDiffer
                    <6>2. o = Const1 \/ \E i \in 0 .. NPi - 1 : o = Pi(t, i) /\ m = MuxPi(i)
                        BY <5>1, <2>1
                    <6>3. u = Const1 \/ \E i \in 0 .. NPi - 1 : u = Pi(t, i) /\ m = MuxPi(i)
                        BY <5>1, <2>1
                    <6> QED BY <6>1, <6>2, <6>3
                <5>3. CASE m # MuxConst1
                    <6>1. PICK i \in 0 .. NPi - 1 : o = Pi(t, i) /\ m = MuxPi(i)
                        BY <5>1, <5>3, <2>1
                    <6>2. PICK j \in 0 .. NPi - 1 : u = Pi(t, j) /\ m = MuxPi(j)
                        BY <5>1, <5>3, <2>1
                    <6>3. i = j
                        BY <6>1, <6>2, KindsDiffer
                    <6> QED BY <6>1, <6>2, <6>3
                <5> QED BY <5>2, <5>3
            <4> QED BY <4>1, <4>2
        <3>5. ASSUME NEW o \in que' \cup Waiting PROVE <<t, pCopy'[o].obj, o>> \in E
            <4>1. CASE o \in Waiting
                BY <4>1, <3>1, <3>2
            <4>2. CASE o \in InputsOf(t)
                <5>1. PICK i \in 0 .. NPi - 1 : o = Pi(t, i)
                    BY <4>2 DEF InputsOf
                <5>2. pCopy'[o].obj = MuxPi(i)
                    BY <5>1, <1>5, Literals
                <5> QED BY <5>1, <5>2, <2>n
            <4>3. CASE t = 0 /\ o = Const1
                <5>1. pCopy'[o].obj = MuxConst1
                    BY <4>3, <1>10, Literals DEF InputsReached, One
                <5> QED BY <5>1, <4>3, <2>n
            <4> QED BY <3>5, <4>1, <4>2, <4>3, <1>1
        <3>6. \A o, u, m : <<t, m, o>> \in E /\ <<t, m, u>> \in E => o = u
            BY <3>4
        <3>7. \A o \in que' \cup Waiting' : <<t, pCopy'[o].obj, o>> \in E
            BY <3>5, <1>2
        <3> HIDE DEF E
        <3> QED BY <3>3, <3>6, <3>7, <1>1 DEF Current
    <2>4. AndsKnown(E)'
        BY <2>0, <1>1 DEF Meaning, AndsKnown
    <2>5. LoadsKnown(E)'
        <3> SUFFICES ASSUME NEW l \in LatIdx, NEW p \in lats[l]
                     PROVE  \E f \in 0 .. t - 1 : \E m, o : p = <<f, Lit(m, FALSE)>> /\ <<f, m, o>> \in E
            BY <1>1, <1>2 DEF LoadsKnown
        <3> QED BY <2>0 DEF Meaning, LoadsKnown
    <2>6. PosKnown(E)'
        <3> SUFFICES ASSUME NEW f \in Frames, NEW p \in poInfos[f]
                     PROVE  \E k \in PoIdx(ntk) : \E m :
                               p = <<k, Lit(m, ntk.po[k].neg)>> /\ <<f, m, ntk.po[k].obj>> \in E
            BY <1>1 DEF PosKnown, PoIdx
        <3> QED BY <2>0 DEF Meaning, PosKnown
    <2> QED BY <2>2, <2>3, <2>4, <2>5, <2>6 DEF Meaning
<1> QED BY <1>9, <1>10, <1>11, <1>12, <1>13

-----------------------------------------------------------------------------
(* An object is visited.                                                   *)

CopyOf(n) == AigAnd(ChildCopy(pCopy, ntk.fan[n][1]), ChildCopy(pCopy, ntk.fan[n][2]))

\* What stands for an object is no constant, unless the object is.
LEMMA KnownKinds ==
    ASSUME NEW D, Justified(D), AndsKnown(D), NEW f, NEW m, NEW o, <<f, m, o>> \in D
    PROVE  m.op # "none" /\ (o # Const1 => m # MuxConst1)
<1>1. StandsFor(D, f, m, o)
    BY DEF Justified
<1>2. CASE f = 0 /\ o = Const1 /\ m = MuxConst1
    BY <1>2, KindsDiffer
<1>3. CASE \E i \in 0 .. NPi - 1 : o = Pi(f, i) /\ m = MuxPi(i)
    <2>1. PICK i : m = MuxPi(i)
        BY <1>3
    <2>2. m.op = "pi" /\ m # MuxConst1
        BY <2>1, KindsDiffer
    <2> QED BY <2>2
<1>4. CASE m \in aig
    <2>1. m.op = "and" /\ MuxConst1.op = "one"
        BY <1>4, KindsDiffer DEF AndsKnown
    <2> QED BY <2>1
<1>5. CASE \E l \in LatIdx : m = MuxBo(l) /\ HeldFor(D, f, l, o)
    <2>1. PICK l : m = MuxBo(l)
        BY <1>5
    <2>2. m.op = "bo" /\ m # MuxConst1
        BY <2>1, KindsDiffer
    <2> QED BY <2>2
<1> QED BY <1>1, <1>2, <1>3, <1>4, <1>5 DEF StandsFor

\* Nodes made of the same literals stand for the same AND node: no two AND
\* nodes of the given circuit have the same fanins.
LEMMA SameStructure ==
    ASSUME Shape, NEW D, \A o, u, m : <<t, m, o>> \in D /\ <<t, m, u>> \in D => o = u,
           NEW n \in Ands(ntk), NEW k \in Ands(ntk), NEW m, MadeOf(D, t, m, n), MadeOf(D, t, m, k)
    PROVE  n = k
<1>a. PICK a, b : /\ <<t, a, ntk.fan[n][1].obj>> \in D
                  /\ <<t, b, ntk.fan[n][2].obj>> \in D
                  /\ m = MuxAnd(Lit(a, ntk.fan[n][1].neg), Lit(b, ntk.fan[n][2].neg))
    BY DEF MadeOf
<1>c. PICK c, d : /\ <<t, c, ntk.fan[k][1].obj>> \in D
                  /\ <<t, d, ntk.fan[k][2].obj>> \in D
                  /\ m = MuxAnd(Lit(c, ntk.fan[k][1].neg), Lit(d, ntk.fan[k][2].neg))
    BY DEF MadeOf
<1>1. IsStrashed(ntk, NCi)
    BY StructuralFoldAssumption DEF Shape
<1>2. ASSUME NEW i \in {1, 2}, NEW j \in {1, 2}, NEW x, NEW y,
             <<t, x, ntk.fan[n][i].obj>> \in D, <<t, y, ntk.fan[k][j].obj>> \in D,
             Lit(x, ntk.fan[n][i].neg) = Lit(y, ntk.fan[k][j].neg)
      PROVE  ntk.fan[n][i] = ntk.fan[k][j]
    <2>1. x = y /\ ntk.fan[n][i].neg = ntk.fan[k][j].neg
        BY <1>2, Literals
    <2>2. ntk.fan[n][i].obj = ntk.fan[k][j].obj
        BY <1>2, <2>1
    <2>3. PICK S : ntk.fan[n][i] \in [obj : S, neg : BOOLEAN]
        BY <1>1 DEF IsStrashed
    <2>4. PICK T : ntk.fan[k][j] \in [obj : T, neg : BOOLEAN]
        BY <1>1 DEF IsStrashed
    <2> QED BY <2>1, <2>2, <2>3, <2>4
<1> DEFINE A(x) == Lit(x, ntk.fan[n][1].neg)
           B(x) == Lit(x, ntk.fan[n][2].neg)
           P(x) == Lit(x, ntk.fan[k][1].neg)
           Q(x) == Lit(x, ntk.fan[k][2].neg)
<1>3. {A(a), B(b)} = {P(c), Q(d)}
    <2>1. MuxAnd(A(a), B(b)) = MuxAnd(P(c), Q(d))
        BY <1>a, <1>c
    <2> HIDE DEF A, B, P, Q
    <2> QED BY <2>1, KindsDiffer
<1>4. \/ A(a) = P(c) /\ B(b) = Q(d)
      \/ A(a) = Q(d) /\ B(b) = P(c)
      \/ A(a) = B(b) /\ P(c) = Q(d) /\ A(a) = P(c)
    <2> HIDE DEF A, B, P, Q
    <2> QED BY <1>3
<1>5. {ntk.fan[n][1], ntk.fan[n][2]} = {ntk.fan[k][1], ntk.fan[k][2]}
    <2>1. CASE A(a) = P(c) /\ B(b) = Q(d)
        <3>1. ntk.fan[n][1] = ntk.fan[k][1]
            BY <2>1, <1>2, <1>a, <1>c
        <3>2. ntk.fan[n][2] = ntk.fan[k][2]
            BY <2>1, <1>2, <1>a, <1>c
        <3> QED BY <3>1, <3>2
    <2>2. CASE A(a) = Q(d) /\ B(b) = P(c)
        <3>1. ntk.fan[n][1] = ntk.fan[k][2]
            BY <2>2, <1>2, <1>a, <1>c
        <3>2. ntk.fan[n][2] = ntk.fan[k][1]
            BY <2>2, <1>2, <1>a, <1>c
        <3> QED BY <3>1, <3>2
    <2>3. CASE A(a) = B(b) /\ P(c) = Q(d) /\ A(a) = P(c)
        <3>1. ntk.fan[n][1] = ntk.fan[k][1]
            BY <2>3, <1>2, <1>a, <1>c
        <3>2. ntk.fan[n][2] = ntk.fan[k][2]
            BY <2>3, <1>2, <1>a, <1>c
        <3> QED BY <3>1, <3>2
    <2> QED BY <1>4, <2>1, <2>2, <2>3
<1> QED BY <1>1, <1>5 DEF IsStrashed

\* A node is completed by its second fanin: it had no copy, and gets an AND
\* of the copies of both.
LEMMA CompletedNodes ==
    ASSUME BInv, NEW D, Meaning(D), pc = "traverse", NEW o \in que, NEW n \in Completed(o)
    PROVE  /\ n \in Ands(ntk) /\ n # o /\ pCopy[n] = NoCopy
           /\ n \in DOMAIN vMap /\ o \in FaninObjs(ntk, n)
           /\ FaninObjs(ntk, n) = {o, vMap[n]} /\ vMap[n] \in Visited /\ vMap[n] # o
           /\ CopyOf(n) = Lit(CopyOf(n).obj, FALSE) /\ CopyOf(n).obj.op = "and"
           /\ MadeOf(D, t, CopyOf(n).obj, n)
<1> USE DEF BInv
<1>1. /\ n \in Ands(ntk) /\ n \in DOMAIN vMap /\ o \in FaninObjs(ntk, n) /\ vMap[n] # o
    BY DEF Completed, AndFanouts
<1>2. o \notin Visited
    BY DEF Visited
<1>3. pCopy[n] = NoCopy /\ vMap[n] \in FaninObjs(ntk, n) /\ vMap[n] \in Visited
    BY <1>1, <1>2 DEF WaitsForOther
<1>4. FaninObjs(ntk, n) = {o, vMap[n]}
    BY <1>1, <1>3, Fanins
<1>5. n # o
    BY <1>1, Fanins
<1>6. ASSUME NEW j \in {1, 2}
      PROVE  \E a : <<t, a, ntk.fan[n][j].obj>> \in D
                     /\ pCopy[ntk.fan[n][j].obj] = Lit(a, FALSE) /\ a # MuxConst1
    <2> DEFINE u == ntk.fan[n][j].obj
    <2>1. u \in que \cup Waiting /\ u # Const1
        BY <1>1, <1>4, Fanins DEF Waiting
    <2>2. <<t, pCopy[u].obj, u>> \in D
        BY <2>1 DEF Meaning, Current
    <2>3. pCopy[u] = Lit(pCopy[u].obj, FALSE)
        BY <2>2 DEF Meaning, Current
    <2>4. pCopy[u].obj # MuxConst1
        BY <2>1, <2>2, KnownKinds DEF Meaning
    <2> QED BY <2>2, <2>3, <2>4
<1>7. PICK a : /\ <<t, a, ntk.fan[n][1].obj>> \in D
               /\ pCopy[ntk.fan[n][1].obj] = Lit(a, FALSE) /\ a # MuxConst1
    BY <1>6
<1>8. PICK b : /\ <<t, b, ntk.fan[n][2].obj>> \in D
               /\ pCopy[ntk.fan[n][2].obj] = Lit(b, FALSE) /\ b # MuxConst1
    BY <1>6
<1>9. a # b
    <2>1. ntk.fan[n][1].obj # ntk.fan[n][2].obj
        BY <1>1, Fanins
    <2> QED BY <2>1, <1>7, <1>8 DEF Meaning, Current
<1>10. CopyOf(n) = Lit(MuxAnd(Lit(a, ntk.fan[n][1].neg), Lit(b, ntk.fan[n][2].neg)), FALSE)
    <2>1. ntk.fan[n][1].neg \in BOOLEAN /\ ntk.fan[n][2].neg \in BOOLEAN
        BY <1>1, Fanins
    <2>2. ChildCopy(pCopy, ntk.fan[n][1]) = Lit(a, ntk.fan[n][1].neg)
        BY <1>7, <2>1, ChildOfCopy
    <2>3. ChildCopy(pCopy, ntk.fan[n][2]) = Lit(b, ntk.fan[n][2].neg)
        BY <1>8, <2>1, ChildOfCopy
    <2> DEFINE x == ntk.fan[n][1].neg
               y == ntk.fan[n][2].neg
    <2>6. a # b /\ a # MuxConst1 /\ b # MuxConst1
        BY <1>7, <1>8, <1>9
    <2>7. Lit(a, x).obj = a /\ Lit(b, y).obj = b /\ NotLit(Lit(b, y)).obj = b
        BY DEF NotLit, Lit
    <2>4. AigAnd(Lit(a, x), Lit(b, y)) = Lit(MuxAnd(Lit(a, x), Lit(b, y)), FALSE)
        <3> HIDE DEF x, y
        <3> DEFINE p == Lit(a, x)
                   q == Lit(b, y)
        <3>1. p.obj # q.obj /\ p.obj # MuxConst1 /\ q.obj # MuxConst1 /\ NotLit(q).obj = q.obj
            BY <2>6, <2>7
        <3> HIDE DEF p, q
        <3>2. AigAnd(p, q) = Lit(MuxAnd(p, q), FALSE)
            BY <3>1, AndOfDifferent
        <3> QED BY <3>2 DEF p, q
    <2>5. CopyOf(n) = AigAnd(Lit(a, x), Lit(b, y))
        BY <2>2, <2>3 DEF CopyOf
    <2> QED BY <2>4, <2>5
<1>11. CopyOf(n).obj = MuxAnd(Lit(a, ntk.fan[n][1].neg), Lit(b, ntk.fan[n][2].neg))
    BY <1>10, Literals
<1>12. MadeOf(D, t, CopyOf(n).obj, n)
    BY <1>7, <1>8, <1>11 DEF MadeOf
<1>13. CopyOf(n) = Lit(CopyOf(n).obj, FALSE) /\ CopyOf(n).obj.op = "and"
    <2>1. CopyOf(n).obj.op = "and"
        BY <1>11, KindsDiffer
    <2>2. CopyOf(n) = Lit(CopyOf(n).obj, FALSE)
        BY <1>10, <1>11
    <2> QED BY <2>1, <2>2
<1> QED BY <1>1, <1>3, <1>4, <1>5, <1>12, <1>13

\* The state after a visit, and what it means for the traversal.
LEMMA VisitStep ==
    ASSUME BInv, NEW o, Visit(o)
    PROVE  /\ pc = "traverse" /\ pc' = "traverse" /\ o \in que /\ o \in Objs /\ o \notin Visited
           /\ t \in Frames /\ t' = t /\ ntk' = ntk /\ mff' = mff /\ lats' = lats /\ Objs' = Objs
           /\ que' = (que \ {o}) \cup Completed(o)
           /\ aig' = aig \cup {a \in {CopyOf(n).obj : n \in Completed(o)} : a.op = "and"}
           /\ poInfos' = [poInfos EXCEPT ![t] = @ \cup
                  {<<k, ChildCopy(pCopy, ntk.po[k])>> : k \in PoFanouts(ntk, o)}]
           /\ DOMAIN vMap' = (DOMAIN vMap \ Completed(o)) \cup (AndFanouts(ntk, o) \ DOMAIN vMap)
           /\ \A n \in DOMAIN vMap' :
                  vMap'[n] = IF n \in AndFanouts(ntk, o) \ DOMAIN vMap THEN o ELSE vMap[n]
           /\ Completed(o) \subseteq Objs
           /\ pCopy' = [n \in Objs |-> IF n \in Completed(o) THEN CopyOf(n) ELSE pCopy[n]]
           /\ Waiting' \subseteq Waiting \cup {o}
           /\ Waiting' # Waiting => o # Const1
<1> USE DEF BInv
<1>1. /\ pc = "traverse" /\ pc' = "traverse" /\ o \in que
      /\ t' = t /\ ntk' = ntk /\ mff' = mff /\ lats' = lats
      /\ que' = (que \ {o}) \cup Completed(o)
      /\ aig' = aig \cup {a \in {CopyOf(n).obj : n \in Completed(o)} : a.op = "and"}
      /\ poInfos' = [poInfos EXCEPT ![t] = @ \cup
            {<<k, ChildCopy(pCopy, ntk.po[k])>> : k \in PoFanouts(ntk, o)}]
      /\ vMap' = [n \in (DOMAIN vMap \ Completed(o)) \cup (AndFanouts(ntk, o) \ DOMAIN vMap) |->
                    IF n \in AndFanouts(ntk, o) \ DOMAIN vMap THEN o ELSE vMap[n]]
      /\ pCopy' = [n \in Objs |-> IF n \in Completed(o) THEN CopyOf(n) ELSE pCopy[n]]
    BY DEF Visit, CopyOf
<1>2. o \in Objs /\ o \notin Visited /\ t \in Frames /\ Objs' = Objs
    BY <1>1, NCiNat DEF Shape, Visited, Frames, Objs, Ands
<1>3. Completed(o) \subseteq Objs
    BY Fanins DEF Completed, AndFanouts
<1>4. /\ DOMAIN vMap' = (DOMAIN vMap \ Completed(o)) \cup (AndFanouts(ntk, o) \ DOMAIN vMap)
      /\ \A n \in DOMAIN vMap' :
            vMap'[n] = IF n \in AndFanouts(ntk, o) \ DOMAIN vMap THEN o ELSE vMap[n]
    BY <1>1
<1>5. Waiting' \subseteq Waiting \cup {o}
    BY <1>4 DEF Waiting
<1>6. Waiting' # Waiting => o # Const1
    <2> SUFFICES ASSUME o = Const1 PROVE Waiting' = Waiting
        OBVIOUS
    <2>1. AndFanouts(ntk, o) = {}
        BY Fanins DEF AndFanouts
    <2>2. Completed(o) = {}
        BY <2>1 DEF Completed
    <2> QED BY <1>4, <2>1, <2>2 DEF Waiting
<1> QED BY <1>1, <1>2, <1>3, <1>4, <1>5, <1>6

LEMMA VisitBInv == ASSUME BInv, NEW o, Visit(o) PROVE BInv'
<1> USE DEF BInv
<1>1. /\ pc = "traverse" /\ pc' = "traverse" /\ o \in que /\ o \in Objs /\ o \notin Visited
      /\ t \in Frames /\ t' = t /\ ntk' = ntk /\ mff' = mff /\ lats' = lats /\ Objs' = Objs
      /\ que' = (que \ {o}) \cup Completed(o)
      /\ DOMAIN vMap' = (DOMAIN vMap \ Completed(o)) \cup (AndFanouts(ntk, o) \ DOMAIN vMap)
      /\ \A n \in DOMAIN vMap' :
            vMap'[n] = IF n \in AndFanouts(ntk, o) \ DOMAIN vMap THEN o ELSE vMap[n]
      /\ Completed(o) \subseteq Objs
      /\ pCopy' = [n \in Objs |-> IF n \in Completed(o) THEN CopyOf(n) ELSE pCopy[n]]
    BY VisitStep
<1>2. PICK D : Meaning(D)
    OBVIOUS
<1>3. ASSUME NEW n \in Completed(o)
      PROVE  /\ n \in Ands(ntk) /\ n # o /\ pCopy[n] = NoCopy /\ n \notin DOMAIN vMap'
             /\ FaninObjs(ntk, n) = {o, vMap[n]} /\ vMap[n] \in Visited
             /\ CopyOf(n) = Lit(CopyOf(n).obj, FALSE) /\ CopyOf(n).obj.op = "and"
             /\ MadeOf(D, t, CopyOf(n).obj, n)
    <2>1. n \in Ands(ntk) /\ n # o /\ pCopy[n] = NoCopy /\ n \in DOMAIN vMap
        BY <1>1, <1>2, CompletedNodes
    <2>2. FaninObjs(ntk, n) = {o, vMap[n]} /\ vMap[n] \in Visited
        BY <1>1, <1>2, CompletedNodes
    <2>3. /\ CopyOf(n) = Lit(CopyOf(n).obj, FALSE) /\ CopyOf(n).obj.op = "and"
          /\ MadeOf(D, t, CopyOf(n).obj, n)
        BY <1>1, <1>2, CompletedNodes
    <2>4. n \notin DOMAIN vMap'
        BY <1>1, <2>1
    <2> QED BY <2>1, <2>2, <2>3, <2>4
<1>4. \A n \in Completed(o) : pCopy'[n] = CopyOf(n) /\ pCopy'[n] # NoCopy
    <2> SUFFICES ASSUME NEW n \in Completed(o) PROVE pCopy'[n] = CopyOf(n) /\ pCopy'[n] # NoCopy
        OBVIOUS
    <2>1. pCopy'[n] = CopyOf(n)
        BY <1>1
    <2>2. CopyOf(n) = Lit(CopyOf(n).obj, FALSE) /\ CopyOf(n).obj.op # "none"
        BY <1>3
    <2>3. CopyOf(n) # NoCopy
        BY <2>2, Literals
    <2> QED BY <2>1, <2>3
<1>5. \A u \in Objs \ Completed(o) : pCopy'[u] = pCopy[u]
    BY <1>1
<1>6. Visited' = Visited \cup {o}
    <2>1. ASSUME NEW u \in Objs PROVE u \in Visited' <=> u \in Visited \/ u = o
        <3>1. CASE u \in Completed(o)
            BY <3>1, <1>1, <1>3 DEF Visited
        <3>2. CASE u \notin Completed(o)
            BY <3>2, <1>1, <1>5 DEF Visited, InputsReached
        <3> QED BY <3>1, <3>2
    <2> QED BY <2>1, <1>1 DEF Visited
<1>7. Shape'
    <2>1. que' \subseteq Objs
        BY <1>1 DEF Shape
    <2>2. DOMAIN vMap' \subseteq Ands(ntk)
        BY <1>1 DEF Shape, AndFanouts
    <2>3. pCopy' = [u \in Objs |-> pCopy'[u]]
        BY <1>1
    <2>4. poInfos' = [f \in Frames |-> poInfos'[f]]
        BY VisitStep DEF Shape
    <2> QED BY <1>1, <2>1, <2>2, <2>3, <2>4 DEF Shape, LatIdx, Ands
<1>8. InputsReached'
    <2>1. \A f \in Frames : \A u \in InputsOf(f) : u \in Objs \ Completed(o)
        <3> SUFFICES ASSUME NEW f \in Frames, NEW i \in 0 .. NPi - 1
                     PROVE  Pi(f, i) \in Objs \ Completed(o)
            BY DEF InputsOf
        <3>1. Pi(f, i) \in 1 .. NCi
            BY InputsOfFrames
        <3>2. Pi(f, i) \notin Ands(ntk)
            BY <3>1, Fanins
        <3> QED BY <3>1, <3>2, <1>3 DEF Objs
    <2>2. Const1 \in Objs \ Completed(o)
        BY <1>3, Fanins DEF Objs
    <2>3. \A u \in que' : pCopy'[u] # NoCopy
        BY <1>1, <1>4, <1>5 DEF InputsReached, Shape
    <2>4. \A f \in Frames : InputsOf(f)' = InputsOf(f)
        BY DEF InputsOf, Pi
    <2> QED BY <1>1, <1>5, <2>1, <2>2, <2>3, <2>4 DEF InputsReached
<1>9. WaitsForOther'
    <2>1. ASSUME NEW n \in Ands(ntk)
          PROVE  /\ n \in DOMAIN vMap' <=>
                       (\E u \in FaninObjs(ntk, n) : u \in Visited')
                         /\ ~ \A u \in FaninObjs(ntk, n) : u \in Visited'
                 /\ n \in DOMAIN vMap' => vMap'[n] \in FaninObjs(ntk, n) /\ vMap'[n] \in Visited'
                 /\ pCopy'[n] # NoCopy <=> \A u \in FaninObjs(ntk, n) : u \in Visited'
        <3>0. /\ n \in DOMAIN vMap <=>
                       (\E u \in FaninObjs(ntk, n) : u \in Visited)
                         /\ ~ \A u \in FaninObjs(ntk, n) : u \in Visited
              /\ n \in DOMAIN vMap => vMap[n] \in FaninObjs(ntk, n) /\ vMap[n] \in Visited
              /\ pCopy[n] # NoCopy <=> \A u \in FaninObjs(ntk, n) : u \in Visited
              /\ n \in Objs
            BY Fanins DEF WaitsForOther
        <3>1. CASE n \in Completed(o)
            BY <3>1, <1>3, <1>4, <1>6
        <3>2. CASE n \notin AndFanouts(ntk, o)
            <4>1. n \notin Completed(o) /\ o \notin FaninObjs(ntk, n)
                BY <3>2 DEF Completed, AndFanouts
            <4>2. \A u \in FaninObjs(ntk, n) : u \in Visited' <=> u \in Visited
                BY <4>1, <1>6
            <4>3. (n \in DOMAIN vMap' <=> n \in DOMAIN vMap) /\ (n \in DOMAIN vMap => vMap'[n] = vMap[n])
                BY <3>2, <4>1, <1>1
            <4>4. pCopy'[n] = pCopy[n]
                BY <4>1, <3>0, <1>5
            <4> QED BY <3>0, <4>2, <4>3, <4>4
        <3>3. CASE n \in AndFanouts(ntk, o) /\ n \in DOMAIN vMap
            <4>1. vMap[n] # o
                BY <3>0, <3>3, <1>1
            <4>2. n \in Completed(o)
                BY <3>3, <4>1 DEF Completed
            <4> QED BY <4>2, <3>1
        <3>4. CASE n \in AndFanouts(ntk, o) /\ n \notin DOMAIN vMap
            <4>1. n \notin Completed(o) /\ o \in FaninObjs(ntk, n)
                BY <3>4 DEF Completed, AndFanouts
            <4>2. \A u \in FaninObjs(ntk, n) : u \notin Visited
                BY <3>0, <3>4, <4>1, <1>1
            <4>3. PICK u \in FaninObjs(ntk, n) : u # o
                <5>1. /\ FaninObjs(ntk, n) = {ntk.fan[n][1].obj, ntk.fan[n][2].obj}
                      /\ ntk.fan[n][1].obj # ntk.fan[n][2].obj
                    BY Fanins
                <5> QED BY <5>1
            <4>4. u \notin Visited' /\ o \in Visited'
                BY <4>2, <4>3, <1>6
            <4>5. n \in DOMAIN vMap' /\ vMap'[n] = o
                BY <3>4, <1>1
            <4>6. pCopy'[n] = NoCopy
                BY <3>0, <4>1, <4>2, <1>5
            <4> QED BY <4>1, <4>3, <4>4, <4>5, <4>6
        <3> QED BY <3>2, <3>3, <3>4
    <2>2. Ands(ntk') = Ands(ntk) /\ \A n \in Ands(ntk) : FaninObjs(ntk', n) = FaninObjs(ntk, n)
        BY <1>1
    <2> QED BY <2>1, <2>2 DEF WaitsForOther
<1>10. OneLoadPerFrame'
    BY <1>1 DEF OneLoadPerFrame, LatIdx
<1>11. \A f \in Frames : poInfos'[f] = poInfos[f] \cup
          {p \in {<<k, ChildCopy(pCopy, ntk.po[k])>> : k \in PoFanouts(ntk, o)} : f = t}
    <2>1. DOMAIN poInfos = Frames
        BY DEF Shape
    <2>2. poInfos' = [poInfos EXCEPT ![t] = @ \cup
              {<<k, ChildCopy(pCopy, ntk.po[k])>> : k \in PoFanouts(ntk, o)}]
        BY VisitStep
    <2> QED BY <2>1, <2>2
<1>12. PosOnce'
    <2>0. PoIdx(ntk') = PoIdx(ntk)
        BY <1>1
    <2>1. \A f \in Frames : \A p \in poInfos[f] : ntk.po[p[1]].obj \in Visited
        BY DEF PosOnce
    <2>2. \A f \in Frames : \A p \in poInfos'[f] :
              \/ p \in poInfos[f]
              \/ /\ f = t /\ p[1] \in PoIdx(ntk) /\ ntk.po[p[1]].obj = o
                 /\ p = <<p[1], ChildCopy(pCopy, ntk.po[p[1]])>>
        BY <1>11 DEF PoFanouts
    <2>3. \A f, g \in Frames : \A p \in poInfos'[f], q \in poInfos'[g] :
              p[1] = q[1] => f = g /\ p = q
        <3> SUFFICES ASSUME NEW f \in Frames, NEW g \in Frames,
                            NEW p \in poInfos'[f], NEW q \in poInfos'[g], p[1] = q[1]
                     PROVE  f = g /\ p = q
            OBVIOUS
        <3>1. CASE ntk.po[p[1]].obj = o
            <4>1. p \notin poInfos[f] /\ q \notin poInfos[g]
                BY <3>1, <2>1, <1>1
            <4> QED BY <4>1, <2>2
        <3>2. CASE ntk.po[p[1]].obj # o
            <4>1. p \in poInfos[f] /\ q \in poInfos[g]
                BY <3>2, <2>2
            <4> QED BY <4>1 DEF PosOnce
        <3> QED BY <3>1, <3>2
    <2>4. \A f \in Frames : \A p \in poInfos'[f] : ntk.po[p[1]].obj \in Visited'
        BY <2>1, <2>2, <1>6
    <2>5. \A k \in PoIdx(ntk) : ntk.po[k].obj \in Visited' =>
              \E f \in Frames : \E p \in poInfos'[f] : p[1] = k
        <3> SUFFICES ASSUME NEW k \in PoIdx(ntk), ntk.po[k].obj \in Visited'
                     PROVE  \E f \in Frames : \E p \in poInfos'[f] : p[1] = k
            OBVIOUS
        <3>1. CASE ntk.po[k].obj \in Visited
            <4>1. PICK f \in Frames : \E p \in poInfos[f] : p[1] = k
                BY <3>1 DEF PosOnce
            <4> QED BY <4>1, <1>11
        <3>2. CASE ntk.po[k].obj = o
            <4>1. k \in PoFanouts(ntk, o)
                BY <3>2 DEF PoFanouts
            <4>2. <<k, ChildCopy(pCopy, ntk.po[k])>> \in poInfos'[t]
                BY <4>1, <1>1, <1>11
            <4> QED BY <4>2, <1>1
        <3> QED BY <3>1, <3>2, <1>6
    <2> QED BY <2>0, <2>3, <2>4, <2>5, <1>1 DEF PosOnce
<1>13. \E E : Meaning(E)'
    <2>1. /\ Justified(D) /\ AndsKnown(D) /\ LoadsKnown(D) /\ PosKnown(D)
          /\ \A m, u : <<t, m, u>> \in D => pCopy[u] = Lit(m, FALSE)
          /\ \A u, v, m : <<t, m, u>> \in D /\ <<t, m, v>> \in D => u = v
          /\ \A u \in que \cup Waiting : <<t, pCopy[u].obj, u>> \in D
        BY <1>1, <1>2 DEF Meaning, Current
    <2>2. PICK N : N = {<<t, CopyOf(n).obj, n>> : n \in Completed(o)}
        OBVIOUS
    <2> DEFINE E == D \cup N
    <2>3. ASSUME NEW f, NEW m, NEW n, <<f, m, n>> \in N
          PROVE  /\ f = t /\ n \in Completed(o) /\ n \in Ands(ntk) /\ n \in Objs
                 /\ m \in aig' /\ m.op = "and" /\ pCopy'[n] = Lit(m, FALSE) /\ MadeOf(D, t, m, n)
        <3>1. f = t /\ m = CopyOf(n).obj /\ n \in Completed(o)
            BY <2>2, <2>3
        <3>2. m.op = "and" /\ pCopy'[n] = Lit(m, FALSE) /\ MadeOf(D, t, m, n) /\ n \in Ands(ntk) /\ n \in Objs
            BY <3>1, <1>1, <1>3, <1>4
        <3>3. aig' = aig \cup {a \in {CopyOf(k).obj : k \in Completed(o)} : a.op = "and"}
            BY VisitStep
        <3>4. m \in aig'
            BY <3>1, <3>2, <3>3
        <3> QED BY <3>1, <3>2, <3>4
    <2>4. Justified(E)'
        <3>1. ASSUME NEW f, NEW m, NEW u, <<f, m, u>> \in E
              PROVE  f \in 0 .. t /\ u \in Objs /\ StandsFor(E, f, m, u)'
            <4>1. CASE <<f, m, u>> \in D
                <5>1. f \in 0 .. t /\ u \in Objs /\ StandsFor(D, f, m, u)
                    BY <4>1, <2>1 DEF Justified
                <5>2. aig \subseteq aig' /\ LatIdx' = LatIdx
                    BY <1>1, VisitStep DEF LatIdx
                <5> QED BY <5>1, <5>2, <1>1, StandsForever
            <4>2. CASE <<f, m, u>> \in N
                <5>1. f = t /\ u \in Ands(ntk) /\ u \in Objs /\ m \in aig'
                    BY <4>2, <2>3
                <5>2. MadeOf(D, t, m, u)
                    BY <4>2, <2>3
                <5>3. MadeOf(E, t, m, u)'
                    BY <5>2, <1>1 DEF MadeOf
                <5>5. StandsFor(E, f, m, u)'
                    BY <5>1, <5>3, <1>1 DEF StandsFor, Ands
                <5>4. t \in 0 .. t
                    BY DEF Shape
                <5> QED BY <5>1, <5>5, <5>4
            <4> QED BY <3>1, <4>1, <4>2
        <3> QED BY <3>1, <1>1 DEF Justified
    <2>5. Current(E)'
        <3>1. \A m, u : <<t, m, u>> \in D => u \in Objs /\ pCopy'[u] = pCopy[u]
            <4> SUFFICES ASSUME NEW m, NEW u, <<t, m, u>> \in D PROVE u \in Objs /\ pCopy'[u] = pCopy[u]
                OBVIOUS
            <4>1. u \in Objs
                BY <2>1 DEF Justified
            <4>2. pCopy[u] = Lit(m, FALSE) /\ m.op # "none"
                BY <2>1, KnownKinds
            <4>3. pCopy[u] # NoCopy
                BY <4>2, Literals
            <4>4. u \notin Completed(o)
                BY <4>3, <1>3
            <4> QED BY <4>1, <4>4, <1>5
        <3>2. \A m, u : <<t, m, u>> \in E => pCopy'[u] = Lit(m, FALSE)
            BY <2>1, <2>3, <3>1
        <3>3. ASSUME NEW m, NEW n, NEW u, <<t, m, n>> \in N, <<t, m, u>> \in E PROVE n = u
            <4>1. n \in Ands(ntk) /\ MadeOf(D, t, m, n) /\ m.op = "and"
                BY <3>3, <2>3
            <4>2. u \in Ands(ntk) /\ MadeOf(D, t, m, u)
                <5>1. CASE <<t, m, u>> \in N
                    BY <5>1, <2>3
                <5>2. CASE <<t, m, u>> \in D
                    <6>1. StandsFor(D, t, m, u)
                        BY <5>2, <2>1 DEF Justified
                    <6>2. m # MuxConst1 /\ (\A i : m # MuxPi(i)) /\ (\A l : m # MuxBo(l))
                        BY <4>1, KindsDiffer
                    <6> QED BY <6>1, <6>2 DEF StandsFor
                <5> QED BY <3>3, <5>1, <5>2
            <4> QED BY <2>1, <4>1, <4>2, SameStructure
        <3>4. \A u, v, m : <<t, m, u>> \in E /\ <<t, m, v>> \in E => u = v
            <4> SUFFICES ASSUME NEW u, NEW v, NEW m, <<t, m, u>> \in E, <<t, m, v>> \in E PROVE u = v
                OBVIOUS
            <4>1. CASE <<t, m, u>> \in N
                BY <4>1, <3>3
            <4>2. CASE <<t, m, v>> \in N
                BY <4>2, <3>3
            <4>3. CASE <<t, m, u>> \in D /\ <<t, m, v>> \in D
                BY <4>3, <2>1
            <4> QED BY <4>1, <4>2, <4>3
        <3>5. \A u \in que' \cup Waiting' : <<t, pCopy'[u].obj, u>> \in E
            <4> SUFFICES ASSUME NEW u \in que' \cup Waiting' PROVE <<t, pCopy'[u].obj, u>> \in E
                OBVIOUS
            <4>1. CASE u \in que \cup Waiting
                BY <4>1, <2>1, <3>1
            <4>2. CASE u \in Completed(o)
                <5>1. <<t, CopyOf(u).obj, u>> \in N
                    BY <4>2, <2>2
                <5> QED BY <4>2, <5>1, <1>4
            <4>3. u \in que \cup Waiting \/ u \in Completed(o)
                BY <1>1, VisitStep
            <4> QED BY <4>1, <4>2, <4>3
        <3> HIDE DEF E
        <3> QED BY <3>2, <3>4, <3>5, <1>1 DEF Current
    <2>6. AndsKnown(E)'
        <3> SUFFICES ASSUME NEW m \in aig' PROVE m.op = "and" /\ \E f, u : <<f, m, u>> \in E
            BY DEF AndsKnown
        <3>1. CASE m \in aig
            BY <3>1, <2>1 DEF AndsKnown
        <3>2. CASE m.op = "and" /\ \E n \in Completed(o) : m = CopyOf(n).obj
            BY <3>2, <2>2
        <3>3. aig' = aig \cup {a \in {CopyOf(k).obj : k \in Completed(o)} : a.op = "and"}
            BY VisitStep
        <3> QED BY <3>1, <3>2, <3>3
    <2>7. LoadsKnown(E)'
        <3> SUFFICES ASSUME NEW l \in LatIdx, NEW p \in lats[l]
                     PROVE  \E f \in 0 .. t - 1 : \E m, u : p = <<f, Lit(m, FALSE)>> /\ <<f, m, u>> \in E
            BY ZenonT(60), <1>1 DEF LoadsKnown, LatIdx
        <3>1. LoadsKnown(D)
            BY <2>1
        <3>2. \E f \in 0 .. t - 1 : \E m, u : p = <<f, Lit(m, FALSE)>> /\ <<f, m, u>> \in D
            BY <3>1 DEF LoadsKnown
        <3> QED BY <3>2
    <2>8. PosKnown(E)'
        <3> SUFFICES ASSUME NEW f \in Frames, NEW p \in poInfos'[f]
                     PROVE  \E k \in PoIdx(ntk) : \E m :
                               p = <<k, Lit(m, ntk.po[k].neg)>> /\ <<f, m, ntk.po[k].obj>> \in E
            BY <1>1 DEF PosKnown, PoIdx
        <3>1. CASE p \in poInfos[f]
            BY <3>1, <2>1 DEF PosKnown
        <3>2. CASE f = t /\ \E k \in PoFanouts(ntk, o) : p = <<k, ChildCopy(pCopy, ntk.po[k])>>
            <4>1. PICK k \in PoFanouts(ntk, o) : p = <<k, ChildCopy(pCopy, ntk.po[k])>>
                BY <3>2
            <4>2. k \in PoIdx(ntk) /\ ntk.po[k].obj = o
                BY DEF PoFanouts
            <4>3. ntk.po[k].neg \in BOOLEAN
                BY <4>2, StructuralFoldAssumption DEF Shape, IsStrashed
            <4>4. <<t, pCopy[o].obj, o>> \in D /\ pCopy[o] = Lit(pCopy[o].obj, FALSE)
                BY <1>1, <2>1
            <4>5. ChildCopy(pCopy, ntk.po[k]) = Lit(pCopy[o].obj, ntk.po[k].neg)
                BY <4>2, <4>3, <4>4, ChildOfCopy
            <4> QED BY <3>2, <4>1, <4>2, <4>4, <4>5
        <3> QED BY <3>1, <3>2, <1>11
    <2> QED BY <2>4, <2>5, <2>6, <2>7, <2>8 DEF Meaning
<1> QED BY <1>7, <1>8, <1>9, <1>10, <1>12, <1>13

-----------------------------------------------------------------------------
(* Which latches are free.                                                 *)

\* Of the numbers below n + u those not in H, and the first u of them.
FreeOf(n, u, H)  == {l \in 0 .. n + u - 1 : l \notin H}
FirstOf(n, u, H) == {l \in FreeOf(n, u, H) : Cardinality({m \in FreeOf(n, u, H) : m < l}) < u}

LEMMA FiniteInterval == \A n \in Nat : IsFiniteSet(0 .. n - 1) /\ Cardinality(0 .. n - 1) = n
<1> SUFFICES ASSUME NEW n \in Nat PROVE IsFiniteSet(0 .. n - 1) /\ Cardinality(0 .. n - 1) = n
    OBVIOUS
<1>1. IsFiniteSet(0 .. n - 1) /\ Cardinality(0 .. n - 1) = IF 0 > n - 1 THEN 0 ELSE n - 1 - 0 + 1
    BY FS_Interval
<1> QED BY <1>1

\* A set of numbers that has a bound and no gaps is an interval from 0.
LEMMA NoGaps ==
    ASSUME NEW b \in Nat, NEW S \in SUBSET (0 .. b - 1),
           \A l \in S : \A m \in Nat : m < l => m \in S
    PROVE  \E n \in Nat : S = 0 .. n - 1
<1> DEFINE T == {n \in Nat : n \notin S}
<1>1. PICK n \in T : \A m \in T : n <= m
    <2>1. T \in SUBSET Nat /\ b \in T
        OBVIOUS
    <2> HIDE DEF T
    <2> QED BY <2>1, LeastNumber
<1>2. \A m \in 0 .. n - 1 : m \in S
    BY <1>1
<1>3. \A l \in S : l \in 0 .. n - 1
    <2> SUFFICES ASSUME NEW l \in S PROVE l \in 0 .. n - 1
        OBVIOUS
    <2>1. l \in Nat /\ n \in Nat /\ n \notin S
        BY <1>1
    <2>2. ~ (n < l) /\ n # l
        BY <2>1
    <2> QED BY <2>1, <2>2
<1> QED BY <1>1, <1>2, <1>3

\* Taking the first free numbers leaves no gap above the numbers in use.
LEMMA FirstLeavesNoGap ==
    ASSUME NEW n \in Nat, NEW u \in Nat, NEW H \in SUBSET (0 .. n - 1)
    PROVE  /\ FirstOf(n, u, H) \subseteq (0 .. n + u - 1) \ H
           /\ \E k \in Nat : (0 .. n - 1) \cup FirstOf(n, u, H) = 0 .. k - 1
<1> DEFINE F == FreeOf(n, u, H)
           S == (0 .. n - 1) \cup FirstOf(n, u, H)
<1>1. FirstOf(n, u, H) \subseteq F /\ F = (0 .. n + u - 1) \ H
    BY DEF FirstOf, FreeOf
<1>2. IsFiniteSet(F)
    <2>1. IsFiniteSet(0 .. n + u - 1)
        BY FiniteInterval
    <2>2. F \in SUBSET (0 .. n + u - 1)
        BY <1>1
    <2> QED BY <2>1, <2>2, FS_Subset
<1>3. ASSUME NEW l \in S, NEW m \in Nat, m < l PROVE m \in S
    <2>1. CASE l \in 0 .. n - 1
        BY <2>1, <1>3
    <2>2. CASE l \in FirstOf(n, u, H)
        <3> DEFINE Below(k) == {j \in F : j < k}
        <3>1. l \in F /\ l \in 0 .. n + u - 1 /\ Cardinality(Below(l)) < u
            BY <2>2, <1>1 DEF FirstOf
        <3>2. CASE m \in H
            BY <3>2
        <3>3. CASE m \notin H
            <4>1. m \in F
                BY <3>1, <3>3, <1>1, <1>3
            <4>2. Below(l) \in SUBSET F /\ Below(m) \in SUBSET Below(l)
                BY <1>3, <3>1, <1>1
            <4>3. IsFiniteSet(Below(l))
                BY <4>2, <1>2, FS_Subset
            <4>4. Cardinality(Below(m)) <= Cardinality(Below(l)) /\ IsFiniteSet(Below(m))
                BY <4>2, <4>3, FS_Subset
            <4>5. Cardinality(Below(m)) \in Nat /\ Cardinality(Below(l)) \in Nat
                BY <4>3, <4>4, FS_CardinalityType
            <4>6. Cardinality(Below(m)) < u
                BY <3>1, <4>4, <4>5
            <4>7. m \in FirstOf(n, u, H)
                BY <4>1, <4>6 DEF FirstOf
            <4> QED BY <4>7
        <3> QED BY <3>2, <3>3
    <2> QED BY <2>1, <2>2
<1>4. S \in SUBSET (0 .. n + u - 1)
    BY <1>1
<1>5. PICK b \in Nat : b = n + u
    OBVIOUS
<1>6. \E k \in Nat : S = 0 .. k - 1
    <2>1. \A l \in S : \A m \in Nat : m < l => m \in S
        BY <1>3
    <2>2. S \in SUBSET (0 .. b - 1)
        BY <1>4, <1>5
    <2> HIDE DEF S
    <2> QED BY <2>1, <2>2, NoGaps
<1> QED BY <1>1, <1>6

\* If u numbers are taken, those in use and those taken are as many as are
\* needed, or as there were.
LEMMA FirstAreEnough ==
    ASSUME NEW n \in Nat, NEW u \in Nat, NEW H \in SUBSET (0 .. n - 1), NEW h,
           h = Cardinality(H), Cardinality(FirstOf(n, u, H)) = u
    PROVE  Cardinality((0 .. n - 1) \cup FirstOf(n, u, H)) = IF h + u > n THEN h + u ELSE n
<1> DEFINE F == FreeOf(n, u, H)
           First == FirstOf(n, u, H)
           Below(k) == {j \in F : j < k}
           Gaps == (0 .. n - 1) \ H
<1>1. First \subseteq F /\ F = (0 .. n + u - 1) \ H
    BY DEF FirstOf, FreeOf
<1>2. /\ IsFiniteSet(F) /\ IsFiniteSet(First) /\ IsFiniteSet(H) /\ IsFiniteSet(0 .. n - 1)
      /\ \A k : IsFiniteSet(Below(k))
    <2>0. n + u \in Nat
        OBVIOUS
    <2>1. IsFiniteSet(0 .. n + u - 1) /\ IsFiniteSet(0 .. n - 1)
        BY <2>0, FiniteInterval
    <2>2. F \in SUBSET (0 .. n + u - 1) /\ First \in SUBSET F /\ \A k : Below(k) \in SUBSET F
        BY <1>1
    <2>3. IsFiniteSet(F)
        BY <2>1, <2>2, FS_Subset
    <2> QED BY <2>1, <2>2, <2>3, FS_Subset
<1>3. h \in Nat /\ h <= n
    <2>1. Cardinality(0 .. n - 1) = n
        BY FiniteInterval
    <2> QED BY <1>2, <2>1, FS_Subset, FS_CardinalityType
<1>4. IsFiniteSet(Gaps) /\ Cardinality(Gaps) = n - h
    <2>1. (0 .. n - 1) \cap H = H
        OBVIOUS
    <2>2. IsFiniteSet(Gaps) /\ Cardinality(Gaps) = Cardinality(0 .. n - 1) - Cardinality((0 .. n - 1) \cap H)
        BY <1>2, FS_Difference
    <2> QED BY <2>1, <2>2, FiniteInterval
<1>5. CASE h + u > n
    <2>1. ASSUME NEW l \in Gaps PROVE l \in First
        <3>1. l \in F /\ l < n /\ l \in Nat
            BY <2>1, <1>1
        <3>2. Below(l) \in SUBSET (Gaps \ {l})
            BY <1>1, <3>1
        <3>3. IsFiniteSet(Gaps \ {l}) /\ Cardinality(Gaps \ {l}) = n - h - 1
            <4> HIDE DEF Gaps
            <4> QED BY <1>4, <2>1, FS_RemoveElement
        <3>4. Cardinality(Below(l)) <= n - h - 1 /\ Cardinality(Below(l)) \in Nat
            BY <3>2, <3>3, <1>2, FS_Subset, FS_CardinalityType
        <3>5. Cardinality(Below(l)) < u
            BY <3>4, <1>3, <1>5
        <3> QED BY <3>1, <3>5 DEF FirstOf
    <2>2. (0 .. n - 1) \cup First = H \cup First
        BY <2>1
    <2>3. H \cap First = {}
        BY <1>1
    <2>4. Cardinality(H \cup First) = Cardinality(H) + Cardinality(First) - Cardinality(H \cap First)
        BY <1>2, FS_Union
    <2>6. Cardinality(H \cap First) = 0
        BY <2>3, FS_EmptySet
    <2>7. Cardinality(First) = u
        OBVIOUS
    <2>5. Cardinality(H \cup First) = h + u
        BY <2>4, <2>6, <2>7, <1>3
    <2> QED BY <2>2, <2>5, <1>5
<1>6. CASE ~ (h + u > n)
    <2>1. ASSUME NEW l \in First PROVE l \in 0 .. n - 1
        <3> SUFFICES ASSUME l \notin 0 .. n - 1 PROVE FALSE
            OBVIOUS
        <3>1. l \in Nat /\ l >= n /\ Cardinality(Below(l)) < u
            BY <2>1, <1>1 DEF FirstOf
        <3>2. Gaps \in SUBSET Below(l)
            BY <3>1, <1>1
        <3>3. Cardinality(Gaps) <= Cardinality(Below(l)) /\ Cardinality(Below(l)) \in Nat
            BY <3>2, <1>2, FS_Subset, FS_CardinalityType
        <3> QED BY <3>1, <3>3, <1>4, <1>3, <1>6
    <2>2. (0 .. n - 1) \cup First = 0 .. n - 1
        BY <2>1
    <2> QED BY <2>2, <1>6, FiniteInterval
<1> QED BY <1>5, <1>6

-----------------------------------------------------------------------------
(* A frame ends.                                                           *)

\* Where what waits is, before it is stored.
LEMMA WaitingFacts ==
    ASSUME BInv, pc = "traverse", que = {}, NEW D, Meaning(D)
    PROVE  /\ \A o \in Waiting : /\ o \in Objs /\ o # Const1 /\ pCopy[o] # NoCopy
                                 /\ <<t, pCopy[o].obj, o>> \in D
                                 /\ pCopy[o] = Lit(pCopy[o].obj, FALSE)
           /\ \A o \in Waiting \ Unstored :
                  /\ pCopy[o].obj.id \in LatIdx /\ pCopy[o] = Lit(MuxBo(pCopy[o].obj.id), FALSE)
           /\ Unstored \subseteq Waiting
           /\ HeldLats \subseteq LatIdx
<1> USE DEF BInv
<1>1. ASSUME NEW o \in Waiting
      PROVE  /\ o \in Objs /\ o # Const1 /\ pCopy[o] # NoCopy
             /\ <<t, pCopy[o].obj, o>> \in D
             /\ pCopy[o] = Lit(pCopy[o].obj, FALSE)
    <2>1. PICK n \in DOMAIN vMap : o = vMap[n]
        BY DEF Waiting
    <2>2. n \in Ands(ntk)
        BY DEF Shape
    <2>3. o \in FaninObjs(ntk, n) /\ o \in Visited
        BY <2>1, <2>2 DEF WaitsForOther
    <2>4. o # Const1
        BY <2>2, <2>3, Fanins
    <2>5. o \in Objs /\ pCopy[o] # NoCopy
        BY <2>3 DEF Visited
    <2>6. <<t, pCopy[o].obj, o>> \in D
        BY DEF Meaning, Current
    <2>7. pCopy[o] = Lit(pCopy[o].obj, FALSE)
        BY <2>6 DEF Meaning, Current
    <2> QED BY <2>4, <2>5, <2>6, <2>7
<1>2. ASSUME NEW o \in Waiting \ Unstored
      PROVE  pCopy[o].obj.id \in LatIdx /\ pCopy[o] = Lit(MuxBo(pCopy[o].obj.id), FALSE)
    <2> DEFINE m == pCopy[o].obj
    <2>1. m.op = "bo"
        BY DEF Unstored, IsBo
    <2>2. StandsFor(D, t, m, o)
        <3>1. <<t, m, o>> \in D
            BY <1>1
        <3>2. Justified(D)
            BY DEF Meaning
        <3> HIDE DEF m
        <3> QED BY <3>1, <3>2 DEF Justified
    <2>3. m # MuxConst1 /\ (\A i : m # MuxPi(i)) /\ m \notin aig
        <3>1. AndsKnown(D)
            BY DEF Meaning
        <3> HIDE DEF m
        <3> QED BY <2>1, <3>1, KindsDiffer DEF AndsKnown
    <2>4. PICK l \in LatIdx : m = MuxBo(l)
        <3> HIDE DEF m
        <3> QED BY <2>2, <2>3 DEF StandsFor
    <2>5. m.id = l
        <3> HIDE DEF m
        <3> QED BY <2>4, KindsDiffer
    <2>6. m = MuxBo(m.id) /\ m.id \in LatIdx
        <3> HIDE DEF m
        <3> QED BY <2>4, <2>5
    <2>7. pCopy[o] = Lit(m, FALSE)
        BY <1>1
    <2>8. pCopy[o] = Lit(MuxBo(m.id), FALSE)
        <3> HIDE DEF m
        <3> QED BY <2>6, <2>7
    <2> QED BY <2>6, <2>8
<1>3. HeldLats \subseteq LatIdx
    BY <1>2 DEF HeldLats
<1>4. Unstored \subseteq Waiting
    BY DEF Unstored
<1> QED BY <1>1, <1>2, <1>3, <1>4

\* The numbers of latches and of objects without one.
LEMMA LatchNumbers ==
    ASSUME BInv, NEW D, Meaning(D), pc = "traverse", que = {}
    PROVE  /\ IsFiniteSet(Waiting) /\ IsFiniteSet(Unstored) /\ Cardinality(Unstored) \in Nat
           /\ Cardinality(LatIdx) \in Nat /\ LatIdx = 0 .. Cardinality(LatIdx) - 1
           /\ HeldLats \in SUBSET (0 .. Cardinality(LatIdx) - 1)
           /\ FirstFreeLats = FirstOf(Cardinality(LatIdx), Cardinality(Unstored), HeldLats)
<1> USE DEF BInv
<1>1. IsFiniteSet(Waiting)
    <2> DEFINE Left == {ntk.fan[n][1].obj : n \in Ands(ntk)}
               Right == {ntk.fan[n][2].obj : n \in Ands(ntk)}
    <2>1. IsFiniteSet(Ands(ntk))
        BY StructuralFoldAssumption DEF Shape, IsStrashed
    <2>2. IsFiniteSet(Left)
        <3>1. [n \in Ands(ntk) |-> ntk.fan[n][1].obj] \in Surjection(Ands(ntk), Left)
            BY DEF Surjection
        <3> QED BY <2>1, <3>1, FS_Surjection
    <2>3. IsFiniteSet(Right)
        <3>1. [n \in Ands(ntk) |-> ntk.fan[n][2].obj] \in Surjection(Ands(ntk), Right)
            BY DEF Surjection
        <3> QED BY <2>1, <3>1, FS_Surjection
    <2>4. IsFiniteSet(Left \cup Right)
        BY <2>2, <2>3, FS_Union
    <2>5. Waiting \in SUBSET (Left \cup Right)
        <3> SUFFICES ASSUME NEW n \in DOMAIN vMap PROVE vMap[n] \in Left \cup Right
            BY DEF Waiting
        <3>1. n \in Ands(ntk)
            BY DEF Shape
        <3>2. vMap[n] \in FaninObjs(ntk, n)
            BY <3>1 DEF WaitsForOther
        <3> QED BY <3>1, <3>2 DEF FaninObjs
    <2> QED BY <2>4, <2>5, FS_Subset
<1>2. Unstored \in SUBSET Waiting
    BY DEF Unstored
<1>3. IsFiniteSet(Unstored) /\ Cardinality(Unstored) \in Nat
    BY <1>1, <1>2, FS_Subset, FS_CardinalityType
<1>4. PICK n \in Nat : LatIdx = 0 .. n - 1
    BY DEF Shape
<1>5. Cardinality(LatIdx) = n
    BY <1>4, FiniteInterval
<1>6. HeldLats \subseteq LatIdx
    BY WaitingFacts
<1>7. FirstFreeLats = FirstOf(Cardinality(LatIdx), Cardinality(Unstored), HeldLats)
    BY DEF FirstFreeLats, FreeLats, FirstOf, FreeOf
<1> QED BY <1>1, <1>3, <1>4, <1>5, <1>6, <1>7

\* The latches an object may be put into are not the ones that hold another,
\* and leave no gap.
LEMMA TargetFacts ==
    ASSUME BInv, pc = "traverse", que = {}, NEW D, Meaning(D),
           NEW target, target = (IF mff THEN FirstFreeLats ELSE NewLats)
    PROVE  /\ target \cap HeldLats = {}
           /\ ~ mff => target \cap LatIdx = {}
           /\ \E n \in Nat : LatIdx \cup target = 0 .. n - 1
<1> DEFINE n == Cardinality(LatIdx)
           u == Cardinality(Unstored)
<1>1. /\ n \in Nat /\ u \in Nat /\ LatIdx = 0 .. n - 1 /\ HeldLats \in SUBSET (0 .. n - 1)
      /\ FirstFreeLats = FirstOf(n, u, HeldLats) /\ NewLats = n .. n + u - 1
    BY LatchNumbers DEF NewLats
<1>2. CASE mff
    <2>1. target = FirstOf(n, u, HeldLats)
        BY <1>1, <1>2
    <2> HIDE DEF n, u
    <2>2. /\ FirstOf(n, u, HeldLats) \subseteq (0 .. n + u - 1) \ HeldLats
          /\ \E k \in Nat : (0 .. n - 1) \cup FirstOf(n, u, HeldLats) = 0 .. k - 1
        BY <1>1, FirstLeavesNoGap
    <2> QED BY <1>1, <1>2, <2>1, <2>2
<1>3. CASE ~ mff
    <2>1. target = n .. n + u - 1
        BY <1>1, <1>3
    <2> HIDE DEF n, u
    <2>2. LatIdx \cup target = 0 .. (n + u) - 1 /\ n + u \in Nat
        BY <1>1, <2>1
    <2>3. target \cap LatIdx = {} /\ target \cap HeldLats = {}
        BY <1>1, <2>1
    <2> QED BY <2>2, <2>3
<1> QED BY <1>1, <1>2, <1>3

\* What Store does, with the latch each object is put into.
StoredAt(place, target) ==
    /\ target = (IF mff THEN FirstFreeLats ELSE NewLats)
    /\ place \in Bijection(Unstored, target)
    /\ lats' = [l \in LatIdx \cup target |->
          (IF l \in LatIdx THEN lats[l] ELSE {})
             \cup {<<t, pCopy[o]>> : o \in Loaded(place, l)}]
    /\ pCopy' = [o \in Objs |->
          IF o \in Unstored THEN Lit(MuxBo(place[o]), FALSE) ELSE pCopy[o]]

\* How the latches and the copies change.
LEMMA StoredLats ==
    ASSUME BInv, NEW D, Meaning(D), Store, NEW place, NEW target, StoredAt(place, target)
    PROVE  /\ LatIdx' = LatIdx \cup target
           /\ \A o \in Unstored : place[o] \in target
           /\ \A o, u \in Unstored : place[o] = place[u] => o = u
           /\ \A l \in LatIdx : lats[l] \subseteq lats'[l] /\ \A p \in lats[l] : p[1] # t
           /\ \A l \in LatIdx' : \A p \in lats'[l] :
                  \/ l \in LatIdx /\ p \in lats[l]
                  \/ \E o \in Loaded(place, l) : o \in Waiting /\ p = <<t, pCopy[o]>>
           /\ \A l \in LatIdx' : \A o \in Loaded(place, l) : <<t, pCopy[o]>> \in lats'[l]
           /\ \A o \in Unstored : pCopy'[o] = Lit(MuxBo(place[o]), FALSE) /\ pCopy'[o] # NoCopy
           /\ \A o \in Objs \ Unstored : pCopy'[o] = pCopy[o]
<1> USE DEF BInv
<1>0. Unstored \subseteq Waiting /\ Unstored \subseteq Objs /\ pc = "traverse" /\ que = {}
    BY WaitingFacts DEF Store
<1>1. /\ LatIdx' = LatIdx \cup target
      /\ \A l \in LatIdx' : lats'[l] = (IF l \in LatIdx THEN lats[l] ELSE {})
                                       \cup {<<t, pCopy[o]>> : o \in Loaded(place, l)}
    BY DEF StoredAt, LatIdx
<1>2. place \in Injection(Unstored, target)
    BY DEF StoredAt, Bijection
<1>3. place \in [Unstored -> target] /\ \A o, u \in Unstored : place[o] = place[u] => o = u
    BY <1>2 DEF Injection, IsInjective
<1>4. \A l \in LatIdx : \A p \in lats[l] : p[1] # t
    <2> SUFFICES ASSUME NEW l \in LatIdx, NEW p \in lats[l] PROVE p[1] # t
        OBVIOUS
    <2>1. LoadsKnown(D)
        BY DEF Meaning
    <2>2. PICK f \in 0 .. t - 1 : \E m, u : p = <<f, Lit(m, FALSE)>> /\ <<f, m, u>> \in D
        BY <2>1 DEF LoadsKnown
    <2>3. t \in Nat
        BY NCiNat DEF Shape
    <2> QED BY <2>2, <2>3
<1>5. \A l \in LatIdx' : \A o \in Loaded(place, l) : o \in Waiting
    BY <1>0 DEF Loaded
<1>6. \A l \in LatIdx' : \A p \in lats'[l] :
          \/ l \in LatIdx /\ p \in lats[l]
          \/ \E o \in Loaded(place, l) : o \in Waiting /\ p = <<t, pCopy[o]>>
    BY <1>1, <1>5
<1>7. ASSUME NEW o \in Unstored
      PROVE  pCopy'[o] = Lit(MuxBo(place[o]), FALSE) /\ pCopy'[o] # NoCopy
    <2>1. pCopy'[o] = Lit(MuxBo(place[o]), FALSE)
        BY <1>0 DEF StoredAt
    <2>2. MuxBo(place[o]).op # "none"
        BY KindsDiffer
    <2> QED BY <2>1, <2>2, Literals
<1>8. \A o \in Objs \ Unstored : pCopy'[o] = pCopy[o]
    BY DEF StoredAt
<1>9. \A l \in LatIdx : lats[l] \subseteq lats'[l]
    BY <1>1
<1>10. \A l \in LatIdx' : \A o \in Loaded(place, l) : <<t, pCopy[o]>> \in lats'[l]
    BY <1>1
<1> QED BY <1>1, <1>3, <1>4, <1>6, <1>7, <1>8, <1>9, <1>10

LEMMA StoreBInv == BInv /\ Store => BInv'
<1> SUFFICES ASSUME BInv, Store PROVE BInv'
    OBVIOUS
<1> USE DEF BInv
<1>1. /\ pc = "traverse" /\ que = {} /\ t \in Nat /\ t < NTimeFrame /\ t \in Frames
      /\ t' = t + 1 /\ pc' = (IF t + 1 = NTimeFrame THEN "po" ELSE "frame")
      /\ ntk' = ntk /\ mff' = mff /\ que' = que /\ vMap' = vMap /\ aig' = aig
      /\ poInfos' = poInfos /\ Objs' = Objs
    BY NCiNat DEF Store, Shape, Frames, Objs, Ands
<1>2. PICK target, place : StoredAt(place, target)
    BY ZenonT(60) DEF Store, StoredAt
<1>3. PICK D : Meaning(D)
    OBVIOUS
<1>4. /\ \A o \in Waiting : /\ o \in Objs /\ o # Const1 /\ pCopy[o] # NoCopy
                             /\ <<t, pCopy[o].obj, o>> \in D
                             /\ pCopy[o] = Lit(pCopy[o].obj, FALSE)
      /\ \A o \in Waiting \ Unstored :
             /\ pCopy[o].obj.id \in LatIdx /\ pCopy[o] = Lit(MuxBo(pCopy[o].obj.id), FALSE)
             /\ pCopy[o].obj.id \in HeldLats
      /\ Unstored \subseteq Waiting
    BY <1>1, <1>3, WaitingFacts DEF HeldLats
<1>5. /\ target \cap HeldLats = {}
      /\ ~ mff => target \cap LatIdx = {}
      /\ \E n \in Nat : LatIdx \cup target = 0 .. n - 1
    BY <1>1, <1>2, <1>3, TargetFacts DEF StoredAt
<1>6. /\ LatIdx' = LatIdx \cup target
      /\ \A o \in Unstored : place[o] \in target
      /\ \A o, u \in Unstored : place[o] = place[u] => o = u
      /\ \A l \in LatIdx : lats[l] \subseteq lats'[l] /\ \A p \in lats[l] : p[1] # t
      /\ \A l \in LatIdx' : \A p \in lats'[l] :
             \/ l \in LatIdx /\ p \in lats[l]
             \/ \E o \in Loaded(place, l) : o \in Waiting /\ p = <<t, pCopy[o]>>
      /\ \A l \in LatIdx' : \A o \in Loaded(place, l) : <<t, pCopy[o]>> \in lats'[l]
      /\ \A o \in Unstored : pCopy'[o] = Lit(MuxBo(place[o]), FALSE) /\ pCopy'[o] # NoCopy
      /\ \A o \in Objs \ Unstored : pCopy'[o] = pCopy[o]
    BY <1>2, <1>3, StoredLats
<1>7. \A o \in Objs : pCopy'[o] = NoCopy <=> pCopy[o] = NoCopy
    BY <1>4, <1>6
<1>8. Visited' = Visited
    <2>1. \A o \in Objs : o \in Visited' <=> o \in Visited
        BY <1>1, <1>7 DEF Visited
    <2> QED BY <2>1, <1>1 DEF Visited
<1>9. Shape'
    <2>1. pCopy' = [o \in Objs |-> pCopy'[o]]
        BY <1>2 DEF StoredAt
    <2>2. t' \in 0 .. NTimeFrame /\ (pc' = "frame" => t' < NTimeFrame) /\ (pc' = "po" => t' = NTimeFrame)
        BY <1>1, NCiNat
    <2>3. DOMAIN vMap' \subseteq Ands(ntk') /\ poInfos' = [f \in Frames |-> poInfos'[f]]
        BY <1>1 DEF Shape
    <2>4. ntk' \in Circuits /\ mff' \in BOOLEAN /\ que' \subseteq Objs' /\ que' = {}
        BY <1>1 DEF Shape
    <2>5. pc' \in {"frame", "po"}
        BY <1>1
    <2> QED BY <1>1, <1>5, <1>6, <2>1, <2>2, <2>3, <2>4, <2>5 DEF Shape
<1>10. InputsReached'
    <2>1. Const1 \in Objs \ Unstored
        BY <1>4 DEF Objs
    <2>2. \A f \in Frames : InputsOf(f)' = InputsOf(f)
        BY DEF InputsOf, Pi
    <2>3. \A f \in Frames : \A o \in InputsOf(f) : o \in Objs
        BY InputsOfFrames DEF InputsOf, Objs
    <2>4. \A f \in Frames : f < t \/ f = t <=> f < t + 1
        BY <1>1 DEF Frames
    <2>5. \A f \in Frames : \A o \in InputsOf(f) : pCopy'[o] # NoCopy <=> f < t + 1
        BY <1>1, <1>7, <2>3, <2>4 DEF InputsReached
    <2> QED BY <1>1, <1>6, <2>1, <2>2, <2>5 DEF InputsReached
<1>11. WaitsForOther'
    <2>1. \A n \in Ands(ntk) : n \in Objs
        BY DEF Objs
    <2>2. \A n \in Ands(ntk) : pCopy'[n] # NoCopy <=> pCopy[n] # NoCopy
        BY <2>1, <1>7
    <2> QED BY <1>1, <1>8, <2>2 DEF WaitsForOther
<1>12. PosOnce'
    <2>1. PoIdx(ntk') = PoIdx(ntk) /\ ntk' = ntk /\ poInfos' = poInfos /\ Visited' = Visited
        BY <1>1, <1>8
    <2>2. PosOnce
        OBVIOUS
    <2>3. \A f, g \in Frames : \A p \in poInfos[f], q \in poInfos[g] :
              p[1] = q[1] => f = g /\ p = q
        BY <2>2 DEF PosOnce
    <2>4. \A f \in Frames : \A p \in poInfos[f] : ntk.po[p[1]].obj \in Visited
        BY <2>2 DEF PosOnce
    <2>5. \A k \in PoIdx(ntk) : ntk.po[k].obj \in Visited =>
              \E f \in Frames : \E p \in poInfos[f] : p[1] = k
        BY <2>2 DEF PosOnce
    <2> HIDE DEF BInv
    <2> QED BY <2>1, <2>3, <2>4, <2>5 DEF PosOnce
<1>13. OneLoadPerFrame'
    <2> SUFFICES ASSUME NEW l \in LatIdx', NEW p \in lats'[l], NEW q \in lats'[l], p[1] = q[1]
                 PROVE  p = q
        BY DEF OneLoadPerFrame
    <2>1. CASE l \in LatIdx /\ p \in lats[l]
        <3>1. p[1] # t
            BY <2>1, <1>6
        <3>2. q \in lats[l]
            BY <3>1, <1>6
        <3> QED BY <2>1, <3>2 DEF OneLoadPerFrame
    <2>2. CASE \E o \in Loaded(place, l) : o \in Waiting /\ p = <<t, pCopy[o]>>
        <3>1. PICK o \in Loaded(place, l) : o \in Waiting /\ p = <<t, pCopy[o]>>
            BY <2>2
        <3>2. PICK u \in Loaded(place, l) : u \in Waiting /\ q = <<t, pCopy[u]>>
            BY <3>1, <1>6
        <3>3. ASSUME NEW v \in Loaded(place, l), v \notin Unstored
              PROVE  v \in Waiting \ Unstored /\ pCopy[v].obj.id = l /\ l \in HeldLats
            BY <3>3, <1>4 DEF Loaded
        <3>4. ASSUME NEW v \in Loaded(place, l), v \in Unstored PROVE place[v] = l /\ l \notin HeldLats
            BY <3>4, <1>5, <1>6 DEF Loaded
        <3>5. pCopy[o] = pCopy[u]
            <4>1. CASE o \in Unstored
                <5>1. u \in Unstored
                    BY <4>1, <3>3, <3>4
                <5>2. o = u
                    BY <4>1, <5>1, <3>4, <1>6
                <5> QED BY <5>2
            <4>2. CASE o \notin Unstored
                <5>1. u \notin Unstored
                    BY <4>2, <3>3, <3>4
                <5>2. pCopy[o] = Lit(MuxBo(l), FALSE)
                    BY <4>2, <3>3, <1>4
                <5>3. pCopy[u] = Lit(MuxBo(l), FALSE)
                    BY <5>1, <3>3, <1>4
                <5> QED BY <5>2, <5>3
            <4> QED BY <4>1, <4>2
        <3> QED BY <3>1, <3>2, <3>5
    <2> QED BY <2>1, <2>2, <1>6
<1>14. \E E : Meaning(E)'
    <2>1. /\ Justified(D) /\ AndsKnown(D) /\ LoadsKnown(D) /\ PosKnown(D)
          /\ \A m, u : <<t, m, u>> \in D => pCopy[u] = Lit(m, FALSE)
          /\ \A u, v, m : <<t, m, u>> \in D /\ <<t, m, v>> \in D => u = v
        BY <1>1, <1>3 DEF Meaning, Current
    <2>b. PICK Bo : Bo = [o \in Waiting |-> IF o \in Unstored THEN place[o] ELSE pCopy[o].obj.id]
        OBVIOUS
    <2>t. PICK T : T = t + 1 /\ T > 0 /\ T - 1 = t /\ T \in Nat
        BY <1>1
    <2>2. PICK N : N = {<<T, MuxBo(Bo[o]), o>> : o \in Waiting}
        OBVIOUS
    <2>3. ASSUME NEW o \in Waiting
          PROVE  /\ pCopy'[o] = Lit(MuxBo(Bo[o]), FALSE) /\ pCopy'[o].obj = MuxBo(Bo[o])
                 /\ Bo[o] \in LatIdx'
        <3>1. o \in Objs
            BY <1>4
        <3>2. pCopy'[o] = Lit(MuxBo(Bo[o]), FALSE)
            BY <3>1, <2>b, <1>4, <1>6
        <3>3. Bo[o] \in LatIdx'
            BY <2>b, <1>4, <1>6
        <3>4. pCopy'[o].obj = MuxBo(Bo[o])
            <4> QED BY <3>2, Literals
        <3> QED BY <3>2, <3>3, <3>4
    <2>4. ASSUME NEW f, NEW m, NEW o, <<f, m, o>> \in N
          PROVE  f = T /\ o \in Waiting /\ m = MuxBo(Bo[o])
        BY <2>2, <2>4
    <2>5. ASSUME NEW o \in Waiting, NEW u \in Waiting, Bo[o] = Bo[u] PROVE o = u
        <3>1. CASE o \in Unstored /\ u \in Unstored
            BY <3>1, <2>b, <2>5, <1>6
        <3>2. CASE o \notin Unstored /\ u \notin Unstored
            <4>1. pCopy[o] = pCopy[u]
                BY <3>2, <2>b, <2>5, <1>4
            <4>2. <<t, pCopy[o].obj, o>> \in D /\ <<t, pCopy[u].obj, u>> \in D
                BY <1>4
            <4> QED BY <4>1, <4>2, <2>1
        <3>3. CASE o \in Unstored /\ u \notin Unstored
            BY <3>3, <2>b, <2>5, <1>4, <1>5, <1>6
        <3>4. CASE o \notin Unstored /\ u \in Unstored
            BY <3>4, <2>b, <2>5, <1>4, <1>5, <1>6
        <3> QED BY <3>1, <3>2, <3>3, <3>4
    <2>e. PICK E : E = D \cup N
        OBVIOUS
    <2>6. ASSUME NEW o \in Waiting PROVE \A l : l = Bo[o] => HeldFor(E, T, l, o)'
        <3> SUFFICES ASSUME NEW l, l = Bo[o] PROVE HeldFor(E, T, l, o)'
            OBVIOUS
        <3>1. <<t, pCopy[o].obj, o>> \in E /\ pCopy[o] = Lit(pCopy[o].obj, FALSE)
            BY <1>4, <2>e
        <3>2. CASE o \in Unstored \/ mff
            <4>1. o \in Loaded(place, l)
                BY <3>2, <2>b DEF Loaded
            <4>2. <<t, Lit(pCopy[o].obj, FALSE)>> \in lats'[l]
                <5>1. <<t, pCopy[o]>> \in lats'[l]
                    BY <4>1, <2>3, <1>6
                <5> QED BY <5>1, <3>1
            <4>3. \E m : <<T - 1, m, o>> \in E /\ <<T - 1, Lit(m, FALSE)>> \in lats'[l]
                BY <3>1, <4>2, <2>t
            <4> QED BY <4>3 DEF HeldFor
        <3>3. CASE o \notin Unstored /\ ~ mff
            <4>1. l \in LatIdx /\ pCopy[o].obj = MuxBo(l)
                <5>1. l = pCopy[o].obj.id
                    BY <3>3, <2>b
                <5>2. l \in LatIdx /\ pCopy[o] = Lit(MuxBo(l), FALSE)
                    BY <5>1, <3>3, <1>4
                <5> QED BY <5>2, Literals
            <4>2. Loaded(place, l) = {}
                <5>1. \A u \in Unstored : place[u] \notin LatIdx
                    BY <3>3, <1>5, <1>6
                <5> QED BY <3>3, <4>1, <5>1 DEF Loaded
            <4>3. \A p \in lats'[l] : p[1] # t
                <5>1. l \in LatIdx'
                    BY <2>3
                <5>2. \A p \in lats'[l] : p \in lats[l]
                    BY <5>1, <4>2, <1>6
                <5> QED BY <5>2, <4>1, <1>6
            <4>4. <<t, MuxBo(l), o>> \in E
                BY <3>1, <4>1
            <4>5. <<T - 1, MuxBo(l), o>> \in E /\ \A p \in lats'[l] : p[1] # T - 1
                BY <4>3, <4>4, <2>t
            <4>6. ~ mff'
                BY <3>3, <1>1
            <4> QED BY <4>5, <4>6 DEF HeldFor
        <3> QED BY <3>2, <3>3
    <2>7. Justified(E)'
        <3>1. ASSUME NEW f, NEW m, NEW o, <<f, m, o>> \in E
              PROVE  f \in 0 .. T /\ o \in Objs /\ StandsFor(E, f, m, o)'
            <4>1. CASE <<f, m, o>> \in D
                <5>1. f \in 0 .. t /\ o \in Objs /\ StandsFor(D, f, m, o)
                    BY <4>1, <2>1 DEF Justified
                <5>2. \A l \in LatIdx : /\ l \in LatIdx' /\ lats[l] \subseteq lats'[l]
                                        /\ \A p \in lats'[l] : p \in lats[l] \/ p[1] = t
                    BY <1>6
                <5>3. D \subseteq E /\ aig \subseteq aig'
                    BY <1>1, <2>e
                <5>4. StandsFor(E, f, m, o)'
                    BY <5>1, <5>2, <5>3, <1>1, StandsForever
                <5> QED BY <5>1, <5>4, <2>t, <1>1
            <4>2. CASE <<f, m, o>> \in N
                <5>1. f = T /\ o \in Waiting /\ m = MuxBo(Bo[o])
                    BY <4>2, <2>4
                <5>2. f \in 0 .. T /\ f > 0
                    BY <5>1, <2>t
                <5>5. o \in Objs /\ o # Const1
                    BY <5>1, <1>4
                <5>3. PICK l : l = Bo[o]
                    OBVIOUS
                <5>4. l \in LatIdx' /\ HeldFor(E, f, l, o)'
                    BY <5>1, <5>3, <2>3, <2>6
                <5> QED BY <5>1, <5>2, <5>3, <5>4, <5>5 DEF StandsFor
            <4> QED BY <3>1, <4>1, <4>2, <2>e
        <3> QED BY <3>1, <1>1, <2>t DEF Justified
    <2>8. Current(E)'
        <3>1. \A m, o : <<T, m, o>> \notin D
            <4> SUFFICES ASSUME NEW m, NEW o, <<T, m, o>> \in D PROVE FALSE
                OBVIOUS
            <4>1. T \in 0 .. t
                BY <2>1 DEF Justified
            <4> QED BY <4>1, <2>t, <1>1
        <3>2. \A m, o : <<T, m, o>> \in E => o \in Waiting /\ m = MuxBo(Bo[o])
            <4> SUFFICES ASSUME NEW m, NEW o, <<T, m, o>> \in E
                         PROVE  o \in Waiting /\ m = MuxBo(Bo[o])
                OBVIOUS
            <4>1. <<T, m, o>> \in N
                BY <3>1, <2>e
            <4> QED BY <4>1, <2>4
        <3>3. \A m, o : <<T, m, o>> \in E => pCopy'[o] = Lit(m, FALSE) /\ m.op = "bo"
            <4> SUFFICES ASSUME NEW m, NEW o, <<T, m, o>> \in E
                         PROVE  pCopy'[o] = Lit(m, FALSE) /\ m.op = "bo"
                OBVIOUS
            <4>1. o \in Waiting /\ m = MuxBo(Bo[o])
                BY <3>2
            <4>2. pCopy'[o] = Lit(MuxBo(Bo[o]), FALSE)
                BY <4>1, <2>3
            <4> QED BY <4>1, <4>2, KindsDiffer
        <3>4. \A o, u, m : <<T, m, o>> \in E /\ <<T, m, u>> \in E => o = u
            <4> SUFFICES ASSUME NEW o, NEW u, NEW m, <<T, m, o>> \in E, <<T, m, u>> \in E
                         PROVE  o = u
                OBVIOUS
            <4>1. o \in Waiting /\ u \in Waiting /\ MuxBo(Bo[o]) = MuxBo(Bo[u])
                BY <3>2
            <4>2. Bo[o] = Bo[u]
                <5> QED BY <4>1, KindsDiffer
            <4> QED BY <4>1, <4>2, <2>5
        <3>5. \A o \in Waiting : <<T, pCopy'[o].obj, o>> \in E
            <4> SUFFICES ASSUME NEW o \in Waiting PROVE <<T, pCopy'[o].obj, o>> \in E
                OBVIOUS
            <4>1. <<T, MuxBo(Bo[o]), o>> \in N
                BY <2>2
            <4>2. pCopy'[o].obj = MuxBo(Bo[o])
                BY <2>3
            <4> QED BY <4>1, <4>2, <2>e
        <3>6. Waiting' = Waiting
            BY <1>1 DEF Waiting
        <3> QED BY <3>3, <3>4, <3>5, <3>6, <1>1, <2>t DEF Current
    <2>9. AndsKnown(E)'
        BY <2>1, <2>e, <1>1 DEF AndsKnown
    <2>10. LoadsKnown(E)'
        <3> SUFFICES ASSUME NEW l \in LatIdx', NEW p \in lats'[l]
                     PROVE  \E f \in 0 .. T - 1 : \E m, u : p = <<f, Lit(m, FALSE)>> /\ <<f, m, u>> \in E
            BY <1>1, <2>t DEF LoadsKnown
        <3>1. CASE l \in LatIdx /\ p \in lats[l]
            <4>1. LoadsKnown(D)
                BY <2>1
            <4>2. PICK f \in 0 .. t - 1 : \E m, u : p = <<f, Lit(m, FALSE)>> /\ <<f, m, u>> \in D
                BY <3>1, <4>1 DEF LoadsKnown
            <4>3. f \in 0 .. T - 1
                BY <1>1, <2>t
            <4> QED BY <4>2, <4>3, <2>e
        <3>2. CASE \E o \in Waiting : p = <<t, pCopy[o]>>
            <4>1. PICK o \in Waiting : p = <<t, pCopy[o]>>
                BY <3>2
            <4>2. p = <<t, Lit(pCopy[o].obj, FALSE)>> /\ <<t, pCopy[o].obj, o>> \in D
                BY <4>1, <1>4
            <4>3. t \in 0 .. T - 1
                BY <1>1, <2>t
            <4> QED BY <4>2, <4>3, <2>e
        <3> QED BY <3>1, <3>2, <1>6
    <2>11. PosKnown(E)'
        <3> SUFFICES ASSUME NEW f \in Frames, NEW p \in poInfos[f]
                     PROVE  \E k \in PoIdx(ntk) : \E m :
                               p = <<k, Lit(m, ntk.po[k].neg)>> /\ <<f, m, ntk.po[k].obj>> \in E
            BY <1>1 DEF PosKnown
        <3>1. PosKnown(D)
            BY <2>1
        <3>2. \E k \in PoIdx(ntk) : \E m :
                               p = <<k, Lit(m, ntk.po[k].neg)>> /\ <<f, m, ntk.po[k].obj>> \in D
            BY <3>1 DEF PosKnown
        <3> QED BY <3>2, <2>e
    <2> QED BY <2>7, <2>8, <2>9, <2>10, <2>11 DEF Meaning
<1> QED BY <1>9, <1>10, <1>11, <1>12, <1>13, <1>14

-----------------------------------------------------------------------------
(* The outputs.                                                            *)

\* After the last frame every object has been visited: what is not would be
\* an AND node that waits for one with a smaller number.
LEMMA AllVisited == ASSUME BInv, pc \in {"po", "run"} PROVE \A o \in Objs : o \in Visited
<1> USE DEF BInv
<1>1. /\ que = {} /\ t = NTimeFrame /\ t # 0 /\ pc # "frame"
    BY NCiNat DEF Shape
<1>2. \A o \in Objs : o \in Visited <=> pCopy[o] # NoCopy
    BY <1>1 DEF Visited
<1>3. Const1 \in Visited
    <2>1. MuxConst1.op # "none"
        BY KindsDiffer
    <2>2. One # NoCopy
        BY <2>1, Literals DEF One
    <2> QED BY <1>2, <2>2 DEF InputsReached, Objs
<1>4. \A o \in 1 .. NCi : o \in Visited
    <2> SUFFICES ASSUME NEW o \in 1 .. NCi PROVE o \in Visited
        OBVIOUS
    <2>1. PICK f \in Frames : \E i \in 0 .. NPi - 1 : o = Pi(f, i)
        BY InputsOfFrames
    <2>2. o \in InputsOf(f) /\ o \in Objs
        BY <2>1 DEF InputsOf, Objs
    <2>3. f < t
        BY <1>1, NCiNat DEF Frames
    <2> QED BY <2>2, <2>3, <1>2 DEF InputsReached
<1> DEFINE Bad == {n \in Ands(ntk) : n \notin Visited}
<1>5. Bad = {}
    <2> SUFFICES ASSUME Bad # {} PROVE FALSE
        OBVIOUS
    <2>1. PICK n \in Bad : \A m \in Bad : n <= m
        <3>1. Bad \in SUBSET Nat
            BY Fanins
        <3> HIDE DEF Bad
        <3> QED BY <3>1, LeastNumber
    <2>2. n \in Ands(ntk) /\ n \notin Visited /\ n \in Objs /\ n \in Nat
        BY <2>1, Fanins
    <2>3. ASSUME NEW o \in FaninObjs(ntk, n) PROVE o \in Visited
        <3>1. o \in Objs \ {Const1} /\ o \in Nat /\ o < n
            BY <2>2, Fanins
        <3>2. CASE o \in 1 .. NCi
            BY <3>2, <1>4
        <3>3. CASE o \in Ands(ntk)
            <4>1. ~ (n <= o)
                BY <3>1, <2>2
            <4> QED BY <4>1, <3>3, <2>1
        <3> QED BY <3>1, <3>2, <3>3 DEF Objs
    <2>4. pCopy[n] # NoCopy
        BY <2>2, <2>3 DEF WaitsForOther
    <2> QED BY <2>2, <2>4, <1>2
<1> QED BY <1>3, <1>4, <1>5 DEF Objs

\* Outputs are numbers; what is listed in a frame is finite.
LEMMA ListedOutputs ==
    ASSUME BInv
    PROVE  /\ \A k \in PoIdx(ntk) : k \in Nat
           /\ \A f \in Frames : \A p \in poInfos[f] : p[1] \in PoIdx(ntk)
           /\ \A f \in Frames : /\ IsFiniteSet(poInfos[f])
                               /\ Cardinality(poInfos[f]) \in Nat
                               /\ Cardinality(poInfos[f]) <= NumPo(ntk)
           /\ NumPo(ntk) \in Nat
<1> USE DEF BInv
<1>1. IsFiniteSet(PoIdx(ntk)) /\ PoIdx(ntk) = 0 .. NumPo(ntk) - 1
    BY StructuralFoldAssumption DEF Shape, IsStrashed
<1>2. NumPo(ntk) \in Nat /\ \A k \in PoIdx(ntk) : k \in Nat
    BY <1>1, FS_CardinalityType DEF NumPo
<1>3. ASSUME NEW f \in Frames, NEW p \in poInfos[f] PROVE p[1] \in PoIdx(ntk)
    <2>1. PICK D : PosKnown(D)
        BY DEF Meaning
    <2>3. \E k \in PoIdx(ntk) : \E m :
              p = <<k, Lit(m, ntk.po[k].neg)>> /\ <<f, m, ntk.po[k].obj>> \in D
        BY <2>1 DEF PosKnown
    <2>2. PICK k \in PoIdx(ntk) : \E m : p = <<k, Lit(m, ntk.po[k].neg)>>
        BY <2>3
    <2> QED BY <2>2
<1>4. ASSUME NEW f \in Frames
      PROVE  /\ IsFiniteSet(poInfos[f]) /\ Cardinality(poInfos[f]) \in Nat
             /\ Cardinality(poInfos[f]) <= NumPo(ntk)
    <2> DEFINE h == [p \in poInfos[f] |-> p[1]]
    <2>1. h \in [poInfos[f] -> PoIdx(ntk)]
        BY <1>3
    <2>2. \A p, q \in poInfos[f] : h[p] = h[q] => p = q
        BY DEF PosOnce
    <2>3. h \in Injection(poInfos[f], PoIdx(ntk))
        <3> HIDE DEF h
        <3> QED BY <2>1, <2>2 DEF Injection, IsInjective
    <2>4. IsFiniteSet(poInfos[f]) /\ Cardinality(poInfos[f]) <= Cardinality(PoIdx(ntk))
        <3> HIDE DEF h
        <3> QED BY <2>3, <1>1, FS_Injection
    <2> QED BY <2>4, FS_CardinalityType DEF NumPo
<1> QED BY <1>2, <1>3, <1>4

\* getPoNum returns the size of the fullest frame.
LEMMA PinNumber ==
    ASSUME BInv
    PROVE  GetPoNum \in Nat /\ \A f \in Frames : Cardinality(poInfos[f]) <= GetPoNum
<1> DEFINE C(f) == Cardinality(poInfos[f])
           T == {n \in Nat : \A f \in Frames : C(f) <= n}
<1>1. /\ \A f \in Frames : C(f) \in Nat /\ C(f) <= NumPo(ntk)
      /\ NumPo(ntk) \in Nat
    BY ListedOutputs
<1> HIDE DEF C
<1>2. PICK b \in T : \A n \in T : b <= n
    <2>1. T \in SUBSET Nat /\ NumPo(ntk) \in T
        BY <1>1
    <2> HIDE DEF T
    <2> QED BY <2>1, LeastNumber
<1>3. b \in Nat /\ \A f \in Frames : C(f) <= b
    BY <1>2
<1>4. \E f \in Frames : C(f) = b
    <2> SUFFICES ASSUME \A f \in Frames : C(f) # b PROVE FALSE
        OBVIOUS
    <2>1. \A f \in Frames : C(f) <= b - 1
        BY <1>1, <1>3
    <2>2. 0 \in Frames
        BY NCiNat DEF Frames
    <2>3. b - 1 \in Nat
        BY <1>1, <1>3, <2>1, <2>2
    <2>4. b - 1 \in T
        BY <2>1, <2>3
    <2>5. b <= b - 1
        BY <2>4, <1>2
    <2> QED BY <2>5, <1>3
<1>5. /\ GetPoNum \in {C(f) : f \in Frames}
      /\ \A f \in Frames : C(f) <= GetPoNum
    <2> DEFINE P(n) == \A f \in Frames : Cardinality(poInfos[f]) <= n
    <2>1. \E n \in {Cardinality(poInfos[f]) : f \in Frames} : P(n)
        BY <1>3, <1>4 DEF C
    <2>2. GetPoNum \in {Cardinality(poInfos[f]) : f \in Frames} /\ P(GetPoNum)
        <3>1. GetPoNum = CHOOSE n \in {Cardinality(poInfos[f]) : f \in Frames} : P(n)
            BY DEF GetPoNum
        <3> HIDE DEF P
        <3> QED BY <2>1, <3>1
    <2> QED BY <2>2 DEF C
<1> QED BY <1>1, <1>5 DEF C

\* The rank of an output is a pin, and no two of a frame have the same.
LEMMA RankFacts ==
    ASSUME BInv, NEW f \in Frames
    PROVE  /\ \A p \in poInfos[f] : Rank(f, p[1]) \in 0 .. GetPoNum - 1
           /\ \A p, q \in poInfos[f] : Rank(f, p[1]) = Rank(f, q[1]) => p = q
<1> USE DEF BInv
<1> DEFINE Below(k) == {p \in poInfos[f] : p[1] < k}
<1>1. /\ IsFiniteSet(poInfos[f]) /\ Cardinality(poInfos[f]) \in Nat
      /\ Cardinality(poInfos[f]) <= GetPoNum /\ GetPoNum \in Nat
      /\ \A p \in poInfos[f] : p[1] \in Nat
    BY ListedOutputs, PinNumber
<1>2. \A k : Rank(f, k) = Cardinality(Below(k))
    BY DEF Rank
<1>3. \A k : IsFiniteSet(Below(k)) /\ Cardinality(Below(k)) \in Nat
    <2>1. \A k : Below(k) \in SUBSET poInfos[f]
        OBVIOUS
    <2> QED BY <2>1, <1>1, FS_Subset, FS_CardinalityType
<1>4. ASSUME NEW p \in poInfos[f] PROVE Rank(f, p[1]) \in 0 .. GetPoNum - 1
    <2>1. Below(p[1]) \in SUBSET (poInfos[f] \ {p})
        BY <1>1
    <2>2. IsFiniteSet(poInfos[f] \ {p}) /\ Cardinality(poInfos[f] \ {p}) = Cardinality(poInfos[f]) - 1
        BY <1>1, FS_RemoveElement
    <2>3. Cardinality(Below(p[1])) <= Cardinality(poInfos[f]) - 1
        BY <2>1, <2>2, FS_Subset
    <2> HIDE DEF Below
    <2> QED BY <2>3, <1>1, <1>2, <1>3
<1>5. ASSUME NEW p \in poInfos[f], NEW q \in poInfos[f], p[1] < q[1]
      PROVE  Rank(f, p[1]) < Rank(f, q[1])
    <2>1. p \notin Below(p[1]) /\ Below(p[1]) \cup {p} \in SUBSET Below(q[1])
        BY <1>1, <1>5
    <2>2. /\ IsFiniteSet(Below(p[1]) \cup {p})
          /\ Cardinality(Below(p[1]) \cup {p}) = Cardinality(Below(p[1])) + 1
        <3>1. IsFiniteSet(Below(p[1]))
            BY <1>3
        <3> HIDE DEF Below
        <3> QED BY <2>1, <3>1, FS_AddElement
    <2>3. Cardinality(Below(p[1]) \cup {p}) <= Cardinality(Below(q[1]))
        BY <2>1, <1>3, FS_Subset
    <2> HIDE DEF Below
    <2> QED BY <2>2, <2>3, <1>2, <1>3
<1>6. ASSUME NEW p \in poInfos[f], NEW q \in poInfos[f], Rank(f, p[1]) = Rank(f, q[1])
      PROVE  p = q
    <2>1. Rank(f, p[1]) \in Nat /\ Rank(f, q[1]) \in Nat
        BY <1>2, <1>3
    <2>2. ~ (p[1] < q[1]) /\ ~ (q[1] < p[1])
        BY <1>5, <1>6, <2>1
    <2>3. p[1] = q[1]
        BY <2>2, <1>1
    <2> QED BY <2>3 DEF PosOnce
<1> QED BY <1>4, <1>6

\* The slot of an output listed in frame f.
SlotsAreRanks ==
    /\ nPo = GetPoNum
    /\ DOMAIN oPerm = PoIdx(ntk)
    /\ oPerm = [k \in PoIdx(ntk) |-> oPerm[k]]
    /\ \A f \in Frames : \A p \in poInfos[f] : oPerm[p[1]] = f * nPo + Rank(f, p[1])

LEMMA BuildSlots == BInv /\ BuildPoFuncs => SlotsAreRanks'
<1> SUFFICES ASSUME BInv, BuildPoFuncs PROVE SlotsAreRanks'
    OBVIOUS
<1>1. /\ nPo' = GetPoNum /\ ntk' = ntk /\ poInfos' = poInfos /\ pc = "po"
      /\ oPerm' = [k \in {p[1] : p \in UNION {poInfos[f] : f \in Frames}} |->
            LET f == CHOOSE f \in Frames : \E p \in poInfos[f] : p[1] = k
            IN f * GetPoNum + Rank(f, k)]
    BY DEF BuildPoFuncs, buildVars
<1>2. {p[1] : p \in UNION {poInfos[f] : f \in Frames}} = PoIdx(ntk)
    <2>1. ASSUME NEW k \in PoIdx(ntk) PROVE \E f \in Frames : \E p \in poInfos[f] : p[1] = k
        <3>1. ntk.po[k].obj \in Objs
            BY StructuralFoldAssumption DEF BInv, Shape, IsStrashed, Objs
        <3>2. ntk.po[k].obj \in Visited
            BY <3>1, <1>1, AllVisited
        <3> QED BY <3>2 DEF BInv, PosOnce
    <2>2. \A f \in Frames : \A p \in poInfos[f] : p[1] \in PoIdx(ntk)
        BY ListedOutputs
    <2> QED BY <2>1, <2>2
<1>3. ASSUME NEW f \in Frames, NEW p \in poInfos[f] PROVE oPerm'[p[1]] = f * GetPoNum + Rank(f, p[1])
    <2> DEFINE g == CHOOSE g \in Frames : \E q \in poInfos[g] : q[1] = p[1]
    <2>1. g \in Frames /\ \E q \in poInfos[g] : q[1] = p[1]
        OBVIOUS
    <2>2. g = f
        BY <2>1 DEF BInv, PosOnce
    <2>3. p[1] \in {q[1] : q \in UNION {poInfos[h] : h \in Frames}}
        OBVIOUS
    <2>4. oPerm'[p[1]] = g * GetPoNum + Rank(g, p[1])
        BY <1>1, <2>3
    <2> HIDE DEF g
    <2> QED BY <2>2, <2>4
<1>4. GetPoNum' = GetPoNum /\ \A f, k : Rank(f, k)' = Rank(f, k)
    BY <1>1 DEF GetPoNum, Rank
<1>5. DOMAIN oPerm' = PoIdx(ntk') /\ oPerm' = [k \in PoIdx(ntk') |-> oPerm'[k]]
    BY <1>1, <1>2
<1> QED BY SMTT(40), <1>1, <1>3, <1>4, <1>5 DEF SlotsAreRanks

\* checkPerm: every output has a slot of its own.
LEMMA SlotsLegal ==
    ASSUME BInv, SlotsAreRanks, pc \in {"po", "run"}
    PROVE  /\ nPo \in Nat
           /\ oPerm \in [PoIdx(ntk) -> 0 .. nPo * NTimeFrame - 1]
           /\ \A k, m \in PoIdx(ntk) : oPerm[k] = oPerm[m] => k = m
           /\ \A k \in PoIdx(ntk) : \E f \in Frames : \E p \in poInfos[f] :
                  /\ p[1] = k /\ oPerm[k] \div nPo = f /\ oPerm[k] % nPo = Rank(f, k)
                  /\ Rank(f, k) \in 0 .. nPo - 1
<1>1. nPo \in Nat /\ NTimeFrame \in Nat
    BY PinNumber, NCiNat DEF SlotsAreRanks
<1>2. ASSUME NEW k \in PoIdx(ntk)
      PROVE  \E f \in Frames : \E p \in poInfos[f] : 
                /\ p[1] = k /\ oPerm[k] \div nPo = f /\ oPerm[k] % nPo = Rank(f, k)
                /\ Rank(f, k) \in 0 .. nPo - 1 /\ oPerm[k] \in 0 .. nPo * NTimeFrame - 1
    <2>1. ntk.po[k].obj \in Objs
        BY StructuralFoldAssumption DEF BInv, Shape, IsStrashed, Objs
    <2>2. ntk.po[k].obj \in Visited
        BY <2>1, AllVisited
    <2>f. PICK f \in Frames : \E p \in poInfos[f] : p[1] = k
        BY <2>2 DEF BInv, PosOnce
    <2>3. PICK p \in poInfos[f] : p[1] = k
        BY <2>f
    <2>4. Rank(f, k) \in 0 .. nPo - 1
        BY <2>3, RankFacts DEF SlotsAreRanks
    <2>5. oPerm[k] = f * nPo + Rank(f, k)
        BY <2>3 DEF SlotsAreRanks
    <2>6. f \in 0 .. NTimeFrame - 1 /\ f \in Nat
        BY DEF Frames
    <2>7. f * nPo + Rank(f, k) \in 0 .. NTimeFrame * nPo - 1
        BY <2>4, <2>6, <1>1, ItemInRange
    <2>8. (f * nPo + Rank(f, k)) \div nPo = f /\ (f * nPo + Rank(f, k)) % nPo = Rank(f, k)
        BY <2>4, <2>6, <1>1, ItemOfFrame
    <2>9. NTimeFrame * nPo = nPo * NTimeFrame
        BY <1>1
    <2> QED BY <2>3, <2>4, <2>5, <2>7, <2>8, <2>9
<1>3. ASSUME NEW k \in PoIdx(ntk), NEW m \in PoIdx(ntk), oPerm[k] = oPerm[m] PROVE k = m
    <2>f. PICK f \in Frames : \E p \in poInfos[f] :
              p[1] = k /\ oPerm[k] \div nPo = f /\ oPerm[k] % nPo = Rank(f, k)
        BY <1>2
    <2>1. PICK p \in poInfos[f] :
              p[1] = k /\ oPerm[k] \div nPo = f /\ oPerm[k] % nPo = Rank(f, k)
        BY <2>f
    <2>g. PICK g \in Frames : \E q \in poInfos[g] :
              q[1] = m /\ oPerm[m] \div nPo = g /\ oPerm[m] % nPo = Rank(g, m)
        BY <1>2
    <2>2. PICK q \in poInfos[g] :
              q[1] = m /\ oPerm[m] \div nPo = g /\ oPerm[m] % nPo = Rank(g, m)
        BY <2>g
    <2>3. f = g /\ Rank(f, k) = Rank(f, m)
        BY <2>1, <2>2, <1>3
    <2>4. p = q
        BY <2>1, <2>2, <2>3, RankFacts
    <2> QED BY <2>1, <2>2, <2>4
<1>4. oPerm \in [PoIdx(ntk) -> 0 .. nPo * NTimeFrame - 1]
    BY <1>2 DEF SlotsAreRanks
<1> QED BY <1>1, <1>2, <1>3, <1>4

-----------------------------------------------------------------------------
(* The values in the folded circuit.                                       *)

MuxObjs == aig \cup {MuxConst1} \cup {MuxPi(i) : i \in 0 .. NPi - 1}
               \cup {MuxBo(l) : l \in LatIdx}

\* What stands for an object is an object of the folded circuit.
LEMMA KnownObjects ==
    ASSUME NEW D, Justified(D), NEW f, NEW m, NEW o, <<f, m, o>> \in D
    PROVE  m \in MuxObjs /\ o \in Objs /\ StandsFor(D, f, m, o)
<1>1. StandsFor(D, f, m, o) /\ o \in Objs
    BY DEF Justified
<1> QED BY <1>1 DEF StandsFor, MuxObjs

LEMMA ObjectNumbers == ASSUME Shape PROVE \A o \in Objs : o \in Nat
<1>1. \A o \in Ands(ntk) : o \in Nat
    BY Fanins
<1>2. Const1 \in Nat /\ \A o \in 1 .. NCi : o \in Nat
    BY DEF Const1
<1> QED BY <1>1, <1>2 DEF Objs

\* m is an AND of p[1] and p[3], complemented as p[2] and p[4] say.
IsAndOf(m, p) ==
    /\ m = MuxAnd(Lit(p[1], p[2]), Lit(p[3], p[4]))
    /\ p[1] \in MuxObjs /\ p[3] \in MuxObjs

\* The least number of an object that m stands for in some frame.
IsLeast(D, m, o) ==
    /\ o \in Ands(ntk) /\ \E f : <<f, m, o>> \in D
    /\ \A f, u : <<f, m, u>> \in D => o <= u

LEMMA LeastExists ==
    ASSUME Shape, NEW D, Justified(D), AndsKnown(D), NEW m \in aig
    PROVE  \E o : IsLeast(D, m, o)
<1> DEFINE T == {o \in Objs : \E f : <<f, m, o>> \in D}
<1>1. PICK o \in T : \A u \in T : o <= u
    <2>1. T \in SUBSET Nat
        BY ObjectNumbers
    <2>2. T # {}
        BY KnownObjects DEF AndsKnown
    <2> HIDE DEF T
    <2> QED BY <2>1, <2>2, LeastNumber
<1>2. PICK f : <<f, m, o>> \in D
    BY <1>1
<1>3. m # MuxConst1 /\ (\A i : m # MuxPi(i)) /\ (\A l : m # MuxBo(l))
    <2>1. m.op = "and"
        BY DEF AndsKnown
    <2> QED BY <2>1, KindsDiffer
<1>4. o \in Ands(ntk)
    <2>1. StandsFor(D, f, m, o)
        BY <1>2, KnownObjects
    <2> QED BY <2>1, <1>3 DEF StandsFor
<1>5. \A g, u : <<g, m, u>> \in D => o <= u
    BY <1>1, KnownObjects
<1> QED BY <1>2, <1>4, <1>5 DEF IsLeast

\* A node of the folded circuit is made of objects that stand for objects
\* with smaller numbers, so nothing is computed from itself.
LEMMA PartsBelow ==
    ASSUME Shape, NEW D, Justified(D), AndsKnown(D), NEW m \in aig, NEW o, IsLeast(D, m, o)
    PROVE  \E p : /\ IsAndOf(m, p)
                  /\ \A j \in {1, 3} : \A u : p[j] \in aig /\ IsLeast(D, p[j], u) => u < o
<1>1. PICK f : <<f, m, o>> \in D
    BY DEF IsLeast
<1>2. m # MuxConst1 /\ (\A i : m # MuxPi(i)) /\ (\A l : m # MuxBo(l))
    <2>1. m.op = "and"
        BY DEF AndsKnown
    <2> QED BY <2>1, KindsDiffer
<1>3. o \in Ands(ntk) /\ MadeOf(D, f, m, o)
    <2>1. StandsFor(D, f, m, o)
        BY <1>1, KnownObjects
    <2> QED BY <2>1, <1>2 DEF StandsFor
<1>4. PICK a, b : /\ <<f, a, ntk.fan[o][1].obj>> \in D
                  /\ <<f, b, ntk.fan[o][2].obj>> \in D
                  /\ m = MuxAnd(Lit(a, ntk.fan[o][1].neg), Lit(b, ntk.fan[o][2].neg))
    BY <1>3 DEF MadeOf
<1>5. a \in MuxObjs /\ b \in MuxObjs
    BY <1>4, KnownObjects
<1> DEFINE v == ntk.fan[o][1].obj
           w == ntk.fan[o][2].obj
<1>6. o \in Nat /\ v \in Nat /\ v < o /\ w \in Nat /\ w < o
    BY <1>3, Fanins
<1>7. \A u : (IsLeast(D, a, u) => u <= v /\ u \in Nat) /\ (IsLeast(D, b, u) => u <= w /\ u \in Nat)
    BY <1>4, Fanins DEF IsLeast
<1> HIDE DEF v, w
<1>8. \A u : (IsLeast(D, a, u) => u < o) /\ (IsLeast(D, b, u) => u < o)
    BY <1>6, <1>7
<1> DEFINE p == <<a, ntk.fan[o][1].neg, b, ntk.fan[o][2].neg>>
<1>9. IsAndOf(m, p)
    BY <1>4, <1>5 DEF IsAndOf
<1>10. \A j \in {1, 3} : \A u : p[j] \in aig /\ IsLeast(D, p[j], u) => u < o
    BY <1>8
<1> HIDE DEF p
<1> QED BY <1>9, <1>10

\* The equation of MuxValues.
ValuesEquation(val, pis) ==
    val = [m \in aig \cup {MuxConst1} \cup {MuxPi(i) : i \in 0 .. NPi - 1}
                      \cup {MuxBo(l) : l \in LatIdx} |->
            CASE m.op = "one" -> TRUE
              [] m.op = "pi"  -> pis[m.id]
              [] m.op = "bo"  -> latVal[m.id]
              [] m.op = "and" -> \A a \in m.args : val[a.obj] # a.neg]

IsTotal(val, pis) ==
    /\ val \in [MuxObjs -> BOOLEAN]
    /\ \A m \in MuxObjs : val[m] =
            CASE m.op = "one" -> TRUE
              [] m.op = "pi"  -> pis[m.id]
              [] m.op = "bo"  -> latVal[m.id]
              [] m.op = "and" -> \A a \in m.args : val[a.obj] # a.neg

LEMMA ValuesExist ==
    ASSUME Shape, NEW D, Justified(D), AndsKnown(D), latVal \in [LatIdx -> BOOLEAN],
           NEW pis \in PinValues
    PROVE  \E val : IsTotal(val, pis)
<1> DEFINE least == [m \in MuxObjs |-> IF m \in aig THEN CHOOSE o : IsLeast(D, m, o) ELSE 0]
           Parts(m, p) == /\ IsAndOf(m, p)
                          /\ least[p[1]] < least[m] /\ least[p[3]] < least[m]
           part == [m \in aig |-> CHOOSE p : Parts(m, p)]
           B == MuxObjs \ aig
           left == [m \in MuxObjs |-> IF m \in aig THEN part[m][1] ELSE m]
           right == [m \in MuxObjs |-> IF m \in aig THEN part[m][3] ELSE m]
           base == [m \in MuxObjs |-> IF m.op = "pi" THEN pis[m.id]
                                      ELSE IF m.op = "bo" THEN latVal[m.id] ELSE TRUE]
           G == [q \in MuxObjs \X BOOLEAN \X BOOLEAN |->
                    q[2] # part[q[1]][2] /\ q[3] # part[q[1]][4]]
<1>0. \A m \in aig : m \in MuxObjs
    BY DEF MuxObjs
<1>1. \A m \in aig : IsLeast(D, m, least[m])
    <2> SUFFICES ASSUME NEW m \in aig PROVE IsLeast(D, m, least[m])
        OBVIOUS
    <2>1. \E o : IsLeast(D, m, o)
        BY LeastExists
    <2>2. least[m] = CHOOSE o : IsLeast(D, m, o)
        BY <1>0
    <2> HIDE DEF least
    <2> QED BY <2>1, <2>2
<1>2. \A m \in aig : least[m] \in Nat /\ least[m] > 0
    <2> HIDE DEF least
    <2>1. \A m \in aig : least[m] \in Ands(ntk)
        BY <1>1 DEF IsLeast
    <2>2. \A n \in Ands(ntk) : n \in Nat /\ n > 0
        BY Fanins DEF Const1
    <2> QED BY <2>1, <2>2
<1>3. \A m \in MuxObjs \ aig : least[m] = 0
    OBVIOUS
<1>4. least \in [MuxObjs -> Nat]
    <2>1. least = [m \in MuxObjs |-> least[m]]
        OBVIOUS
    <2> HIDE DEF least
    <2>2. \A m \in MuxObjs : least[m] \in Nat
        BY <1>2, <1>3
    <2> QED BY <2>1, <2>2
<1> HIDE DEF least
<1>5. ASSUME NEW m \in aig PROVE Parts(m, part[m])
    <2>1. IsLeast(D, m, least[m])
        BY <1>1
    <2>2. PICK p : /\ IsAndOf(m, p)
                   /\ \A j \in {1, 3} : \A u : p[j] \in aig /\ IsLeast(D, p[j], u) => u < least[m]
        BY <2>1, PartsBelow
    <2>3. ASSUME NEW j \in {1, 3} PROVE least[p[j]] < least[m]
        <3>1. p[j] \in MuxObjs
            BY <2>2 DEF IsAndOf
        <3>2. CASE p[j] \in aig
            BY <3>2, <2>2, <1>1
        <3>3. CASE p[j] \notin aig
            BY <3>1, <3>3, <1>2, <1>3
        <3> QED BY <3>2, <3>3
    <2>4. Parts(m, p)
        BY <2>2, <2>3
    <2>5. part[m] = CHOOSE q : Parts(m, q)
        OBVIOUS
    <2> HIDE DEF Parts, part
    <2> QED BY <2>4, <2>5
<1> HIDE DEF part
<1>6. PICK val : Computes(val, MuxObjs, BOOLEAN, B, base, left, right, G)
    <2>1. base \in [MuxObjs -> BOOLEAN]
        <3> SUFFICES ASSUME NEW m \in MuxObjs PROVE base[m] \in BOOLEAN
            OBVIOUS
        <3>1. CASE \E i \in 0 .. NPi - 1 : m = MuxPi(i)
            <4>1. PICK i \in 0 .. NPi - 1 : m = MuxPi(i)
                BY <3>1
            <4>2. m.op = "pi" /\ m.id = i
                BY <4>1 DEF MuxPi
            <4>3. base[m] = pis[i]
                BY <4>2
            <4>4. pis[i] \in BOOLEAN
                BY DEF PinValues
            <4> QED BY <4>3, <4>4
        <3>2. CASE \E l \in LatIdx : m = MuxBo(l)
            <4>1. PICK l \in LatIdx : m = MuxBo(l)
                BY <3>2
            <4>2. m.op = "bo" /\ m.id = l
                BY <4>1 DEF MuxBo
            <4>3. base[m] = latVal[l]
                BY <4>2
            <4>4. latVal[l] \in BOOLEAN
                OBVIOUS
            <4> QED BY <4>3, <4>4
        <3>3. CASE m.op \in {"and", "one"}
            BY <3>3
        <3>4. m \in aig \/ m = MuxConst1 => m.op \in {"and", "one"}
            BY KindsDiffer DEF AndsKnown
        <3> QED BY <3>1, <3>2, <3>3, <3>4 DEF MuxObjs
    <2>2. left \in [MuxObjs -> MuxObjs] /\ right \in [MuxObjs -> MuxObjs]
        BY <1>5 DEF IsAndOf
    <2>3. \A m \in MuxObjs \ B : least[left[m]] < least[m] /\ least[right[m]] < least[m]
        <3> SUFFICES ASSUME NEW m \in aig PROVE least[left[m]] < least[m] /\ least[right[m]] < least[m]
            OBVIOUS
        <3>1. Parts(m, part[m])
            BY <1>5
        <3> QED BY <3>1, <1>0
    <2>4. Ranked(MuxObjs, B, left, right, least)
        <3> HIDE DEF B, left, right
        <3> QED BY <2>2, <2>3, <1>4 DEF Ranked
    <2>5. G \in [MuxObjs \X BOOLEAN \X BOOLEAN -> BOOLEAN]
        OBVIOUS
    <2> HIDE DEF B, base, left, right, G
    <2> QED BY <2>1, <2>4, <2>5, RecursionExists
<1>7. val \in [MuxObjs -> BOOLEAN]
    BY <1>6 DEF Computes
<1>8. ASSUME NEW m \in MuxObjs
      PROVE  val[m] = CASE m.op = "one" -> TRUE
                        [] m.op = "pi"  -> pis[m.id]
                        [] m.op = "bo"  -> latVal[m.id]
                        [] m.op = "and" -> \A a \in m.args : val[a.obj] # a.neg
    <2>1. CASE m \in aig
        <3>1. m.op = "and"
            BY <2>1 DEF AndsKnown
        <3>2. PICK p : p = part[m]
            OBVIOUS
        <3>3. m = MuxAnd(Lit(p[1], p[2]), Lit(p[3], p[4])) /\ p[1] \in MuxObjs /\ p[3] \in MuxObjs
            BY <2>1, <3>2, <1>5 DEF IsAndOf
        <3>4. m.args = {Lit(p[1], p[2]), Lit(p[3], p[4])}
            BY <3>3, KindsDiffer
        <3>5. val[m] = G[<<m, val[p[1]], val[p[3]]>>]
            BY <2>1, <3>2, <1>6 DEF Computes
        <3>6. val[p[1]] \in BOOLEAN /\ val[p[3]] \in BOOLEAN /\ val[m] \in BOOLEAN
            BY <3>3, <1>7
        <3>7. val[m] <=> val[p[1]] # p[2] /\ val[p[3]] # p[4]
            BY <3>2, <3>5, <3>6
        <3>8. (\A a \in m.args : val[a.obj] # a.neg) <=> val[p[1]] # p[2] /\ val[p[3]] # p[4]
            BY <3>4, Literals
        <3>9. val[m] = \A a \in m.args : val[a.obj] # a.neg
            BY <3>6, <3>7, <3>8, Zenon
        <3> QED BY <3>1, <3>9
    <2>2. CASE m \notin aig
        <3>1. val[m] = base[m]
            BY <2>2, <1>6 DEF Computes
        <3>2. m.op \in {"one", "pi", "bo"}
            BY <2>2, KindsDiffer DEF MuxObjs
        <3> QED BY <3>1, <3>2
    <2> QED BY <2>1, <2>2
<1> QED BY <1>7, <1>8 DEF IsTotal

IsValuation(val, pis) ==
    /\ val \in [MuxObjs -> BOOLEAN]
    /\ val[MuxConst1] = TRUE
    /\ \A i \in 0 .. NPi - 1 : val[MuxPi(i)] = pis[i]
    /\ \A l \in LatIdx : val[MuxBo(l)] = latVal[l]
    /\ \A a, b : MuxAnd(a, b) \in aig =>
          (val[MuxAnd(a, b)] <=> val[a.obj] # a.neg /\ val[b.obj] # b.neg)

\* Every object has the value that MuxValues gives it.
LEMMA ValueOfMux ==
    ASSUME Shape, NEW D, Justified(D), AndsKnown(D), latVal \in [LatIdx -> BOOLEAN],
           NEW pis \in PinValues, NEW val, val = MuxValues(pis)
    PROVE  IsValuation(val, pis)
<1>1. PICK v : IsTotal(v, pis)
    BY ValuesExist
<1>2. ValuesEquation(v, pis)
    <2>1. v = [m \in MuxObjs |-> v[m]]
        BY <1>1 DEF IsTotal
    <2>2. \A m \in MuxObjs : v[m] =
            CASE m.op = "one" -> TRUE
              [] m.op = "pi"  -> pis[m.id]
              [] m.op = "bo"  -> latVal[m.id]
              [] m.op = "and" -> \A a \in m.args : v[a.obj] # a.neg
        BY <1>1 DEF IsTotal
    <2> QED BY <2>1, <2>2, Zenon DEF ValuesEquation, MuxObjs
<1>3. ValuesEquation(MuxValues(pis), pis)
    BY <1>2 DEF ValuesEquation, MuxValues
<1>4. ValuesEquation(val, pis)
    BY <1>3
<1>5. /\ val = [m \in MuxObjs |-> val[m]]
      /\ \A m \in MuxObjs : val[m] =
            CASE m.op = "one" -> TRUE
              [] m.op = "pi"  -> pis[m.id]
              [] m.op = "bo"  -> latVal[m.id]
              [] m.op = "and" -> \A a \in m.args : val[a.obj] # a.neg
    BY <1>4 DEF ValuesEquation, MuxObjs
<1>6. val[MuxConst1] = TRUE
    BY <1>5, KindsDiffer DEF MuxObjs
<1>7. \A i \in 0 .. NPi - 1 : val[MuxPi(i)] = pis[i]
    <2> SUFFICES ASSUME NEW i \in 0 .. NPi - 1 PROVE val[MuxPi(i)] = pis[i]
        OBVIOUS
    <2>1. MuxPi(i) \in MuxObjs /\ MuxPi(i).op = "pi" /\ MuxPi(i).id = i
        BY DEF MuxObjs, MuxPi
    <2> QED BY <2>1, <1>5
<1>8. \A l \in LatIdx : val[MuxBo(l)] = latVal[l]
    <2> SUFFICES ASSUME NEW l \in LatIdx PROVE val[MuxBo(l)] = latVal[l]
        OBVIOUS
    <2>1. MuxBo(l) \in MuxObjs /\ MuxBo(l).op = "bo" /\ MuxBo(l).id = l
        BY DEF MuxObjs, MuxBo
    <2> QED BY <2>1, <1>5
<1>9. ASSUME NEW a, NEW b, MuxAnd(a, b) \in aig
      PROVE  val[MuxAnd(a, b)] <=> val[a.obj] # a.neg /\ val[b.obj] # b.neg
    <2>1. /\ MuxAnd(a, b) \in MuxObjs /\ MuxAnd(a, b).op = "and" /\ MuxAnd(a, b).args = {a, b}
        BY <1>9, KindsDiffer DEF MuxObjs
    <2>2. val[MuxAnd(a, b)] = \A c \in {a, b} : val[c.obj] # c.neg
        BY <2>1, <1>5
    <2> QED BY <2>2
<1>10. val \in [MuxObjs -> BOOLEAN]
    <2> SUFFICES ASSUME NEW m \in MuxObjs PROVE val[m] \in BOOLEAN
        BY <1>5
    <2>1. CASE m \in aig
        <3>1. m.op = "and"
            BY <2>1 DEF AndsKnown
        <3>2. val[m] = \A a \in m.args : val[a.obj] # a.neg
            BY <3>1, <1>5
        <3> QED BY <3>2
    <2>2. CASE m = MuxConst1
        BY <2>2, <1>6
    <2>3. CASE \E i \in 0 .. NPi - 1 : m = MuxPi(i)
        BY <2>3, <1>7 DEF PinValues
    <2>4. CASE \E l \in LatIdx : m = MuxBo(l)
        BY <2>4, <1>8
    <2> QED BY <2>1, <2>2, <2>3, <2>4 DEF MuxObjs
<1> QED BY <1>6, <1>7, <1>8, <1>9, <1>10 DEF IsValuation

-----------------------------------------------------------------------------
(* The folded circuit at work.                                             *)

\* The inputs full of the circuit are those in g as far as frame n - 1.
Agrees(full, n, g) ==
    /\ full \in [0 .. NCi - 1 -> BOOLEAN]
    /\ \A f \in 0 .. n - 1 : \A i \in 0 .. NPi - 1 : full[f * NPi + i] = g[f + 1][i]

\* What a latch stands for when a cycle begins it holds, whatever the inputs
\* of the later frames will be.
LatsHold(D) ==
    \A l \in LatIdx : \A o, full :
        <<cycle, MuxBo(l), o>> \in D /\ Agrees(full, cycle, got)
            => latVal[l] = ObjValues(ntk, NCi, full)[o]

\* LatsHold in the next state.
LEMMA LatsHoldNext ==
    ASSUME NEW D
    PROVE  LatsHold(D)' <=>
              \A l \in LatIdx' : \A o, full :
                  <<cycle', MuxBo(l), o>> \in D /\ Agrees(full, cycle', got')
                      => latVal'[l] = ObjValues(ntk', NCi, full)[o]
BY DEF LatsHold

RingCounts == cycle \in Frames /\ ring = [f \in Frames |-> f = cycle]

BatchRead ==
    /\ got \in Seq(PinValues) /\ (cycle # 0 => Len(got) = cycle)
    /\ pc # "run" => cycle = 0 /\ got = <<>> /\ out = <<>>

Running ==
    pc = "run" =>
        /\ SlotsAreRanks
        /\ latVal \in [LatIdx -> BOOLEAN]
        /\ \E D : Meaning(D) /\ LatsHold(D)

IInv == BInv /\ RingCounts /\ BatchRead /\ Running

\* In every cycle all that stands for an object has the value of that object.
LEMMA CycleValues ==
    ASSUME Shape, NEW D, Justified(D), AndsKnown(D), latVal \in [LatIdx -> BOOLEAN], LatsHold(D),
           cycle \in Frames, NEW pis \in PinValues, NEW val, val = MuxValues(pis),
           NEW full, Agrees(full, cycle, got), 
           \A i \in 0 .. NPi - 1 : full[cycle * NPi + i] = pis[i],
           NEW m, NEW o, <<cycle, m, o>> \in D
    PROVE  val[m] = ObjValues(ntk, NCi, full)[o] /\ val[m] \in BOOLEAN
<1>1. IsStrashed(ntk, NCi) /\ NCi \in Nat
    BY StructuralFoldAssumption, NCiNat DEF Shape
<1>2. PICK obj : obj = ObjValues(ntk, NCi, full)
    OBVIOUS
<1>3. /\ obj \in [AigObjs(ntk, NCi) -> BOOLEAN]
      /\ obj[Const1] = TRUE
      /\ \A u \in 1 .. NCi : obj[u] = full[u - 1]
      /\ \A n \in Ands(ntk) : obj[n] =
            \A j \in {1, 2} : obj[ntk.fan[n][j].obj] # ntk.fan[n][j].neg
    <2>1. full \in [0 .. NCi - 1 -> BOOLEAN]
        BY DEF Agrees
    <2>2. AreValues(ntk, NCi, full, obj)
        BY <1>1, <1>2, <2>1, ObjectValues
    <2> QED BY <2>2 DEF AreValues
<1>4. /\ val \in [MuxObjs -> BOOLEAN]
      /\ val[MuxConst1] = TRUE
      /\ \A i \in 0 .. NPi - 1 : val[MuxPi(i)] = pis[i]
      /\ \A l \in LatIdx : val[MuxBo(l)] = latVal[l]
      /\ \A a, b : MuxAnd(a, b) \in aig =>
            (val[MuxAnd(a, b)] <=> val[a.obj] # a.neg /\ val[b.obj] # b.neg)
    <2>1. IsValuation(val, pis)
        BY ValueOfMux
    <2> QED BY <2>1 DEF IsValuation
<1> DEFINE Bad == {u \in Objs : \E n : <<cycle, n, u>> \in D /\ val[n] # obj[u]}
<1>5. Bad = {}
    <2> SUFFICES ASSUME Bad # {} PROVE FALSE
        OBVIOUS
    <2>1. PICK u \in Bad : \A w \in Bad : u <= w
        <3>1. Bad \in SUBSET Nat
            BY ObjectNumbers
        <3> HIDE DEF Bad
        <3> QED BY <3>1, LeastNumber
    <2>2. PICK n : <<cycle, n, u>> \in D /\ val[n] # obj[u]
        BY <2>1
    <2>3. \A k, w : <<cycle, k, w>> \in D /\ w < u => val[k] = obj[w]
        <3> SUFFICES ASSUME NEW k, NEW w, <<cycle, k, w>> \in D, w < u PROVE val[k] = obj[w]
            OBVIOUS
        <3>1. w \in Objs /\ w \in Nat /\ u \in Nat
            BY KnownObjects, ObjectNumbers
        <3>2. w \notin Bad
            BY <2>1, <3>1
        <3> QED BY <3>1, <3>2
    <2>4. StandsFor(D, cycle, n, u)
        BY <2>2, KnownObjects
    <2>5. CASE u = Const1 /\ n = MuxConst1
        BY <2>5, <2>2, <1>3, <1>4
    <2>6. CASE \E i \in 0 .. NPi - 1 : u = Pi(cycle, i) /\ n = MuxPi(i)
        <3>1. PICK i \in 0 .. NPi - 1 : u = Pi(cycle, i) /\ n = MuxPi(i)
            BY <2>6
        <3>2. u \in 1 .. NCi /\ u - 1 = cycle * NPi + i
            <4>1. Pi(cycle, i) \in 1 .. NCi
                BY InputsOfFrames
            <4>2. cycle * NPi \in Nat
                BY NCiNat DEF Frames
            <4> QED BY <3>1, <4>1, <4>2 DEF Pi
        <3>3. obj[u] = pis[i]
            BY <3>2, <1>3
        <3>4. val[n] = pis[i]
            BY <3>1, <1>4
        <3> QED BY <3>3, <3>4, <2>2
    <2>7. CASE u \in Ands(ntk) /\ n \in aig /\ MadeOf(D, cycle, n, u)
        <3>1. PICK a, b : /\ <<cycle, a, ntk.fan[u][1].obj>> \in D
                          /\ <<cycle, b, ntk.fan[u][2].obj>> \in D
                          /\ n = MuxAnd(Lit(a, ntk.fan[u][1].neg), Lit(b, ntk.fan[u][2].neg))
            BY <2>7 DEF MadeOf
        <3>2. /\ ntk.fan[u][1].obj < u /\ ntk.fan[u][2].obj < u
            BY <2>7, Fanins
        <3>3. val[a] = obj[ntk.fan[u][1].obj] /\ val[b] = obj[ntk.fan[u][2].obj]
            BY <3>1, <3>2, <2>3
        <3>4. val[n] <=> val[a] # ntk.fan[u][1].neg /\ val[b] # ntk.fan[u][2].neg
            <4> DEFINE p == Lit(a, ntk.fan[u][1].neg)
                       q == Lit(b, ntk.fan[u][2].neg)
            <4>1. p.obj = a /\ p.neg = ntk.fan[u][1].neg /\ q.obj = b /\ q.neg = ntk.fan[u][2].neg
                BY DEF Lit
            <4>2. n = MuxAnd(p, q)
                BY <3>1
            <4> HIDE DEF p, q
            <4>3. val[n] <=> val[p.obj] # p.neg /\ val[q.obj] # q.neg
                BY <2>7, <4>2, <1>4
            <4> QED BY <4>1, <4>3
        <3>5. obj[u] <=> obj[ntk.fan[u][1].obj] # ntk.fan[u][1].neg
                         /\ obj[ntk.fan[u][2].obj] # ntk.fan[u][2].neg
            BY ZenonT(60), <2>7, <1>3
        <3>6. val[n] \in BOOLEAN /\ obj[u] \in BOOLEAN
            <4>1. n \in MuxObjs /\ u \in AigObjs(ntk, NCi)
                BY <2>2, <2>7, KnownObjects DEF AigObjs
            <4> QED BY <4>1, <1>3, <1>4
        <3>7. val[n] <=> obj[u]
            BY <3>3, <3>4, <3>5
        <3> QED BY <3>6, <3>7, <2>2, Zenon
    <2>8. CASE \E l \in LatIdx : n = MuxBo(l)
        <3>1. PICK l \in LatIdx : n = MuxBo(l)
            BY <2>8
        <3>2. latVal[l] = obj[u]
            BY <2>2, <3>1, <1>2 DEF LatsHold
        <3> QED BY <3>1, <3>2, <2>2, <1>4
    <2> QED BY <2>4, <2>5, <2>6, <2>7, <2>8 DEF StandsFor
<1>6. o \in Objs /\ m \in MuxObjs
    BY KnownObjects
<1>7. val[m] = obj[o]
    BY <1>5, <1>6
<1> QED BY <1>2, <1>4, <1>6, <1>7

\* No latch stands for anything in the first cycle.
LEMMA NoLatchFirst ==
    ASSUME NEW D, Justified(D), AndsKnown(D), NEW l, NEW o PROVE <<0, MuxBo(l), o>> \notin D
<1> SUFFICES ASSUME <<0, MuxBo(l), o>> \in D PROVE FALSE
    OBVIOUS
<1>1. StandsFor(D, 0, MuxBo(l), o)
    BY DEF Justified
<1>2. MuxBo(l) \notin aig
    BY KindsDiffer DEF AndsKnown
<1> QED BY <1>1, <1>2, KindsDiffer DEF StandsFor

LEMMA InitIInv == Init => IInv
<1> SUFFICES ASSUME Init PROVE IInv
    OBVIOUS
<1>1. BInv
    BY InitBInv
<1>2. RingCounts
    BY NCiNat DEF Init, RingCounts, RingInit, Frames
<1>3. BatchRead
    BY DEF Init, BatchRead
<1>4. Running
    BY DEF Init, Running
<1> QED BY <1>1, <1>2, <1>3, <1>4 DEF IInv

\* As long as the circuit is built it does not run.
LEMMA BuildKeepsRest ==
    ASSUME IInv, pc # "run", pc' # "run", UNCHANGED runVars
    PROVE  RingCounts' /\ BatchRead' /\ Running'
<1>1. RingCounts'
    BY DEF IInv, RingCounts, runVars
<1>2. BatchRead'
    BY DEF IInv, BatchRead, runVars
<1>3. Running'
    BY DEF Running
<1> QED BY <1>1, <1>2, <1>3

\* Nothing of BInv changes once the frames are built.
LEMMA BInvUnchanged ==
    ASSUME BInv, UNCHANGED <<ntk, mff, buildVars>>, pc' = pc \/ (pc = "po" /\ pc' = "run")
    PROVE  BInv' /\ \A D : Meaning(D) => Meaning(D)'
<1>1. /\ que' = que /\ vMap' = vMap /\ pCopy' = pCopy /\ aig' = aig /\ lats' = lats
      /\ poInfos' = poInfos /\ t' = t /\ ntk' = ntk /\ mff' = mff
    BY DEF buildVars
<1>2. Visited' = Visited
    <2>1. pc' = "frame" <=> pc = "frame"
        OBVIOUS
    <2> QED BY <1>1, <2>1 DEF Visited, Objs, Ands
<1>3. Shape'
    BY <1>1 DEF BInv, Shape, Objs, Ands, LatIdx
<1>4. InputsReached'
    BY <1>1 DEF BInv, InputsReached, InputsOf, Pi
<1>5. WaitsForOther'
    BY <1>1, <1>2 DEF BInv, WaitsForOther
<1>6. PosOnce'
    BY <1>1, <1>2 DEF BInv, PosOnce
<1>7. OneLoadPerFrame'
    BY <1>1 DEF BInv, OneLoadPerFrame, LatIdx
<1>8. ASSUME NEW D, Meaning(D) PROVE Meaning(D)'
    <2>1. Justified(D)'
        <3> SUFFICES ASSUME NEW f, NEW m, NEW o, <<f, m, o>> \in D
                     PROVE  f \in 0 .. t /\ o \in Objs' /\ StandsFor(D, f, m, o)'
            BY <1>1 DEF Justified
        <3>1. f \in 0 .. t /\ o \in Objs /\ StandsFor(D, f, m, o)
            BY <1>8 DEF Meaning, Justified
        <3>2. StandsFor(D, f, m, o)'
            BY <3>1, <1>1, StandsForever DEF LatIdx, BInv
        <3>3. Objs' = Objs
            BY <1>1 DEF Objs, Ands
        <3> QED BY <3>1, <3>2, <3>3
    <2>2. Current(D)'
        <3>1. Waiting' = Waiting
            BY <1>1 DEF Waiting
        <3> QED BY <1>8, <1>1, <3>1 DEF Meaning, Current
    <2>3. AndsKnown(D)'
        BY <1>8, <1>1 DEF Meaning, AndsKnown
    <2>4. LoadsKnown(D)'
        <3>1. LoadsKnown(D)
            BY <1>8 DEF Meaning
        <3> QED BY <3>1, <1>1 DEF LoadsKnown, LatIdx
    <2>5. PosKnown(D)'
        <3>1. PosKnown(D)
            BY <1>8 DEF Meaning
        <3> QED BY <3>1, <1>1 DEF PosKnown
    <2> QED BY <2>1, <2>2, <2>3, <2>4, <2>5 DEF Meaning
<1>9. \E D : Meaning(D)'
    BY <1>8 DEF BInv
<1> QED BY <1>3, <1>4, <1>5, <1>6, <1>7, <1>8, <1>9 DEF BInv

LEMMA BuildPoFuncsIInv == IInv /\ BuildPoFuncs => IInv'
<1> SUFFICES ASSUME IInv, BuildPoFuncs PROVE IInv'
    OBVIOUS
<1>1. /\ pc = "po" /\ pc' = "run" /\ UNCHANGED <<ntk, mff, buildVars>>
      /\ latVal' = [l \in LatIdx |-> FALSE]
      /\ ring' = ring /\ cycle' = cycle /\ got' = got /\ out' = out
    BY DEF BuildPoFuncs
<1>2. BInv' /\ \A D : Meaning(D) => Meaning(D)'
    BY <1>1, BInvUnchanged DEF IInv
<1>3. RingCounts' /\ cycle = 0
    BY <1>1 DEF IInv, RingCounts, BatchRead
<1>4. BatchRead'
    BY <1>1 DEF IInv, BatchRead
<1>5. Running'
    <2>1. SlotsAreRanks'
        BY BuildSlots DEF IInv
    <2>2. LatIdx' = LatIdx /\ latVal' \in [LatIdx' -> BOOLEAN]
        BY <1>1 DEF LatIdx, buildVars
    <2>3. PICK D : Meaning(D)
        BY DEF IInv, BInv
    <2>4. LatsHold(D)'
        <3>1. Justified(D) /\ AndsKnown(D)
            BY <2>3 DEF Meaning
        <3>2. \A l, o : <<cycle', MuxBo(l), o>> \notin D
            BY <3>1, <1>1, <1>3, NoLatchFirst
        <3> QED BY <3>2 DEF LatsHold
    <2>5. Meaning(D)'
        BY <2>3, <1>2
    <2> QED BY <2>1, <2>2, <2>4, <2>5 DEF Running
<1> QED BY <1>2, <1>3, <1>4, <1>5 DEF IInv

\* A clock cycle, with the inputs of the frame named.
ClockWith(pis, val) ==
    /\ pis \in PinValues /\ val = MuxValues(pis)
    /\ out' = [i \in 0 .. nPo - 1 |-> PoFunc(val, i)]
    /\ latVal' = [l \in LatIdx |-> LatFunc(val, l)]
    /\ got' = Append(IF cycle = 0 THEN <<>> ELSE got, pis)

\* The inputs that are read are those of the frame.
LEMMA ClockReads ==
    ASSUME IInv, NEW pis, NEW val, ClockWith(pis, val)
    PROVE  /\ got' \in Seq(PinValues) /\ Len(got') = cycle + 1 /\ got'[cycle + 1] = pis
           /\ \A full : Agrees(full, cycle + 1, got') =>
                  /\ Agrees(full, cycle, got)
                  /\ \A i \in 0 .. NPi - 1 : full[cycle * NPi + i] = pis[i]
<1>0. /\ cycle \in Nat /\ pis \in PinValues /\ got \in Seq(PinValues)
      /\ (cycle # 0 => Len(got) = cycle)
    BY DEF IInv, RingCounts, BatchRead, Frames, ClockWith
<1>1. /\ got' \in Seq(PinValues) /\ Len(got') = cycle + 1 /\ got'[cycle + 1] = pis
      /\ \A f \in 1 .. cycle : got'[f] = got[f]
    BY <1>0 DEF ClockWith
<1>2. ASSUME NEW full, Agrees(full, cycle + 1, got')
      PROVE  /\ Agrees(full, cycle, got)
             /\ \A i \in 0 .. NPi - 1 : full[cycle * NPi + i] = pis[i]
    <2>1. \A f \in 0 .. cycle : \A i \in 0 .. NPi - 1 : full[f * NPi + i] = got'[f + 1][i]
        <3>1. PICK n : n = cycle + 1
            OBVIOUS
        <3>2. \A f \in 0 .. n - 1 : \A i \in 0 .. NPi - 1 :
                  full[f * NPi + i] = got'[f + 1][i]
            BY <1>2, <3>1 DEF Agrees
        <3>3. \A f \in 0 .. cycle : f \in 0 .. n - 1
            BY <1>0, <3>1
        <3> QED BY <3>2, <3>3
    <2>2. \A f \in 0 .. cycle - 1 : f \in 0 .. cycle /\ got'[f + 1] = got[f + 1]
        BY <1>0, <1>1
    <2>3. Agrees(full, cycle, got)
        BY <1>2, <2>1, <2>2 DEF Agrees
    <2>4. cycle \in 0 .. cycle
        BY <1>0
    <2> QED BY <2>1, <2>3, <2>4, <1>1
<1> QED BY <1>1, <1>2

\* What a latch holds in the next cycle.
LEMMA LatFuncHolds ==
    ASSUME IInv, pc = "run", NEW D, Meaning(D), LatsHold(D), latVal \in [LatIdx -> BOOLEAN],
           NEW pis, NEW val, ClockWith(pis, val),
           NEW full, Agrees(full, cycle + 1, got'),
           NEW l \in LatIdx, NEW o, <<cycle + 1, MuxBo(l), o>> \in D
    PROVE  LatFunc(val, l) <=> ObjValues(ntk, NCi, full)[o]
<1>1. /\ Shape /\ Justified(D) /\ AndsKnown(D) /\ LoadsKnown(D) /\ OneLoadPerFrame
      /\ cycle \in Frames /\ cycle \in Nat /\ ring = [f \in Frames |-> f = cycle]
      /\ mff \in BOOLEAN /\ t = NTimeFrame
    BY DEF IInv, BInv, Meaning, RingCounts, Frames, Shape
<1>2. /\ pis \in PinValues /\ val = MuxValues(pis) /\ Agrees(full, cycle, got)
      /\ \A i \in 0 .. NPi - 1 : full[cycle * NPi + i] = pis[i]
    BY ClockReads DEF ClockWith
<1>3. PICK obj : obj = ObjValues(ntk, NCi, full)
    OBVIOUS
<1>4. \A m, u : <<cycle, m, u>> \in D => val[m] = obj[u] /\ val[m] \in BOOLEAN
    BY <1>1, <1>2, <1>3, CycleValues
<1>8. PICK c : c = cycle + 1 /\ c - 1 = cycle
    BY <1>1
<1>5. HeldFor(D, c, l, o)
    <2>1. StandsFor(D, c, MuxBo(l), o)
        BY <1>1, <1>8 DEF Justified
    <2>2. MuxBo(l) \notin aig
        BY <1>1, KindsDiffer DEF AndsKnown
    <2>3. PICK k \in LatIdx : MuxBo(l) = MuxBo(k) /\ HeldFor(D, c, k, o)
        BY <2>1, <2>2, KindsDiffer DEF StandsFor
    <2>4. k = l
        BY <2>3, KindsDiffer
    <2> QED BY <2>3, <2>4
<1>6. \A p \in lats[l] : p[1] \in Frames
    <2> SUFFICES ASSUME NEW p \in lats[l] PROVE p[1] \in Frames
        OBVIOUS
    <2>1. \E f \in 0 .. t - 1 : \E m, u : p = <<f, Lit(m, FALSE)>> /\ <<f, m, u>> \in D
        BY <1>1 DEF LoadsKnown
    <2> QED BY <2>1, <1>1 DEF Frames
<1>7. \A p \in lats[l] : ring[p[1]] <=> p[1] = cycle
    BY <1>1, <1>6
<1>9. CASE \E m : <<cycle, m, o>> \in D /\ <<cycle, Lit(m, FALSE)>> \in lats[l]
    <2>1. PICK m : <<cycle, m, o>> \in D /\ <<cycle, Lit(m, FALSE)>> \in lats[l]
        BY <1>9
    <2>2. PICK q : q = <<cycle, Lit(m, FALSE)>>
        OBVIOUS
    <2>3. q \in lats[l] /\ q[1] = cycle /\ q[2].obj = m /\ q[2].neg = FALSE
        BY <2>1, <2>2, Literals
    <2>4. \A p \in lats[l] : ring[p[1]] => p = q
        BY <2>3, <1>1, <1>7 DEF OneLoadPerFrame
    <2>5. LatFunc(val, l) <=> val[m] # FALSE
        BY <2>3, <2>4, <1>7 DEF LatFunc
    <2>6. val[m] = obj[o] /\ val[m] \in BOOLEAN
        BY <2>1, <1>4
    <2> QED BY <2>5, <2>6, <1>3
<1>10. CASE ~ mff /\ <<cycle, MuxBo(l), o>> \in D /\ \A p \in lats[l] : p[1] # cycle
    <2>1. LatFunc(val, l) <=> latVal[l]
        BY <1>7, <1>10 DEF LatFunc
    <2>2. latVal[l] = obj[o]
        BY <1>2, <1>3, <1>10 DEF LatsHold
    <2> QED BY <2>1, <2>2, <1>3
<1> QED BY <1>5, <1>8, <1>9, <1>10 DEF HeldFor

LEMMA ClockIInv == IInv /\ Clock => IInv'
<1> SUFFICES ASSUME IInv, Clock PROVE IInv'
    OBVIOUS
<1>1. /\ pc = "run" /\ pc' = pc /\ UNCHANGED <<ntk, mff, buildVars, permVars>>
      /\ ring' = RingNext(ring) /\ cycle' = (cycle + 1) % NTimeFrame
    BY DEF Clock
<1>2. PICK pis, val : ClockWith(pis, val)
    BY DEF Clock, ClockWith
<1>3. /\ cycle \in Nat /\ cycle < NTimeFrame /\ NTimeFrame \in Nat \ {0}
      /\ cycle' = IF cycle = NTimeFrame - 1 THEN 0 ELSE cycle + 1
    BY <1>1, NCiNat DEF IInv, RingCounts, Frames
<1>4. BInv' /\ \A D : Meaning(D) => Meaning(D)'
    BY <1>1, BInvUnchanged DEF IInv
<1>5. RingCounts'
    <2>1. ring = [f \in Frames |-> f = cycle]
        BY DEF IInv, RingCounts
    <2>2. cycle' \in Frames
        BY <1>3 DEF Frames
    <2>3. ring' = [f \in Frames |-> f = cycle']
        BY <2>1, <1>1, <1>3 DEF RingNext, Frames
    <2> QED BY <2>2, <2>3 DEF RingCounts
<1>6. BatchRead'
    <2>1. got' \in Seq(PinValues) /\ Len(got') = cycle + 1
        BY <1>2, ClockReads
    <2>2. cycle' # 0 => cycle' = cycle + 1
        BY <1>3
    <2> QED BY <2>1, <2>2, <1>1 DEF BatchRead
<1>7. Running'
    <2>1. SlotsAreRanks /\ latVal \in [LatIdx -> BOOLEAN]
        BY <1>1 DEF IInv, Running
    <2>2. PICK D : Meaning(D) /\ LatsHold(D)
        BY <1>1 DEF IInv, Running
    <2>3. SlotsAreRanks'
        BY <2>1, <1>1 DEF SlotsAreRanks, GetPoNum, Rank, buildVars, permVars
    <2>4. LatIdx' = LatIdx /\ latVal' \in [LatIdx' -> BOOLEAN]
        <3>1. LatIdx' = LatIdx
            BY <1>1 DEF LatIdx, buildVars
        <3>2. \A l \in LatIdx : LatFunc(val, l) \in BOOLEAN
            BY DEF LatFunc
        <3> QED BY <1>2, <3>1, <3>2 DEF ClockWith
    <2>5. LatsHold(D)'
        <3>1. Justified(D) /\ AndsKnown(D) /\ ntk' = ntk
            BY <2>2, <1>1 DEF Meaning
        <3>2. CASE cycle' = 0
            <4>1. \A l, o : <<cycle', MuxBo(l), o>> \notin D
                BY <3>1, <3>2, NoLatchFirst
            <4> QED BY <4>1 DEF LatsHold
        <3>3. CASE cycle' # 0
            <4> SUFFICES ASSUME NEW l \in LatIdx, NEW o, NEW full,
                                <<cycle', MuxBo(l), o>> \in D, Agrees(full, cycle', got')
                         PROVE  latVal'[l] = ObjValues(ntk, NCi, full)[o]
                BY <2>4, <3>1, LatsHoldNext
            <4>1. cycle' = cycle + 1
                BY <3>3, <1>3
            <4>2. Agrees(full, cycle + 1, got') /\ <<cycle + 1, MuxBo(l), o>> \in D
                BY <4>1
            <4>3. LatFunc(val, l) <=> ObjValues(ntk, NCi, full)[o]
                BY <4>2, <2>1, <2>2, <1>1, <1>2, LatFuncHolds
            <4>4. latVal'[l] = LatFunc(val, l)
                BY <1>2 DEF ClockWith
            <4>5. ObjValues(ntk, NCi, full)[o] \in BOOLEAN
                <5>1. o \in AigObjs(ntk, NCi)
                    BY <3>1, KnownObjects DEF Objs, AigObjs
                <5>2. IsStrashed(ntk, NCi) /\ NCi \in Nat
                    BY StructuralFoldAssumption, NCiNat DEF IInv, BInv, Shape
                <5>3. full \in [0 .. NCi - 1 -> BOOLEAN]
                    BY DEF Agrees
                <5>4. ObjValues(ntk, NCi, full) \in [AigObjs(ntk, NCi) -> BOOLEAN]
                    BY <5>2, <5>3, ValueOfObject
                <5> QED BY <5>1, <5>4
            <4>6. LatFunc(val, l) \in BOOLEAN
                BY DEF LatFunc
            <4> QED BY <4>3, <4>4, <4>5, <4>6, Zenon
        <3> QED BY <3>2, <3>3
    <2>6. Meaning(D)'
        BY <2>2, <1>4
    <2> QED BY <2>3, <2>4, <2>5, <2>6 DEF Running
<1> QED BY <1>4, <1>5, <1>6, <1>7 DEF IInv

LEMMA NextIInv == IInv /\ [Next]_vars => IInv'
<1> SUFFICES ASSUME IInv, [Next]_vars PROVE IInv'
    OBVIOUS
<1>1. CASE InitQue
    <2>1. BInv' /\ pc # "run" /\ pc' # "run" /\ UNCHANGED runVars
        BY <1>1, InitQueBInv DEF IInv, InitQue
    <2> QED BY <2>1, BuildKeepsRest DEF IInv
<1>2. CASE \E o \in Objs : Visit(o)
    <2>1. BInv' /\ pc # "run" /\ pc' # "run" /\ UNCHANGED runVars
        BY <1>2, VisitBInv DEF IInv, Visit
    <2> QED BY <2>1, BuildKeepsRest DEF IInv
<1>3. CASE Store
    <2>1. BInv' /\ pc # "run" /\ pc' # "run" /\ UNCHANGED runVars
        BY <1>3, StoreBInv DEF IInv, Store
    <2> QED BY <2>1, BuildKeepsRest DEF IInv
<1>4. CASE BuildPoFuncs
    BY <1>4, BuildPoFuncsIInv
<1>5. CASE Clock
    BY <1>5, ClockIInv
<1>6. CASE UNCHANGED vars
    <2>1. /\ UNCHANGED <<ntk, mff, buildVars>> /\ pc' = pc /\ UNCHANGED runVars
          /\ UNCHANGED permVars
        BY <1>6 DEF vars
    <2>2. BInv' /\ \A D : Meaning(D) => Meaning(D)'
        BY <2>1, BInvUnchanged DEF IInv
    <2>3. RingCounts' /\ BatchRead'
        BY <2>1 DEF IInv, RingCounts, BatchRead, runVars
    <2>4. Running'
        <3> SUFFICES ASSUME pc = "run"
                     PROVE  /\ SlotsAreRanks' /\ latVal' \in [LatIdx' -> BOOLEAN]
                            /\ \E D : Meaning(D)' /\ LatsHold(D)'
            BY <2>1 DEF Running
        <3>1. SlotsAreRanks'
            BY <2>1 DEF IInv, Running, SlotsAreRanks, GetPoNum, Rank, buildVars, permVars
        <3>2. latVal' \in [LatIdx' -> BOOLEAN]
            BY <2>1 DEF IInv, Running, LatIdx, buildVars, runVars
        <3>3. PICK D : Meaning(D) /\ LatsHold(D)
            BY DEF IInv, Running
        <3>4. LatsHold(D)'
            <4>1. /\ LatIdx' = LatIdx /\ cycle' = cycle /\ got' = got
                  /\ latVal' = latVal /\ ntk' = ntk
                BY <2>1 DEF LatIdx, buildVars, runVars
            <4> QED BY <3>3, <4>1, LatsHoldNext DEF LatsHold
        <3> QED BY <3>1, <3>2, <3>3, <3>4, <2>2
    <2> QED BY <2>2, <2>3, <2>4 DEF IInv
<1> QED BY <1>1, <1>2, <1>3, <1>4, <1>5, <1>6 DEF Next, Build

\* The invariant holds in every reachable state.
LEMMA SpecIInv == Spec => []IInv
BY InitIInv, NextIInv, PTL DEF Spec

-----------------------------------------------------------------------------
(* What follows from the invariant.                                        *)

\* No latch is loaded with two objects in one frame, so the OR gate that
\* storeInIthLat adds to the input of a latch that is used again never mixes
\* two values.
THEOREM LatchesLoadedOnce == Spec => []OneLoadPerFrame
<1>1. IInv => OneLoadPerFrame
    BY DEF IInv, BInv
<1> QED BY <1>1, SpecIInv, PTL

\* The permutation that buildPoFuncs leaves passes checkPerm: every output has
\* a slot, no two outputs have the same, and all lie within the pins of the
\* folded circuit.
THEOREM SlotsOfOutputs == Spec => []PermLegal
<1>1. IInv => PermLegal
    BY SlotsLegal DEF IInv, Running, PermLegal
<1> QED BY <1>1, SpecIInv, PTL

\* Every waiting object has a latch of its own or none.
LEMMA HeldAndUnstored ==
    ASSUME BInv, NEW D, Meaning(D), pc = "traverse", que = {}
    PROVE  /\ Cardinality(HeldLats) \in Nat /\ Cardinality(Unstored) \in Nat
           /\ Cardinality(Waiting) = Cardinality(HeldLats) + Cardinality(Unstored)
<1> DEFINE Held == Waiting \ Unstored
           latch == [o \in Held |-> pCopy[o].obj.id]
<1>1. IsFiniteSet(Waiting) /\ Unstored \subseteq Waiting /\ IsFiniteSet(Unstored)
    BY LatchNumbers DEF Unstored
<1>2. IsFiniteSet(Held)
    BY <1>1, FS_Subset
<1>3. ASSUME NEW o \in Held, NEW u \in Held, pCopy[o].obj.id = pCopy[u].obj.id PROVE o = u
    <2>1. /\ <<t, pCopy[o].obj, o>> \in D /\ <<t, pCopy[u].obj, u>> \in D
          /\ pCopy[o] = Lit(MuxBo(pCopy[o].obj.id), FALSE)
          /\ pCopy[u] = Lit(MuxBo(pCopy[u].obj.id), FALSE)
        BY WaitingFacts
    <2>2. pCopy[o] = pCopy[u]
        BY <2>1, <1>3
    <2>3. <<t, pCopy[o].obj, u>> \in D
        BY <2>1, <2>2
    <2>4. pc \in {"frame", "traverse"}
        OBVIOUS
    <2>5. \A p, q, m : <<t, m, p>> \in D /\ <<t, m, q>> \in D => p = q
        BY <2>4 DEF Meaning, Current
    <2> QED BY <2>1, <2>3, <2>5
<1>4. latch \in Surjection(Held, HeldLats)
    <2>1. latch \in [Held -> HeldLats]
        BY DEF HeldLats
    <2>2. \A l \in HeldLats : \E o \in Held : latch[o] = l
        BY DEF HeldLats
    <2> QED BY <2>1, <2>2 DEF Surjection
<1>5. latch \in Injection(Held, HeldLats)
    <2>1. latch \in [Held -> HeldLats]
        BY DEF HeldLats
    <2>2. \A o, u \in Held : latch[o] = latch[u] => o = u
        BY <1>3
    <2> QED BY <2>1, <2>2 DEF Injection, IsInjective
<1>6. Cardinality(HeldLats) = Cardinality(Held) /\ IsFiniteSet(HeldLats)
    <2> HIDE DEF latch, Held
    <2>1. ExistsBijection(Held, HeldLats)
        BY <1>4, <1>5 DEF Bijection, ExistsBijection
    <2> QED BY <1>2, <2>1, FS_Bijection
<1>7. Cardinality(Waiting) = Cardinality(Held) + Cardinality(Unstored)
    <2>1. Held \cup Unstored = Waiting /\ Held \cap Unstored = {}
        BY <1>1
    <2>2. Cardinality(Held \cup Unstored) =
              Cardinality(Held) + Cardinality(Unstored) - Cardinality(Held \cap Unstored)
        <3> HIDE DEF Held
        <3> QED BY <1>1, <1>2, FS_Union
    <2>3. Cardinality(Held \cap Unstored) = 0
        BY <2>1, FS_EmptySet
    <2>4. Cardinality(Held) \in Nat /\ Cardinality(Unstored) \in Nat
        <3> HIDE DEF Held
        <3> QED BY <1>1, <1>2, FS_CardinalityType
    <2> HIDE DEF Held
    <2> QED BY <2>1, <2>2, <2>3, <2>4
<1>8. Cardinality(HeldLats) \in Nat /\ Cardinality(Unstored) \in Nat
    BY <1>1, <1>6, FS_CardinalityType
<1> HIDE DEF Held
<1> QED BY <1>6, <1>7, <1>8

\* A frame adds no latch as long as there are as many as objects wait.
LEMMA StoreAddsNeeded ==
    ASSUME IInv, Store, mff
    PROVE  Cardinality(LatIdx') =
              IF Cardinality(Waiting) > Cardinality(LatIdx)
              THEN Cardinality(Waiting) ELSE Cardinality(LatIdx)
<1>1. BInv /\ pc = "traverse" /\ que = {}
    BY DEF IInv, Store
<1>2. PICK D : Meaning(D)
    BY <1>1 DEF BInv
<1>3. PICK target, place : StoredAt(place, target)
    BY DEF Store, StoredAt
<1>4. LatIdx' = LatIdx \cup target
    BY <1>1, <1>2, <1>3, StoredLats
<1>5. PICK n, u, H, h : /\ n = Cardinality(LatIdx) /\ u = Cardinality(Unstored)
                        /\ H = HeldLats /\ h = Cardinality(HeldLats)
    OBVIOUS
<1>6. /\ n \in Nat /\ u \in Nat /\ LatIdx = 0 .. n - 1 /\ H \in SUBSET (0 .. n - 1)
      /\ target = FirstOf(n, u, H) /\ h = Cardinality(H)
    BY <1>1, <1>2, <1>3, <1>5, LatchNumbers DEF StoredAt
<1>7. Cardinality(FirstOf(n, u, H)) = u
    <2>1. place \in Bijection(Unstored, target) /\ IsFiniteSet(Unstored)
        BY <1>1, <1>2, <1>3, LatchNumbers DEF StoredAt
    <2>2. Cardinality(target) = Cardinality(Unstored)
        BY <2>1, FS_Bijection DEF ExistsBijection
    <2> QED BY <2>2, <1>5, <1>6
<1>8. Cardinality((0 .. n - 1) \cup FirstOf(n, u, H)) = IF h + u > n THEN h + u ELSE n
    BY <1>6, <1>7, FirstAreEnough
<1>9. Cardinality(Waiting) = h + u
    BY <1>1, <1>2, <1>5, HeldAndUnstored
<1>10. LatIdx' = (0 .. n - 1) \cup FirstOf(n, u, H)
    BY <1>4, <1>6
<1> QED BY <1>5, <1>8, <1>9, <1>10

\* What -m is for: whatever latches storeInLats2 picks, a frame adds only as
\* many as its waiting objects exceed the latches there are, so the folded
\* circuit ends with the largest number of objects that ever waited at once.
THEOREM LatchesNeeded == Spec => NoMoreLatsThanNeeded
<1> DEFINE Needed ==
        mff => Cardinality(LatIdx') =
                  IF t' # t /\ Cardinality(Waiting) > Cardinality(LatIdx)
                  THEN Cardinality(Waiting) ELSE Cardinality(LatIdx)
<1>1. ASSUME lats' = lats, t' = t PROVE Needed
    BY <1>1 DEF LatIdx
<1>2. ASSUME IInv, Store PROVE Needed
    <2>1. t \in Nat /\ t' = t + 1
        BY <1>2, NCiNat DEF IInv, BInv, Shape, Store
    <2>2. t' # t
        BY <2>1
    <2> QED BY <1>2, <2>2, StoreAddsNeeded
<1>3. IInv /\ [Next]_vars => [Needed]_vars
    <2> SUFFICES ASSUME IInv, [Next]_vars PROVE Needed
        OBVIOUS
    <2>1. CASE InitQue
        BY <2>1, <1>1 DEF InitQue
    <2>2. CASE \E o \in Objs : Visit(o)
        BY <2>2, <1>1 DEF Visit
    <2>3. CASE Store
        BY <2>3, <1>2
    <2>4. CASE BuildPoFuncs
        BY <2>4, <1>1 DEF BuildPoFuncs, buildVars
    <2>5. CASE Clock
        BY <2>5, <1>1 DEF Clock, buildVars
    <2>6. CASE UNCHANGED vars
        BY <2>6, <1>1 DEF vars, buildVars
    <2> QED BY <2>1, <2>2, <2>3, <2>4, <2>5, <2>6 DEF Next, Build
<1> QED BY SpecIInv, <1>3, PTL DEF Spec, NoMoreLatsThanNeeded

-----------------------------------------------------------------------------
(* The frame of an output.                                                 *)

\* The frames whose inputs an object needs.
LEMMA FramesOfObjects ==
    ASSUME Shape
    PROVE  /\ \A o : FrameOf(o) \subseteq Frames
           /\ FrameOf(Const1) = {0}
           /\ \A f \in Frames : \A o \in InputsOf(f) : FrameOf(o) = {g \in Frames : g <= f}
           /\ \A n \in Ands(ntk) :
                 FrameOf(n) = FrameOf(ntk.fan[n][1].obj) \cup FrameOf(ntk.fan[n][2].obj)
<1>1. PICK sup : sup = Supports(ntk, NCi)
    OBVIOUS
<1>2. AreSupports(ntk, NCi, sup)
    BY <1>1, ObjectSupports, StructuralFoldAssumption, NCiNat DEF Shape
<1>3. \A o : FrameOf(o) = {f \in Frames : f = 0 \/ \E i \in sup[o] : i >= Pi(f, 0)}
    BY <1>1 DEF FrameOf
<1>4. FrameOf(Const1) = {0}
    <2>1. sup[Const1] = {} /\ 0 \in Frames
        BY <1>2, NCiNat DEF AreSupports, Frames
    <2> QED BY <2>1, <1>3
<1>5. ASSUME NEW f \in Frames, NEW i \in 0 .. NPi - 1
      PROVE  FrameOf(Pi(f, i)) = {g \in Frames : g <= f}
    <2>1. sup[Pi(f, i)] = {Pi(f, i)}
        BY <1>2, InputsOfFrames DEF AreSupports
    <2>2. FrameOf(Pi(f, i)) = {g \in Frames : g = 0 \/ Pi(f, i) >= Pi(g, 0)}
        BY <1>3, <2>1
    <2>3. ASSUME NEW g \in Frames PROVE (g = 0 \/ Pi(f, i) >= Pi(g, 0)) <=> g <= f
        <3>1. /\ f \in Nat /\ g \in Nat /\ NPi \in Nat /\ i \in Nat /\ i < NPi
              /\ f * NPi \in Nat /\ g * NPi \in Nat
            BY NCiNat DEF Frames
        <3>2. CASE g <= f
            <4>1. g * NPi <= f * NPi
                BY <3>1, <3>2, MulMonotone
            <4> QED BY <3>1, <3>2, <4>1 DEF Pi
        <3>3. CASE f < g
            <4>1. (f + 1) * NPi <= g * NPi
                BY <3>1, <3>3, MulMonotone
            <4>2. f * NPi + NPi <= g * NPi
                BY <3>1, <4>1
            <4> QED BY <3>1, <3>3, <4>2 DEF Pi
        <3> QED BY <3>1, <3>2, <3>3
    <2> QED BY <2>2, <2>3
<1>6. ASSUME NEW n \in Ands(ntk)
      PROVE  FrameOf(n) = FrameOf(ntk.fan[n][1].obj) \cup FrameOf(ntk.fan[n][2].obj)
    <2>1. sup[n] = sup[ntk.fan[n][1].obj] \cup sup[ntk.fan[n][2].obj]
        BY <1>2 DEF AreSupports
    <2> QED BY <2>1, <1>3
<1>7. \A o : FrameOf(o) \subseteq Frames
    BY <1>3
<1> QED BY <1>4, <1>5, <1>6, <1>7 DEF InputsOf

\* What is queued needs the inputs of this frame; what has been reached needs
\* no later ones; an output is listed in the last frame it needs.
FramesSeen ==
    /\ \A o \in que : t \in FrameOf(o)
    /\ \A o \in Objs : pCopy[o] # NoCopy => \A f \in FrameOf(o) : f <= t
    /\ \A f \in Frames : \A p \in poInfos[f] :
          /\ f \in FrameOf(ntk.po[p[1]].obj)
          /\ \A g \in FrameOf(ntk.po[p[1]].obj) : g <= f

LEMMA InitFramesSeen == Init => FramesSeen
<1> SUFFICES ASSUME Init PROVE FramesSeen
    OBVIOUS
<1>1. BInv /\ Shape
    BY InitBInv DEF BInv
<1>2. /\ que = {} /\ t = 0 /\ poInfos = [f \in Frames |-> {}]
      /\ \A o \in Objs : pCopy[o] # NoCopy => o = Const1
    BY DEF Init
<1>3. \A f \in FrameOf(Const1) : f <= t
    BY <1>1, <1>2, FramesOfObjects
<1> QED BY <1>2, <1>3 DEF FramesSeen

LEMMA InitQueFramesSeen == BInv /\ FramesSeen /\ InitQue => FramesSeen'
<1> SUFFICES ASSUME BInv, FramesSeen, InitQue PROVE FramesSeen'
    OBVIOUS
<1>1. /\ pc = "frame" /\ t \in Frames /\ t \in Nat /\ Shape
      /\ que' = InputsOf(t) \cup (IF t = 0 THEN {Const1} ELSE {})
      /\ ntk' = ntk /\ t' = t /\ poInfos' = poInfos /\ Objs' = Objs
      /\ \A o \in Objs : o \in InputsOf(t) \/ pCopy'[o] = pCopy[o]
    <2>1. /\ pc = "frame" /\ t \in 0 .. NTimeFrame /\ t < NTimeFrame /\ Shape
        BY DEF BInv, Shape, InitQue
    <2>2. t \in Frames /\ t \in Nat
        BY <2>1, NCiNat DEF Frames
    <2>3. /\ que' = InputsOf(t) \cup (IF t = 0 THEN {Const1} ELSE {})
          /\ ntk' = ntk /\ t' = t /\ poInfos' = poInfos
          /\ pCopy' = [o \in Objs |->
                IF o \in InputsOf(t) THEN Lit(MuxPi(o - Pi(t, 0)), FALSE) ELSE pCopy[o]]
        BY DEF InitQue, InputsOf
    <2>4. Objs' = Objs
        BY <2>3 DEF Objs, Ands
    <2> QED BY <2>1, <2>2, <2>3, <2>4
<1>2. \A o : FrameOf(o)' = FrameOf(o)
    BY <1>1 DEF FrameOf
<1>3. /\ \A o \in InputsOf(t) : FrameOf(o) = {g \in Frames : g <= t}
      /\ FrameOf(Const1) = {0}
    BY <1>1, FramesOfObjects
<1>4. \A o \in que' : t' \in FrameOf(o)'
    BY <1>1, <1>2, <1>3
<1>5. \A o \in Objs' : pCopy'[o] # NoCopy => \A f \in FrameOf(o)' : f <= t'
    BY <1>1, <1>2, <1>3 DEF FramesSeen
<1>6. \A f \in Frames : \A p \in poInfos'[f] :
          /\ f \in FrameOf(ntk.po[p[1]].obj)
          /\ \A g \in FrameOf(ntk.po[p[1]].obj) : g <= f
    BY <1>1 DEF FramesSeen
<1> QED BY <1>1, <1>2, <1>4, <1>5, <1>6 DEF FramesSeen

LEMMA VisitFramesSeen == ASSUME BInv, FramesSeen, NEW o, Visit(o) PROVE FramesSeen'
<1>1. /\ pc = "traverse" /\ o \in que /\ o \in Objs /\ t \in Frames /\ t \in Nat /\ Shape
      /\ t' = t /\ ntk' = ntk /\ Objs' = Objs
      /\ que' = (que \ {o}) \cup Completed(o)
      /\ \A n \in Objs : n \in Completed(o) \/ pCopy'[n] = pCopy[n]
    <2>1. /\ pc = "traverse" /\ o \in que /\ o \in Objs /\ t \in Frames
          /\ t' = t /\ ntk' = ntk /\ Objs' = Objs /\ que' = (que \ {o}) \cup Completed(o)
        BY VisitStep
    <2>2. pCopy' = [n \in Objs |-> IF n \in Completed(o) THEN CopyOf(n) ELSE pCopy[n]]
        BY VisitStep
    <2>3. t \in Nat /\ Shape
        BY <2>1 DEF BInv, Frames
    <2> QED BY <2>1, <2>2, <2>3
<1>2. \A u : FrameOf(u)' = FrameOf(u)
    BY <1>1 DEF FrameOf
<1>3. /\ t \in FrameOf(o) /\ pCopy[o] # NoCopy
      /\ \A f \in FrameOf(o) : f <= t
    BY <1>1 DEF BInv, InputsReached, FramesSeen
<1>4. ASSUME NEW n \in Completed(o)
      PROVE  t \in FrameOf(n) /\ \A f \in FrameOf(n) : f <= t
    <2>1. PICK D : Meaning(D)
        BY DEF BInv
    <2>2. n \in Ands(ntk) /\ FaninObjs(ntk, n) = {o, vMap[n]} /\ vMap[n] \in Visited
        BY <1>1, <2>1, CompletedNodes
    <2>3. vMap[n] \in Objs /\ pCopy[vMap[n]] # NoCopy
        BY <2>2 DEF Visited
    <2>4. \A f \in FrameOf(vMap[n]) : f <= t
        BY <2>3 DEF FramesSeen
    <2>5. {ntk.fan[n][1].obj, ntk.fan[n][2].obj} = {o, vMap[n]}
        BY <2>2 DEF FaninObjs
    <2>6. FrameOf(n) = FrameOf(ntk.fan[n][1].obj) \cup FrameOf(ntk.fan[n][2].obj)
        BY <1>1, <2>2, FramesOfObjects
    <2>7. \/ ntk.fan[n][1].obj = o /\ ntk.fan[n][2].obj = vMap[n]
          \/ ntk.fan[n][1].obj = vMap[n] /\ ntk.fan[n][2].obj = o
          \/ ntk.fan[n][1].obj = o /\ ntk.fan[n][2].obj = o
        BY <2>5, <1>1, <2>2, Fanins
    <2>8. FrameOf(n) = FrameOf(o) \cup FrameOf(vMap[n]) \/ FrameOf(n) = FrameOf(o)
        BY <2>6, <2>7
    <2> QED BY <2>4, <2>8, <1>3
<1>5. \A u \in que' : t' \in FrameOf(u)'
    BY <1>1, <1>2, <1>4 DEF FramesSeen
<1>6. \A u \in Objs' : pCopy'[u] # NoCopy => \A f \in FrameOf(u)' : f <= t'
    BY <1>1, <1>2, <1>4 DEF FramesSeen
<1>7. ASSUME NEW f \in Frames, NEW p \in poInfos'[f]
      PROVE  /\ f \in FrameOf(ntk.po[p[1]].obj)
             /\ \A g \in FrameOf(ntk.po[p[1]].obj) : g <= f
    <2>1. /\ poInfos' = [poInfos EXCEPT ![t] = @ \cup
                  {<<k, ChildCopy(pCopy, ntk.po[k])>> : k \in PoFanouts(ntk, o)}]
          /\ DOMAIN poInfos = Frames
        BY VisitStep DEF BInv, Shape
    <2>2. CASE p \in poInfos[f]
        BY <2>2 DEF FramesSeen
    <2>3. CASE p \notin poInfos[f]
        <3>1. f = t /\ \E k \in PoFanouts(ntk, o) : p = <<k, ChildCopy(pCopy, ntk.po[k])>>
            BY <2>1, <2>3
        <3>2. f = t /\ ntk.po[p[1]].obj = o
            BY <3>1 DEF PoFanouts
        <3> QED BY <3>2, <1>3
    <2> QED BY <2>2, <2>3
<1> QED BY <1>1, <1>2, <1>5, <1>6, <1>7 DEF FramesSeen

LEMMA StoreFramesSeen == BInv /\ FramesSeen /\ Store => FramesSeen'
<1> SUFFICES ASSUME BInv, FramesSeen, Store PROVE FramesSeen'
    OBVIOUS
<1>1. /\ pc = "traverse" /\ que = {} /\ que' = {} /\ t \in Nat /\ t' = t + 1 /\ Shape
      /\ ntk' = ntk /\ poInfos' = poInfos /\ Objs' = Objs
    BY NCiNat DEF BInv, Shape, Store, Objs, Ands
<1>2. \A u : FrameOf(u)' = FrameOf(u) /\ FrameOf(u) \subseteq Nat
    <2>1. \A u : FrameOf(u)' = FrameOf(u)
        BY <1>1 DEF FrameOf
    <2> QED BY <2>1, <1>1, FramesOfObjects DEF Frames
<1>3. PICK D : Meaning(D)
    BY DEF BInv
<1>4. PICK target, place : StoredAt(place, target)
    BY ZenonT(60) DEF Store, StoredAt
<1>5. \A o \in Objs \ Unstored : pCopy'[o] = pCopy[o]
    BY <1>3, <1>4, StoredLats
<1>6. \A o \in Unstored : pCopy[o] # NoCopy
    BY <1>1, <1>3, WaitingFacts
<1>7. ASSUME NEW o \in Objs, pCopy'[o] # NoCopy, NEW f \in FrameOf(o) PROVE f <= t + 1
    <2>1. pCopy[o] # NoCopy
        BY <1>5, <1>6, <1>7
    <2>2. f <= t /\ f \in Nat
        BY <2>1, <1>2, <1>7 DEF FramesSeen
    <2> QED BY <2>2, <1>1
<1>8. \A o \in que' : t' \in FrameOf(o)'
    BY <1>1
<1>9. \A f \in Frames : \A p \in poInfos'[f] :
          /\ f \in FrameOf(ntk.po[p[1]].obj)
          /\ \A g \in FrameOf(ntk.po[p[1]].obj) : g <= f
    BY <1>1 DEF FramesSeen
<1> QED BY <1>1, <1>2, <1>7, <1>8, <1>9 DEF FramesSeen

LEMMA NextFramesSeen == IInv /\ FramesSeen /\ [Next]_vars => FramesSeen'
<1> SUFFICES ASSUME IInv, FramesSeen, [Next]_vars PROVE FramesSeen'
    OBVIOUS
<1>1. BInv
    BY DEF IInv
<1>2. CASE InitQue
    BY <1>1, <1>2, InitQueFramesSeen
<1>3. CASE \E o \in Objs : Visit(o)
    BY <1>1, <1>3, VisitFramesSeen
<1>4. CASE Store
    BY <1>1, <1>4, StoreFramesSeen
<1>5. ASSUME UNCHANGED <<ntk, buildVars>> PROVE FramesSeen'
    <2>1. ntk' = ntk /\ que' = que /\ t' = t /\ pCopy' = pCopy /\ poInfos' = poInfos
        BY <1>5 DEF buildVars
    <2>2. \A u : FrameOf(u)' = FrameOf(u)
        BY <2>1 DEF FrameOf
    <2>3. Objs' = Objs
        BY <2>1 DEF Objs
    <2> QED BY <2>1, <2>2, <2>3 DEF FramesSeen
<1>6. CASE BuildPoFuncs
    BY <1>5, <1>6 DEF BuildPoFuncs
<1>7. CASE Clock
    BY <1>5, <1>7 DEF Clock
<1>8. CASE UNCHANGED vars
    BY <1>5, <1>8 DEF vars
<1> QED BY <1>2, <1>3, <1>4, <1>6, <1>7, <1>8 DEF Next, Build

\* Every output is assigned, once, to the earliest frame by which all inputs
\* it needs have been read: processQue finds an output when its driver is
\* reached, in whatever order the queue is emptied.
THEOREM OutputsAreEarly == Spec => []EarliestFrame
<1>1. IInv /\ FramesSeen => EarliestFrame
    <2> SUFFICES ASSUME IInv, FramesSeen PROVE EarliestFrame
        OBVIOUS
    <2>1. BInv /\ Shape /\ PosOnce
        BY DEF IInv, BInv
    <2>2. ASSUME NEW f \in Frames, NEW p \in poInfos[f]
          PROVE  /\ f = LastFrame(ntk.po[p[1]].obj)
                 /\ \A q \in poInfos[f] : p[1] = q[1] => p = q
        <3>1. PICK o : o = ntk.po[p[1]].obj
            OBVIOUS
        <3>2. f \in FrameOf(o) /\ (\A g \in FrameOf(o) : g <= f) /\ FrameOf(o) \subseteq Frames
            BY <3>1, <2>1, FramesOfObjects DEF FramesSeen
        <3>3. \A h \in FrameOf(o) : (\A g \in FrameOf(o) : g <= h) => h = f
            BY <3>2 DEF Frames
        <3>4. LastFrame(o) = f
            BY <3>2, <3>3 DEF LastFrame
        <3> QED BY <3>1, <3>4, <2>1 DEF PosOnce
    <2>3. ASSUME pc \in {"po", "run"}, NEW k \in PoIdx(ntk)
          PROVE  \E f \in Frames : \E p \in poInfos[f] : p[1] = k
        <3>1. ntk.po[k].obj \in Objs
            BY <2>1, StructuralFoldAssumption DEF Shape, IsStrashed, Objs
        <3>2. ntk.po[k].obj \in Visited
            BY <3>1, <2>1, <2>3, AllVisited
        <3> QED BY <3>2, <2>1 DEF PosOnce
    <2> QED BY <2>2, <2>3 DEF EarliestFrame
<1> QED BY InitFramesSeen, SpecIInv, NextFramesSeen, <1>1, PTL DEF Spec

-----------------------------------------------------------------------------
(* The folded circuit computes what the given one does.                    *)

\* What Fold!Fold asks of the slots.
LegalSlots ==
    /\ nPo \in Nat
    /\ oPerm \in [PoIdx(ntk) -> 0 .. nPo * NTimeFrame - 1]
    /\ \A k, m \in PoIdx(ntk) : oPerm[k] = oPerm[m] => k = m

LEMMA RunningIsLegal == IInv /\ pc = "run" => LegalSlots
BY SlotsLegal DEF IInv, Running, LegalSlots

LEMMA FoldRefines == IInv /\ BuildPoFuncs => Fold!Fold
<1>1. (IInv /\ pc = "run")' => LegalSlots'
    BY RunningIsLegal, PTL
<1> SUFFICES ASSUME IInv, BuildPoFuncs PROVE Fold!Fold
    OBVIOUS
<1>2. /\ pc = "po" /\ pc' = "run"
      /\ ntk' = ntk /\ cycle' = cycle /\ got' = got /\ out' = out
    BY DEF BuildPoFuncs
<1>3. LegalSlots'
    BY <1>1, <1>2, BuildPoFuncsIInv
<1>4. /\ nPo' \in Nat
      /\ oPerm' \in [PoIdx(ntk') -> 0 .. nPo' * NTimeFrame - 1]
      /\ \A k, m \in PoIdx(ntk') : oPerm'[k] = oPerm'[m] => k = m
    BY <1>3 DEF LegalSlots, PoIdx
<1> QED BY <1>2, <1>4 DEF Fold!Fold

\* The inputs read so far are part of every completion.
LEMMA CompletionsAgree ==
    ASSUME NEW g \in Seq(PinValues), NEW n \in 1 .. NTimeFrame, Len(g) = n,
           NEW full \in Fold!Completions(g)
    PROVE  Agrees(full, n, g)
<1>1. PICK rest \in [1 .. NTimeFrame - Len(g) -> Fold!PinValues] : full = Fold!Flat(g \o rest)
    BY DEF Fold!Completions
<1>2. /\ NTimeFrame \in Nat \ {0} /\ NPi \in Nat /\ n \in Nat /\ n <= NTimeFrame
      /\ NTimeFrame - n \in Nat
    BY NCiNat
<1>3. rest \in Seq(PinValues) /\ Len(rest) = NTimeFrame - n
    <2>1. PICK m \in Nat : m = NTimeFrame - n
        BY <1>2
    <2>2. rest \in [1 .. m -> PinValues]
        BY <1>1, <2>1 DEF PinValues, Fold!PinValues
    <2> QED BY <2>1, <2>2
<1>4. PICK all : all = g \o rest
    OBVIOUS
<1>5. /\ all \in Seq(PinValues) /\ Len(all) = NTimeFrame
      /\ \A f \in 1 .. n : all[f] = g[f]
    <2>1. all \in Seq(PinValues)
        BY <1>3, <1>4
    <2>2. Len(all) = Len(g) + Len(rest)
        <3>1. g \in Seq(PinValues) /\ rest \in Seq(PinValues)
            BY <1>3
        <3>2. Len(g \o rest) = Len(g) + Len(rest)
            BY <3>1
        <3> QED BY <3>2, <1>4
    <2>3. \A f \in 1 .. Len(g) : all[f] = g[f]
        BY <1>3, <1>4
    <2> QED BY <2>1, <2>2, <2>3, <1>2, <1>3
<1>6. full = [j \in 0 .. NTimeFrame * NPi - 1 |-> all[j \div NPi + 1][j % NPi]]
    BY <1>1, <1>4 DEF Fold!Flat
<1>7. full \in [0 .. NCi - 1 -> BOOLEAN]
    <2> SUFFICES ASSUME NEW j \in 0 .. NTimeFrame * NPi - 1
                 PROVE  all[j \div NPi + 1][j % NPi] \in BOOLEAN
        BY <1>6 DEF NCi
    <2>1. j \div NPi \in 0 .. NTimeFrame - 1 /\ j % NPi \in 0 .. NPi - 1
        BY <1>2, FrameAndItem
    <2>2. j \div NPi + 1 \in 1 .. NTimeFrame
        BY <2>1, <1>2
    <2>3. all[j \div NPi + 1] \in PinValues
        BY <2>2, <1>5
    <2> QED BY <2>1, <2>3 DEF PinValues
<1>8. ASSUME NEW f \in 0 .. n - 1, NEW i \in 0 .. NPi - 1
      PROVE  full[f * NPi + i] = g[f + 1][i]
    <2>1. f \in Nat /\ f \in 0 .. NTimeFrame - 1 /\ f + 1 \in 1 .. n
        BY <1>2
    <2>2. f * NPi + i \in 0 .. NTimeFrame * NPi - 1
        BY <2>1, <1>2, ItemInRange
    <2>3. (f * NPi + i) \div NPi = f /\ (f * NPi + i) % NPi = i
        BY <2>1, <1>2, ItemOfFrame
    <2> QED BY <2>1, <2>2, <2>3, <1>5, <1>6
<1> QED BY <1>7, <1>8 DEF Agrees

\* In the cycle of its frame an output is on its pin.
LEMMA PinShows ==
    ASSUME IInv, pc = "run", NEW pis, NEW val, ClockWith(pis, val),
           NEW k \in PoIdx(ntk), oPerm[k] \div nPo = cycle,
           NEW full, Agrees(full, cycle + 1, got')
    PROVE  out'[oPerm[k] % nPo] = PoValue(ntk, NCi, k, full)
<1>1. /\ BInv /\ Shape /\ SlotsAreRanks /\ latVal \in [LatIdx -> BOOLEAN]
      /\ cycle \in Frames /\ ring = [f \in Frames |-> f = cycle]
    BY DEF IInv, BInv, Running, RingCounts
<1>2. PICK D : Meaning(D) /\ LatsHold(D)
    BY DEF IInv, Running
<1>3. Justified(D) /\ AndsKnown(D) /\ PosKnown(D)
    BY <1>2 DEF Meaning
<1>4. /\ pis \in PinValues /\ val = MuxValues(pis) /\ Agrees(full, cycle, got)
      /\ \A i \in 0 .. NPi - 1 : full[cycle * NPi + i] = pis[i]
    BY ClockReads DEF ClockWith
<1>5. PICK f \in Frames : \E p \in poInfos[f] :
          /\ p[1] = k /\ oPerm[k] \div nPo = f /\ oPerm[k] % nPo = Rank(f, k)
          /\ Rank(f, k) \in 0 .. nPo - 1
    BY <1>1, SlotsLegal
<1>6. f = cycle
    BY <1>5
<1>7. PICK p \in poInfos[cycle] : 
          /\ p[1] = k /\ oPerm[k] % nPo = Rank(cycle, k) /\ Rank(cycle, k) \in 0 .. nPo - 1
    BY <1>5, <1>6
<1>8. PICK j \in PoIdx(ntk) : \E m :
          p = <<j, Lit(m, ntk.po[j].neg)>> /\ <<cycle, m, ntk.po[j].obj>> \in D
    BY <1>3, <1>1, <1>7 DEF PosKnown
<1>9. PICK m : p = <<j, Lit(m, ntk.po[j].neg)>> /\ <<cycle, m, ntk.po[j].obj>> \in D
    BY <1>8
<1>10. j = k /\ p[2].obj = m /\ p[2].neg = ntk.po[k].neg
    BY <1>7, <1>9, Literals
<1>11. <<cycle, m, ntk.po[k].obj>> \in D
    BY <1>9, <1>10
<1>12. val[m] = ObjValues(ntk, NCi, full)[ntk.po[k].obj]
    BY <1>1, <1>2, <1>3, <1>4, <1>11, CycleValues
<1>13. \A q \in poInfos[cycle] : Rank(cycle, q[1]) = Rank(cycle, k) => q = p
    BY <1>1, <1>7, RankFacts
<1>14. PoFunc(val, Rank(cycle, k)) <=> val[m] # ntk.po[k].neg
    <2>1. \A g \in Frames : ring[g] <=> g = cycle
        BY <1>1
    <2>2. (val[p[2].obj] # p[2].neg) <=> (val[m] # ntk.po[k].neg)
        BY <1>10
    <2> QED BY <2>1, <2>2, <1>1, <1>7, <1>13 DEF PoFunc
<1>15. out'[oPerm[k] % nPo] = PoFunc(val, Rank(cycle, k))
    BY <1>7 DEF ClockWith
<1>16. PoFunc(val, Rank(cycle, k)) \in BOOLEAN
    BY DEF PoFunc
<1>17. PoValue(ntk, NCi, k, full) <=> val[m] # ntk.po[k].neg
    BY <1>12 DEF PoValue
<1>18. PoValue(ntk, NCi, k, full) \in BOOLEAN
    BY DEF PoValue
<1>19. PoFunc(val, Rank(cycle, k)) = PoValue(ntk, NCi, k, full)
    BY <1>14, <1>16, <1>17, <1>18, Zenon
<1> QED BY <1>15, <1>19

LEMMA ClockRefines == IInv /\ Clock => Fold!Clock
<1> SUFFICES ASSUME IInv, Clock PROVE Fold!Clock
    OBVIOUS
<1>1. PICK pis, val : ClockWith(pis, val)
    BY DEF Clock, ClockWith
<1>2. /\ pc = "run" /\ pc' = "run" /\ ntk' = ntk /\ nPo' = nPo /\ oPerm' = oPerm
      /\ cycle' = (cycle + 1) % NTimeFrame
    BY DEF Clock, permVars
<1>3. \E in \in Fold!PinValues : got' = Append(IF cycle = 0 THEN <<>> ELSE got, in)
    BY <1>1 DEF Fold!PinValues, PinValues, ClockWith
<1>4. out' \in [0 .. nPo - 1 -> BOOLEAN]
    <2>1. \A i \in 0 .. nPo - 1 : PoFunc(val, i) \in BOOLEAN
        BY DEF PoFunc
    <2> QED BY <2>1, <1>1 DEF ClockWith
<1>5. ASSUME NEW k \in PoIdx(ntk), oPerm[k] \div nPo = cycle, NEW full \in Fold!Completions(got')
      PROVE  out'[oPerm[k] % nPo] = Value(ntk, k, full)
    <2>1. PICK n, g : n = cycle + 1 /\ g = got'
        OBVIOUS
    <2>2. n \in 1 .. NTimeFrame
        BY <2>1, NCiNat DEF IInv, RingCounts, Frames
    <2>3. g \in Seq(PinValues) /\ Len(g) = n
        BY <2>1, <1>1, ClockReads
    <2>4. Agrees(full, n, g)
        BY <2>1, <2>2, <2>3, <1>5, CompletionsAgree
    <2>5. Agrees(full, cycle + 1, got')
        BY <2>1, <2>4
    <2> QED BY <2>5, <1>1, <1>2, <1>5, PinShows DEF Value
<1> QED BY <1>2, <1>3, <1>4, <1>5 DEF Fold!Clock

LEMMA InitRefines == Init => Fold!Init
BY DEF Init, Fold!Init

LEMMA StepsBefore == (InitQue \/ (\E o \in Objs : Visit(o)) \/ Store) => UNCHANGED Fold!avars
<1>1. InitQue => UNCHANGED Fold!avars
    BY DEF InitQue, Fold!avars, permVars, runVars
<1>2. ASSUME NEW o, Visit(o) PROVE UNCHANGED Fold!avars
    BY <1>2 DEF Visit, Fold!avars, permVars, runVars
<1>3. Store => UNCHANGED Fold!avars
    <2> SUFFICES ASSUME Store PROVE UNCHANGED Fold!avars
        OBVIOUS
    <2>1. /\ pc = "traverse" /\ pc' = (IF t + 1 = NTimeFrame THEN "po" ELSE "frame")
          /\ ntk' = ntk /\ UNCHANGED <<permVars, runVars>>
        BY DEF Store
    <2>2. pc # "run" /\ pc' # "run"
        BY <2>1
    <2> QED BY <2>1, <2>2 DEF Fold!avars, permVars, runVars
<1> QED BY <1>1, <1>2, <1>3

\* stru_fold is a fold: whatever the order in which its queue and its hash
\* tables are walked, with and without -m, the folded circuit shows every
\* output of the given one in the cycle of its frame, right for all values of
\* the inputs still to come, batch after batch (buildTM, checkEqv).
THEOREM Implements == Spec => ImplementsFold
<1>1. IInv /\ [Next]_vars => [Fold!Next]_(Fold!avars)
    <2>1. UNCHANGED vars => UNCHANGED Fold!avars
        BY DEF vars, Fold!avars, permVars, runVars
    <2> QED BY <2>1, StepsBefore, FoldRefines, ClockRefines DEF Next, Build, Fold!Next
<1> QED BY InitRefines, SpecIInv, <1>1, PTL DEF Spec, ImplementsFold, Fold!Spec
=============================================================================

------------------------- MODULE PinSchedule_proofs -------------------------
(***************************************************************************)
(* Proofs about PinSchedule, for every number of frames, of input pins and *)
(* of outputs and for every choice of supports: the walk over the slots    *)
(* counts right and never leaves them, both orders are permutations, no    *)
(* output is shown before its support has been read, and no fewer pins     *)
(* would do.                                                               *)
(***************************************************************************)
EXTENDS PinSchedule, NumberLemmas, FunctionTheorems

\* The inputs are NCi in number.
LEMMA InputsCount ==
    /\ NCi \in Nat /\ IsFiniteSet(Inputs) /\ Cardinality(Inputs) = NCi
    /\ \A S \in SUBSET Inputs : IsFiniteSet(S) /\ Cardinality(S) \in 0 .. NCi
<1>1. NCi \in Nat
    BY PinScheduleAssumption DEF NCi
<1>2. IsFiniteSet(Inputs) /\ Cardinality(Inputs) = NCi
    BY <1>1, FS_Interval DEF Inputs
<1>3. ASSUME NEW S \in SUBSET Inputs
      PROVE  IsFiniteSet(S) /\ Cardinality(S) \in 0 .. NCi
    BY <1>1, <1>2, FS_Subset, FS_CardinalityType
<1> QED BY <1>1, <1>2, <1>3

\* Ceil(a, b) is the least number of groups of b that hold a items.
LEMMA CeilBounds ==
    ASSUME NEW a \in Nat, NEW b \in Nat \ {0}
    PROVE  /\ Ceil(a, b) \in Nat
           /\ a <= Ceil(a, b) * b
           /\ \A m \in Nat : a <= m * b => Ceil(a, b) <= m
<1> DEFINE x == a + b - 1
           q == x \div b
<1>1. x \in Nat /\ q \in Nat /\ x % b \in 0 .. b - 1 /\ x = q * b + (x % b) /\ q * b \in Nat
    OBVIOUS
<1>2. a <= q * b
    BY <1>1
<1>3. ASSUME NEW m \in Nat, a <= m * b, m < q PROVE FALSE
    <2>1. (m + 1) * b <= q * b
        BY <1>1, <1>3, MulMonotone
    <2>2. (m + 1) * b = m * b + b /\ m * b \in Nat
        OBVIOUS
    <2>3. m * b + b <= x
        BY <1>1, <2>1, <2>2
    <2> QED BY <2>2, <2>3, <1>3
<1>4. \A m \in Nat : a <= m * b => q <= m
    BY <1>1, <1>3
<1> QED BY <1>1, <1>2, <1>4 DEF Ceil

\* The first frame that can have read the inputs S exists, and it has room
\* for all of them.
LEMMA FrameForBounds ==
    ASSUME NEW S \in SUBSET Inputs
    PROVE  /\ FrameFor(S) \in 0 .. NTimeFrame - 1
           /\ Cardinality(S) <= (FrameFor(S) + 1) * NPi
<1> DEFINE c == Cardinality(S)
           q == Ceil(c, NPi)
<1>1. c \in Nat /\ c <= NTimeFrame * NPi
    BY InputsCount DEF NCi
<1>2. q \in Nat /\ c <= q * NPi /\ q <= NTimeFrame
    BY <1>1, CeilBounds, PinScheduleAssumption
<1>3. CASE q = 0
    <2>1. FrameFor(S) = 0 /\ c <= (0 + 1) * NPi
        BY <1>1, <1>2, <1>3, PinScheduleAssumption DEF FrameFor
    <2> QED BY <2>1, PinScheduleAssumption
<1>4. CASE q # 0
    <2>1. FrameFor(S) = q - 1 /\ q - 1 + 1 = q
        BY <1>2, <1>4 DEF FrameFor
    <2> QED BY <2>1, <1>2, <1>4, PinScheduleAssumption
<1> QED BY <1>3, <1>4

-----------------------------------------------------------------------------
(* The inductive invariant                                                 *)

TypeInv ==
    /\ sVecs \in [COs -> SUBSET Inputs]
    /\ sIdx \in Bijection(COs, COs)
    /\ expConfig \in 0 .. 3
    /\ pc \in {"grow", "place", "pi", "reordPi", "reordPo", "done"}
    /\ nPo \in 1 .. NCo /\ NCo <= nPo * NTimeFrame
    /\ i \in 0 .. NCo /\ (pc = "place" => i < NCo)
    /\ sv \subseteq Inputs
    /\ cnt \in Nat /\ ct1 \in 0 .. NTimeFrame /\ ct2 \in 0 .. nPo - 1
    /\ pc # "grow" => slots \in [0 .. NSlot - 1 -> COs \cup {None}]

\* During an attempt the slots before the next free one hold the outputs
\* placed so far, which depend on sv only.
PlaceInv ==
    pc = "place" =>
        /\ ct1 * nPo + ct2 = i + cnt /\ cnt <= Cap
        /\ \A s \in 0 .. NSlot - 1 : slots[s] # None => s < ct1 * nPo + ct2
        /\ \A s \in 0 .. NSlot - 1 : slots[s] # None => \E a \in 0 .. i - 1 : slots[s] = sIdx[a]
        /\ \A a \in 0 .. i - 1 : \E s \in 0 .. NSlot - 1 : slots[s] = sIdx[a]

UniqueInv ==
    pc # "grow" => \A r, s \in 0 .. NSlot - 1 :
        slots[r] = slots[s] /\ slots[s] # None => r = s

\* What the walk is for: the frames read inputs fast enough.
EarlyInv ==
    pc \in {"place", "pi"} =>
        /\ \A s \in 0 .. NSlot - 1 : slots[s] # None => sVecs[slots[s]] \subseteq sv
        /\ \A f \in Frames : Cardinality(Early(f)) <= (f + 1) * NPi

OutInv ==
    pc \in {"pi", "reordPi", "reordPo", "done"} =>
        /\ oPerm \in [COs -> 0 .. NSlot - 1]
        /\ \A k \in COs : slots[oPerm[k]] = k

\* ReadBeforeShown for every slot, which outlives the swaps of reordPO.
InInv ==
    pc \in {"reordPi", "reordPo", "done"} =>
        /\ iPerm \in Bijection(Inputs, Inputs)
        /\ \A s \in 0 .. NSlot - 1 : slots[s] # None =>
              \A j \in sVecs[slots[s]] : iPerm[j] < (FrameOf(s) + 1) * NPi

IInv == TypeInv /\ PlaceInv /\ UniqueInv /\ EarlyInv /\ OutInv /\ InInv

\* The numbers of pins, slots and frames that a proof needs again and again.
LEMMA Sizes ==
    ASSUME TypeInv
    PROVE  /\ NTimeFrame \in Nat \ {0} /\ NPi \in Nat \ {0} /\ NCo \in Nat \ {0}
           /\ nPo \in Nat \ {0} /\ NSlot = nPo * NTimeFrame /\ NSlot \in Nat
           /\ NSlot = NTimeFrame * nPo
           /\ Cap = NSlot - NCo /\ Cap \in Nat /\ i \in Nat
<1>1. nPo \in Nat \ {0} /\ NTimeFrame \in Nat \ {0} /\ NCo \in Nat \ {0} /\ NPi \in Nat \ {0}
    BY PinScheduleAssumption DEF TypeInv
<1>2. nPo * NTimeFrame \in Nat /\ nPo * NTimeFrame = NTimeFrame * nPo
    BY <1>1
<1> QED BY <1>1, <1>2 DEF TypeInv, NSlot, Cap

LEMMA NextSlotType ==
    ASSUME TypeInv
    PROVE  ct1 * nPo \in Nat /\ ct1 * nPo + ct2 \in Nat
<1>1. ct1 \in Nat /\ ct2 \in Nat /\ nPo \in Nat
    BY Sizes DEF TypeInv
<1>2. ct1 * nPo \in Nat
    BY <1>1
<1> QED BY <1>1, <1>2

\* A slot lies in a frame.
LEMMA SlotFrame ==
    ASSUME TypeInv, NEW s \in 0 .. NSlot - 1
    PROVE  /\ FrameOf(s) \in Frames /\ s % nPo \in 0 .. nPo - 1
           /\ s = FrameOf(s) * nPo + (s % nPo)
BY Sizes, FrameAndItem DEF FrameOf, Frames

\* An input is needed by frame f if an output of that frame or an earlier one
\* depends on it.
LEMMA EarlyMember ==
    ASSUME slots \in [0 .. NSlot - 1 -> COs \cup {None}], NEW f, NEW j
    PROVE  j \in Early(f) <=>
              \E s \in 0 .. NSlot - 1 :
                  slots[s] # None /\ FrameOf(s) <= f /\ j \in sVecs[slots[s]]
BY DEF Early

LEMMA EarlyInputs ==
    ASSUME TypeInv, pc # "grow", NEW f
    PROVE  Early(f) \subseteq Inputs
<1>1. \A s \in 0 .. NSlot - 1 : slots[s] # None => sVecs[slots[s]] \subseteq Inputs
    BY DEF TypeInv
<1> QED BY <1>1, EarlyMember DEF TypeInv

LEMMA EarlyGrows ==
    ASSUME TypeInv, pc # "grow", NEW f \in Frames, NEW g \in Frames, f <= g
    PROVE  Early(f) \subseteq Early(g)
<1> SUFFICES ASSUME NEW j \in Early(f) PROVE j \in Early(g)
    OBVIOUS
<1>1. PICK s \in 0 .. NSlot - 1 :
          slots[s] # None /\ FrameOf(s) <= f /\ j \in sVecs[slots[s]]
    BY EarlyMember DEF TypeInv
<1>2. FrameOf(s) <= g
    BY <1>1, SlotFrame, PinScheduleAssumption DEF Frames
<1> QED BY <1>1, <1>2, EarlyMember DEF TypeInv

-----------------------------------------------------------------------------
(* The initial states, and the attempts that start and fail                *)

LEMMA InitIInv == Init => IInv
<1> SUFFICES ASSUME Init PROVE IInv
    OBVIOUS
<1>1. NTimeFrame \in Nat \ {0} /\ NCo \in Nat \ {0} /\ NCo * NTimeFrame \in Nat
    BY PinScheduleAssumption
<1>2. NCo <= NCo * NTimeFrame
    <2>1. NCo = 1 * NCo /\ NTimeFrame * NCo = NCo * NTimeFrame
        BY <1>1
    <2> QED BY <2>1, <1>1, MulMonotone
<1>3. nPo \in Nat /\ NCo <= nPo * NTimeFrame /\ nPo <= NCo
    BY <1>1, <1>2, CeilBounds DEF Init
<1>4. nPo # 0
    BY <1>1, <1>3
<1>5. TypeInv
    BY <1>1, <1>3, <1>4 DEF Init, TypeInv
<1> QED BY <1>5 DEF Init, IInv, PlaceInv, UniqueInv, EarlyInv, OutInv, InInv

LEMMA GrowIInv == IInv /\ Grow => IInv'
<1> SUFFICES ASSUME IInv, Grow PROVE IInv'
    OBVIOUS
<1> USE DEF IInv, Grow
<1>1. NSlot' = NSlot /\ Cap' = Cap /\ None \notin COs
    BY PinScheduleAssumption DEF NSlot, Cap, None, COs
<1>2. slots' \in [0 .. NSlot - 1 -> COs \cup {None}] /\ \A s \in 0 .. NSlot - 1 : slots'[s] = None
    OBVIOUS
<1>3. TypeInv'
    BY <1>1, <1>2, Sizes DEF TypeInv
<1>4. PlaceInv'
    BY <1>1, <1>2, Sizes DEF PlaceInv
<1>5. UniqueInv'
    BY <1>1, <1>2 DEF UniqueInv
<1>6. EarlyInv'
    <2>1. ASSUME NEW f \in Frames PROVE Cardinality(Early(f)') <= (f + 1) * NPi
        <3>1. Early(f)' = {}
            BY <1>2, <1>1 DEF Early
        <3>2. (f + 1) * NPi \in Nat
            BY PinScheduleAssumption DEF Frames
        <3> QED BY <3>1, <3>2, FS_EmptySet
    <2> QED BY <1>1, <1>2, <2>1 DEF EarlyInv
<1> QED BY <1>3, <1>4, <1>5, <1>6 DEF OutInv, InInv

\* With one pin per output no attempt fails: skipping to a frame leaves at
\* most the slots of the frames before it empty.
LEMMA FailsBelowMax ==
    ASSUME IInv, GiveUp
    PROVE  nPo < NCo
<1> DEFINE f == FrameFor(sv \cup sVecs[sIdx[i]])
<1>1. pc = "place" /\ i < NCo /\ Skipped(f) > Cap
    BY DEF GiveUp
<1>2. sv \cup sVecs[sIdx[i]] \subseteq Inputs
    <2>1. i \in COs
        BY <1>1, Sizes DEF IInv, COs
    <2>2. sIdx \in [COs -> COs]
        BY Fun_BijectionProperties DEF IInv, TypeInv
    <2> QED BY <2>1, <2>2 DEF IInv, TypeInv
<1>3. f \in Nat /\ f + 1 <= NTimeFrame
    BY <1>2, FrameForBounds, PinScheduleAssumption
<1>4. ct1 * nPo + ct2 = i + cnt /\ ct1 \in Nat /\ ct2 \in Nat /\ cnt \in Nat /\ i \in Nat
    BY <1>1, Sizes DEF IInv, TypeInv, PlaceInv
<1>5. Skipped(f) = f * nPo - i
    <2>1. nPo \in Nat /\ nPo * (f - ct1) = f * nPo - ct1 * nPo /\ f * nPo \in Nat /\ ct1 * nPo \in Nat
        BY <1>3, <1>4, Sizes DEF IInv
    <2> HIDE DEF f
    <2> QED BY <2>1, <1>4 DEF Skipped
<1>6. f * nPo + nPo <= NTimeFrame * nPo /\ f * nPo \in Nat
    <2>1. (f + 1) * nPo <= NTimeFrame * nPo /\ (f + 1) * nPo = f * nPo + nPo
        BY <1>3, Sizes, MulMonotone DEF IInv
    <2> QED BY <2>1, <1>3, Sizes DEF IInv
<1> HIDE DEF f
<1>7. f * nPo > NSlot - NCo
    BY <1>1, <1>4, <1>5, <1>6, Sizes DEF IInv
<1> QED BY <1>6, <1>7, Sizes DEF IInv, TypeInv

LEMMA GiveUpIInv == IInv /\ GiveUp => IInv'
<1> SUFFICES ASSUME IInv, GiveUp PROVE IInv'
    OBVIOUS
<1> USE DEF IInv, GiveUp
<1>1. nPo' = nPo + 1 /\ nPo' \in 1 .. NCo
    BY FailsBelowMax, Sizes
<1>2. NCo <= nPo' * NTimeFrame
    <2>1. nPo * NTimeFrame <= nPo' * NTimeFrame /\ nPo' * NTimeFrame \in Nat
        BY <1>1, Sizes, MulMonotone
    <2>2. NCo <= nPo * NTimeFrame /\ nPo * NTimeFrame \in Nat
        BY Sizes DEF TypeInv
    <2> QED BY <2>1, <2>2, Sizes
<1>3. TypeInv'
    BY <1>1, <1>2, Sizes DEF TypeInv, loopVars
<1> QED BY <1>3 DEF PlaceInv, UniqueInv, EarlyInv, OutInv, InInv

-----------------------------------------------------------------------------
(* Placing an output                                                       *)

\* What PlaceNext and SkipToFrame have in common: the next output goes to pin
\* c of frame f, at or after the next free slot, in a frame that can have
\* read everything the outputs so far depend on.
PlaceAt(f, c) ==
    /\ pc = "place" /\ i < NCo
    /\ f \in Frames /\ c \in 0 .. nPo - 1 /\ ct1 * nPo + ct2 <= f * nPo + c
    /\ sv' = sv \cup sVecs[sIdx[i]] /\ FrameFor(sv') <= f
    /\ Placed(f * nPo + c) /\ Advance(f, c)
    /\ cnt' \in Nat /\ cnt' <= Cap /\ f * nPo + c = i + cnt'
    /\ UNCHANGED <<sVecs, sIdx, expConfig, iPerm>>

\* The output goes to a slot that exists and is free, and it was not placed
\* before.
LEMMA PlaceSlot ==
    ASSUME IInv, NEW f, NEW c, PlaceAt(f, c)
    PROVE  LET s == f * nPo + c
           IN /\ s \in 0 .. NSlot - 1 /\ FrameOf(s) = f /\ slots[s] = None
              /\ i \in COs /\ sIdx[i] \in COs
              /\ \A r \in 0 .. NSlot - 1 : slots[r] # sIdx[i]
              /\ sIdx[i] # None
<1> DEFINE s == f * nPo + c
<1>1. pc = "place" /\ i < NCo /\ f \in 0 .. NTimeFrame - 1 /\ c \in 0 .. nPo - 1
      /\ ct1 * nPo + ct2 <= s
    BY DEF PlaceAt, Frames
<1>2. s \in 0 .. NSlot - 1 /\ FrameOf(s) = f
    <2>1. f \in Nat /\ nPo \in Nat /\ NTimeFrame \in Nat /\ NSlot = NTimeFrame * nPo
        BY <1>1, Sizes DEF IInv
    <2>2. f * nPo + c \in 0 .. NTimeFrame * nPo - 1
        BY <1>1, <2>1, ItemInRange
    <2>3. (f * nPo + c) \div nPo = f
        BY <1>1, <2>1, ItemOfFrame
    <2> QED BY <2>1, <2>2, <2>3 DEF FrameOf
<1>3. slots[s] = None
    <2>1. ct1 * nPo + ct2 \in Nat
        BY NextSlotType DEF IInv
    <2> HIDE DEF s
    <2>2. slots[s] # None => s < ct1 * nPo + ct2
        BY <1>1, <1>2 DEF IInv, PlaceInv
    <2>3. s \in Nat
        BY <1>2, Sizes DEF IInv
    <2> QED BY <1>1, <2>1, <2>2, <2>3
<1>4. i \in COs /\ \A a \in 0 .. i - 1 : a \in COs /\ a # i
    BY <1>1, Sizes DEF IInv, COs
<1>5. sIdx \in [COs -> COs] /\ \A a, b \in COs : sIdx[a] = sIdx[b] => a = b
    BY Fun_BijectionProperties DEF IInv, TypeInv
<1>6. sIdx[i] \in COs /\ sIdx[i] # None
    BY <1>4, <1>5, PinScheduleAssumption DEF COs, None
<1>7. ASSUME NEW r \in 0 .. NSlot - 1, slots[r] = sIdx[i] PROVE FALSE
    <2>1. PICK a \in 0 .. i - 1 : slots[r] = sIdx[a]
        BY <1>1, <1>6, <1>7 DEF IInv, PlaceInv
    <2> QED BY <2>1, <1>4, <1>5, <1>7
<1> QED BY <1>2, <1>3, <1>4, <1>6, <1>7

LEMMA PlaceAtIInv ==
    ASSUME IInv, NEW f, NEW c, PlaceAt(f, c)
    PROVE  IInv'
<1> DEFINE s == f * nPo + c
<1>1. /\ s \in 0 .. NSlot - 1 /\ FrameOf(s) = f /\ slots[s] = None
      /\ i \in COs /\ sIdx[i] \in COs /\ sIdx[i] # None
      /\ \A r \in 0 .. NSlot - 1 : slots[r] # sIdx[i]
    BY PlaceSlot
<1>2. /\ pc = "place" /\ i < NCo /\ i' = i + 1 /\ nPo' = nPo /\ NSlot' = NSlot /\ Cap' = Cap
      /\ UNCHANGED <<sVecs, sIdx, expConfig, iPerm>>
      /\ f \in Frames /\ f \in Nat /\ f < NTimeFrame /\ c \in 0 .. nPo - 1
      /\ slots' = [slots EXCEPT ![s] = sIdx[i]]
      /\ pc' = IF i = NCo - 1 THEN "pi" ELSE "place"
    BY PinScheduleAssumption DEF PlaceAt, Placed, NSlot, Cap, Frames
<1>3. slots \in [0 .. NSlot - 1 -> COs \cup {None}]
    BY <1>2 DEF IInv, TypeInv
<1>4. /\ slots' \in [0 .. NSlot - 1 -> COs \cup {None}]
      /\ slots'[s] = sIdx[i]
      /\ \A r \in 0 .. NSlot - 1 : r # s => slots'[r] = slots[r]
    <2> HIDE DEF s
    <2> QED BY <1>1, <1>2, <1>3
<1>5. ct1' * nPo + ct2' = s + 1 /\ ct1' \in 0 .. NTimeFrame /\ ct2' \in 0 .. nPo - 1
    <2>1. /\ ct1' = IF c + 1 = nPo THEN f + 1 ELSE f
          /\ ct2' = IF c + 1 = nPo THEN 0 ELSE c + 1
        BY DEF PlaceAt, Advance
    <2>2. nPo \in Nat \ {0} /\ NTimeFrame \in Nat \ {0} /\ f * nPo \in Nat
          /\ (f + 1) * nPo = f * nPo + nPo
        BY <1>2, Sizes DEF IInv
    <2> QED BY <2>1, <2>2, <1>2
<1>6. sv' = sv \cup sVecs[sIdx[i]] /\ sv' \subseteq Inputs /\ sVecs[sIdx[i]] \subseteq Inputs
    BY <1>1 DEF PlaceAt, IInv, TypeInv
<1>7. i \in Nat /\ NCo \in Nat \ {0} /\ s \in Nat /\ NSlot \in Nat /\ i' \in 1 .. NCo
      /\ (i = NCo - 1 <=> i' = NCo)
    BY <1>1, <1>2, Sizes DEF IInv
<1> HIDE DEF s
<1>8. \A a \in 0 .. i' - 1 : a \in 0 .. i - 1 \/ a = i
    BY <1>2, <1>7
<1>9. TypeInv'
    <2>1. pc' \in {"place", "pi"} /\ (pc' = "place" => i' < NCo) /\ i' \in 0 .. NCo
        BY <1>2, <1>7
    <2>2. cnt' \in Nat
        BY DEF PlaceAt
    <2> QED BY <2>1, <2>2, <1>2, <1>4, <1>5, <1>6 DEF IInv, TypeInv
<1>10. \A r \in 0 .. NSlot - 1 : slots'[r] # None => slots'[r] = sIdx[i] \/ slots[r] # None
    BY <1>4
<1>11. /\ \A r \in 0 .. NSlot - 1 : slots'[r] # None => \E a \in 0 .. i' - 1 : slots'[r] = sIdx[a]
       /\ \A a \in 0 .. i' - 1 : \E r \in 0 .. NSlot - 1 : slots'[r] = sIdx[a]
    <2>1. ASSUME NEW r \in 0 .. NSlot - 1, slots'[r] # None
          PROVE  \E a \in 0 .. i' - 1 : slots'[r] = sIdx[a]
        <3>1. CASE r = s
            BY <3>1, <1>2, <1>4, <1>7
        <3>2. CASE r # s
            <4>1. PICK a \in 0 .. i - 1 : slots[r] = sIdx[a]
                BY <3>2, <2>1, <1>2, <1>4 DEF IInv, PlaceInv
            <4>2. a \in 0 .. i' - 1
                BY <1>2, <1>7
            <4> QED BY <4>1, <4>2, <3>2, <1>4
        <3> QED BY <3>1, <3>2
    <2>2. ASSUME NEW a \in 0 .. i' - 1
          PROVE  \E r \in 0 .. NSlot - 1 : slots'[r] = sIdx[a]
        <3>1. CASE a = i
            BY <3>1, <1>1, <1>4
        <3>2. CASE a \in 0 .. i - 1
            <4>1. PICK r \in 0 .. NSlot - 1 : slots[r] = sIdx[a]
                BY <3>2, <1>2 DEF IInv, PlaceInv
            <4>2. sIdx[a] # None
                <5>1. a \in COs
                    BY <3>2, <1>1, <1>7 DEF COs
                <5>2. sIdx \in [COs -> COs]
                    BY Fun_BijectionProperties DEF IInv, TypeInv
                <5>3. None \notin COs
                    BY PinScheduleAssumption DEF COs, None
                <5> QED BY <5>1, <5>2, <5>3
            <4> QED BY <4>1, <4>2, <1>1, <1>4
        <3> QED BY <3>1, <3>2, <1>8
    <2> QED BY <2>1, <2>2
<1>12. PlaceInv'
    <2>1. (ct1 * nPo + ct2)' = s + 1 /\ s + 1 = i' + cnt' /\ cnt' <= Cap'
        <3>1. s = i + cnt' /\ cnt' \in Nat /\ cnt' <= Cap
            BY DEF PlaceAt, s
        <3> QED BY <3>1, <1>2, <1>5, <1>7
    <2>2. ASSUME NEW r \in 0 .. NSlot - 1, slots'[r] # None PROVE r < s + 1
        <3>1. CASE r = s
            BY <3>1, <1>7
        <3>2. CASE r # s
            <4>1. r < ct1 * nPo + ct2
                BY <3>2, <2>2, <1>2, <1>4 DEF IInv, PlaceInv
            <4>2. ct1 * nPo + ct2 <= s /\ ct1 * nPo + ct2 \in Nat
                BY NextSlotType DEF PlaceAt, s, IInv
            <4> QED BY <4>1, <4>2, <1>7
        <3> QED BY <3>1, <3>2
    <2> QED BY <2>1, <2>2, <1>2, <1>11 DEF PlaceInv
<1>13. UniqueInv'
    <2>1. ASSUME NEW r \in 0 .. NSlot - 1, NEW t \in 0 .. NSlot - 1,
                 slots'[r] = slots'[t], slots'[t] # None
          PROVE  r = t
        BY <2>1, <1>1, <1>2, <1>4 DEF IInv, UniqueInv
    <2> QED BY <2>1, <1>2 DEF UniqueInv
<1>14. EarlyInv'
    <2>1. \A r \in 0 .. NSlot - 1 : slots'[r] # None => sVecs[slots'[r]] \subseteq sv'
        BY <1>2, <1>4, <1>6 DEF IInv, EarlyInv
    <2>2. ASSUME NEW g \in Frames PROVE Cardinality(Early(g)') <= (g + 1) * NPi
        <3>0. \A j : j \in Early(g)' <=>
                  \E r \in 0 .. NSlot - 1 :
                      slots'[r] # None /\ FrameOf(r) <= g /\ j \in sVecs[slots'[r]]
            BY <1>2, <1>4 DEF Early, FrameOf
        <3>1. CASE g < f
            <4>1. ~ (f <= g) /\ s \in 0 .. NSlot - 1
                BY <3>1, <1>1, <1>2, PinScheduleAssumption DEF Frames
            <4>2. Early(g)' = Early(g)
                <5>1. \A j : j \in Early(g)' <=> j \in Early(g)
                    <6> TAKE j
                    <6>1. j \in Early(g) <=>
                              \E r \in 0 .. NSlot - 1 :
                                  slots[r] # None /\ FrameOf(r) <= g /\ j \in sVecs[slots[r]]
                        BY <1>3, EarlyMember
                    <6> QED BY <6>1, <3>0, <4>1, <1>1, <1>4
                <5> QED BY <5>1
            <4> QED BY <4>2, <1>2 DEF IInv, EarlyInv
        <3>2. CASE f <= g
            <4>1. Early(g)' \subseteq sv'
                BY <3>0, <2>1
            <4>2. Cardinality(Early(g)') <= Cardinality(sv')
                  /\ Cardinality(Early(g)') \in Nat /\ Cardinality(sv') \in Nat
                BY <4>1, <1>6, InputsCount, FS_Subset
            <4>3. FrameFor(sv') \in Nat /\ Cardinality(sv') <= (FrameFor(sv') + 1) * NPi
                  /\ FrameFor(sv') <= f
                BY <1>6, FrameForBounds, PinScheduleAssumption DEF PlaceAt
            <4>4. FrameFor(sv') + 1 <= g + 1 /\ g + 1 \in Nat
                BY <3>2, <4>3, <1>2, PinScheduleAssumption DEF Frames
            <4>5. (FrameFor(sv') + 1) * NPi <= (g + 1) * NPi
                  /\ (FrameFor(sv') + 1) * NPi \in Nat /\ (g + 1) * NPi \in Nat
                BY <4>3, <4>4, PinScheduleAssumption, MulMonotone
            <4> QED BY <4>2, <4>3, <4>5
        <3> QED BY <3>1, <3>2, <1>2, PinScheduleAssumption DEF Frames
    <2> QED BY <2>1, <2>2, <1>2 DEF EarlyInv
<1>15. OutInv'
    <2>1. CASE pc' = "pi"
        <3>1. oPerm' = [k \in COs |-> CHOOSE p \in DOMAIN slots' : slots'[p] = k]
              /\ i' = NCo
            BY <2>1, <1>2, <1>7 DEF PlaceAt, Placed
        <3>2. ASSUME NEW k \in COs PROVE \E p \in DOMAIN slots' : slots'[p] = k
            <4>1. PICK a \in COs : sIdx[a] = k
                BY Fun_BijectionProperties DEF IInv, TypeInv
            <4>2. a \in 0 .. i' - 1 /\ DOMAIN slots' = 0 .. NSlot - 1
                BY <3>1, <1>4 DEF COs
            <4> QED BY <4>1, <4>2, <1>11
        <3>3. \A k \in COs : oPerm'[k] \in DOMAIN slots' /\ slots'[oPerm'[k]] = k
            BY <3>1, <3>2
        <3>4. oPerm' \in [COs -> 0 .. NSlot - 1]
            BY <3>1, <3>3, <1>4
        <3> QED BY <3>3, <3>4, <1>2 DEF OutInv
    <2> QED BY <2>1, <1>2 DEF OutInv
<1>16. InInv'
    BY <1>2 DEF InInv
<1> QED BY <1>9, <1>12, <1>13, <1>14, <1>15, <1>16 DEF IInv

\* The assertion of the loop: an output is left, so a slot is left.
LEMMA NextSlotFree ==
    ASSUME IInv, pc = "place"
    PROVE  ct1 < NTimeFrame /\ ct2 < nPo
<1>1. ct1 \in Nat /\ ct1 <= NTimeFrame /\ ct2 \in Nat /\ ct2 < nPo /\ cnt \in Nat
    BY Sizes DEF IInv, TypeInv
<1>2. ct1 * nPo + ct2 < NSlot
    BY SMTT(40), Sizes, <1>1 DEF IInv, TypeInv, PlaceInv
<1>3. ct1 # NTimeFrame
    BY <1>1, <1>2, Sizes DEF IInv
<1> QED BY <1>1, <1>3, PinScheduleAssumption

LEMMA PlaceNextAt ==
    ASSUME IInv, PlaceNext
    PROVE  PlaceAt(ct1, ct2)
<1>1. ct1 \in Frames /\ ct2 \in 0 .. nPo - 1 /\ pc = "place"
    <2>1. pc = "place"
        BY DEF PlaceNext
    <2> QED BY <2>1, NextSlotFree, PinScheduleAssumption DEF Frames, IInv, TypeInv
<1>2. ct1 * nPo + ct2 \in Nat /\ ct1 * nPo + ct2 = i + cnt /\ cnt <= Cap /\ cnt \in Nat
    BY <1>1, NextSlotType DEF IInv, TypeInv, PlaceInv
<1>3. cnt' = cnt
    BY DEF PlaceNext
<1> QED BY <1>1, <1>2, <1>3 DEF PlaceNext, PlaceAt

LEMMA PlaceNextIInv == IInv /\ PlaceNext => IInv'
BY PlaceNextAt, PlaceAtIInv

LEMMA SkipAt ==
    ASSUME IInv, SkipToFrame
    PROVE  PlaceAt(FrameFor(sv'), 0)
<1> DEFINE f == FrameFor(sv')
<1>1. /\ pc = "place" /\ i < NCo /\ sv' = sv \cup sVecs[sIdx[i]]
      /\ f > ct1 /\ cnt' = cnt + nPo * (f - ct1) - ct2 /\ cnt' <= Cap
      /\ Placed(f * nPo) /\ Advance(f, 0)
      /\ UNCHANGED <<sVecs, sIdx, expConfig, iPerm>>
    BY DEF SkipToFrame, Skipped
<1>2. sv' \subseteq Inputs
    <2>1. i \in COs
        BY <1>1, Sizes DEF IInv, COs
    <2>2. sIdx \in [COs -> COs]
        BY Fun_BijectionProperties DEF IInv, TypeInv
    <2> QED BY <1>1, <2>1, <2>2 DEF IInv, TypeInv
<1>3. f \in Frames /\ f \in Nat
    BY <1>2, FrameForBounds DEF Frames
<1> HIDE DEF f
<1>4. /\ ct1 \in Nat /\ ct2 \in Nat /\ ct2 < nPo /\ nPo \in Nat /\ cnt \in Nat /\ i \in Nat
      /\ ct1 * nPo + ct2 = i + cnt /\ ct1 * nPo \in Nat
    <2>1. ct1 \in Nat /\ ct2 \in Nat /\ ct2 < nPo /\ nPo \in Nat /\ cnt \in Nat /\ i \in Nat
        BY Sizes DEF IInv, TypeInv
    <2>2. ct1 * nPo \in Nat
        BY NextSlotType DEF IInv
    <2> QED BY <1>1, <2>1, <2>2 DEF IInv, PlaceInv
<1>5. f * nPo \in Nat /\ nPo * (f - ct1) = f * nPo - ct1 * nPo
    BY <1>3, <1>4
<1>6. ct1 * nPo + nPo <= f * nPo
    <2>1. (ct1 + 1) * nPo <= f * nPo /\ (ct1 + 1) * nPo = ct1 * nPo + nPo
        BY <1>1, <1>3, <1>4, MulMonotone
    <2> QED BY <2>1
<1>7. cnt' \in Nat /\ f * nPo + 0 = i + cnt' /\ ct1 * nPo + ct2 <= f * nPo + 0
    BY <1>1, <1>4, <1>5, <1>6
<1>8. Placed(f * nPo + 0) /\ 0 \in 0 .. nPo - 1 /\ f <= f
    <2>1. f * nPo + 0 = f * nPo
        BY <1>5
    <2> QED BY <2>1, <1>1, <1>3, <1>4
<1> QED BY <1>1, <1>3, <1>7, <1>8 DEF PlaceAt, f

LEMMA SkipIInv == IInv /\ SkipToFrame => IInv'
BY SkipAt, PlaceAtIInv

-----------------------------------------------------------------------------
(* The order of the inputs                                                 *)

\* The inputs that come before input j.
Pred(j) == {k \in Inputs : Before(k, j)}

\* No input comes before itself, and of two inputs one comes first.
LEMMA BeforeTotal ==
    ASSUME NEW j \in Inputs, NEW k \in Inputs
    PROVE  /\ ~Before(j, j)
           /\ j # k => Before(j, k) \/ Before(k, j)
<1>1. j \in Nat /\ k \in Nat
    BY InputsCount DEF Inputs
<1>2. ~Before(j, j)
    BY <1>1 DEF Before
<1>3. CASE SameFrame(j, k)
    <2>1. SameFrame(k, j)
        BY <1>3 DEF SameFrame
    <2> QED BY <2>1, <1>1, <1>2, <1>3 DEF Before
<1>4. CASE ~SameFrame(j, k)
    BY <1>2, <1>4 DEF Before, SameFrame
<1> QED BY <1>3, <1>4

LEMMA BeforeTransitive ==
    ASSUME TypeInv, pc # "grow",
           NEW a \in Inputs, NEW b \in Inputs, NEW c \in Inputs, Before(a, b), Before(b, c)
    PROVE  Before(a, c)
<1>0. a \in Nat /\ b \in Nat /\ c \in Nat
    BY InputsCount DEF Inputs
<1>1. ASSUME NEW f \in Frames, a \in Early(f), b \notin Early(f),
             NEW g \in Frames, b \in Early(g), c \notin Early(g)
      PROVE  Before(a, c)
    <2>1. f <= g \/ g <= f
        BY PinScheduleAssumption DEF Frames
    <2>2. f <= g
        BY <2>1, <1>1, EarlyGrows
    <2>3. a \in Early(g)
        BY <2>2, <1>1, EarlyGrows
    <2> QED BY <2>3, <1>1 DEF Before
<1>2. ASSUME NEW f \in Frames, a \in Early(f), b \notin Early(f), SameFrame(c, b)
      PROVE  Before(a, c)
    BY <1>2 DEF Before, SameFrame
<1>3. ASSUME NEW g \in Frames, b \in Early(g), c \notin Early(g), SameFrame(b, a)
      PROVE  Before(a, c)
    BY <1>3 DEF Before, SameFrame
<1>4. ASSUME SameFrame(b, a), a < b, SameFrame(c, b), b < c
      PROVE  Before(a, c)
    <2>1. SameFrame(c, a) /\ a < c
        BY <1>0, <1>4 DEF SameFrame
    <2> QED BY <2>1 DEF Before
<1> QED BY <1>1, <1>2, <1>3, <1>4 DEF Before

\* So the number of predecessors numbers the inputs.
LEMMA RankIsPermutation ==
    ASSUME TypeInv, pc # "grow"
    PROVE  [j \in Inputs |-> Cardinality(Pred(j))] \in Bijection(Inputs, Inputs)
<1> DEFINE rank == [j \in Inputs |-> Cardinality(Pred(j))]
<1>1. ASSUME NEW j \in Inputs
      PROVE  /\ IsFiniteSet(Pred(j)) /\ Cardinality(Pred(j)) \in Nat
             /\ j \notin Pred(j) /\ Cardinality(Pred(j)) \in Inputs
    <2>1. Pred(j) \in SUBSET Inputs /\ j \notin Pred(j)
        BY BeforeTotal DEF Pred
    <2>2. IsFiniteSet(Pred(j)) /\ Cardinality(Pred(j)) \in 0 .. NCi
        BY <2>1, InputsCount
    <2>3. Cardinality(Pred(j)) # NCi
        BY <2>1, InputsCount, FS_Subset
    <2> QED BY <2>1, <2>2, <2>3, InputsCount DEF Inputs
<1>2. ASSUME NEW j \in Inputs, NEW k \in Inputs, Before(k, j)
      PROVE  Cardinality(Pred(k)) < Cardinality(Pred(j))
    <2>1. Pred(k) \subseteq Pred(j) /\ k \in Pred(j) /\ k \notin Pred(k)
        BY <1>1, <1>2, BeforeTransitive DEF Pred
    <2> QED BY <2>1, <1>1, FS_Subset
<1>3. ASSUME NEW j \in Inputs, NEW k \in Inputs, rank[j] = rank[k] PROVE j = k
    <2>1. Cardinality(Pred(j)) = Cardinality(Pred(k))
        BY <1>3
    <2> QED BY <2>1, <1>1, <1>2, BeforeTotal
<1>4. rank \in [Inputs -> Inputs]
    BY <1>1
<1>5. rank \in Injection(Inputs, Inputs)
    BY <1>3, <1>4, Fun_IsInj
<1>6. rank \in Surjection(Inputs, Inputs)
    BY <1>5, InputsCount, FS_Injection
<1> QED BY <1>5, <1>6, Fun_IsBij

\* An input that frame f needs comes, with all its predecessors, among the
\* inputs that frame f needs.
LEMMA RankBelow ==
    ASSUME TypeInv, pc # "grow", NEW f \in Frames, NEW j \in Early(f)
    PROVE  Cardinality(Pred(j)) < Cardinality(Early(f))
<1>1. j \in Inputs /\ Early(f) \in SUBSET Inputs
    BY EarlyInputs
<1>2. ASSUME NEW k \in Pred(j) PROVE k \in Early(f)
    <2>1. CASE \E g \in Frames : k \in Early(g) /\ j \notin Early(g)
        <3>1. PICK g \in Frames : k \in Early(g) /\ j \notin Early(g)
            BY <2>1
        <3>2. f <= g \/ g <= f
            BY PinScheduleAssumption DEF Frames
        <3>3. g <= f
            BY <3>1, <3>2, EarlyGrows
        <3> QED BY <3>1, <3>3, EarlyGrows
    <2>2. CASE SameFrame(j, k)
        BY <2>2 DEF SameFrame
    <2> QED BY <2>1, <2>2 DEF Pred, Before
<1>3. Pred(j) \subseteq Early(f) /\ j \notin Pred(j)
    BY <1>1, <1>2, BeforeTotal DEF Pred
<1>4. IsFiniteSet(Early(f)) /\ Cardinality(Early(f)) \in Nat
      /\ Cardinality(Pred(j)) \in Nat
    BY <1>1, <1>3, InputsCount
<1>5. Cardinality(Pred(j)) <= Cardinality(Early(f)) /\ Cardinality(Pred(j)) # Cardinality(Early(f))
    BY <1>3, <1>4, FS_Subset
<1> QED BY <1>4, <1>5

LEMMA SchedulePIIInv == IInv /\ SchedulePI => IInv'
<1> SUFFICES ASSUME IInv, SchedulePI PROVE IInv'
    OBVIOUS
<1>1. /\ pc = "pi" /\ pc' \in {"reordPi", "reordPo", "done"}
      /\ iPerm' = [j \in Inputs |-> Cardinality(Pred(j))]
      /\ UNCHANGED <<sVecs, sIdx, expConfig, nPo, i, sv, cnt, ct1, ct2, slots, oPerm>>
    BY DEF SchedulePI, Pred, loopVars
<1>2. TypeInv' /\ UniqueInv' /\ OutInv' /\ PlaceInv' /\ EarlyInv'
    <2>1. NSlot' = NSlot
        BY <1>1 DEF NSlot
    <2> QED BY <2>1, <1>1 DEF IInv, TypeInv, UniqueInv, OutInv, PlaceInv, EarlyInv
<1>3. InInv'
    <2>1. iPerm' \in Bijection(Inputs, Inputs)
        BY <1>1, RankIsPermutation DEF IInv
    <2>2. ASSUME NEW s \in 0 .. NSlot - 1, slots[s] # None, NEW j \in sVecs[slots[s]]
          PROVE  iPerm'[j] < (FrameOf(s) + 1) * NPi
        <3> DEFINE f == FrameOf(s)
        <3>1. f \in Frames /\ f \in Nat
            BY SlotFrame, PinScheduleAssumption DEF Frames, IInv
        <3>2. j \in Early(f)
            BY <2>2, <3>1, <1>1, EarlyMember DEF IInv, TypeInv
        <3> HIDE DEF f
        <3>3. Early(f) \subseteq Inputs
            BY <1>1, EarlyInputs DEF IInv
        <3>4. iPerm'[j] = Cardinality(Pred(j))
            BY <1>1, <3>2, <3>3
        <3>5. Cardinality(Pred(j)) < Cardinality(Early(f))
            BY <1>1, <3>1, <3>2, RankBelow DEF IInv
        <3>6. Cardinality(Early(f)) <= (f + 1) * NPi
            BY <1>1, <3>1 DEF IInv, EarlyInv
        <3>7. Cardinality(Pred(j)) \in Nat /\ Cardinality(Early(f)) \in Nat
            BY <3>3, InputsCount DEF Pred
        <3>8. (f + 1) * NPi \in Nat
            BY <3>1, PinScheduleAssumption
        <3> QED BY <3>4, <3>5, <3>6, <3>7, <3>8 DEF f
    <2>3. NSlot' = NSlot /\ \A s : FrameOf(s)' = FrameOf(s)
        BY <1>1 DEF NSlot, FrameOf
    <2> QED BY <2>1, <2>2, <2>3, <1>1 DEF InInv
<1> QED BY <1>2, <1>3 DEF IInv

LEMMA ReordPIIInv == IInv /\ ReordPI => IInv'
<1> SUFFICES ASSUME IInv, ReordPI PROVE IInv'
    OBVIOUS
<1> PICK perm \in Bijection(Inputs, Inputs) :
        /\ \A j \in Inputs : SameFrame(j, perm[j])
        /\ iPerm' = [j \in Inputs |-> iPerm[perm[j]]]
    BY DEF ReordPI
<1>1. /\ pc = "reordPi" /\ pc' \in {"reordPo", "done"}
      /\ UNCHANGED <<sVecs, sIdx, expConfig, nPo, i, sv, cnt, ct1, ct2, slots, oPerm>>
    BY DEF ReordPI, loopVars
<1>2. TypeInv' /\ UniqueInv' /\ OutInv' /\ PlaceInv' /\ EarlyInv'
    <2>1. NSlot' = NSlot
        BY <1>1 DEF NSlot
    <2> QED BY <2>1, <1>1 DEF IInv, TypeInv, UniqueInv, OutInv, PlaceInv, EarlyInv
<1>3. InInv'
    <2>1. iPerm' \in Bijection(Inputs, Inputs)
        BY <1>1, Fun_BijTransitive DEF IInv, InInv
    <2>2. ASSUME NEW s \in 0 .. NSlot - 1, slots[s] # None, NEW j \in sVecs[slots[s]]
          PROVE  iPerm'[j] < (FrameOf(s) + 1) * NPi
        <3>1. FrameOf(s) \in Frames /\ FrameOf(s) \in Nat
            BY SlotFrame, PinScheduleAssumption DEF Frames, IInv
        <3>2. j \in Early(FrameOf(s)) /\ j \in Inputs
            <4>1. j \in Early(FrameOf(s))
                BY <2>2, <3>1, <1>1, EarlyMember DEF IInv, TypeInv
            <4> QED BY <4>1, <1>1, EarlyInputs DEF IInv
        <3>3. perm[j] \in Early(FrameOf(s))
            BY <3>1, <3>2 DEF SameFrame
        <3>4. PICK t \in 0 .. NSlot - 1 :
                  slots[t] # None /\ FrameOf(t) <= FrameOf(s) /\ perm[j] \in sVecs[slots[t]]
            BY <3>3, <1>1, EarlyMember DEF IInv, TypeInv
        <3>5. iPerm[perm[j]] < (FrameOf(t) + 1) * NPi
            BY <3>4, <1>1 DEF IInv, InInv
        <3>6. iPerm'[j] = iPerm[perm[j]]
            BY <3>2
        <3>7. iPerm'[j] \in Nat
            <4>1. iPerm' \in [Inputs -> Inputs]
                BY <2>1, Fun_BijectionProperties
            <4> QED BY <4>1, <3>2, InputsCount DEF Inputs
        <3>8. FrameOf(t) \in Nat
            BY SlotFrame, PinScheduleAssumption DEF Frames, IInv
        <3>9. FrameOf(t) + 1 \in Nat /\ FrameOf(s) + 1 \in Nat /\ FrameOf(t) + 1 <= FrameOf(s) + 1
            BY <3>1, <3>4, <3>8
        <3>10. /\ (FrameOf(t) + 1) * NPi <= (FrameOf(s) + 1) * NPi
               /\ (FrameOf(t) + 1) * NPi \in Nat /\ (FrameOf(s) + 1) * NPi \in Nat
            BY <3>9, PinScheduleAssumption, MulMonotone
        <3> QED BY <3>5, <3>6, <3>7, <3>10
    <2>3. NSlot' = NSlot /\ \A s : FrameOf(s)' = FrameOf(s)
        BY <1>1 DEF NSlot, FrameOf
    <2> QED BY <2>1, <2>2, <2>3, <1>1 DEF InInv
<1> QED BY <1>2, <1>3 DEF IInv

-----------------------------------------------------------------------------
(* The swaps of reordPO                                                    *)

LEMMA ReordPOIInv == IInv /\ ReordPO => IInv'
<1> SUFFICES ASSUME IInv, ReordPO PROVE IInv'
    OBVIOUS
<1> PICK perm \in [Frames -> Bijection(0 .. nPo - 1, 0 .. nPo - 1)] :
        slots' = [s \in DOMAIN slots |->
            slots[FrameOf(s) * nPo + perm[FrameOf(s)][s % nPo]]]
    BY DEF ReordPO
<1> DEFINE from(s) == FrameOf(s) * nPo + perm[FrameOf(s)][s % nPo]
<1>0. ASSUME NEW f \in Frames
      PROVE  /\ perm[f] \in [0 .. nPo - 1 -> 0 .. nPo - 1]
             /\ \A p, q \in 0 .. nPo - 1 : perm[f][p] = perm[f][q] => p = q
             /\ \A q \in 0 .. nPo - 1 : \E p \in 0 .. nPo - 1 : perm[f][p] = q
    <2> DEFINE D == 0 .. nPo - 1
               g == perm[f]
    <2>1. g \in Bijection(D, D)
        OBVIOUS
    <2> HIDE DEF D, g
    <2>2. /\ g \in [D -> D] /\ \A p, q \in D : g[p] = g[q] => p = q
          /\ \A q \in D : \E p \in D : g[p] = q
        BY <2>1, Fun_BijectionProperties
    <2> QED BY <2>2 DEF D, g
<1>1. /\ pc = "reordPo" /\ pc' = "done"
      /\ oPerm' = [k \in COs |-> CHOOSE p \in DOMAIN slots' : slots'[p] = k]
      /\ UNCHANGED <<sVecs, sIdx, expConfig, nPo, i, sv, cnt, ct1, ct2, iPerm>>
    BY DEF ReordPO
<1>2. slots \in [0 .. NSlot - 1 -> COs \cup {None}] /\ NSlot' = NSlot
      /\ \A s : FrameOf(s)' = FrameOf(s)
    BY <1>1 DEF IInv, TypeInv, NSlot, FrameOf
<1>3. ASSUME NEW s \in 0 .. NSlot - 1
      PROVE  /\ FrameOf(s) \in Frames /\ s % nPo \in 0 .. nPo - 1
             /\ perm[FrameOf(s)][s % nPo] \in 0 .. nPo - 1
             /\ from(s) \in 0 .. NSlot - 1 /\ FrameOf(from(s)) = FrameOf(s)
             /\ from(s) % nPo = perm[FrameOf(s)][s % nPo]
    <2>1. FrameOf(s) \in Frames /\ s % nPo \in 0 .. nPo - 1
        BY SlotFrame DEF IInv
    <2>2. perm[FrameOf(s)][s % nPo] \in 0 .. nPo - 1
        BY <2>1, <1>0
    <2>3. FrameOf(s) \in 0 .. NTimeFrame - 1 /\ FrameOf(s) \in Nat
        BY <2>1, PinScheduleAssumption DEF Frames
    <2>4. from(s) \in 0 .. NTimeFrame * nPo - 1
        BY <2>2, <2>3, Sizes, ItemInRange DEF IInv
    <2>5. from(s) \div nPo = FrameOf(s) /\ from(s) % nPo = perm[FrameOf(s)][s % nPo]
        BY <2>2, <2>3, Sizes, ItemOfFrame DEF IInv
    <2> QED BY <2>1, <2>2, <2>4, <2>5, Sizes DEF FrameOf, IInv
<1>4. ASSUME NEW r \in 0 .. NSlot - 1, NEW s \in 0 .. NSlot - 1, from(r) = from(s)
      PROVE  r = s
    <2>1. FrameOf(r) = FrameOf(s)
        BY <1>3, <1>4
    <2>2. perm[FrameOf(s)][r % nPo] = perm[FrameOf(s)][s % nPo]
        BY <1>3, <1>4, <2>1
    <2>3. r % nPo = s % nPo
        BY <2>1, <2>2, <1>3, <1>0
    <2>4. r = FrameOf(r) * nPo + (r % nPo) /\ s = FrameOf(s) * nPo + (s % nPo)
        BY SlotFrame DEF IInv
    <2> QED BY <2>1, <2>3, <2>4
<1>5. ASSUME NEW r \in 0 .. NSlot - 1
      PROVE  \E s \in 0 .. NSlot - 1 : from(s) = r
    <2> DEFINE f == FrameOf(r)
    <2>1. f \in Frames /\ r % nPo \in 0 .. nPo - 1 /\ r = f * nPo + (r % nPo)
        BY SlotFrame DEF IInv
    <2>2. PICK q \in 0 .. nPo - 1 : perm[f][q] = r % nPo
        BY <2>1, <1>0
    <2>3. f \in Nat /\ f \in 0 .. NTimeFrame - 1
        BY <2>1, PinScheduleAssumption DEF Frames
    <2> HIDE DEF f
    <2>4. f * nPo + q \in 0 .. NTimeFrame * nPo - 1
        BY <2>3, Sizes, ItemInRange DEF IInv
    <2>5. (f * nPo + q) \div nPo = f /\ (f * nPo + q) % nPo = q
        BY <2>3, Sizes, ItemOfFrame DEF IInv
    <2>6. from(f * nPo + q) = r
        BY <2>1, <2>2, <2>5 DEF FrameOf
    <2> QED BY <2>4, <2>6, Sizes DEF IInv
<1>6. /\ slots' \in [0 .. NSlot - 1 -> COs \cup {None}]
      /\ \A s \in 0 .. NSlot - 1 : slots'[s] = slots[from(s)]
    BY <1>2, <1>3
<1> HIDE DEF from
<1>7. TypeInv'
    BY <1>1, <1>2, <1>6 DEF IInv, TypeInv
<1>8. UniqueInv'
    <2>1. ASSUME NEW r \in 0 .. NSlot - 1, NEW s \in 0 .. NSlot - 1,
                 slots'[r] = slots'[s], slots'[s] # None
          PROVE  r = s
        <3>1. from(r) \in 0 .. NSlot - 1 /\ from(s) \in 0 .. NSlot - 1
            BY <1>3
        <3>2. slots[from(r)] = slots[from(s)] /\ slots[from(s)] # None
            BY <2>1, <1>6
        <3>3. from(r) = from(s)
            BY <3>1, <3>2, <1>1 DEF IInv, UniqueInv
        <3> QED BY <3>3, <1>4
    <2> QED BY <2>1, <1>2 DEF UniqueInv
<1>9. OutInv'
    <2>1. ASSUME NEW k \in COs PROVE \E p \in DOMAIN slots' : slots'[p] = k
        <3>1. oPerm[k] \in 0 .. NSlot - 1 /\ slots[oPerm[k]] = k
            BY <1>1 DEF IInv, OutInv
        <3>2. PICK s \in 0 .. NSlot - 1 : from(s) = oPerm[k]
            BY <3>1, <1>5
        <3> QED BY <3>1, <3>2, <1>6
    <2>2. \A k \in COs : oPerm'[k] \in DOMAIN slots' /\ slots'[oPerm'[k]] = k
        BY <1>1, <2>1
    <2>3. oPerm' \in [COs -> 0 .. NSlot - 1]
        BY <1>1, <1>6, <2>2
    <2> QED BY <2>2, <2>3, <1>2 DEF OutInv
<1>10. InInv'
    <2>1. ASSUME NEW s \in 0 .. NSlot - 1, slots'[s] # None, NEW j \in sVecs[slots'[s]]
          PROVE  iPerm[j] < (FrameOf(s) + 1) * NPi
        <3>1. from(s) \in 0 .. NSlot - 1 /\ slots'[s] = slots[from(s)]
              /\ FrameOf(from(s)) = FrameOf(s)
            BY <1>3, <1>6
        <3> QED BY <2>1, <3>1, <1>1 DEF IInv, InInv
    <2>2. iPerm \in Bijection(Inputs, Inputs)
        BY <1>1 DEF IInv, InInv
    <2> QED BY <2>1, <2>2, <1>1, <1>2 DEF InInv
<1> QED BY <1>1, <1>7, <1>8, <1>9, <1>10 DEF IInv, PlaceInv, EarlyInv

-----------------------------------------------------------------------------
(* The theorems                                                            *)

THEOREM Invariance == Spec => []IInv
<1>1. IInv /\ [Next]_vars => IInv'
    <2> SUFFICES ASSUME IInv, [Next]_vars PROVE IInv'
        OBVIOUS
    <2>1. CASE Grow
        BY <2>1, GrowIInv
    <2>2. CASE PlaceNext
        BY <2>2, PlaceNextIInv
    <2>3. CASE SkipToFrame
        BY <2>3, SkipIInv
    <2>4. CASE GiveUp
        BY <2>4, GiveUpIInv
    <2>5. CASE SchedulePI
        BY <2>5, SchedulePIIInv
    <2>6. CASE ReordPI
        BY <2>6, ReordPIIInv
    <2>7. CASE ReordPO
        BY <2>7, ReordPOIInv
    <2>8. CASE UNCHANGED vars
        <3>1. NSlot' = NSlot /\ Cap' = Cap /\ \A s : FrameOf(s)' = FrameOf(s)
            BY <2>8 DEF vars, loopVars, NSlot, Cap, FrameOf
        <3>2. \A f : Early(f)' = Early(f)
            BY <2>8, <3>1 DEF vars, loopVars, Early
        <3> QED BY <2>8, <3>1, <3>2
            DEF vars, loopVars, IInv, TypeInv, PlaceInv, UniqueInv, EarlyInv, OutInv, InInv
    <2>9. CASE Done
        BY <2>8, <2>9 DEF Done
    <2> QED BY <2>1, <2>2, <2>3, <2>4, <2>5, <2>6, <2>7, <2>8, <2>9 DEF Next
<1> QED BY <1>1, InitIInv, PTL DEF Spec

\* Every variable of the scheduler has its type; in particular the number of
\* pins stays within the number of outputs, and iPerm is a permutation of the
\* inputs when schedulePI has set it.
THEOREM TypeCorrect == Spec => []TypeOK
<1>1. IInv => TypeOK
    BY DEF IInv, TypeInv, OutInv, InInv, TypeOK
<1> QED BY <1>1, Invariance, PTL

\* The position of the next slot counts the outputs placed and the slots
\* skipped, and the slots skipped stay within the spare ones.
THEOREM CountRight == Spec => []SlotCount
<1>1. IInv => SlotCount
    BY DEF IInv, PlaceInv, SlotCount
<1> QED BY <1>1, Invariance, PTL

\* assert((ct1 < nTimeFrame) && (ct2 < nPo)) of schedulePO never fails.
THEOREM LoopAssertion == Spec => []NextSlotExists
<1>1. IInv => NextSlotExists
    BY NextSlotFree DEF NextSlotExists
<1> QED BY <1>1, Invariance, PTL

\* checkPerm of schedulePO and reordPO: each output has one slot and no slot
\* two outputs, and oPerm is the inverse of slots.
THEOREM OutputsKept == Spec => []PermLegal
<1> SUFFICES IInv => PermLegal
    BY Invariance, PTL
<1> SUFFICES ASSUME IInv PROVE PermLegal
    OBVIOUS
<1>1. pc # "grow" => DOMAIN slots = 0 .. NSlot - 1
    BY DEF IInv, TypeInv
<1>2. None \notin COs
    BY PinScheduleAssumption DEF COs, None
<1>3. ASSUME pc = "place", NEW k \in COs
      PROVE  (\E s \in DOMAIN slots : slots[s] = k) <=> \E a \in 0 .. i - 1 : sIdx[a] = k
    <2>1. pc # "grow" /\ DOMAIN slots = 0 .. NSlot - 1 /\ k # None
        BY <1>1, <1>2, <1>3
    <2>2. (\E s \in DOMAIN slots : slots[s] = k) => \E a \in 0 .. i - 1 : sIdx[a] = k
        BY <2>1, <1>3 DEF IInv, PlaceInv
    <2>3. (\E a \in 0 .. i - 1 : sIdx[a] = k) => \E s \in DOMAIN slots : slots[s] = k
        BY <2>1, <1>3 DEF IInv, PlaceInv
    <2> QED BY <2>2, <2>3
<1>4. ASSUME pc # "grow", NEW r \in DOMAIN slots, NEW s \in DOMAIN slots,
             slots[r] = slots[s], slots[s] # None
      PROVE  r = s
    BY <1>1, <1>4 DEF IInv, UniqueInv
<1>5. ASSUME pc \in {"pi", "reordPi", "reordPo", "done"},
             NEW s \in DOMAIN slots, NEW k \in COs
      PROVE  slots[s] = k <=> oPerm[k] = s
    <2>1. pc # "grow" /\ k # None /\ oPerm[k] \in DOMAIN slots /\ slots[oPerm[k]] = k
        BY <1>1, <1>2, <1>5 DEF IInv, OutInv
    <2> QED BY <2>1, <1>4
<1> QED BY <1>3, <1>4, <1>5 DEF PermLegal

\* What the folding relies on: the inputs of an output have all been read
\* when its frame is over.
THEOREM ReadInTime == Spec => []ReadBeforeShown
<1> SUFFICES IInv => ReadBeforeShown
    BY Invariance, PTL
<1> SUFFICES ASSUME IInv, pc \in {"reordPi", "reordPo", "done"},
                    NEW k \in COs, NEW j \in sVecs[k]
             PROVE  iPerm[j] < (FrameOf(oPerm[k]) + 1) * NPi
    BY DEF ReadBeforeShown
<1>1. oPerm[k] \in 0 .. NSlot - 1 /\ slots[oPerm[k]] = k /\ k # None
    BY PinScheduleAssumption DEF IInv, OutInv, COs, None
<1> QED BY <1>1 DEF IInv, InInv

\* assert(!sVecss[t][i][pos]) of reordPO never fails: the inputs of an output
\* that its own frame reads are on different pins.
THEOREM OwnPins == Spec => []NewInputsOnOwnPins
<1>1. IInv /\ ReadBeforeShown => NewInputsOnOwnPins
    <2> SUFFICES ASSUME IInv, ReadBeforeShown, pc \in {"reordPo", "done"}, NEW k \in COs,
                        NEW j \in sVecs[k], NEW m \in sVecs[k],
                        iPerm[j] >= FrameOf(oPerm[k]) * NPi, iPerm[m] >= FrameOf(oPerm[k]) * NPi,
                        iPerm[j] % NPi = iPerm[m] % NPi
                 PROVE  j = m
        BY DEF NewInputsOnOwnPins
    <2> DEFINE f == FrameOf(oPerm[k])
    <2>1. f \in Nat /\ NPi \in Nat \ {0} /\ f * NPi \in Nat /\ (f + 1) * NPi = f * NPi + NPi
        <3>1. oPerm[k] \in 0 .. NSlot - 1
            BY DEF IInv, OutInv
        <3>2. f \in Nat
            BY <3>1, SlotFrame, PinScheduleAssumption DEF Frames, IInv
        <3> HIDE DEF f
        <3> QED BY <3>2, PinScheduleAssumption
    <2>2. /\ j \in Inputs /\ m \in Inputs /\ iPerm \in [Inputs -> Inputs]
          /\ \A a, b \in Inputs : iPerm[a] = iPerm[b] => a = b
        <3>1. j \in Inputs /\ m \in Inputs
            BY DEF IInv, TypeInv
        <3>2. iPerm \in Bijection(Inputs, Inputs)
            BY DEF IInv, InInv
        <3> QED BY <3>1, <3>2, Fun_BijectionProperties
    <2>3. iPerm[j] \in Nat /\ iPerm[m] \in Nat
        BY <2>2, InputsCount DEF Inputs
    <2>4. iPerm[j] < (f + 1) * NPi /\ iPerm[m] < (f + 1) * NPi
        BY DEF ReadBeforeShown
    <2>5. iPerm[j] >= f * NPi /\ iPerm[m] >= f * NPi
        OBVIOUS
    <2> HIDE DEF f
    <2> DEFINE x == iPerm[j] - f * NPi
               y == iPerm[m] - f * NPi
    <2>6. /\ x \in 0 .. NPi - 1 /\ iPerm[j] = f * NPi + x
          /\ y \in 0 .. NPi - 1 /\ iPerm[m] = f * NPi + y
        BY <2>1, <2>3, <2>4, <2>5
    <2> HIDE DEF x, y
    <2>7. iPerm[j] % NPi = x /\ iPerm[m] % NPi = y
        BY <2>1, <2>6, ItemOfFrame
    <2>8. iPerm[j] = iPerm[m]
        BY <2>6, <2>7
    <2> QED BY <2>2, <2>8
<1> QED BY <1>1, Invariance, ReadInTime, PTL

-----------------------------------------------------------------------------
(* The number of pins is the least                                         *)

\* n items in each of m frames are n * m items at most.
LEMMA ItemsPerFrame ==
    ASSUME NEW S, IsFiniteSet(S), NEW lo \in Nat, NEW m \in Nat, NEW n \in Nat,
           NEW g \in [S -> lo .. lo + m - 1],
           \A f \in lo .. lo + m - 1 : Cardinality({a \in S : g[a] = f}) <= n
    PROVE  Cardinality(S) <= n * m
<1> DEFINE below(k) == {a \in S : g[a] < lo + k}
           bad == {k \in 0 .. m : ~ (Cardinality(below(k)) <= n * k)}
<1>1. 0 \notin bad
    <2>1. below(0) = {}
        OBVIOUS
    <2>2. Cardinality(below(0)) = 0 /\ n * 0 = 0
        BY <2>1, FS_EmptySet
    <2> QED BY <2>2
<1>2. ASSUME NEW k \in 1 .. m, k - 1 \notin bad PROVE k \notin bad
    <2> DEFINE one == {a \in S : g[a] = lo + k - 1}
    <2>1. below(k) = below(k - 1) \cup one /\ below(k - 1) \cap one = {}
        OBVIOUS
    <2>2. lo + k - 1 \in lo .. lo + m - 1
        OBVIOUS
    <2>3. Cardinality(one) <= n
        BY <2>2
    <2>4. /\ IsFiniteSet(one) /\ IsFiniteSet(below(k - 1))
          /\ Cardinality(one) \in Nat /\ Cardinality(below(k - 1)) \in Nat
        <3>1. one \in SUBSET S /\ below(k - 1) \in SUBSET S
            OBVIOUS
        <3> QED BY <3>1, FS_Subset, FS_CardinalityType
    <2>5. Cardinality(below(k - 1)) <= n * (k - 1)
        BY <1>2
    <2> HIDE DEF below, one
    <2>6. Cardinality(below(k)) = Cardinality(below(k - 1)) + Cardinality(one)
        BY <2>1, <2>4, FS_Union, FS_EmptySet
    <2>7. n * (k - 1) + n = n * k /\ n * (k - 1) \in Nat
        OBVIOUS
    <2>8. Cardinality(below(k)) <= n * k
        BY <2>3, <2>4, <2>5, <2>6, <2>7
    <2> QED BY <2>8
<1>3. bad = {}
    <2> HIDE DEF bad
    <2>1. bad \in SUBSET (0 .. m)
        BY DEF bad
    <2> QED BY <1>1, <1>2, <2>1, FirstFailure
<1>4. below(m) = S
    OBVIOUS
<1> HIDE DEF below
<1>5. m \in 0 .. m /\ Cardinality(below(m)) <= n * m
    BY <1>3
<1> QED BY <1>4, <1>5

\* The frame found for a set of inputs is no later than that of a larger set.
LEMMA FrameForMonotone ==
    ASSUME NEW S \in SUBSET Inputs, NEW R \in SUBSET Inputs, S \subseteq R
    PROVE  FrameFor(S) <= FrameFor(R)
<1> DEFINE c == Cardinality(S)
           d == Cardinality(R)
<1>1. c \in Nat /\ d \in Nat /\ c <= d
    BY InputsCount, FS_Subset
<1> HIDE DEF c, d
<1>2. /\ Ceil(c, NPi) \in Nat /\ Ceil(d, NPi) \in Nat
      /\ d <= Ceil(d, NPi) * NPi /\ Ceil(d, NPi) * NPi \in Nat
    <2>1. /\ Ceil(c, NPi) \in Nat /\ Ceil(d, NPi) \in Nat
          /\ d <= Ceil(d, NPi) * NPi /\ NPi \in Nat
        BY <1>1, CeilBounds, PinScheduleAssumption
    <2> QED BY <2>1
<1>3. c <= Ceil(d, NPi) * NPi
    BY <1>1, <1>2
<1>4. Ceil(c, NPi) <= Ceil(d, NPi)
    BY <1>1, <1>2, <1>3, CeilBounds, PinScheduleAssumption
<1> QED BY <1>2, <1>4 DEF FrameFor, c, d

\* The inputs that the first a outputs of the sorted order depend on.
Prefix(a) == UNION {sVecs[sIdx[b]] : b \in 0 .. a - 1}

LEMMA PrefixSteps ==
    ASSUME TypeInv
    PROVE  /\ Prefix(0) = {}
           /\ \A a \in COs : /\ Prefix(a + 1) = Prefix(a) \cup sVecs[sIdx[a]]
                             /\ Prefix(a + 1) \subseteq Inputs
                             /\ EarliestFrames[a] = FrameFor(Prefix(a + 1))
                             /\ EarliestFrames[a] \in Frames
           /\ \A a, b \in COs : a <= b => EarliestFrames[a] <= EarliestFrames[b]
<1>1. sIdx \in [COs -> COs] /\ sVecs \in [COs -> SUBSET Inputs]
    BY Fun_BijectionProperties DEF TypeInv
<1>2. Prefix(0) = {}
    BY DEF Prefix
<1>3. ASSUME NEW a \in COs
      PROVE  /\ Prefix(a + 1) = Prefix(a) \cup sVecs[sIdx[a]]
             /\ Prefix(a + 1) \subseteq Inputs
             /\ EarliestFrames[a] = FrameFor(Prefix(a + 1))
             /\ EarliestFrames[a] \in Frames
    <2>1. a \in Nat /\ a + 1 - 1 = a /\ 0 .. a = (0 .. a - 1) \cup {a} /\ 0 .. a \subseteq COs
        BY PinScheduleAssumption DEF COs
    <2>2. Prefix(a + 1) = Prefix(a) \cup sVecs[sIdx[a]]
        BY <2>1 DEF Prefix
    <2>3. Prefix(a + 1) \subseteq Inputs
        BY <2>1, <1>1 DEF Prefix
    <2>4. EarliestFrames[a] = FrameFor(Prefix(a + 1))
        BY <2>1 DEF EarliestFrames, Prefix
    <2>5. FrameFor(Prefix(a + 1)) \in Frames
        BY <2>3, FrameForBounds DEF Frames
    <2> QED BY <2>2, <2>3, <2>4, <2>5
<1>4. ASSUME NEW a \in COs, NEW b \in COs, a <= b
      PROVE  EarliestFrames[a] <= EarliestFrames[b]
    <2>1. ASSUME NEW j \in Prefix(a + 1) PROVE j \in Prefix(b + 1)
        <3>1. ASSUME NEW c \in 0 .. (a + 1) - 1 PROVE c \in 0 .. (b + 1) - 1
            BY <1>4, PinScheduleAssumption DEF COs
        <3>2. PICK c \in 0 .. (a + 1) - 1 : j \in sVecs[sIdx[c]]
            BY DEF Prefix
        <3> QED BY <3>1, <3>2 DEF Prefix
    <2> QED BY <2>1, <1>3, FrameForMonotone
<1> QED BY <1>2, <1>3, <1>4

\* Some outputs at the end of the order are too many for n pins.
TooFew(n) == \E a \in COs : NCo - a > n * (NTimeFrame - EarliestFrames[a])

\* What the walk has decided so far: fewer pins are too few, and every output
\* placed is placed in its earliest frame or later.
LeastInv ==
    /\ \A n \in 1 .. nPo - 1 : TooFew(n)
    /\ pc = "place" => sv = Prefix(i)
    /\ pc \in {"place", "pi"} => \A a \in 0 .. i - 1 : \E s \in 0 .. NSlot - 1 :
          slots[s] = sIdx[a] /\ FrameOf(s) >= EarliestFrames[a]
    /\ pc = "pi" => i = NCo

LEMMA InitLeast == Init => LeastInv
<1> SUFFICES ASSUME Init PROVE LeastInv
    OBVIOUS
<1>0. TypeInv
    BY InitIInv DEF IInv
<1>1. ASSUME NEW n \in 1 .. nPo - 1 PROVE TooFew(n)
    <2>1. nPo = Ceil(NCo, NTimeFrame) /\ nPo \in Nat /\ n \in Nat /\ n < nPo
          /\ NCo \in Nat \ {0} /\ NTimeFrame \in Nat
        BY <1>0, Sizes DEF Init
    <2>2. ~ (NCo <= n * NTimeFrame) /\ n * NTimeFrame \in Nat
        BY <2>1, CeilBounds, PinScheduleAssumption
    <2>3. 0 \in COs /\ EarliestFrames[0] \in 0 .. NTimeFrame - 1
        BY <1>0, <2>1, PrefixSteps DEF COs, Frames
    <2>4. NTimeFrame - EarliestFrames[0] \in Nat /\ NTimeFrame - EarliestFrames[0] <= NTimeFrame
        BY <2>1, <2>3
    <2>5. /\ (NTimeFrame - EarliestFrames[0]) * n <= NTimeFrame * n
          /\ (NTimeFrame - EarliestFrames[0]) * n = n * (NTimeFrame - EarliestFrames[0])
          /\ NTimeFrame * n = n * NTimeFrame
          /\ n * (NTimeFrame - EarliestFrames[0]) \in Nat
        BY <2>1, <2>4, MulMonotone
    <2>6. NCo - 0 > n * (NTimeFrame - EarliestFrames[0])
        BY <2>1, <2>2, <2>5
    <2> QED BY <2>3, <2>6 DEF TooFew
<1> QED BY <1>1 DEF Init, LeastInv

\* A step that leaves the supports and their order alone changes nothing of
\* what n pins can do.
LEMMA SameSupports ==
    ASSUME UNCHANGED <<sVecs, sIdx>>
    PROVE  /\ EarliestFrames' = EarliestFrames
           /\ \A a : Prefix(a)' = Prefix(a)
           /\ \A n : TooFew(n)' <=> TooFew(n)
BY DEF EarliestFrames, Prefix, TooFew

LEMMA PlaceAtLeast ==
    ASSUME IInv, LeastInv, NEW f, NEW c, PlaceAt(f, c)
    PROVE  LeastInv'
<1> DEFINE s == f * nPo + c
<1>1. /\ s \in 0 .. NSlot - 1 /\ FrameOf(s) = f /\ slots[s] = None
      /\ i \in COs /\ sIdx[i] \in COs
    BY PlaceSlot
<1>2. /\ pc = "place" /\ i < NCo /\ i' = i + 1 /\ nPo' = nPo /\ NSlot' = NSlot
      /\ UNCHANGED <<sVecs, sIdx>> /\ f \in Frames
      /\ sv' = sv \cup sVecs[sIdx[i]] /\ FrameFor(sv') <= f
      /\ slots' = [slots EXCEPT ![s] = sIdx[i]]
      /\ pc' = IF i = NCo - 1 THEN "pi" ELSE "place"
    BY PinScheduleAssumption DEF PlaceAt, Placed, NSlot
<1>3. slots \in [0 .. NSlot - 1 -> COs \cup {None}] /\ None \notin COs
    BY <1>2, PinScheduleAssumption DEF IInv, TypeInv, COs, None
<1> HIDE DEF s
<1>4. slots'[s] = sIdx[i] /\ \A r \in 0 .. NSlot - 1 : r # s => slots'[r] = slots[r]
    BY <1>1, <1>2, <1>3
<1>5. sv' = Prefix(i') /\ FrameOf(s) >= EarliestFrames[i]
    <2>1. sv = Prefix(i) /\ TypeInv
        BY <1>2 DEF LeastInv, IInv
    <2>2. sv' = Prefix(i + 1) /\ EarliestFrames[i] = FrameFor(Prefix(i + 1))
          /\ EarliestFrames[i] \in Frames
        BY <1>1, <1>2, <2>1, PrefixSteps
    <2> QED BY <2>2, <1>1, <1>2, PinScheduleAssumption DEF Frames
<1>6. ASSUME NEW a \in 0 .. i' - 1
      PROVE  \E r \in 0 .. NSlot - 1 : slots'[r] = sIdx[a] /\ FrameOf(r) >= EarliestFrames[a]
    <2>1. i \in Nat /\ (a = i \/ a \in 0 .. i - 1)
        BY <1>1, <1>2, <1>6 DEF COs
    <2>2. CASE a = i
        BY <2>2, <1>1, <1>4, <1>5
    <2>3. CASE a \in 0 .. i - 1
        <3>1. PICK r \in 0 .. NSlot - 1 : slots[r] = sIdx[a] /\ FrameOf(r) >= EarliestFrames[a]
            BY <2>3, <1>2 DEF LeastInv
        <3>2. sIdx[a] \in COs
            <4>1. a \in COs
                BY <2>1, <2>3, <1>2, PinScheduleAssumption DEF COs
            <4> QED BY <4>1, Fun_BijectionProperties DEF IInv, TypeInv
        <3> QED BY <3>1, <3>2, <1>1, <1>3, <1>4
    <2> QED BY <2>1, <2>2, <2>3
<1>7. pc' = "pi" => i' = NCo
    BY <1>1, <1>2, PinScheduleAssumption DEF COs
<1>8. \A r : FrameOf(r)' = FrameOf(r)
    BY <1>2 DEF FrameOf
<1> QED BY <1>2, <1>5, <1>6, <1>7, <1>8, SameSupports DEF LeastInv

LEMMA GiveUpLeast == IInv /\ LeastInv /\ GiveUp => LeastInv'
<1> SUFFICES ASSUME IInv, LeastInv, GiveUp PROVE LeastInv'
    OBVIOUS
<1> DEFINE f == FrameFor(sv \cup sVecs[sIdx[i]])
<1>1. /\ pc = "place" /\ pc' = "grow" /\ i < NCo /\ nPo' = nPo + 1
      /\ f > ct1 /\ Skipped(f) > Cap /\ UNCHANGED <<sVecs, sIdx>>
    BY DEF GiveUp
<1>2. i \in COs /\ sv = Prefix(i) /\ TypeInv
    BY <1>1, Sizes DEF IInv, COs, LeastInv
<1>3. f = EarliestFrames[i] /\ f \in Frames /\ f \in Nat
    <2>1. EarliestFrames[i] = FrameFor(Prefix(i + 1)) /\ EarliestFrames[i] \in Frames
          /\ Prefix(i + 1) = Prefix(i) \cup sVecs[sIdx[i]]
        BY <1>2, PrefixSteps
    <2>2. f = EarliestFrames[i]
        BY <2>1, <1>2
    <2> HIDE DEF f
    <2> QED BY <2>1, <2>2, PinScheduleAssumption DEF Frames
<1> HIDE DEF f
<1>4. TooFew(nPo)
    <2>1. ct1 * nPo + ct2 = i + cnt /\ ct1 \in Nat /\ ct2 \in Nat /\ cnt \in Nat /\ i \in Nat
        BY <1>1, Sizes DEF IInv, TypeInv, PlaceInv
    <2>2. /\ nPo \in Nat /\ nPo * (f - ct1) = f * nPo - ct1 * nPo /\ f * nPo \in Nat
          /\ ct1 * nPo \in Nat /\ NTimeFrame \in Nat /\ nPo * NTimeFrame \in Nat
          /\ nPo * (NTimeFrame - f) = nPo * NTimeFrame - f * nPo
        <3>1. nPo \in Nat /\ NTimeFrame \in Nat
            BY <1>2, Sizes
        <3> QED BY <3>1, <1>3, <2>1
    <2>3. Skipped(f) = f * nPo - i
        BY SMTT(40), <2>1, <2>2 DEF Skipped
    <2>4. f * nPo - i > nPo * NTimeFrame - NCo /\ NCo \in Nat
        BY <2>3, <1>1, <1>2, Sizes
    <2>5. NCo - i > nPo * (NTimeFrame - f)
        BY <2>1, <2>2, <2>4
    <2> QED BY <2>5, <1>2, <1>3 DEF TooFew
<1>5. \A n \in 1 .. nPo' - 1 : TooFew(n)
    <2>1. nPo \in Nat
        BY <1>2, Sizes
    <2> QED BY <2>1, <1>1, <1>4 DEF LeastInv
<1> QED BY <1>1, <1>5, SameSupports DEF LeastInv

THEOREM LeastInvariance == Spec => []LeastInv
<1>1. IInv /\ LeastInv /\ [Next]_vars => LeastInv'
    <2> SUFFICES ASSUME IInv, LeastInv, [Next]_vars PROVE LeastInv'
        OBVIOUS
    <2>1. CASE Grow
        <3>1. Prefix(0) = {} /\ NCo # 0
            BY PrefixSteps, PinScheduleAssumption DEF IInv
        <3>2. UNCHANGED <<sVecs, sIdx, nPo>> /\ pc' = "place" /\ i' = 0 /\ sv' = {}
            BY <2>1 DEF Grow
        <3> QED BY <3>1, <3>2, SameSupports DEF LeastInv
    <2>2. CASE PlaceNext
        BY <2>2, PlaceNextAt, PlaceAtLeast
    <2>3. CASE SkipToFrame
        BY <2>3, SkipAt, PlaceAtLeast
    <2>4. CASE GiveUp
        BY <2>4, GiveUpLeast
    <2>5. CASE SchedulePI
        BY <2>5, SameSupports DEF SchedulePI, LeastInv, loopVars
    <2>6. CASE ReordPI
        BY <2>6, SameSupports DEF ReordPI, LeastInv, loopVars
    <2>7. CASE ReordPO
        BY <2>7, SameSupports DEF ReordPO, LeastInv
    <2>8. CASE UNCHANGED vars
        <3>1. NSlot' = NSlot /\ \A s : FrameOf(s)' = FrameOf(s)
            BY <2>8 DEF vars, NSlot, FrameOf
        <3> QED BY <2>8, <3>1, SameSupports DEF vars, loopVars, LeastInv
    <2>9. CASE Done
        BY <2>8, <2>9 DEF Done
    <2> QED BY <2>1, <2>2, <2>3, <2>4, <2>5, <2>6, <2>7, <2>8, <2>9 DEF Next
<1> QED BY <1>1, InitLeast, Invariance, PTL DEF Spec

\* Pins that are too few for the last outputs are too few.
LEMMA TooFewFails ==
    ASSUME TypeInv, NEW n \in Nat, TooFew(n), CanSpread(n)
    PROVE  FALSE
<1>1. PICK g \in [COs -> Frames] :
          /\ \A a \in COs : g[a] >= EarliestFrames[a]
          /\ \A f \in Frames : Cardinality({a \in COs : g[a] = f}) <= n
    BY DEF CanSpread
<1>2. PICK a \in COs : NCo - a > n * (NTimeFrame - EarliestFrames[a])
    BY DEF TooFew
<1> DEFINE lo == EarliestFrames[a]
           m == NTimeFrame - lo
           S == a .. NCo - 1
           h == [b \in S |-> g[b]]
<1>3. /\ lo \in Nat /\ m \in Nat /\ lo + m = NTimeFrame /\ NCo \in Nat /\ a \in Nat /\ a < NCo
      /\ S \subseteq COs /\ lo .. lo + m - 1 \subseteq Frames
    <2>1. lo \in 0 .. NTimeFrame - 1
        BY PrefixSteps DEF Frames
    <2> HIDE DEF lo
    <2> QED BY <2>1, PinScheduleAssumption DEF COs, Frames
<1>4. ASSUME NEW b \in S PROVE g[b] \in lo .. lo + m - 1
    <2>1. b \in COs /\ a <= b
        BY <1>3
    <2>2. lo <= EarliestFrames[b] /\ EarliestFrames[b] \in Frames
        BY <2>1, PrefixSteps
    <2>3. EarliestFrames[b] <= g[b] /\ g[b] \in Frames
        BY <2>1, <1>1
    <2> HIDE DEF lo
    <2> QED BY <2>2, <2>3, <1>3, PinScheduleAssumption DEF Frames
<1>5. IsFiniteSet(S) /\ Cardinality(S) = NCo - a /\ IsFiniteSet(COs)
    BY <1>3, FS_Interval DEF COs
<1> HIDE DEF lo, m, S
<1>6. h \in [S -> lo .. lo + m - 1]
    BY <1>4
<1>7. ASSUME NEW f \in lo .. lo + m - 1 PROVE Cardinality({b \in S : h[b] = f}) <= n
    <2> DEFINE X == {b \in S : h[b] = f}
               Y == {b \in COs : g[b] = f}
    <2>1. f \in Frames /\ X \in SUBSET Y /\ Y \in SUBSET COs
        BY <1>3
    <2>2. IsFiniteSet(Y) /\ Cardinality(X) <= Cardinality(Y) /\ Cardinality(Y) \in Nat
          /\ Cardinality(X) \in Nat
        BY <2>1, <1>5, FS_Subset, FS_CardinalityType
    <2>3. Cardinality(Y) <= n
        BY <2>1, <1>1
    <2> QED BY <2>2, <2>3
<1> HIDE DEF h
<1>8. Cardinality(S) <= n * m
    BY <1>3, <1>5, <1>6, <1>7, ItemsPerFrame
<1>9. n * m \in Nat /\ NCo - a > n * m
    BY <1>2, <1>3 DEF m, lo
<1> QED BY <1>3, <1>5, <1>8, <1>9

\* The slots found show that the pins suffice.
LEMMA FoundSpreads ==
    ASSUME IInv, LeastInv, pc = "pi"
    PROVE  CanSpread(nPo)
<1>1. \A a \in COs : \E s \in 0 .. NSlot - 1 : slots[s] = sIdx[a] /\ FrameOf(s) >= EarliestFrames[a]
    <2>1. i = NCo
        BY DEF LeastInv
    <2> QED BY <2>1 DEF LeastInv, COs
<1> DEFINE place == [a \in COs |-> CHOOSE s \in 0 .. NSlot - 1 :
                        slots[s] = sIdx[a] /\ FrameOf(s) >= EarliestFrames[a]]
           g == [a \in COs |-> FrameOf(place[a])]
<1>2. \A a \in COs : /\ place[a] \in 0 .. NSlot - 1 /\ slots[place[a]] = sIdx[a]
                     /\ FrameOf(place[a]) >= EarliestFrames[a]
    BY <1>1
<1> HIDE DEF place
<1>3. g \in [COs -> Frames] /\ \A a \in COs : g[a] >= EarliestFrames[a]
    BY <1>2, SlotFrame DEF IInv
<1>4. ASSUME NEW f \in Frames PROVE Cardinality({a \in COs : g[a] = f}) <= nPo
    <2> DEFINE X == {a \in COs : g[a] = f}
               pin == [a \in X |-> place[a] % nPo]
    <2>1. /\ nPo \in Nat /\ IsFiniteSet(0 .. nPo - 1) /\ Cardinality(0 .. nPo - 1) = nPo
        <3>1. nPo \in Nat \ {0}
            BY Sizes DEF IInv
        <3> QED BY <3>1, FS_Interval
    <2>2. \A a \in X : place[a] % nPo \in 0 .. nPo - 1 /\ place[a] = f * nPo + (place[a] % nPo)
        BY <1>2, SlotFrame DEF IInv
    <2>3. ASSUME NEW a \in X, NEW b \in X, pin[a] = pin[b] PROVE a = b
        <3>1. place[a] = place[b]
            BY <2>2, <2>3
        <3>2. sIdx[a] = sIdx[b]
            BY <3>1, <1>2
        <3> QED BY <3>2, Fun_BijectionProperties DEF IInv, TypeInv
    <2>4. pin \in [X -> 0 .. nPo - 1]
        BY <2>2
    <2> HIDE DEF X, pin
    <2>5. pin \in Injection(X, 0 .. nPo - 1)
        BY <2>3, <2>4, Fun_IsInj
    <2>6. Cardinality(X) <= nPo
        BY <2>1, <2>5, FS_Injection
    <2> QED BY <2>6 DEF X
<1> HIDE DEF g
<1> QED BY <1>3, <1>4 DEF CanSpread

\* schedulePO ends with the least number of pins with which the outputs can
\* be spread over the frames, each no earlier than the sorted walk allows:
\* the greedy walk gives up only what is impossible.
THEOREM PinsLeast == Spec => []LeastPins
<1>1. IInv /\ LeastInv => LeastPins
    <2> SUFFICES ASSUME IInv, LeastInv, pc = "pi", NEW n \in 1 .. nPo
                 PROVE  CanSpread(n) <=> n = nPo
        BY DEF LeastPins
    <2>1. n \in Nat /\ nPo \in Nat /\ (n # nPo => n \in 1 .. nPo - 1)
        BY Sizes DEF IInv
    <2>2. n # nPo => ~CanSpread(n)
        BY <2>1, TooFewFails DEF IInv, LeastInv
    <2> QED BY <2>2, FoundSpreads
<1> QED BY <1>1, Invariance, LeastInvariance, PTL
=============================================================================

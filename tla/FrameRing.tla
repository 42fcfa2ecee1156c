----------------------------- MODULE FrameRing -----------------------------
(***************************************************************************)
(* The time-frame counter that both structural folding commands put into   *)
(* the folded circuit: a ring of nTimeFrame latches that passes a single 1 *)
(* around (timeMux3::buildLatchTransWithTime, called by aigStrMux of       *)
(* timeMux3 and of timeMux4).  Latch t enables whatever belongs to frame t.*)
(***************************************************************************)
EXTENDS Naturals

CONSTANT NTimeFrame

ASSUME NTimeFrameAssumption == NTimeFrame \in Nat \ {0}

Frames == 0 .. NTimeFrame - 1

\* Latch i is initialised to 1 only for i = 0.
RingInit == [i \in Frames |-> i = 0]

\* Mutant: the chain is not closed.
RingNextOpen(ring) == [i \in Frames |-> i # 0 /\ ring[i - 1]]

\* Latch 0 reads the last latch, every other latch its predecessor.
RingNext(ring) ==
    [i \in Frames |-> IF i = 0 THEN ring[NTimeFrame - 1] ELSE ring[i - 1]]
=============================================================================

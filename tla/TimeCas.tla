------------------------------ MODULE TimeCas ------------------------------
(***************************************************************************)
(* time_cas (timeFold/timeCas.cpp): a circuit that expands a sequential    *)
(* circuit over T frames gets a reset input per frame.  A machine that is  *)
(* reset in frame s starts anew in frame s + 1, so T copies of the circuit *)
(* are made, copy t for a start in frame t, and the resets select between  *)
(* the copies.                                                             *)
(***************************************************************************)
EXTENDS AigUtils, SequencesExt

\* The new inputs: the nPi inputs of a frame, then its reset.
RstCi(nPi, t) == t * (nPi + 1) + nPi

\* The Ci that every old Ci is mapped to for copy t.  The inputs of the last
\* t frames, which it does not need, keep what copy t - 1 left in pCopy.
pCopy(T, nPi) ==
    LET copy[t \in 0 .. T - 1] ==
            LET prev == IF t = 0 THEN <<>> ELSE copy[t - 1]
            IN Table([c \in 0 .. T * nPi - 1 |->
                   IF c < (T - t) * nPi THEN t * (nPi + 1) + c + c \div nPi ELSE prev[c]])
    IN Table(copy)

\* yVec: the outputs of copy 0 in T frames, of copy 1 in T - 1 frames, ...
Outcomes(T, nPo, cos, copy, v) ==
    FlattenSeq([t \in 1 .. T |->
        LET in == Table([c \in DOMAIN copy[t - 1] |-> v[copy[t - 1][c]]])
        IN [j \in 1 .. (T - t + 1) * nPo |-> cos[j - 1][in]] \o <<>>])

\* Mutant: the closed form of the sum is one off.
OffsetShort(T, j) == ((2 * T - j) * j) \div 2

\* The frames that copies 0 .. j - 1 have.
Offset(T, j) == ((2 * T - j + 1) * j) \div 2

\* Output k of frame t: that of copy 0, unless a reset selects another one;
\* the last reset before the frame decides.
Selected(T, nPi, nPo, y, v, t, k) ==
    LET _y(j) == y[(Offset(T, j) + t - j) * nPo + k + 1]
        o[j \in 0 .. t] == IF j = 0 THEN _y(0) ELSE IF v[RstCi(nPi, j - 1)] THEN _y(j) ELSE o[j - 1]
    IN o[t]

\* The assertions on the numbers of inputs and outputs.  The resets are made
\* along with the inputs, so there are none without inputs.
timeCasAsserts(N, T) == CoNum(N) % T = 0 /\ CiNum(N) % T = 0 /\ CiNum(N) > 0

timeCas(N, T) ==
    LET nPi == CiNum(N) \div T
        nPo == CoNum(N) \div T
        nXVec == (1 + nPi) * T
        cos  == Co(N)
        copy == pCopy(T, nPi)
        values == Table([v \in Ins(nXVec) |->
                      LET y == Outcomes(T, nPo, cos, copy, v)
                      IN Table([j \in 0 .. T * nPo - 1 |-> Selected(T, nPi, nPo, y, v, j \div nPo, j % nPo)])])
    IN Comb(nXVec, [j \in 0 .. T * nPo - 1 |-> [v \in Ins(nXVec) |-> values[v][j]]])
=============================================================================

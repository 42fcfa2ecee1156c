------------------------------ MODULE AigUtils ------------------------------
(***************************************************************************)
(* The operations on circuits of utils/aigUtils.cpp that the commands use. *)
(* A circuit is what its and-inverter graph computes:                      *)
(*     pi   : number of primary inputs                                     *)
(*     init : latch number, counted from 0 -> its initial value            *)
(*     po   : output number -> the output as function of the inputs        *)
(*     next : latch number -> its next value as function of the inputs.    *)
(* The combinational inputs (Ci) are the primary inputs and then the       *)
(* latches, the combinational outputs (Co) the primary outputs and then    *)
(* the next values.  The copies of AND nodes along pCopy are functions     *)
(* too: a copy computes what the node does, under the copies of the Cis.   *)
(***************************************************************************)
EXTENDS Naturals, FiniteSets, Sequences, Functions, TLC

\* The function f.  TLC evaluates it once, to compare it with itself; it would
\* evaluate the values of f whenever they are used.
Table(f) == CHOOSE g \in {f} : g = f

Ins(n) == [0 .. n - 1 -> BOOLEAN]

Num(f)     == Cardinality(DOMAIN f)
PoNum(N)   == Num(N.po)
LatNum(N)  == Num(N.init)
CiNum(N)   == N.pi + LatNum(N)
CoNum(N)   == PoNum(N) + LatNum(N)
Co(N)      == [k \in 0 .. CoNum(N) - 1 |-> IF k < PoNum(N) THEN N.po[k] ELSE N.next[k - PoNum(N)]]

\* p functions of n inputs.
Funcs(p, n) == [0 .. p - 1 -> [Ins(n) -> BOOLEAN]]

\* What ABC's networks are: latches and outputs are numbered from 0, and every
\* combinational output is a function of all combinational inputs.
IsCircuit(N) ==
    /\ N.pi \in Nat /\ IsFiniteSet(DOMAIN N.init) /\ IsFiniteSet(DOMAIN N.po)
    /\ N.init \in Ins(LatNum(N))
    /\ N.po \in Funcs(PoNum(N), CiNum(N)) /\ N.next \in Funcs(LatNum(N), CiNum(N))

\* A circuit without latches.
Comb(pi, po) == [pi |-> pi, init |-> <<>>, po |-> po, next |-> <<>>]

\* The outputs start .. end - 1, with all inputs; latches become inputs.
aigCone(N, start, end) ==
    Comb(CiNum(N), [k \in 0 .. end - start - 1 |-> N.po[start + k]])

\* The assertions of aigCone.
aigConeAsserts(N, start, end) == start < end /\ start < PoNum(N) /\ end <= PoNum(N)

\* Mutant: the inverse permutation.
aigPermCiInverse(N, perm) ==
    Comb(CiNum(N),
         [k \in DOMAIN Co(N) |-> [v \in Ins(CiNum(N)) |-> Co(N)[k][[c \in DOMAIN v |-> v[perm[c]]]]]])

\* Input i of the result is input perm[i] of the circuit.
aigPermCi(N, perm) ==
    LET place == Table([c \in 0 .. CiNum(N) - 1 |-> CHOOSE i \in 0 .. CiNum(N) - 1 : perm[i] = c])
    IN Comb(CiNum(N),
            [k \in DOMAIN Co(N) |-> [v \in Ins(CiNum(N)) |-> Co(N)[k][[c \in DOMAIN v |-> v[place[c]]]]]])

\* Mutant: the inverse permutation.
aigPermCoInverse(N, perm) ==
    [N EXCEPT !.po = [i \in DOMAIN N.po |-> N.po[CHOOSE k \in DOMAIN N.po : perm[k] = i]]]

\* Output i of the result is output perm[i] of the circuit.
aigPermCo(N, perm) == [N EXCEPT !.po = [i \in DOMAIN N.po |-> N.po[perm[i]]]]

\* Latches become inputs and outputs; inputs without use are added until mult
\* divides their number.
aigToComb(N, mult) ==
    LET n  == CiNum(N) % mult
        pi == CiNum(N) + (IF n = 0 THEN 0 ELSE mult - n)
    IN Comb(pi, [k \in DOMAIN Co(N) |-> [v \in Ins(pi) |-> Co(N)[k][[c \in 0 .. CiNum(N) - 1 |-> v[c]]]]])

-----------------------------------------------------------------------------
(* Sequential circuits                                                     *)

\* Abc_NtkFrames, started from the initial values: the circuit of T frames.
Frames(N, T) ==
    LET Cis(v, t, l) == Table([c \in 0 .. CiNum(N) - 1 |-> IF c < N.pi THEN v[t * N.pi + c] ELSE l[c - N.pi]])
        Run(v) ==
            LET cis[t \in 0 .. T - 1] ==
                    IF t = 0 THEN Cis(v, 0, N.init)
                    ELSE LET u == cis[t - 1] IN Cis(v, t, Table([l \in DOMAIN N.init |-> N.next[l][u]]))
            IN Table([j \in 0 .. T * PoNum(N) - 1 |-> N.po[j % PoNum(N)][cis[j \div PoNum(N)]]])
        runs == Table([v \in Ins(T * N.pi) |-> Run(v)])
    IN Comb(T * N.pi, [j \in 0 .. T * PoNum(N) - 1 |-> [v \in Ins(T * N.pi) |-> runs[v][j]]])

\* Mutant: the latches of the first circuit serve the second one too.
CisOfFirst(X, pi, first, u) ==
    Table([c \in 0 .. CiNum(X) - 1 |-> IF c < X.pi THEN u[c] ELSE u[pi + c - X.pi]])

\* The Cis of circuit X, when it shares pi inputs with others and its latches
\* are numbered from first.
CisOf(X, pi, first, u) ==
    Table([c \in 0 .. CiNum(X) - 1 |-> IF c < X.pi THEN u[c] ELSE u[pi + first + c - X.pi]])

\* Two circuits side by side: input i of both is input i of the result, the
\* latches and outputs of the second follow those of the first.
aigMerge(M, N) ==
    LET pi  == IF M.pi > N.pi THEN M.pi ELSE N.pi
        lat == LatNum(M) + LatNum(N)
        Both(m, n, f, g) ==
            Table([k \in 0 .. m + n - 1 |-> Table([u \in Ins(pi + lat) |->
                IF k < m THEN f[k][CisOf(M, pi, 0, u)] ELSE g[k - m][CisOf(N, pi, LatNum(M), u)]])])
    IN [pi   |-> pi,
        init |-> [l \in 0 .. lat - 1 |-> IF l < LatNum(M) THEN M.init[l] ELSE N.init[l - LatNum(M)]],
        po   |-> Both(PoNum(M), PoNum(N), M.po, N.po),
        next |-> Both(LatNum(M), LatNum(N), M.next, N.next)]

-----------------------------------------------------------------------------
(* Circuits made from nothing                                              *)

\* Every output is an input.
aigConstructDummyNtk(n) == Comb(n, [k \in 0 .. n - 1 |-> [v \in Ins(n) |-> v[k]]])

\* The exclusive or of the inputs.
aigBuildParity(n) ==
    LET Xor(v) == LET x[j \in 0 .. n] == IF j = 0 THEN FALSE ELSE v[j - 1] # x[j - 1] IN x[n]
    IN Comb(n, [k \in {0} |-> [v \in Ins(n) |-> Xor(v)]])

\* Mutant: a tie is broken the other way.
VoterLatchesTie(n, tieVal) ==
    n \div 2 + (IF n % 2 = 1 THEN 1 ELSE IF tieVal THEN 1 ELSE 0)

\* How many ones decide the vote.
VoterLatches(n, tieVal) ==
    n \div 2 + (IF n % 2 = 1 THEN 1 ELSE IF tieVal THEN 0 ELSE 1)

\* Latch number l stays 1 once l + 1 ones were read; the output is the next
\* value of the last one.
aigGenVoterN_seq(n, tieVal) ==
    LET nn == VoterLatches(n, tieVal)
        LatIn(l, u) == u[1 + l] \/ (u[0] /\ (l = 0 \/ u[l]))
    IN [pi   |-> 1,
        init |-> [l \in 0 .. nn - 1 |-> FALSE],
        po   |-> [k \in {0} |-> [u \in Ins(1 + nn) |-> LatIn(nn - 1, u)]],
        next |-> [l \in 0 .. nn - 1 |-> [u \in Ins(1 + nn) |-> LatIn(l, u)]]]

\* The last output of the voter expanded over n frames.
aigBuildVoter(n, tieVal) ==
    LET exp == Frames(aigGenVoterN_seq(n, tieVal), n)
    IN aigCone(exp, PoNum(exp) - 1, PoNum(exp))
=============================================================================

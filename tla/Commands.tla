------------------------------ MODULE Commands ------------------------------
(***************************************************************************)
(* A session of ABC with the commands of misc/ and timeFold/timeCas.cpp    *)
(* and with the permutation of inputs that stru_fold starts with.  Every   *)
(* command replaces the current network or says how it is used and leaves  *)
(* it alone; an assertion that fails ends the session.                     *)
(***************************************************************************)
EXTENDS TimeCas, InputPerm

CONSTANTS Circuits,     \* the circuits that can be read
          Sizes,        \* the numbers that are typed
          Parts,        \* what -i reads: [kids, iPerm0, T]
          MaxCi,        \* no command is given that makes a circuit with more inputs,
          MaxPermuted,  \* or sorts or permutes more inputs or outputs in an open order
          MaxCommands   \* length of a session

ASSUME CommandsAssumption ==
    /\ Sizes \subseteq Int /\ MaxCi \in Nat /\ MaxPermuted \in Nat /\ MaxCommands \in Nat
    /\ \A N \in Circuits : IsCircuit(N)
    /\ \A p \in Parts : IsPart(p)

VARIABLES
    pNtk,      \* the current network, NULL before the first
    done,      \* the latest command that replaced it, with its arguments,
    before,    \* and the network it replaced
    status,    \* "ready", "folding" or "aborted"
    commands   \* how many commands were given

sessionVars == <<pNtk, done, before, status, commands>>

NULL == [pi |-> 0, init |-> <<>>, po |-> <<>>, next |-> <<>>]

\* What a command has done; a command that has no such argument leaves 0.
Done(name, num, arg) == [name |-> name, num |-> num, arg |-> arg]

SessionInit ==
    /\ pNtk = NULL /\ before = NULL
    /\ done = Done("none", 0, <<>>)
    /\ status = "ready" /\ commands = 0

Typed ==
    /\ status = "ready" /\ commands < MaxCommands
    /\ commands' = commands + 1

\* Abc_FrameReplaceCurrentNetwork.
Replace(name, num, arg, N) ==
    /\ CiNum(N) <= MaxCi
    /\ pNtk' = N /\ before' = pNtk
    /\ done' = Done(name, num, arg)
    /\ UNCHANGED status

\* The network is handed to the structural fold, where this model ends.
Fold(name, T, arg, N) ==
    /\ CiNum(N) <= MaxCi
    /\ pNtk' = N /\ before' = pNtk
    /\ done' = Done(name, T, arg)
    /\ status' = "folding"

\* "Empty network.", or how the command is used.
Refuse == UNCHANGED <<pNtk, done, before, status>>

Abort(name) ==
    /\ status' = "aborted" /\ done' = Done(name, 0, <<>>)
    /\ UNCHANGED <<pNtk, before>>

-----------------------------------------------------------------------------
Read == Typed /\ \E N \in Circuits : Replace("read", 0, <<>>, N)

\* ABC's own command, with the initial values.
FramesOf(T) ==
    /\ Typed /\ pNtk # NULL /\ LatNum(pNtk) > 0 /\ T > 0 /\ T * pNtk.pi <= MaxCi
    /\ Replace("frames", T, <<>>, Frames(pNtk, T))

ToComb(num) ==
    /\ Typed
    /\ IF num <= 0 \/ pNtk = NULL THEN Refuse
       ELSE Replace("to_comb", num, <<>>, aigToComb(pNtk, num))

RCone(first, last) ==
    /\ Typed
    /\ IF first < 0 \/ last < 0 \/ first >= last \/ pNtk = NULL
          \/ first >= PoNum(pNtk) \/ last > PoNum(pNtk)
       THEN Refuse
       ELSE IF aigConeAsserts(pNtk, first, last)
            THEN Replace("rcone", first, <<last>>, aigCone(pNtk, first, last))
            ELSE Abort("rcone")

\* The cone of outputs again, for indices that are inputs.
ICone(first, last) ==
    /\ Typed
    /\ IF first < 0 \/ last < 0 \/ first >= last \/ pNtk = NULL
          \/ first >= pNtk.pi \/ last > pNtk.pi
       THEN Refuse
       ELSE IF aigConeAsserts(pNtk, first, last)
            THEN Replace("icone", first, <<last>>, aigCone(pNtk, first, last))
            ELSE Abort("icone")

\* Options -i and -o switch a permutation off.
RPermIO(noI, noO) ==
    /\ Typed
    /\ IF pNtk = NULL \/ LatNum(pNtk) > 0 \/ (noI /\ noO) THEN Refuse
       ELSE /\ pNtk.pi <= MaxPermuted /\ PoNum(pNtk) <= MaxPermuted
            /\ \E iPerm \in Bijection(0 .. pNtk.pi - 1, 0 .. pNtk.pi - 1),
                  oPerm \in Bijection(DOMAIN pNtk.po, DOMAIN pNtk.po) :
               LET N == IF noI THEN pNtk ELSE aigPermCi(pNtk, iPerm)
               IN Replace("rand_perm_io", 0, <<>>, IF noO THEN N ELSE aigPermCo(N, oPerm))

\* The current network, if there is one, merged with a file.
CMerge ==
    /\ Typed
    /\ \E N \in Circuits :
          Replace("cmerge", 0, <<N>>, IF pNtk = NULL THEN N ELSE aigMerge(pNtk, N))

BuildVoter(n, tieVal) ==
    /\ Typed
    /\ IF n <= 0 THEN Refuse
       ELSE n <= MaxCi /\ Replace("build_voter", n, <<tieVal>>, aigBuildVoter(n, tieVal))

BuildParity(n) ==
    /\ Typed
    /\ IF n <= 0 THEN Refuse
       ELSE n <= MaxCi /\ Replace("build_parity", n, <<>>, aigBuildParity(n))

ConstructDummy(n) ==
    /\ Typed
    /\ IF n <= 0 THEN Refuse
       ELSE n <= MaxCi /\ Replace("construct_dummy", n, <<>>, aigConstructDummyNtk(n))

\* For 0 frames the code divides by 0.
TimeCascade(T) ==
    /\ Typed
    /\ IF pNtk = NULL \/ T < 0 THEN Refuse
       ELSE IF T # 0 /\ timeCasAsserts(pNtk, T)
            THEN /\ CiNum(pNtk) + T <= MaxCi
                 /\ Replace("time_cas", T, <<before, done>>, timeCas(pNtk, T))
            ELSE Abort("time_cas")

\* The inputs an output reads.  The graph may have more in its support.
Reads(N, k) ==
    {j \in 0 .. CiNum(N) - 1 : \E v \in Ins(CiNum(N)) : N.po[k][v] # N.po[k][[v EXCEPT ![j] = ~ @]]}

\* stru_fold -p up to the fold.
PermuteBySupport(T) ==
    /\ Typed /\ T > 0 /\ pNtk # NULL /\ CoNum(pNtk) <= MaxPermuted
    /\ LET N   == aigToComb(pNtk, T)
           sup == Table([k \in DOMAIN N.po |-> Reads(N, k)])
       IN \E s \in Sorted(sup) :
             LET iPerm == permPi(CiNum(N), sup, s)
             IN Fold("stru_fold -p", T, <<iPerm, N>>, aigPermCi(N, invPerm(iPerm)))

\* stru_fold -i up to the fold.
PermuteByPart(part) ==
    /\ Typed /\ pNtk # NULL
    /\ LET N == aigToComb(pNtk, part.T)
       IN /\ Range(part.kids) \subseteq 0 .. CiNum(N) - 1 /\ Num(part.iPerm0) <= CiNum(N)
          /\ IF readInfoAsserts(part.kids, part.iPerm0, part.T)
             THEN LET iPerm == readInfo(CiNum(N), part.kids, part.iPerm0, part.T)
                  IN Fold("stru_fold -i", part.T, <<iPerm, N, part>>, aigPermCi(N, invPerm(iPerm)))
             ELSE Abort("stru_fold -i")

SessionNext ==
    \/ Read \/ CMerge
    \/ \E n \in Sizes :
          \/ FramesOf(n) \/ ToComb(n) \/ BuildParity(n) \/ ConstructDummy(n)
          \/ TimeCascade(n) \/ PermuteBySupport(n)
          \/ \E m \in Sizes : RCone(n, m) \/ ICone(n, m)
          \/ \E tieVal \in BOOLEAN : BuildVoter(n, tieVal)
    \/ \E noI, noO \in BOOLEAN : RPermIO(noI, noO)
    \/ \E part \in Parts : PermuteByPart(part)

SessionSpec == SessionInit /\ [][SessionNext]_sessionVars

-----------------------------------------------------------------------------
(* Properties                                                              *)

\* time_cas makes of the expansion of a machine the expansion of the machine
\* with a reset: in the frame after a reset it is in its initial state again,
\* in the others it goes on.
ResetRun(M, T, v) ==
    LET nPi == M.pi
        Cis(t, l) == Table([c \in 0 .. CiNum(M) - 1 |-> IF c < nPi THEN v[t * (nPi + 1) + c] ELSE l[c - nPi]])
        cis[t \in 0 .. T - 1] ==
            IF t = 0 \/ v[RstCi(nPi, t - 1)] THEN Cis(t, M.init)
            ELSE LET u == cis[t - 1] IN Cis(t, Table([l \in DOMAIN M.init |-> M.next[l][u]]))
    IN Table(cis)

CascadeResets ==
    status = "ready" /\ done.name = "time_cas" /\ done.arg[2].name = "frames" /\ done.arg[2].num = done.num =>
        LET M == done.arg[1]
        IN \A v \in Ins(pNtk.pi) :
              LET run == ResetRun(M, done.num, v)
              IN \A t \in 0 .. done.num - 1, k \in DOMAIN M.po :
                    pNtk.po[t * PoNum(M) + k][v] = M.po[k][run[t]]

\* The circuit of build_voter, which comes from a sequential one that only
\* counts up to the majority, is 1 if most inputs are, or half of them when
\* that counts as 1.
VoterCounts ==
    status = "ready" /\ done.name = "build_voter" =>
        \A v \in Ins(done.num) :
            LET ones == Cardinality({j \in DOMAIN v : v[j]})
            IN pNtk.po[0][v] <=> (2 * ones > done.num \/ (2 * ones = done.num /\ done.arg[1]))

\* Merged circuits do not disturb each other: in every frame each of them
\* shows what it shows alone for the inputs they share.
MergedApart ==
    status = "ready" /\ done.name = "cmerge" /\ before # NULL =>
        LET T == IF 2 * pNtk.pi <= MaxCi THEN 2 ELSE 1
            N == done.arg[1]
            all == Frames(pNtk, T)
            Alone(X, v) == Table([c \in 0 .. T * X.pi - 1 |-> v[(c \div X.pi) * pNtk.pi + (c % X.pi)]])
            Same(X, first) ==
                LET own == Frames(X, T)
                IN \A v \in Ins(T * pNtk.pi) :
                      LET w == Alone(X, v)
                      IN \A t \in 0 .. T - 1, k \in DOMAIN X.po :
                            all.po[t * PoNum(pNtk) + first + k][v] = own.po[t * PoNum(X) + k][w]
        IN Same(before, 0) /\ Same(N, PoNum(before))

\* The permutation that stru_fold prints tells where every input of the
\* circuit is in the one it folds.  With -p the inputs of an output come
\* before all inputs that only outputs with larger supports have; with -i the
\* inputs of the part are in the frames and on the pins of its own fold.
InputsPlaced ==
    status = "folding" =>
        LET iPerm == done.arg[1]
            N     == done.arg[2]
            nPi   == N.pi \div done.num
        IN /\ iPerm \in Bijection(0 .. N.pi - 1, 0 .. N.pi - 1)
           /\ \A v \in Ins(N.pi), k \in DOMAIN N.po :
                 pNtk.po[k][v] = N.po[k][[j \in 0 .. N.pi - 1 |-> v[iPerm[j]]]]
           /\ done.name = "stru_fold -p" =>
                 LET sup == Table([k \in DOMAIN N.po |-> Reads(N, k)])
                     Early(k) == {m \in DOMAIN N.po : Cardinality(sup[m]) <= Cardinality(sup[k])}
                 IN \A k \in DOMAIN N.po, j \in 0 .. N.pi - 1 :
                       j \in sup[k] => iPerm[j] < Cardinality(UNION {sup[m] : m \in Early(k)})
           /\ done.name = "stru_fold -i" =>
                 LET part == done.arg[3]
                     nPi0 == Num(part.iPerm0) \div part.T
                 IN \A i \in DOMAIN part.kids :
                       /\ iPerm[part.kids[i]] \div nPi = part.iPerm0[i] \div nPi0
                       /\ iPerm[part.kids[i]] % nPi = part.iPerm0[i] % nPi0

\* A command that is given indices it finds in range does not fail an
\* assertion of aigCone.
ConeInRange == status = "aborted" => done.name \notin {"rcone", "icone"}
=============================================================================

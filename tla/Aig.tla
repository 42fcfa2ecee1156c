-------------------------------- MODULE Aig --------------------------------
(***************************************************************************)
(* Strashed and-inverter graphs of ABC, as far as the folding code reads   *)
(* them.  Object 0 is the constant 1 (Abc_AigConst1), objects 1..nCi are   *)
(* the primary inputs in order, larger objects are two-input AND nodes.    *)
(* An edge is a literal: the object it leads to and whether it is          *)
(* complemented.  A circuit is a record                                    *)
(*     fan : AND node -> its two fanin literals                            *)
(*     po  : 0..nPo-1 -> the literal that drives each primary output.      *)
(* ABC itself is not part of the repository; the definitions say what the  *)
(* code under timeMux3, timeMux4 and utils relies on.                      *)
(***************************************************************************)
EXTENDS Naturals, FiniteSets

Const1 == 0

Lit(o, c) == [obj |-> o, neg |-> c]

Ands(ntk)  == DOMAIN ntk.fan
PoIdx(ntk) == DOMAIN ntk.po
NumPo(ntk) == Cardinality(PoIdx(ntk))

FaninObjs(ntk, n)   == {ntk.fan[n][1].obj, ntk.fan[n][2].obj}
AndFanouts(ntk, o)  == {n \in Ands(ntk) : o \in FaninObjs(ntk, n)}
PoFanouts(ntk, o)   == {k \in PoIdx(ntk) : ntk.po[k].obj = o}

\* What Abc_NtkStrash guarantees: finitely many AND nodes, topologically
\* ordered, with two different fanins that are no constants, no two of them
\* with the same pair of fanin literals; outputs are numbered from 0.
IsStrashed(ntk, nCi) ==
    /\ IsFiniteSet(Ands(ntk))
    /\ \A n \in Ands(ntk) :
          /\ n \in Nat /\ n > nCi
          /\ \A j \in {1, 2} :
                ntk.fan[n][j] \in [obj : 1..nCi \cup {m \in Ands(ntk) : m < n}, neg : BOOLEAN]
          /\ ntk.fan[n][1].obj # ntk.fan[n][2].obj
    /\ \A m, n \in Ands(ntk) : 
          {ntk.fan[m][1], ntk.fan[m][2]} = {ntk.fan[n][1], ntk.fan[n][2]} => m = n
    /\ IsFiniteSet(PoIdx(ntk)) /\ PoIdx(ntk) = 0 .. NumPo(ntk) - 1
    /\ \A k \in PoIdx(ntk) :
          ntk.po[k] \in [obj : {Const1} \cup 1..nCi \cup Ands(ntk), neg : BOOLEAN]

\* The value of every object under an assignment of the inputs: in[j] is the
\* value of input number j, counted from 0.
ObjValues(ntk, nCi, in) ==
    LET val[o \in {Const1} \cup 1..nCi \cup Ands(ntk)] ==
            IF o = Const1 THEN TRUE
            ELSE IF o \in 1..nCi THEN in[o - 1]
            ELSE \A j \in {1, 2} : val[ntk.fan[o][j].obj] # ntk.fan[o][j].neg
    IN val

PoValue(ntk, nCi, k, in) ==
    ObjValues(ntk, nCi, in)[ntk.po[k].obj] # ntk.po[k].neg

\* The inputs (object numbers) in the structural support of every object.
Supports(ntk, nCi) ==
    LET sup[o \in {Const1} \cup 1..nCi \cup Ands(ntk)] ==
            IF o = Const1 THEN {}
            ELSE IF o \in 1..nCi THEN {o}
            ELSE sup[ntk.fan[o][1].obj] \cup sup[ntk.fan[o][2].obj]
    IN sup
=============================================================================

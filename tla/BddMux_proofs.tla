---------------------------- MODULE BddMux_proofs ----------------------------
(***************************************************************************)
(* Proofs about BddMux: for every number of frames and pins, every circuit *)
(* and every order of the inputs, the machine that time_mux writes shows   *)
(* the outputs of the circuit in the last frame.                           *)
(***************************************************************************)
EXTENDS BddMux, STG_proofs

-----------------------------------------------------------------------------
(* The tables of the frame at work                                         *)

\* The words of a state are all those that agree with one of them on the
\* outputs, however the inputs go on.
Alike(tb, n) ==
    \A m \in DOMAIN tb : \A w \in tb[m], u \in Words(n) : u \in tb[m] <=> Hyper(u) = Hyper(w)

\* What bddStateEncode makes of the cut.
LEMMA CutIsTable ==
    ASSUME NEW n \in Nat
    PROVE  IsTable(Listed(NodePathsUnderCut(n)), n) /\ Alike(Listed(NodePathsUnderCut(n)), n)
<1> DEFINE S == NodePathsUnderCut(n)
<1>1. S = {{w \in Words(n) : Hyper(w) = h} : h \in {Hyper(w) : w \in Words(n)}}
    BY DEF NodePathsUnderCut, Range
<1>2. S \subseteq SUBSET Words(n)
    BY <1>1
<1>3. ASSUME NEW w \in Words(n) PROVE \E c \in S : w \in c
    <2> DEFINE c == {u \in Words(n) : Hyper(u) = Hyper(w)}
    <2>1. w \in c /\ Hyper(w) \in {Hyper(u) : u \in Words(n)}
        OBVIOUS
    <2>2. c \in S
        BY <1>1, <2>1
    <2> QED BY <2>1, <2>2
<1>4. \A c, d \in S : c # d => c \cap d = {}
    BY <1>1
<1>5. \A c \in S : \A w \in c, u \in Words(n) : u \in c <=> Hyper(u) = Hyper(w)
    BY <1>1
<1> HIDE DEF S
<1>6. IsTable(Listed(S), n) /\ \A m \in DOMAIN Listed(S) : Listed(S)[m] \in S
    BY <1>2, <1>3, <1>4, ListedIsTable
<1>7. Alike(Listed(S), n)
    BY <1>5, <1>6 DEF Alike
<1> QED BY <1>6, <1>7 DEF S

\* What the tables hold while a frame is at work.
Tables ==
    /\ ntk \in Circuits /\ perm \in Orders
    /\ pc \in {"cut", "path", "trans", "done"}
    /\ i \in 0 .. Last /\ cCnt \in Nat /\ nCnt \in Nat
    /\ pc = "done" => i = Last
    /\ pc # "done" => IsTable(csts, i) /\ Alike(csts, i)
    /\ pc \in {"path", "trans"} =>
          /\ IsTable(nsts, i + 1)
          /\ i # Last => Alike(nsts, i + 1)
          /\ i = Last => nsts = DummyState(NTimeFrame)
    /\ pc = "trans" => cCnt \in DOMAIN csts /\ path \in csts[cCnt]

LEMMA HyperUnchanged ==
    ASSUME UNCHANGED <<ntk, perm>>, NEW w
    PROVE  Hyper(w)' = Hyper(w)
BY DEF Hyper, nodeVec, ValueOf, Pos, Outputs

LEMMA AlikeUnchanged ==
    ASSUME UNCHANGED <<ntk, perm, i, csts, nsts>>
    PROVE  Alike(csts, i)' = Alike(csts, i) /\ Alike(nsts, i + 1)' = Alike(nsts, i + 1)
BY DEF Alike, Hyper, nodeVec, ValueOf, Pos, Outputs

LEMMA InitTables == Init => Tables
<1> SUFFICES ASSUME Init PROVE Tables
    OBVIOUS
<1>1. NTimeFrame \in Nat \ {0} /\ 0 \in 0 .. Last
    BY STGAssumption DEF Last
<1>2. IsTable(csts, i) /\ csts = DummyState(0) /\ i = 0
    BY DummyIsTable DEF Init
<1>3. Alike(csts, i)
    BY <1>2, EmptyWord DEF Alike, DummyState
<1> QED BY <1>1, <1>2, <1>3 DEF Init, Tables

LEMMA CutTables == Tables /\ Cut => Tables'
<1> SUFFICES ASSUME Tables, Cut PROVE Tables'
    OBVIOUS
<1>0. /\ NTimeFrame \in Nat /\ Last + 1 = NTimeFrame /\ i \in Nat /\ pc = "cut" /\ pc' = "path" /\ cCnt' = 0
      /\ UNCHANGED <<ntk, perm, i, csts, path, nCnt>>
    BY STGAssumption DEF Tables, Cut, Last
<1>1. Alike(csts, i)'
    <2>1. Alike(csts, i)
        BY <1>0 DEF Tables
    <2> QED BY <1>0, <2>1, HyperUnchanged DEF Alike
<1>2. CASE i = Last
    <2>1. nsts' = DummyState(NTimeFrame) /\ IsTable(nsts', i + 1)
        BY <1>0, <1>2, DummyIsTable DEF Cut
    <2> QED BY <1>0, <1>1, <1>2, <2>1 DEF Tables
<1>3. CASE i # Last
    <2>1. nsts' = Listed(NodePathsUnderCut(i + 1))
        BY <1>3 DEF Cut
    <2>2. IsTable(nsts', i + 1) /\ Alike(nsts', i + 1)
        BY <1>0, <2>1, CutIsTable
    <2>3. Alike(nsts, i + 1)'
        BY <1>0, <2>2, HyperUnchanged DEF Alike
    <2> QED BY <1>0, <1>1, <1>3, <2>2, <2>3 DEF Tables
<1> QED BY <1>2, <1>3

LEMMA FindPathTables == Tables /\ FindPath => Tables'
BY AlikeUnchanged DEF Tables, FindPath

LEMMA AddTransTables == Tables /\ AddTrans => Tables'
BY AlikeUnchanged DEF Tables, AddTrans

LEMMA NextStateTables == Tables /\ NextState => Tables'
BY AlikeUnchanged DEF Tables, NextState

LEMMA NextFrameTables == Tables /\ NextFrame => Tables'
<1> SUFFICES ASSUME Tables, NextFrame PROVE Tables'
    OBVIOUS
<1>0. /\ NTimeFrame \in Nat /\ Last \in Nat /\ Last + 1 = NTimeFrame /\ i \in 0 .. Last /\ pc = "path" /\ csts' = nsts
      /\ UNCHANGED <<ntk, perm, nsts, cCnt, nCnt>>
    BY STGAssumption DEF Tables, NextFrame, Last
<1>1. CASE i = Last
    <2>1. pc' = "done" /\ i' = i
        BY <1>1 DEF NextFrame
    <2> QED BY <1>0, <1>1, <2>1 DEF Tables
<1>2. CASE i # Last
    <2>1. pc' = "cut" /\ i' = i + 1
        BY <1>2 DEF NextFrame
    <2>2. i' \in 0 .. Last
        BY <1>0, <1>2, <2>1
    <2>3. IsTable(nsts, i + 1) /\ Alike(nsts, i + 1)
        BY <1>0, <1>2 DEF Tables
    <2>4. Alike(csts, i)'
        BY <1>0, <2>1, <2>3, HyperUnchanged DEF Alike
    <2> QED BY <1>0, <2>1, <2>2, <2>3, <2>4 DEF Tables
<1> QED BY <1>1, <1>2

LEMMA RestTables == Tables /\ (CheckEqv \/ Running \/ UNCHANGED vars) => Tables'
<1>1. CheckEqv \/ Running \/ UNCHANGED vars => UNCHANGED <<ntk, perm, foldVars>>
    BY DEF CheckEqv, Running, vars
<1> QED BY <1>1, AlikeUnchanged DEF foldVars, Tables

-----------------------------------------------------------------------------
(* The transitions that buildTrans adds for one next state                 *)

\* Words that agree on the outputs still agree after the same inputs.
LEMMA HyperStep ==
    ASSUME NEW n \in 0 .. Last, NEW w \in Words(n), NEW u \in Words(n), Hyper(w) = Hyper(u),
           NEW x \in PinValues
    PROVE  /\ Hyper(Append(w, x)) = Hyper(Append(u, x))
           /\ n = Last => \A k \in Pos : nodeVec(k, Append(w, x)) <=> nodeVec(k, Append(u, x))
<1>0. /\ NTimeFrame \in Nat /\ n \in Nat /\ n + 1 \in 1 .. NTimeFrame /\ Last + 1 = NTimeFrame
      /\ w \in Seq(PinValues) /\ u \in Seq(PinValues) /\ Len(w) = n /\ Len(u) = n
      /\ Len(Append(w, x)) = n + 1 /\ Len(Append(u, x)) = n + 1
    BY STGAssumption, WordIsSeq DEF Last
\* The inputs x and then r, as one word.
<1> DEFINE More(r) == <<x>> \o r
<1>1. ASSUME NEW r \in Words(NTimeFrame - (n + 1)), NEW k \in Pos
      PROVE  nodeVec(k, Append(w, x) \o r) <=> nodeVec(k, Append(u, x) \o r)
    <2>1. NTimeFrame - (n + 1) \in Nat
        BY <1>0
    <2>2. r \in Seq(PinValues) /\ Len(r) = NTimeFrame - (n + 1)
        BY <2>1, WordIsSeq
    <2>3. More(r) \in Seq(PinValues) /\ Len(More(r)) = NTimeFrame - n
        BY <1>0, <2>2
    <2>4. Append(w, x) \o r = w \o More(r) /\ Append(u, x) \o r = u \o More(r)
        BY <1>0, <2>2
    <2> HIDE DEF More
    <2>5. More(r) \in [1 .. Len(More(r)) -> PinValues]
        BY <2>3
    <2>6. More(r) \in Words(NTimeFrame - n)
        BY <2>3, <2>5 DEF Words
    <2>7. {a \in Pos \X Words(NTimeFrame - n) : nodeVec(a[1], w \o a[2])}
             = {a \in Pos \X Words(NTimeFrame - n) : nodeVec(a[1], u \o a[2])}
        BY <1>0 DEF Hyper
    <2>8. <<k, More(r)>> \in Pos \X Words(NTimeFrame - n)
        BY <2>6
    <2>9. nodeVec(k, w \o More(r)) <=> nodeVec(k, u \o More(r))
        <3>1. <<k, More(r)>>[1] = k /\ <<k, More(r)>>[2] = More(r)
            OBVIOUS
        <3> QED BY <2>7, <2>8, <3>1
    <2> QED BY <2>4, <2>9
<1>2. Hyper(Append(w, x)) = Hyper(Append(u, x))
    <2>1. ASSUME NEW a \in Pos \X Words(NTimeFrame - (n + 1))
          PROVE  nodeVec(a[1], Append(w, x) \o a[2]) <=> nodeVec(a[1], Append(u, x) \o a[2])
        BY <1>1
    <2> QED BY <1>0, <2>1 DEF Hyper
<1>3. ASSUME n = Last, NEW k \in Pos
      PROVE  nodeVec(k, Append(w, x)) <=> nodeVec(k, Append(u, x))
    <2>1. <<>> \in Words(NTimeFrame - (n + 1))
        BY <1>0, <1>3, EmptyWord
    <2>2. Append(w, x) \o <<>> = Append(w, x) /\ Append(u, x) \o <<>> = Append(u, x)
        BY <1>0
    <2> QED BY <1>1, <2>1, <2>2
<1> QED BY <1>2, <1>3

\* The words of one state go the same way and show the same outputs.
LEMMA SameState ==
    ASSUME Tables, pc = "trans", NEW w \in csts[cCnt], NEW x \in PinValues
    PROVE  /\ \A n \in DOMAIN nsts : Append(w, x) \in nsts[n] <=> Append(path, x) \in nsts[n]
           /\ i = Last => \A k \in Pos : nodeVec(k, Append(w, x)) <=> nodeVec(k, Append(path, x))
<1>0. i \in 0 .. Last /\ i \in Nat /\ NTimeFrame \in Nat /\ Last + 1 = NTimeFrame
    BY STGAssumption DEF Tables, Last
<1>1. w \in Words(i) /\ path \in Words(i) /\ Hyper(w) = Hyper(path)
    BY DEF Tables, IsTable, Alike
<1>2. Append(w, x) \in Words(i + 1) /\ Append(path, x) \in Words(i + 1)
    BY <1>0, <1>1, AppendWord
<1>3. /\ Hyper(Append(w, x)) = Hyper(Append(path, x))
      /\ i = Last => \A k \in Pos : nodeVec(k, Append(w, x)) <=> nodeVec(k, Append(path, x))
    BY <1>0, <1>1, HyperStep
<1>4. ASSUME NEW n \in DOMAIN nsts
      PROVE  Append(w, x) \in nsts[n] <=> Append(path, x) \in nsts[n]
    <2>1. CASE i = Last
        <3>1. nsts[n] = Words(i + 1)
            BY <1>0, <2>1 DEF Tables, DummyState
        <3> QED BY <1>2, <3>1
    <2>2. CASE i # Last
        <3>1. Alike(nsts, i + 1)
            BY <2>2 DEF Tables
        <3> QED BY <1>2, <1>3, <3>1 DEF Alike
    <2> QED BY <2>1, <2>2
<1> QED BY <1>3, <1>4

LEMMA GuardedInputs ==
    ASSUME NEW n, NEW x \in PinValues
    PROVE  x \in Guarded(n) <=> Append(path, x) \in nsts[n]
BY SignNotEmpty DEF Guarded

-----------------------------------------------------------------------------
(* The machine.  W recalls the tables of all frames: W[f] is that of f.    *)

\* The last frame that has a table.
UpTo == IF pc = "cut" THEN i ELSE i + 1

Recalls(W) ==
    /\ \A f \in 0 .. UpTo : IsTable(W[f], f)
    /\ W[0] = DummyState(0)
    /\ UpTo = NTimeFrame => W[NTimeFrame] = DummyState(NTimeFrame)
    /\ pc # "done" => W[i] = csts
    /\ pc \in {"path", "trans"} => W[i + 1] = nsts

\* Transition t leads from state c of frame f to state n of the next one: all
\* words of the one go to the other, and show the outputs in the last frame.
Leads(W, t, f, c, n) ==
    /\ t.cst = Name(f, c) /\ c \in DOMAIN W[f]
    /\ t.nst = Name(f + 1, n) /\ n \in DOMAIN W[f + 1]
    /\ t.out \in [Pos -> {"0", "1", "-"}]
    /\ \A w \in W[f][c], x \in PinValues : Matches(x, t.in) =>
          /\ Append(w, x) \in W[f + 1][n]
          /\ f = Last => \A k \in Pos : t.out[k] = IF nodeVec(k, Append(w, x)) THEN "1" ELSE "0"

Right(W) == \A t \in transs : \E f \in 0 .. UpTo - 1, c, n \in Nat : Leads(W, t, f, c, n)

\* The machine can go on from state s when it reads x.
Taken(s, x) == \E t \in transs : t.cst = s /\ Matches(x, t.in)

\* It can from all states that buildTrans is done with, ...
Complete(W) ==
    \A f \in 0 .. UpTo - 1 : \A c \in DOMAIN W[f], x \in PinValues :
        f < i \/ pc = "done" \/ c < cCnt => Taken(Name(f, c), x)

\* ... and from the state at work when x leads to a next state that the inner
\* loop is done with.
Current ==
    pc = "trans" =>
        \A x \in PinValues, n \in DOMAIN nsts :
            n < nCnt /\ Append(path, x) \in nsts[n] => Taken(Name(i, cCnt), x)

\* The inputs that the machine has read lead to the state it is in.
Reached(W) ==
    /\ pc # "done" => st = S0_0 /\ cycle = 0 /\ got = <<>> /\ out = <<>>
    /\ pc = "done" =>
          \/ st = Star /\ cycle = 0
          \/ /\ cycle \in 0 .. Last
             /\ \E c \in DOMAIN W[cycle] : st = Name(cycle, c) /\ Read \in W[cycle][c]

History(W) == Recalls(W) /\ Right(W) /\ Complete(W) /\ Current /\ Reached(W)

IInv == Tables /\ \E W : History(W)

LEMMA LeadsUnchanged ==
    ASSUME UNCHANGED <<ntk, perm>>, NEW W, NEW t, NEW f, NEW c, NEW n, Leads(W, t, f, c, n)
    PROVE  Leads(W, t, f, c, n)'
BY DEF Leads, nodeVec, ValueOf, Pos, Outputs

LEMMA RightUnchanged ==
    ASSUME NEW W, Right(W), UNCHANGED <<ntk, perm, transs>>, UpTo' = UpTo
    PROVE  Right(W)'
<1> SUFFICES ASSUME NEW t \in transs
             PROVE  \E f \in 0 .. UpTo - 1, c, n \in Nat : Leads(W, t, f, c, n)'
    BY DEF Right
<1>1. PICK f \in 0 .. UpTo - 1, c \in Nat, n \in Nat : Leads(W, t, f, c, n)
    BY DEF Right
<1>2. Leads(W, t, f, c, n)'
    BY <1>1, LeadsUnchanged
<1> QED BY <1>2

\* Transitions are added, never taken back.
LEMMA TakenLater ==
    ASSUME transs \subseteq transs', NEW s, NEW x, Taken(s, x)
    PROVE  Taken(s, x)'
BY DEF Taken

LEMMA InitHistory == Init => \E W : History(W)
<1> SUFFICES ASSUME Init PROVE \E W : History(W)
    OBVIOUS
<1>0. NTimeFrame \in Nat \ {0} /\ UpTo = 0 /\ i = 0 /\ pc = "cut" /\ csts = DummyState(0)
    BY STGAssumption DEF Init, UpTo
<1> PICK W : W = [f \in {0} |-> DummyState(0)]
    OBVIOUS
<1>1. W[0] = DummyState(0)
    OBVIOUS
<1>2. Recalls(W)
    BY <1>0, <1>1, DummyIsTable DEF Recalls
<1>3. Right(W) /\ Complete(W) /\ Current /\ Reached(W)
    BY <1>0 DEF Right, Complete, Current, Reached, Init, STGInit
<1> QED BY <1>2, <1>3 DEF History

LEMMA CutHistory ==
    ASSUME Tables, Tables', Cut, NEW W, History(W)
    PROVE  \E V : History(V)'
<1>0. /\ pc = "cut" /\ pc' = "path" /\ i \in 0 .. Last /\ NTimeFrame \in Nat /\ Last + 1 = NTimeFrame
      /\ Last \in Nat
      /\ cCnt' = 0 /\ UNCHANGED <<ntk, perm, i, csts, path, nCnt, transs, st, cycle, got, out>>
    BY STGAssumption DEF Tables, Cut, runVars, Last
<1>1. UpTo = i /\ UpTo' = i + 1 /\ UpTo' - 1 = i
    BY <1>0 DEF UpTo
<1> PICK V : V = [f \in 0 .. i + 1 |-> IF f = i + 1 THEN nsts' ELSE W[f]]
    OBVIOUS
<1>2. V[i + 1] = nsts' /\ \A f \in 0 .. i : V[f] = W[f]
    BY <1>0
<1>3. Recalls(V)'
    <2>1. IsTable(nsts', i + 1)
        BY <1>0 DEF Tables
    <2>2. \A f \in 0 .. i + 1 : IsTable(V[f], f)
        <3> TAKE f \in 0 .. i + 1
        <3>1. CASE f = i + 1
            BY <1>2, <2>1, <3>1
        <3>2. CASE f # i + 1
            <4>1. f \in 0 .. i
                BY <1>0, <3>2
            <4> QED BY <1>1, <1>2, <4>1 DEF History, Recalls
        <3> QED BY <3>1, <3>2
    <2>3. V[0] = DummyState(0) /\ V[i] = csts
        BY <1>0, <1>2 DEF History, Recalls
    <2>4. i + 1 = NTimeFrame => nsts' = DummyState(NTimeFrame)
        BY <1>0 DEF Tables
    <2> QED BY <1>0, <1>1, <1>2, <2>2, <2>3, <2>4 DEF Recalls
<1>4. Right(V)'
    <2> SUFFICES ASSUME NEW t \in transs
                 PROVE  \E f \in 0 .. i, c, n \in Nat : Leads(V, t, f, c, n)'
        BY <1>0, <1>1 DEF Right
    <2>1. PICK f \in 0 .. i - 1, c \in Nat, n \in Nat : Leads(W, t, f, c, n)
        BY <1>1 DEF History, Right
    <2>2. f \in 0 .. i /\ V[f] = W[f] /\ V[f + 1] = W[f + 1]
        BY <1>0, <1>2
    <2>3. Leads(V, t, f, c, n)
        BY <2>1, <2>2 DEF Leads
    <2>4. Leads(V, t, f, c, n)'
        BY <1>0, <2>3, LeadsUnchanged
    <2> QED BY <2>2, <2>4
<1>5. Reached(V)'
    BY <1>0 DEF History, Reached, S0_0, Name
<1>6. Complete(V)'
    <2> SUFFICES ASSUME NEW f \in 0 .. i, NEW c \in DOMAIN V[f], NEW x \in PinValues, f < i \/ c < 0
                 PROVE  Taken(Name(f, c), x)'
        BY <1>0, <1>1 DEF Complete
    <2>1. f < i
        <3>1. f # i + 1
            BY <1>0
        <3>2. V[f] = W[f] /\ IsTable(W[f], f)
            BY <1>0, <1>1, <1>2 DEF History, Recalls
        <3>3. c \in Nat
            BY <3>2 DEF IsTable
        <3> QED BY <3>3
    <2>2. f \in 0 .. UpTo - 1 /\ V[f] = W[f]
        BY <1>0, <1>1, <1>2, <2>1
    <2>3. Taken(Name(f, c), x)
        BY <2>1, <2>2 DEF History, Complete
    <2> QED BY <1>0, <2>3, TakenLater
<1>7. Current'
    BY <1>0 DEF Current
<1> QED BY <1>3, <1>4, <1>5, <1>6, <1>7 DEF History

LEMMA FindPathHistory ==
    ASSUME Tables, FindPath, NEW W, History(W)
    PROVE  History(W)'
<1>0. /\ pc = "path" /\ pc' = "trans" /\ nCnt' = 0
      /\ UNCHANGED <<ntk, perm, i, csts, nsts, cCnt, transs, st, cycle, got, out>>
    BY DEF FindPath, runVars
<1>1. UpTo' = UpTo
    BY <1>0 DEF UpTo
<1>2. Recalls(W)'
    BY <1>0, <1>1 DEF History, Recalls
<1>3. Right(W)'
    BY <1>0, <1>1, RightUnchanged DEF History
<1>4. Complete(W)'
    BY <1>0, <1>1 DEF History, Complete, Taken
<1>5. Current'
    <2>1. \A n \in DOMAIN nsts : ~ (n < 0)
        BY <1>0 DEF Tables, IsTable
    <2> QED BY <1>0, <2>1 DEF Current
<1>6. Reached(W)'
    BY <1>0 DEF History, Reached, S0_0, Name
<1> QED BY <1>2, <1>3, <1>4, <1>5, <1>6 DEF History

LEMMA NextStateHistory ==
    ASSUME Tables, NextState, NEW W, History(W)
    PROVE  History(W)'
<1>0. /\ pc = "trans" /\ pc' = "path" /\ nCnt \in Nat \ DOMAIN nsts /\ cCnt \in Nat /\ cCnt' = cCnt + 1
      /\ i \in Nat /\ UNCHANGED <<ntk, perm, i, csts, nsts, transs, st, cycle, got, out>>
    BY DEF NextState, runVars, Tables
<1>1. UpTo' = UpTo /\ UpTo = i + 1
    BY <1>0 DEF UpTo
<1>2. Recalls(W)'
    BY <1>0, <1>1 DEF History, Recalls
<1>3. Right(W)'
    BY <1>0, <1>1, RightUnchanged DEF History
\* Every input leads to some next state.
<1>4. ASSUME NEW x \in PinValues PROVE Taken(Name(i, cCnt), x)
    <2>1. IsTable(nsts, i + 1) /\ path \in Words(i)
        BY <1>0 DEF Tables, IsTable
    <2>2. Append(path, x) \in Words(i + 1)
        BY <1>0, <2>1, AppendWord
    <2>3. PICK n \in DOMAIN nsts : Append(path, x) \in nsts[n]
        BY <2>1, <2>2 DEF IsTable
    <2>4. n < nCnt
        BY <1>0, <2>1, <2>3 DEF IsTable
    <2> QED BY <1>0, <2>3, <2>4 DEF History, Current
<1>5. Complete(W)'
    <2> SUFFICES ASSUME NEW f \in 0 .. i, NEW c \in DOMAIN W[f], NEW x \in PinValues,
                        f < i \/ c < cCnt + 1
                 PROVE  Taken(Name(f, c), x)
        BY <1>0, <1>1 DEF Complete, Taken
    <2>1. CASE f < i \/ c < cCnt
        BY <1>0, <1>1, <2>1 DEF History, Complete
    <2>2. CASE ~ (f < i \/ c < cCnt)
        <3>1. c \in Nat
            BY <1>0, <1>1 DEF History, Recalls, IsTable
        <3>2. f = i /\ c = cCnt
            BY <1>0, <2>2, <3>1
        <3> QED BY <1>4, <3>2
    <2> QED BY <2>1, <2>2
<1>6. Current'
    BY <1>0 DEF Current
<1>7. Reached(W)'
    BY <1>0 DEF History, Reached, S0_0, Name
<1> QED BY <1>2, <1>3, <1>5, <1>6, <1>7 DEF History

LEMMA NextFrameHistory ==
    ASSUME Tables, NextFrame, NEW W, History(W)
    PROVE  History(W)'
<1>0. /\ pc = "path" /\ csts' = nsts /\ i \in 0 .. Last /\ Last + 1 = NTimeFrame /\ Last \in Nat
      /\ pc' = (IF i = Last THEN "done" ELSE "cut") /\ i' = (IF i = Last THEN i ELSE i + 1)
      /\ cCnt \in Nat \ DOMAIN csts
      /\ UNCHANGED <<ntk, perm, nsts, cCnt, transs, st, cycle, got, out>>
    BY STGAssumption DEF NextFrame, runVars, Tables, Last
<1>1. UpTo = i + 1 /\ UpTo' = UpTo
    BY <1>0 DEF UpTo
<1>2. Recalls(W)'
    BY <1>0, <1>1 DEF History, Recalls
<1>3. Right(W)'
    BY <1>0, <1>1, RightUnchanged DEF History
<1>4. Reached(W)'
    <2>1. st = S0_0 /\ cycle = 0 /\ got = <<>> /\ out = <<>>
        BY <1>0 DEF History, Reached
    <2>2. 0 \in DOMAIN W[0] /\ <<>> \in W[0][0]
        BY EmptyWord DEF History, Recalls, DummyState
    <2> QED BY <1>0, <2>1, <2>2 DEF Reached, Read, S0_0
<1>5. Complete(W)'
    <2> SUFFICES ASSUME NEW f \in 0 .. i, NEW c \in DOMAIN W[f], NEW x \in PinValues
                 PROVE  Taken(Name(f, c), x)
        BY <1>0, <1>1 DEF Complete, Taken
    <2>1. CASE f < i
        BY <1>0, <1>1, <2>1 DEF History, Complete
    <2>2. CASE ~ (f < i)
        <3>1. f = i /\ W[i] = csts /\ IsTable(csts, i)
            BY <1>0, <2>2 DEF History, Recalls, Tables
        <3>2. c < cCnt
            BY <1>0, <3>1 DEF IsTable
        <3> QED BY <1>0, <1>1, <3>2 DEF History, Complete
    <2> QED BY <2>1, <2>2
<1>6. Current'
    BY <1>0 DEF Current
<1> QED BY <1>2, <1>3, <1>4, <1>5, <1>6 DEF History

LEMMA NewLeads ==
    ASSUME Tables, pc = "trans", nCnt \in DOMAIN nsts, NEW W, Recalls(W),
           NEW C \in Cubes(Guarded(nCnt), Sign(oFuncs, Pos)), NEW p \in C, NEW t,
           t = [in |-> p, cst |-> Name(i, cCnt), nst |-> Name(i + 1, nCnt),
                out |-> OutBits(oFuncs, Pos, p)]
    PROVE  Leads(W, t, i, cCnt, nCnt)
<1>1. W[i] = csts /\ W[i + 1] = nsts /\ cCnt \in DOMAIN csts
    BY DEF Recalls, Tables
<1>2. Guarded(nCnt) \in SUBSET PinValues
    BY DEF Guarded
<1>3. t.out \in [Pos -> {"0", "1", "-"}]
    BY OutBitsType
<1>4. /\ ntk.nCo \in Nat /\ Pos = 0 .. ntk.nCo - 1 /\ DOMAIN oFuncs \subseteq 0 .. ntk.nCo - 1
      /\ i = Last => DOMAIN oFuncs = Pos
    BY BddMuxAssumption DEF Tables, oFuncs, Pos, Outputs
<1>5. ASSUME NEW w \in csts[cCnt], NEW x \in PinValues, Matches(x, p)
      PROVE  /\ Append(w, x) \in nsts[nCnt]
             /\ i = Last => \A k \in Pos : t.out[k] = IF nodeVec(k, Append(w, x)) THEN "1" ELSE "0"
    <2>1. x \in Guarded(nCnt)
        BY <1>2, <1>5, CubesPartition
    <2>2. Append(w, x) \in nsts[nCnt]
        BY <2>1, GuardedInputs, SameState
    <2>3. ASSUME i = Last, NEW k \in Pos
          PROVE  t.out[k] = IF nodeVec(k, Append(w, x)) THEN "1" ELSE "0"
        <3>1. \A y \in PinValues : Matches(y, p) => Sign(oFuncs, Pos)[x] = Sign(oFuncs, Pos)[y]
            BY <1>2, <1>5, CubesPartition
        <3>2. OutBits(oFuncs, 0 .. ntk.nCo - 1, p)[k] = IF oFuncs[k][x] THEN "1" ELSE "0"
            BY <1>4, <1>5, <2>3, <3>1, OutBitsRight
        <3>3. oFuncs[k][x] = nodeVec(k, Append(path, x))
            BY <2>3 DEF oFuncs
        <3>4. nodeVec(k, Append(path, x)) <=> nodeVec(k, Append(w, x))
            BY <2>3, SameState
        <3> QED BY <1>4, <3>2, <3>3, <3>4
    <2> QED BY <2>2, <2>3
<1> QED BY <1>1, <1>3, <1>5 DEF Leads

LEMMA AddTransHistory ==
    ASSUME Tables, AddTrans, NEW W, History(W)
    PROVE  History(W)'
<1> DEFINE New(p) == [in |-> p, cst |-> Name(i, cCnt), nst |-> Name(i + 1, nCnt),
                      out |-> OutBits(oFuncs, Pos, p)]
<1>0. /\ pc = "trans" /\ nCnt \in DOMAIN nsts /\ i \in 0 .. Last /\ cCnt \in Nat /\ nCnt \in Nat
      /\ nCnt' = nCnt + 1
      /\ UNCHANGED <<ntk, perm, pc, i, csts, nsts, cCnt, path, st, cycle, got, out>>
    BY DEF AddTrans, runVars, Tables
<1>1. UpTo' = UpTo /\ UpTo = i + 1
    BY <1>0 DEF UpTo
<1>2. ASSUME NEW t \in transs', t \notin transs PROVE Leads(W, t, i, cCnt, nCnt)
    <2>1. AddOneTrans(Guarded(nCnt), Sign(oFuncs, Pos), oFuncs, Pos, i, cCnt, nCnt)
        BY <1>2 DEF AddTrans
    <2>2. PICK C \in Cubes(Guarded(nCnt), Sign(oFuncs, Pos)) : transs' = transs \cup {New(p) : p \in C}
        BY <2>1 DEF AddOneTrans
    <2>3. PICK p \in C : t = New(p)
        BY <1>2, <2>2
    <2> QED BY <1>0, <2>2, <2>3, NewLeads DEF History
<1>3. Recalls(W)'
    BY <1>0, <1>1 DEF History, Recalls
<1>4. Right(W)'
    <2> SUFFICES ASSUME NEW t \in transs'
                 PROVE  \E f \in 0 .. i, c, n \in Nat : Leads(W, t, f, c, n)'
        BY <1>0, <1>1 DEF Right
    <2>1. \E f \in 0 .. i, c, n \in Nat : Leads(W, t, f, c, n)
        <3>1. CASE t \in transs
            <4>1. PICK f \in 0 .. UpTo - 1, c \in Nat, n \in Nat : Leads(W, t, f, c, n)
                BY <3>1 DEF History, Right
            <4>2. f \in 0 .. i
                BY <1>0, <1>1, <4>1
            <4> QED BY <4>1, <4>2
        <3>2. CASE t \notin transs
            <4>1. Leads(W, t, i, cCnt, nCnt) /\ i \in 0 .. i
                BY <1>0, <1>2, <3>2
            <4> QED BY <1>0, <4>1
        <3> QED BY <3>1, <3>2
    <2>2. PICK f \in 0 .. i, c \in Nat, n \in Nat : Leads(W, t, f, c, n)
        BY <2>1
    <2>3. Leads(W, t, f, c, n)'
        BY <1>0, <2>2, LeadsUnchanged
    <2> QED BY <2>3
<1>5. Reached(W)'
    BY <1>0 DEF History, Reached, S0_0, Name
<1>6. transs \subseteq transs'
    BY DEF AddTrans, AddOneTrans
<1>7. Complete(W)'
    BY <1>0, <1>1, <1>6, TakenLater DEF History, Complete
<1>8. Current'
    <2> SUFFICES ASSUME NEW x \in PinValues, NEW n \in DOMAIN nsts, n < nCnt + 1,
                        Append(path, x) \in nsts[n]
                 PROVE  Taken(Name(i, cCnt), x)'
        BY <1>0 DEF Current
    <2>1. CASE n < nCnt
        <3>1. Taken(Name(i, cCnt), x)
            BY <1>0, <2>1 DEF History, Current
        <3> QED BY <1>0, <1>6, <3>1, TakenLater
    <2>2. CASE ~ (n < nCnt)
        <3>1. n = nCnt
            <4>1. n \in Nat
                BY <1>0 DEF Tables, IsTable
            <4> QED BY <1>0, <2>2, <4>1
        <3>2. x \in Guarded(nCnt)
            BY <3>1, GuardedInputs
        <3>3. path \in csts[cCnt]
            BY <1>0 DEF Tables
        <3>4. AddOneTrans(Guarded(nCnt), Sign(oFuncs, Pos), oFuncs, Pos, i, cCnt, nCnt)
            BY <3>1, <3>3 DEF AddTrans
        <3>5. PICK C \in Cubes(Guarded(nCnt), Sign(oFuncs, Pos)) : transs' = transs \cup {New(p) : p \in C}
            BY <3>4 DEF AddOneTrans
        <3>6. Guarded(nCnt) \in SUBSET PinValues
            BY DEF Guarded
        <3>7. PICK p \in C : Matches(x, p)
            <4>1. \A y \in Guarded(nCnt) : \E p \in C : Matches(y, p)
                BY <3>5, Zenon DEF Cubes
            <4> QED BY <3>2, <4>1
        <3>8. New(p) \in transs' /\ New(p).cst = Name(i, cCnt) /\ New(p).in = p
            BY <3>5, <3>7
        <3>9. \E t \in transs' : t.cst = Name(i, cCnt) /\ Matches(x, t.in)
            BY <3>7, <3>8
        <3> QED BY <1>0, <3>9 DEF Taken
    <2> QED BY <2>1, <2>2
<1> QED BY <1>3, <1>4, <1>5, <1>7, <1>8 DEF History

-----------------------------------------------------------------------------
(* The machine runs                                                        *)

\* A clock cycle takes a transition of the frame of the cycle.
LEMMA ClockLeads ==
    ASSUME Tables, pc = "done", NEW W, History(W), st # Star,
           NEW x \in PinValues, NEW t \in transs, t.cst = st, Matches(x, t.in)
    PROVE  /\ cycle \in 0 .. NTimeFrame - 1
           /\ \E c, n \in Nat :
                 /\ Leads(W, t, cycle, c, n) /\ Read \in W[cycle][c]
                 /\ Append(Read, x) \in W[cycle + 1][n] /\ W[cycle + 1][n] \subseteq Words(cycle + 1)
<1>0. UpTo = NTimeFrame /\ NTimeFrame \in Nat \ {0} /\ Last = NTimeFrame - 1
    BY STGAssumption DEF Tables, UpTo, Last
<1>1. cycle \in 0 .. NTimeFrame - 1
    BY <1>0 DEF History, Reached
<1>2. PICK c \in DOMAIN W[cycle] : st = Name(cycle, c) /\ Read \in W[cycle][c]
    BY DEF History, Reached
<1>3. PICK f \in 0 .. NTimeFrame - 1, d \in Nat, n \in Nat : Leads(W, t, f, d, n)
    BY <1>0 DEF History, Right
<1>4. f = cycle /\ d = c
    BY <1>2, <1>3 DEF Leads, Name
<1>5. Append(Read, x) \in W[cycle + 1][n] /\ n \in DOMAIN W[cycle + 1]
    BY <1>2, <1>3, <1>4 DEF Leads
<1>6. cycle + 1 \in 0 .. UpTo
    BY <1>0, <1>1
<1>7. IsTable(W[cycle + 1], cycle + 1)
    BY <1>6 DEF History, Recalls
<1>8. W[cycle + 1][n] \subseteq Words(cycle + 1)
    BY <1>5, <1>7 DEF IsTable
<1> QED BY <1>1, <1>2, <1>3, <1>4, <1>5, <1>8

LEMMA ClockHistory ==
    ASSUME Tables, pc = "done", Clock, UNCHANGED <<ntk, perm, foldVars>>, NEW W, History(W)
    PROVE  History(W)'
<1>0. /\ st # Star /\ cycle' = (cycle + 1) % NTimeFrame /\ transs' = transs
      /\ UNCHANGED <<ntk, perm, pc, i, csts, nsts, cCnt, path, nCnt>>
      /\ NTimeFrame \in Nat \ {0} /\ Last = NTimeFrame - 1 /\ UpTo = NTimeFrame
    BY STGAssumption DEF Clock, foldVars, Tables, UpTo, Last
<1> PICK x \in PinValues, t \in transs :
        /\ t.cst = st /\ Matches(x, t.in)
        /\ st' = t.nst
        /\ got' = Append(Read, x)
    BY DEF Clock, Read
<1>1. /\ cycle \in 0 .. NTimeFrame - 1
      /\ \E c, n \in Nat :
            /\ Leads(W, t, cycle, c, n) /\ Read \in W[cycle][c]
            /\ Append(Read, x) \in W[cycle + 1][n] /\ W[cycle + 1][n] \subseteq Words(cycle + 1)
    BY <1>0, ClockLeads
<1>2. PICK n \in Nat : /\ st' = Name(cycle + 1, n) /\ n \in DOMAIN W[cycle + 1]
                       /\ got' \in W[cycle + 1][n]
    BY <1>1 DEF Leads
<1>3. Reached(W)'
    <2>1. CASE cycle = NTimeFrame - 1
        <3>1. cycle' = 0 /\ cycle + 1 = NTimeFrame
            BY <1>0, <1>1, <2>1, NextCycle
        <3>2. n = 0
            BY <1>0, <1>2, <3>1 DEF History, Recalls, DummyState
        <3>3. st' = Star
            BY <1>2, <3>1, <3>2 DEF Star
        <3> QED BY <1>0, <3>1, <3>3 DEF Reached
    <2>2. CASE cycle # NTimeFrame - 1
        <3>1. cycle' = cycle + 1 /\ cycle' # 0 /\ cycle' \in 0 .. NTimeFrame - 1
            BY <1>0, <1>1, <2>2, NextCycle
        <3>2. cycle' \in 0 .. Last /\ Read' = got'
            BY <1>0, <3>1 DEF Read
        <3>3. \E c \in DOMAIN W[cycle'] : st' = Name(cycle', c) /\ Read' \in W[cycle'][c]
            BY <1>2, <3>1, <3>2
        <3> QED BY <1>0, <3>2, <3>3 DEF Reached
    <2> QED BY <2>1, <2>2
<1>4. UpTo' = UpTo
    BY <1>0 DEF UpTo
<1>5. Recalls(W)' /\ Complete(W)' /\ Current'
    BY <1>0, <1>4 DEF History, Recalls, Complete, Current, Taken
<1>6. Right(W)'
    BY <1>0, <1>4, RightUnchanged DEF History
<1> QED BY <1>3, <1>5, <1>6 DEF History

LEMMA ResetHistory ==
    ASSUME Tables, pc = "done", ResetMachine, UNCHANGED <<ntk, perm, foldVars>>, NEW W, History(W)
    PROVE  History(W)'
<1>0. /\ st = Star /\ st' = S0_0 /\ UNCHANGED <<transs, cycle>>
      /\ UNCHANGED <<ntk, perm, pc, i, csts, nsts, cCnt, path, nCnt>>
    BY DEF ResetMachine, foldVars
<1>1. NTimeFrame \in Nat \ {0} /\ 0 \in 0 .. Last /\ Last = NTimeFrame - 1
    BY STGAssumption DEF Last
<1>2. cycle = 0
    BY <1>0, <1>1 DEF History, Reached, Star, Name
<1>3. Reached(W)'
    <2>1. 0 \in DOMAIN W[0] /\ <<>> \in W[0][0]
        BY EmptyWord DEF History, Recalls, DummyState
    <2> QED BY <1>0, <1>1, <1>2, <2>1 DEF Reached, Read, S0_0
<1>4. UpTo' = UpTo
    BY <1>0 DEF UpTo
<1>5. Recalls(W)' /\ Complete(W)' /\ Current'
    BY <1>0, <1>4 DEF History, Recalls, Complete, Current, Taken
<1>6. Right(W)'
    BY <1>0, <1>4, RightUnchanged DEF History
<1> QED BY <1>3, <1>5, <1>6 DEF History

LEMMA StutterHistory ==
    ASSUME UNCHANGED <<ntk, perm, foldVars, transs, runVars>>, NEW W, History(W)
    PROVE  History(W)'
<1>0. UNCHANGED <<ntk, perm, pc, i, csts, nsts, cCnt, path, nCnt, transs, st, cycle, got, out>>
    BY DEF foldVars, runVars
<1>1. UpTo' = UpTo
    BY <1>0 DEF UpTo
<1>2. Right(W)'
    BY <1>0, <1>1, RightUnchanged DEF History
<1>3. Recalls(W)' /\ Complete(W)' /\ Current'
    BY <1>0, <1>1 DEF History, Recalls, Complete, Current, Taken
<1>4. Reached(W)'
    BY <1>0 DEF History, Reached, S0_0, Star, Read
<1> QED BY <1>2, <1>3, <1>4 DEF History

LEMMA SpecIInv == Spec => []IInv
<1>1. Init => IInv
    BY InitTables, InitHistory DEF IInv
<1>2. IInv /\ [Next]_vars => IInv'
    <2> SUFFICES ASSUME IInv, [Next]_vars PROVE IInv'
        OBVIOUS
    <2>1. Tables /\ Tables'
        BY CutTables, FindPathTables, AddTransTables, NextStateTables, NextFrameTables, RestTables
        DEF IInv, Next, Folding
    <2>2. PICK W : History(W)
        BY DEF IInv
    <2>3. CASE Cut
        BY <2>1, <2>2, <2>3, CutHistory DEF IInv
    <2>4. CASE FindPath \/ NextState
        BY <2>1, <2>2, <2>4, FindPathHistory, NextStateHistory DEF IInv
    <2>5. CASE AddTrans
        BY <2>1, <2>2, <2>5, AddTransHistory DEF IInv
    <2>6. CASE NextFrame
        BY <2>1, <2>2, <2>6, NextFrameHistory DEF IInv
    <2>7. CASE CheckEqv \/ UNCHANGED vars
        <3>1. UNCHANGED <<ntk, perm, foldVars, transs, runVars>>
            BY <2>7 DEF CheckEqv, vars
        <3> QED BY <2>1, <2>2, <3>1, StutterHistory DEF IInv
    <2>8. CASE Running
        <3>1. pc = "done" /\ UNCHANGED <<ntk, perm, foldVars>> /\ (Clock \/ ResetMachine)
            BY <2>8 DEF Running
        <3>2. CASE Clock
            BY <2>1, <2>2, <3>1, <3>2, ClockHistory DEF IInv
        <3>3. CASE ResetMachine
            BY <2>1, <2>2, <3>1, <3>3, ResetHistory DEF IInv
        <3> QED BY <3>1, <3>2, <3>3
    <2> QED BY <2>3, <2>4, <2>5, <2>6, <2>7, <2>8 DEF Next, Folding
<1> QED BY <1>1, <1>2, PTL DEF Spec

-----------------------------------------------------------------------------
(* Refinement                                                              *)

LEMMA InitRefines == Init => Fold!Init
BY DEF Init, STGInit, Fold!Init

LEMMA FoldingRefines == Tables /\ Folding => Fold!Fold \/ UNCHANGED Fold!avars
<1> SUFFICES ASSUME Tables, Folding PROVE Fold!Fold \/ UNCHANGED Fold!avars
    OBVIOUS
<1>1. pc # "done" /\ UNCHANGED <<ntk, perm, cycle, got, out>>
    BY DEF Folding, Cut, FindPath, AddTrans, NextState, NextFrame, runVars
<1>2. CASE pc' # "done"
    BY <1>1, <1>2 DEF Fold!avars, Pos, Outputs
<1>3. CASE pc' = "done"
    <2> DEFINE Slot == [k \in Pos' |-> Last * ntk'.nCo + k]
    <2>1. /\ ntk.nCo \in Nat /\ Pos = 0 .. ntk.nCo - 1 /\ Pos' = Pos /\ ntk' = ntk
          /\ NTimeFrame \in Nat /\ Last \in 0 .. NTimeFrame - 1
        BY <1>1, BddMuxAssumption, STGAssumption DEF Tables, Pos, Outputs, Last
    <2>2. ASSUME NEW k \in Pos
          PROVE  /\ k \in Nat /\ Last * ntk.nCo \in Nat
                 /\ Last * ntk.nCo + k \in 0 .. ntk.nCo * NTimeFrame - 1
        <3>1. Last * ntk.nCo + k \in 0 .. NTimeFrame * ntk.nCo - 1
            BY <2>1, ItemInRange
        <3>2. NTimeFrame * ntk.nCo = ntk.nCo * NTimeFrame
            BY <2>1
        <3>3. Last \in Nat
            BY <2>1
        <3>4. Last * ntk.nCo \in Nat
            BY <2>1, <3>3
        <3> QED BY <2>1, <3>1, <3>2, <3>4
    <2>3. Slot \in [Pos -> 0 .. ntk.nCo * NTimeFrame - 1]
        BY <2>1, <2>2
    <2>4. \A k, m \in Pos : Slot[k] = Slot[m] => k = m
        BY <2>1, <2>2
    <2> HIDE DEF Slot
    <2> QED BY <1>1, <1>3, <2>1, <2>3, <2>4 DEF Fold!Fold, OutputsOf, Pos, Slot
<1> QED BY <1>2, <1>3

LEMMA ClockRefines ==
    ASSUME IInv, pc = "done", Clock, UNCHANGED <<ntk, perm, foldVars>>
    PROVE  Fold!Clock
<1> DEFINE Slot == [k \in Pos |-> Last * ntk.nCo + k]
<1>0. /\ Tables /\ st # Star /\ UNCHANGED <<ntk, perm, pc>> /\ Pos = 0 .. ntk.nCo - 1 /\ ntk.nCo \in Nat
      /\ NTimeFrame \in Nat \ {0} /\ Last = NTimeFrame - 1 /\ Last \in Nat
    BY BddMuxAssumption, STGAssumption DEF IInv, Tables, Clock, foldVars, Pos, Outputs, Last
<1> PICK W : History(W)
    BY DEF IInv
<1> PICK x \in PinValues, t \in transs :
        /\ t.cst = st /\ Matches(x, t.in)
        /\ got' = Append(Read, x)
        /\ out' \in {o \in [DOMAIN t.out -> BOOLEAN] :
                        \A k \in DOMAIN t.out : t.out[k] = "-" \/ (t.out[k] = "1" <=> o[k])}
    BY DEF Clock, Read
<1>1. /\ cycle \in 0 .. NTimeFrame - 1
      /\ \E c, n \in Nat :
            /\ Leads(W, t, cycle, c, n) /\ Read \in W[cycle][c]
            /\ Append(Read, x) \in W[cycle + 1][n] /\ W[cycle + 1][n] \subseteq Words(cycle + 1)
    BY <1>0, ClockLeads
<1>2. PICK c \in Nat, n \in Nat : Leads(W, t, cycle, c, n) /\ Read \in W[cycle][c]
    BY <1>1
<1>3. got' \in Words(cycle + 1)
    BY <1>1
<1>4. out' \in [0 .. ntk.nCo - 1 -> BOOLEAN] /\ DOMAIN t.out = Pos
    BY <1>0, <1>2 DEF Leads
<1>5. ASSUME NEW k \in Pos, Slot[k] \div ntk.nCo = cycle, NEW full \in Fold!Completions(got')
      PROVE  out'[Slot[k] % ntk.nCo] = Value([ntk |-> ntk, perm |-> perm], k, full)
    <2>1. Slot[k] = Last * ntk.nCo + k
        OBVIOUS
    <2>2. cycle = Last /\ Slot[k] % ntk.nCo = k
        <3>1. k \in 0 .. ntk.nCo - 1
            BY <1>0
        <3>2. (Last * ntk.nCo + k) \div ntk.nCo = Last /\ (Last * ntk.nCo + k) % ntk.nCo = k
            BY <1>0, <3>1, ItemOfFrame
        <3> QED BY <1>5, <2>1, <3>2
    <2>3. t.out[k] = IF nodeVec(k, got') THEN "1" ELSE "0"
        BY <1>2, <2>2 DEF Leads
    <2>4. out'[k] <=> nodeVec(k, got')
        BY <1>4, <2>3
    <2>5. out'[k] \in BOOLEAN /\ nodeVec(k, got') \in BOOLEAN
        <3>1. got' \in Words(NTimeFrame)
            BY <1>0, <1>3, <2>2
        <3>2. ntk.func[k] \in [Ins(NumCi) -> BOOLEAN]
            BY <1>0, BddMuxAssumption DEF Tables
        <3>3. [m \in 0 .. NumCi - 1 |-> got'[perm[m] \div NPi + 1][perm[m] % NPi]] \in Ins(NumCi)
            <4>1. ASSUME NEW m \in 0 .. NumCi - 1
                  PROVE  got'[perm[m] \div NPi + 1][perm[m] % NPi] \in BOOLEAN
                <5>1. perm[m] \in 0 .. NTimeFrame * NPi - 1
                    BY <1>0 DEF Tables, Orders, NumCi, Bijection, Injection
                <5>2. NTimeFrame \in Nat /\ NPi \in Nat
                    BY STGAssumption
                <5>3. perm[m] \div NPi \in 0 .. NTimeFrame - 1 /\ perm[m] % NPi \in 0 .. NPi - 1
                    BY <5>1, <5>2, FrameAndItem
                <5>4. perm[m] \div NPi + 1 \in 1 .. NTimeFrame
                    BY <5>2, <5>3
                <5> QED BY <3>1, <5>3, <5>4 DEF Words, PinValues
            <4> QED BY <4>1 DEF Ins
        <3>4. nodeVec(k, got') \in BOOLEAN
            BY <3>2, <3>3 DEF nodeVec, ValueOf
        <3> QED BY <1>0, <1>4, <3>4
    <2>6. out'[k] = nodeVec(k, got')
        BY <2>4, <2>5, Zenon
    <2>7. WordOf(full, NTimeFrame) = got'
        <3>1. got' \in Words(NTimeFrame) /\ NTimeFrame \in 0 .. NTimeFrame
            BY <1>0, <1>3, <2>2
        <3>2. Len(got') = NTimeFrame
            BY <1>0, <3>1, WordIsSeq
        <3>3. PICK rest \in [1 .. NTimeFrame - NTimeFrame -> PinValues] : full = Fold!Flat(got' \o rest)
            BY <1>5, <3>2 DEF Fold!Completions, Fold!PinValues, PinValues
        <3>4. full = Numbered(got', rest)
            BY <3>3 DEF Fold!Flat, Numbered
        <3>5. WordOf(Numbered(got', rest), NTimeFrame) = got'
            BY <3>1, <3>3, WordOfFlat
        <3> QED BY <3>4, <3>5
    <2> QED BY <2>2, <2>6, <2>7 DEF Value, nodeVec
<1>6. \E in \in Fold!PinValues : got' = Append(IF cycle = 0 THEN <<>> ELSE got, in)
    BY DEF Fold!PinValues, PinValues, Read
<1>7. cycle' = (cycle + 1) % NTimeFrame
    BY DEF Clock
<1>8. UNCHANGED Slot
    BY <1>0 DEF Pos, Outputs
<1> HIDE DEF Slot
<1> QED BY <1>0, <1>4, <1>5, <1>6, <1>7, <1>8 DEF Fold!Clock, OutputsOf, Pos, Slot

\* The machine that time_mux writes shows all outputs of the circuit in the
\* last frame, in whatever order -r has the inputs read (bddMux, buildTrans).
THEOREM Implements == Spec => ImplementsFold
<1>1. IInv /\ [Next]_vars => [Fold!Next]_(Fold!avars)
    <2> SUFFICES ASSUME IInv, [Next]_vars PROVE [Fold!Next]_(Fold!avars)
        OBVIOUS
    <2>1. CASE Folding
        BY <2>1, FoldingRefines DEF IInv, Fold!Next
    <2>2. CASE CheckEqv \/ UNCHANGED vars
        BY <2>2 DEF CheckEqv, vars, foldVars, runVars, Fold!avars, Pos, Outputs
    <2>3. CASE Running
        <3>1. pc = "done" /\ UNCHANGED <<ntk, perm, foldVars>> /\ (Clock \/ ResetMachine)
            BY <2>3 DEF Running
        <3>2. CASE Clock
            BY <3>1, <3>2, ClockRefines DEF Fold!Next
        <3>3. CASE ResetMachine
            BY <3>1, <3>3 DEF ResetMachine, foldVars, Fold!avars, Pos, Outputs
        <3> QED BY <3>1, <3>2, <3>3
    <2> QED BY <2>1, <2>2, <2>3 DEF Next
<1> QED BY InitRefines, SpecIInv, <1>1, PTL DEF Spec, ImplementsFold, Fold!Spec

-----------------------------------------------------------------------------
(* The equivalence check                                                   *)

\* Transition t shows the outputs after word w in the last frame.
Showing(t, f, w) ==
    f = Last => \A k \in Pos : t.out[k] = IF nodeVec(k, w) THEN "1" ELSE "0"

\* The finished machine has a step for every input, which leads to the state of
\* the longer word.
LEMMA StepLeads ==
    ASSUME pc = "done", Tables, NEW W, History(W),
           NEW f \in 0 .. Last, NEW c \in DOMAIN W[f], NEW w \in W[f][c], NEW x \in PinValues
    PROVE  /\ \E n \in DOMAIN W[f + 1] : /\ Step(Name(f, c), x).nst = Name(f + 1, n)
                                         /\ Append(w, x) \in W[f + 1][n]
           /\ Showing(Step(Name(f, c), x), f, Append(w, x))
<1> DEFINE t == Step(Name(f, c), x)
<1>1. i = Last /\ Last + 1 = NTimeFrame /\ UpTo = NTimeFrame /\ UpTo - 1 = Last
    BY STGAssumption DEF Tables, Last, UpTo
<1>2. Taken(Name(f, c), x)
    BY <1>1 DEF History, Complete
<1>3. t \in transs /\ t.cst = Name(f, c) /\ Matches(x, t.in)
    BY <1>2 DEF Taken, Step
<1> HIDE DEF t
<1>4. PICK g \in 0 .. Last, d \in Nat, n \in Nat : Leads(W, t, g, d, n)
    BY <1>1, <1>3 DEF History, Right
<1>5. g = f /\ d = c
    BY <1>3, <1>4 DEF Leads, Name
<1> QED BY <1>3, <1>4, <1>5 DEF Leads, Showing, t

\* What the machine shows in the last frame of a run are the outputs of the
\* circuit.
LEMMA RunShows ==
    ASSUME pc = "done", Tables, NEW W, History(W), NEW v \in Words(NTimeFrame)
    PROVE  Showing(Run(S0_0, v)[NTimeFrame], Last, v)
<1>1. NTimeFrame \in Nat \ {0} /\ Last \in Nat /\ Last + 1 = NTimeFrame /\ UpTo = NTimeFrame
    BY STGAssumption DEF Tables, Last, UpTo
<1>2. \A g \in 0 .. NTimeFrame : IsTable(W[g], g)
    BY <1>1 DEF History, Recalls
<1> DEFINE e(k) == Ext(<<>>, 0, v, k)
           home(k) == CHOOSE d \in DOMAIN W[k] : e(k) \in W[k][d]
           state == [k \in 0 .. NTimeFrame |-> Name(k, home(k))]
<1>3. /\ e(0) = <<>> /\ \A k \in 0 .. NTimeFrame : e(k) \in Words(k)
      /\ \A k \in 1 .. NTimeFrame : e(k) = Append(e(k - 1), v[k])
    <2> HIDE DEF home, state
    <2>1. NTimeFrame \in Nat /\ 0 \in Nat /\ <<>> \in Words(0)
        BY <1>1, EmptyWord
    <2>2. Ext(<<>>, 0, v, 0) = <<>>
        BY <2>1, ExtendedByNone
    <2>3. ASSUME NEW k \in 0 .. NTimeFrame PROVE Ext(<<>>, 0, v, k) \in Words(k)
        <3>1. Ext(<<>>, 0, v, k) \in Words(0 + k)
            BY <2>1, ExtendedWord
        <3>2. 0 + k = k
            BY <2>1
        <3> QED BY <3>1, <3>2
    <2>4. ASSUME NEW k \in 1 .. NTimeFrame PROVE Ext(<<>>, 0, v, k) = Append(Ext(<<>>, 0, v, k - 1), v[k])
        BY <2>1, ExtendedWord, ZenonT(60)
    <2> QED BY <2>2, <2>3, <2>4
<1>4. e(NTimeFrame) = v
    <2>1. ASSUME NEW j \in 1 .. NTimeFrame PROVE (IF j <= 0 THEN <<>>[j] ELSE v[j - 0]) = v[j]
        BY <1>1
    <2>2. v = [j \in 1 .. NTimeFrame |-> v[j]] /\ 0 + NTimeFrame = NTimeFrame
        BY <1>1 DEF Words
    <2>3. e(NTimeFrame) = [j \in 1 .. NTimeFrame |-> IF j <= 0 THEN <<>>[j] ELSE v[j - 0]]
        BY <2>2 DEF Ext
    <2> QED BY <2>1, <2>2, <2>3
<1> HIDE DEF e
<1>5. ASSUME NEW k \in 0 .. NTimeFrame
      PROVE  home(k) \in DOMAIN W[k] /\ e(k) \in W[k][home(k)]
    <2>1. IsTable(W[k], k) /\ e(k) \in Words(k)
        BY <1>2, <1>3
    <2> QED BY <2>1 DEF IsTable
<1>6. ASSUME NEW k \in 0 .. NTimeFrame, NEW d \in DOMAIN W[k], e(k) \in W[k][d]
      PROVE  home(k) = d
    <2>1. IsTable(W[k], k)
        BY <1>2
    <2> HIDE DEF home
    <2> QED BY <1>5, <1>6, <2>1 DEF IsTable
<1> HIDE DEF home
<1>7. state[0] = S0_0
    <2>1. 0 \in 0 .. NTimeFrame
        BY <1>1
    <2>2. 0 \in DOMAIN W[0] /\ e(0) \in W[0][0]
        BY <1>3, EmptyWord DEF History, Recalls, DummyState
    <2>3. home(0) = 0
        BY <1>6, <2>1, <2>2
    <2> QED BY <2>1, <2>3 DEF S0_0
<1>8. ASSUME NEW k \in 1 .. NTimeFrame
      PROVE  /\ state[k] = Step(state[k - 1], v[k]).nst
             /\ Showing(Step(state[k - 1], v[k]), k - 1, e(k))
    <2>1. k - 1 \in 0 .. NTimeFrame /\ k \in 0 .. NTimeFrame /\ k - 1 \in 0 .. Last /\ (k - 1) + 1 = k
        BY <1>1
    <2>2. v[k] \in PinValues /\ e(k) = Append(e(k - 1), v[k])
        BY <1>3 DEF Words
    <2>3. home(k - 1) \in DOMAIN W[k - 1] /\ e(k - 1) \in W[k - 1][home(k - 1)]
        BY <1>5, <2>1
    <2> DEFINE g == k - 1
               d == home(k - 1)
               u == e(k - 1)
    <2>4. g \in 0 .. Last /\ g + 1 = k /\ d \in DOMAIN W[g] /\ u \in W[g][d] /\ e(k) = Append(u, v[k])
        BY <2>1, <2>2, <2>3
    <2>5. state[k - 1] = Name(g, d) /\ state[k] = Name(k, home(k))
        BY <2>1
    <2> HIDE DEF g, d, u, state
    <2>6. /\ \E m \in DOMAIN W[g + 1] : /\ Step(Name(g, d), v[k]).nst = Name(g + 1, m)
                                        /\ Append(u, v[k]) \in W[g + 1][m]
          /\ Showing(Step(Name(g, d), v[k]), g, Append(u, v[k]))
        BY <2>2, <2>4, StepLeads
    <2>7. PICK m \in DOMAIN W[k] : Step(Name(g, d), v[k]).nst = Name(k, m) /\ e(k) \in W[k][m]
        BY <2>4, <2>6
    <2>8. home(k) = m
        BY <1>6, <2>1, <2>7
    <2>9. state[k] = Step(state[k - 1], v[k]).nst
        BY <2>5, <2>7, <2>8
    <2>10. Showing(Step(state[k - 1], v[k]), g, e(k))
        BY <2>4, <2>5, <2>6
    <2> QED BY <2>9, <2>10 DEF g
<1>9. state \in [0 .. NTimeFrame -> {state[k] : k \in 0 .. NTimeFrame}]
    OBVIOUS
<1> HIDE DEF state
<1>10. Run(S0_0, v)[NTimeFrame] = Step(state[NTimeFrame - 1], v[NTimeFrame])
    <2>1. \A m \in 1 .. NTimeFrame : state[m] = Step(state[m - 1], v[m]).nst
        BY <1>8
    <2>2. NTimeFrame \in Nat /\ NTimeFrame \in 1 .. NTimeFrame
        BY <1>1
    <2>3. Run(state[0], v)[NTimeFrame] = Step(state[NTimeFrame - 1], v[NTimeFrame])
        BY <1>9, <2>1, <2>2, RunIs
    <2> QED BY <1>7, <2>3
<1>11. NTimeFrame \in 1 .. NTimeFrame /\ NTimeFrame - 1 = Last
    BY <1>1
<1>12. Showing(Step(state[NTimeFrame - 1], v[NTimeFrame]), NTimeFrame - 1, e(NTimeFrame))
    BY <1>8, <1>11
<1> QED BY <1>4, <1>10, <1>11, <1>12

\* The places of the inputs, and the values of the outputs.
LEMMA PlacesAre ==
    ASSUME Tables
    PROVE  /\ perm \in Bijection(0 .. NumCi - 1, 0 .. NumCi - 1)
           /\ NumCi \in Nat /\ NumCi = NTimeFrame * NPi /\ NPi \in Nat /\ NTimeFrame \in Nat \ {0}
           /\ ntk.nCo \in Nat /\ Pos = 0 .. ntk.nCo - 1
           /\ ntk.func \in [Pos -> [Ins(NumCi) -> BOOLEAN]]
<1>1. NPi \in Nat /\ NTimeFrame \in Nat \ {0} /\ NumCi = NTimeFrame * NPi
    BY STGAssumption DEF NumCi
<1>2. NumCi \in Nat
    BY <1>1
<1>3. ntk.nCo \in Nat /\ Pos = 0 .. ntk.nCo - 1 /\ ntk.func \in [Pos -> [Ins(NumCi) -> BOOLEAN]]
    BY BddMuxAssumption DEF Tables, Pos, Outputs
<1>4. [m \in 0 .. NumCi - 1 |-> m] \in Bijection(0 .. NumCi - 1, 0 .. NumCi - 1)
    BY DEF Bijection, Injection, Surjection, IsInjective
<1>5. perm \in Bijection(0 .. NumCi - 1, 0 .. NumCi - 1)
    BY <1>4 DEF Tables, Orders
<1> QED BY <1>1, <1>2, <1>3, <1>5

\* Reading the inputs v in the order of the fold gives the outputs for v.
LEMMA MovedValue ==
    ASSUME Tables, NEW k \in Pos, NEW v \in Ins(NumCi)
    PROVE  /\ Moved(NumCi, perm, v) \in Ins(NumCi)
           /\ nodeVec(k, WordOf(Moved(NumCi, perm, v), NTimeFrame)) = ntk.func[k][v]
<1> DEFINE n == NumCi
           in == Moved(n, perm, v)
           word == WordOf(in, NTimeFrame)
<1>1. /\ perm \in Bijection(0 .. n - 1, 0 .. n - 1) /\ n \in Nat /\ n = NTimeFrame * NPi
      /\ NPi \in Nat /\ NTimeFrame \in Nat
    BY PlacesAre
<1>2. in \in Ins(n)
    BY <1>1, MovedInputs
<1>3. ASSUME NEW m \in 0 .. n - 1 PROVE word[perm[m] \div NPi + 1][perm[m] % NPi] = v[m]
    <2> DEFINE p == perm[m]
               f == p \div NPi
               q == p % NPi
    <2>1. p \in 0 .. n - 1
        BY <1>1 DEF Bijection, Injection
    <2> HIDE DEF p
    <2>2. f \in 0 .. NTimeFrame - 1 /\ q \in 0 .. NPi - 1 /\ p = f * NPi + q
        BY <1>1, <2>1, FrameAndItem
    <2> HIDE DEF f, q
    <2>3. f + 1 \in 1 .. NTimeFrame /\ (f + 1) - 1 = f
        BY <1>1, <2>2
    <2>4. word[f + 1][q] = in[p]
        <3>1. word[f + 1] = [r \in 0 .. NPi - 1 |-> in[((f + 1) - 1) * NPi + r]]
            BY <2>3 DEF WordOf
        <3> HIDE DEF word, in
        <3> QED BY <2>2, <2>3, <3>1
    <2>5. in[p] = v[CHOOSE j \in 0 .. n - 1 : perm[j] = p]
        BY <2>1 DEF Moved
    <2>6. \A j \in 0 .. n - 1 : perm[j] = p => j = m
        <3>1. IsInjective(perm) /\ DOMAIN perm = 0 .. n - 1
            BY <1>1 DEF Bijection, Injection
        <3> QED BY <3>1 DEF IsInjective, p
    <2>7. (CHOOSE j \in 0 .. n - 1 : perm[j] = p) = m
        <3>1. perm[m] = p
            BY DEF p
        <3> QED BY <2>6, <3>1
    <2> HIDE DEF word, in
    <2> QED BY <2>4, <2>5, <2>7 DEF f, q, p
<1>4. [m \in 0 .. n - 1 |-> word[perm[m] \div NPi + 1][perm[m] % NPi]] = v
    <2>1. v = [m \in 0 .. n - 1 |-> v[m]]
        BY DEF Ins
    <2> HIDE DEF word, n
    <2> QED BY <1>3, <2>1
<1>5. nodeVec(k, word) = ntk.func[k][[m \in 0 .. n - 1 |-> word[perm[m] \div NPi + 1][perm[m] % NPi]]]
    BY DEF nodeVec, ValueOf
<1> QED BY <1>2, <1>4, <1>5

\* The outputs of the last of the expanded frames.
LEMMA FramesShow ==
    ASSUME Tables, pc = "done", NEW W, History(W), NEW dc \in BOOLEAN,
           NEW k \in Pos, NEW v \in Ins(NumCi)
    PROVE  FramesOutputs(Pos, dc)[Last * ntk.nCo + k][Moved(NumCi, perm, v)] = ntk.func[k][v]
<1> DEFINE nCo == ntk.nCo
           j == Last * nCo + k
           in == Moved(NumCi, perm, v)
           word == WordOf(in, NTimeFrame)
           o == Run(S0_0, word)[NTimeFrame].out[k]
           b == FramesOutputs(Pos, dc)[j][in]
           u == ntk.func[k][v]
<1>1. /\ nCo \in Nat /\ Pos = 0 .. nCo - 1 /\ ntk.func \in [Pos -> [Ins(NumCi) -> BOOLEAN]]
      /\ NTimeFrame \in Nat \ {0} /\ NumCi = NTimeFrame * NPi
    BY PlacesAre
<1>2. Last \in Nat /\ Last \in 0 .. NTimeFrame - 1 /\ Last + 1 = NTimeFrame
    BY <1>1 DEF Last
<1>3. j \in 0 .. NTimeFrame * nCo - 1 /\ j \div nCo = Last /\ j % nCo = k
    BY <1>1, <1>2, ItemInRange, ItemOfFrame
<1>4. in \in Ins(NTimeFrame * NPi) /\ nodeVec(k, word) = u
    BY <1>1, MovedValue
<1>5. word \in Words(NTimeFrame)
    <2>1. NTimeFrame \in 0 .. NTimeFrame
        BY <1>1
    <2> QED BY <1>4, <2>1, InputsWord
<1>6. u \in BOOLEAN
    BY <1>1
<1> HIDE DEF j, in, word, u
<1>7. o = IF u THEN "1" ELSE "0"
    BY <1>4, <1>5, RunShows DEF Showing
<1>8. b = (o = "1" \/ (o = "-" /\ dc))
    <2>1. NTimeFrame * nCo \in Nat /\ nCo \in Nat
        BY <1>1
    <2>2. FramesOutputs(0 .. nCo - 1, dc)[j][in] =
              LET z == Run(S0_0, WordOf(in, NTimeFrame))[j \div nCo + 1].out[j % nCo]
              IN z = "1" \/ (z = "-" /\ dc)
        BY <1>3, <1>4, <2>1, FramesOf
    <2> QED BY <1>1, <1>2, <1>3, <2>2 DEF word
<1>9. (o = "1" \/ (o = "-" /\ dc)) <=> u
    <2> HIDE DEF o
    <2> QED BY <1>7
<1> HIDE DEF o, b
<1>10. b = u
    BY <1>6, <1>8, <1>9, Zenon
<1> QED BY <1>10 DEF b, u, j, in

\* The equivalence check finds the circuit in the machine.
LEMMA CheckFinds ==
    ASSUME Tables, pc = "done", NEW W, History(W), NEW dc \in BOOLEAN
    PROVE  prepNtkToCheck(dc) = Comb(NumCi, ntk.func)
<1> DEFINE n == NumCi
           nCo == ntk.nCo
           P == NTimeFrame * nCo
           fo == FramesOutputs(Pos, dc)
           part == Part(fo, P - nCo, P)
           V == {part[k] : k \in 0 .. nCo - 1}
<1>1. /\ n \in Nat /\ nCo \in Nat /\ Pos = 0 .. nCo - 1 /\ ntk.func \in [Pos -> [Ins(n) -> BOOLEAN]]
      /\ NTimeFrame \in Nat \ {0}
    BY PlacesAre
<1>2. P \in Nat /\ P - nCo = Last * nCo /\ P - (P - nCo) - 1 = nCo - 1
    BY <1>1 DEF Last
<1>3. P \div NTimeFrame = nCo
    BY <1>1
<1>4. fo \in [0 .. P - 1 -> {fo[k] : k \in 0 .. P - 1}]
    <2>1. fo = [k \in 0 .. P - 1 |-> fo[k]]
        BY <1>1, FramesShape
    <2> HIDE DEF fo, P
    <2> QED BY <2>1
<1> HIDE DEF n, P, fo
<1>5. PoNum(Comb(n, fo)) = P
    <2>1. P \in Nat
        BY <1>2
    <2>2. PICK Vals : fo \in [0 .. P - 1 -> Vals]
        BY <1>4
    <2>3. n \in Nat
        BY <1>1
    <2> QED BY <2>1, <2>2, <2>3, CombOf, SMTT(40)
<1>6. part \in [0 .. nCo - 1 -> V] /\ \A k \in 0 .. nCo - 1 : part[k] = fo[Last * nCo + k]
    BY <1>2 DEF Part
<1> HIDE DEF part, V
<1>7. aigCone(Comb(n, fo), P - nCo, P) = Comb(n, part)
    BY <1>1, ConeOf DEF part
<1>8. aigPermCi(Comb(n, part), perm) = Comb(n, MovedIn(n, nCo, part, perm))
    BY <1>1, <1>6, PermCiOf, ZenonT(60)
<1>9. prepNtkToCheck(dc) = Comb(n, MovedIn(n, nCo, part, perm))
    <2>1. prepNtkToCheck(dc) = aigPermCi(aigCone(Comb(n, fo), PoNum(Comb(n, fo)) - PoNum(Comb(n, fo)) \div NTimeFrame,
                                                 PoNum(Comb(n, fo))), perm)
        BY DEF prepNtkToCheck, n, fo
    <2> QED BY <1>3, <1>5, <1>7, <1>8, <2>1
<1>10. ASSUME NEW k \in 0 .. nCo - 1 PROVE [v \in Ins(n) |-> part[k][Moved(n, perm, v)]] = ntk.func[k]
    <2>1. ASSUME NEW v \in Ins(n) PROVE part[k][Moved(n, perm, v)] = ntk.func[k][v]
        BY <1>1, <1>6, FramesShow DEF n, fo
    <2>2. ntk.func[k] = [v \in Ins(n) |-> ntk.func[k][v]]
        BY <1>1
    <2> QED BY <2>1, <2>2
<1>11. MovedIn(n, nCo, part, perm) = ntk.func
    <2>1. MovedIn(n, nCo, part, perm) = [k \in 0 .. nCo - 1 |-> [v \in Ins(n) |-> part[k][Moved(n, perm, v)]]]
        BY DEF MovedIn
    <2>2. ntk.func = [k \in 0 .. nCo - 1 |-> ntk.func[k]]
        BY <1>1
    <2> QED BY <1>10, <2>1, <2>2
<1> QED BY <1>9, <1>11 DEF n

\* The equivalence check of time_mux never rejects a machine of the fold, in
\* whatever order -r has the inputs read: prepNtkToCheck takes the outputs of
\* the last frame and undoes the permutation of the inputs.
THEOREM CheckAgreesHolds == Spec => []CheckAgrees
<1>1. Init => CheckAgrees
    BY DEF Init, CheckAgrees
<1>2. IInv /\ CheckAgrees /\ [Next]_vars => CheckAgrees'
    <2> SUFFICES ASSUME IInv, CheckAgrees, [Next]_vars PROVE CheckAgrees'
        OBVIOUS
    <2>1. CASE CheckEqv
        <3>1. PICK W : History(W)
            BY DEF IInv
        <3>2. PICK dc \in BOOLEAN :
                  eqv' = IF prepNtkToCheck(dc) = Comb(NumCi, ntk.func) THEN "equivalent" ELSE "different"
            BY <2>1 DEF CheckEqv
        <3>3. prepNtkToCheck(dc) = Comb(NumCi, ntk.func)
            BY <2>1, <3>1, CheckFinds DEF CheckEqv, IInv
        <3> QED BY <3>2, <3>3 DEF CheckAgrees
    <2>2. CASE ~ CheckEqv
        BY <2>2 DEF CheckAgrees, Next, Folding, Cut, FindPath, AddTrans, NextState, NextFrame, Running, vars
    <2> QED BY <2>1, <2>2
<1> QED BY SpecIInv, <1>1, <1>2, PTL DEF Spec
=============================================================================

--------------------------- MODULE BddFold_proofs ---------------------------
(***************************************************************************)
(* Proofs about BddFold, for every number of frames and pins and every     *)
(* circuit: the states of a frame are a partition of the words before it,  *)
(* the machine that is written is deterministic, complete and minimal, it  *)
(* shows the outputs of the circuit, and the equivalence check finds them. *)
(***************************************************************************)
EXTENDS BddFold, STG_proofs

-----------------------------------------------------------------------------
(* The tables of the frame at work                                         *)

\* What bddStateEncode makes of the cut: a table whose states agree on the
\* outputs of the frame and on the states that follow.
LEMMA CutIsTable ==
    ASSUME i \in Nat
    PROVE  /\ IsTable(Listed(NodePathsUnderCut), i)
           /\ \A m \in DOMAIN Listed(NodePathsUnderCut) : Listed(NodePathsUnderCut)[m] \in NodePathsUnderCut
           /\ \A m \in DOMAIN Listed(NodePathsUnderCut) :
                 \A w, u \in Listed(NodePathsUnderCut)[m] : Hyper(w) = Hyper(u)
<1> DEFINE S == NodePathsUnderCut
<1>1. S \subseteq SUBSET Words(i)
    BY DEF NodePathsUnderCut
<1>2. ASSUME NEW w \in Words(i) PROVE \E c \in S : w \in c
    <2> DEFINE c == {u \in Words(i) : Hyper(u) = Hyper(w)}
    <2>1. w \in c
        OBVIOUS
    <2>2. c \in S
        <3>1. Hyper(w) \in {Hyper(u) : u \in Words(i)}
            OBVIOUS
        <3> QED BY <3>1 DEF NodePathsUnderCut
    <2> QED BY <2>1, <2>2
<1>3. \A c, d \in S : c # d => c \cap d = {}
    BY DEF NodePathsUnderCut
<1>4. \A c \in S : \A w, u \in c : Hyper(w) = Hyper(u)
    BY DEF NodePathsUnderCut
<1> HIDE DEF S
<1>5. IsTable(Listed(S), i) /\ \A m \in DOMAIN Listed(S) : Listed(S)[m] \in S
    BY <1>1, <1>2, <1>3, ListedIsTable
<1> QED BY <1>4, <1>5 DEF S

\* Words of different states differ in what follows them.
LEMMA CutTellsApart ==
    ASSUME i \in Nat,
           NEW c \in DOMAIN Listed(NodePathsUnderCut), NEW d \in DOMAIN Listed(NodePathsUnderCut), c # d,
           NEW w \in Listed(NodePathsUnderCut)[c], NEW u \in Listed(NodePathsUnderCut)[d]
    PROVE  Hyper(w) # Hyper(u)
<1> DEFINE tb == Listed(NodePathsUnderCut)
<1>1. IsTable(tb, i) /\ tb[c] \in NodePathsUnderCut /\ tb[d] \in NodePathsUnderCut
    BY CutIsTable
<1> HIDE DEF tb
<1>2. w \in Words(i) /\ u \in Words(i) /\ u \notin tb[c]
    BY <1>1 DEF IsTable, tb
<1>3. w \in tb[c]
    BY DEF tb
<1>4. \A v \in Words(i) : Hyper(v) = Hyper(w) => v \in tb[c]
    BY <1>1, <1>3 DEF NodePathsUnderCut
<1> QED BY <1>2, <1>4

\* The words of a state cannot be told apart by what follows them.
Agree == \A m \in DOMAIN csts : \A w, u \in csts[m] : Hyper(w) = Hyper(u)

\* What the tables hold while a frame is at work.
Tables ==
    /\ ntk \in Circuits
    /\ pc \in {"cut", "path", "trans", "done"}
    /\ i \in 0 .. NTimeFrame - 1 /\ cCnt \in Nat /\ nCnt \in Nat
    /\ pc = "done" => i = 0
    /\ pc # "done" => IsTable(nsts, i + 1)
    /\ i = NTimeFrame - 1 /\ pc # "done" => nsts = DummyState(NTimeFrame)
    /\ pc \in {"path", "trans"} => IsTable(csts, i) /\ Agree
    /\ i = 0 /\ pc \in {"path", "trans"} => csts = DummyState(0)
    /\ pc = "trans" => cCnt \in DOMAIN csts /\ path \in csts[cCnt]

\* Hyper looks at the circuit, the frame and the states of the next frame.
LEMMA AgreeUnchanged == UNCHANGED <<ntk, i, csts, nsts>> => Agree' = Agree
BY DEF Agree, Hyper, Valid, nodeVec, Outputs, Pos, nPo

LEMMA InitTables == Init => Tables
<1> SUFFICES ASSUME Init PROVE Tables
    OBVIOUS
<1>1. NTimeFrame \in Nat /\ NTimeFrame - 1 \in 0 .. NTimeFrame - 1 /\ (NTimeFrame - 1) + 1 = NTimeFrame
    BY STGAssumption
<1>2. IsTable(nsts, i + 1)
    BY <1>1, DummyIsTable DEF Init
<1> QED BY <1>1, <1>2 DEF Init, Tables

LEMMA CutTables == Tables /\ Cut => Tables'
<1> SUFFICES ASSUME Tables, Cut PROVE Tables'
    OBVIOUS
<1>1. i \in Nat /\ pc = "cut" /\ pc' = "path" /\ UNCHANGED <<ntk, i, nsts, nCnt>> /\ cCnt' = 0
    BY DEF Tables, Cut
<1>2. CASE i = 0
    <2>1. csts' = DummyState(0)
        BY <1>2 DEF Cut
    <2>2. IsTable(csts', 0) /\ DOMAIN csts' = {0} /\ csts'[0] = Words(0)
        BY <2>1, DummyIsTable DEF DummyState
    <2>3. \A m \in DOMAIN csts' : \A w, u \in csts'[m] : w = u
        BY <2>2, EmptyWord
    <2>4. Agree'
        BY <2>3 DEF Agree
    <2> QED BY <1>1, <1>2, <2>1, <2>2, <2>4 DEF Tables
<1>3. CASE i # 0
    <2>1. csts' = Listed(NodePathsUnderCut)
        BY <1>3 DEF Cut
    <2>2. IsTable(csts', i) /\ \A m \in DOMAIN csts' : \A w, u \in csts'[m] : Hyper(w) = Hyper(u)
        BY <1>1, <2>1, CutIsTable
    <2>3. Agree'
        BY <1>1, <2>2 DEF Agree, Hyper, Valid, nodeVec, Outputs, Pos, nPo
    <2> QED BY <1>1, <1>3, <2>2, <2>3 DEF Tables
<1> QED BY <1>2, <1>3

LEMMA FindPathTables == Tables /\ FindPath => Tables'
BY AgreeUnchanged DEF Tables, FindPath

LEMMA AddTransTables == Tables /\ AddTrans => Tables'
BY AgreeUnchanged DEF Tables, AddTrans

LEMMA NextStateTables == Tables /\ NextState => Tables'
BY AgreeUnchanged DEF Tables, NextState

LEMMA NextFrameTables == Tables /\ NextFrame => Tables'
<1> SUFFICES ASSUME Tables, NextFrame PROVE Tables'
    OBVIOUS
<1>0. /\ NTimeFrame \in Nat /\ pc = "path" /\ i \in 0 .. NTimeFrame - 1 /\ IsTable(csts, i) /\ nsts' = csts
      /\ UNCHANGED <<ntk, csts, cCnt, nCnt>>
    BY STGAssumption DEF Tables, NextFrame
<1>1. CASE i = 0
    <2>1. pc' = "done" /\ i' = 0
        BY <1>1 DEF NextFrame
    <2> QED BY <1>0, <1>1, <2>1 DEF Tables
<1>2. CASE i # 0
    <2>1. pc' = "cut" /\ i' = i - 1
        BY <1>2 DEF NextFrame
    <2>2. i' \in 0 .. NTimeFrame - 1 /\ i' # NTimeFrame - 1 /\ i' + 1 = i
        BY <1>0, <1>2, <2>1
    <2>3. IsTable(nsts', i' + 1)
        BY <1>0, <2>2
    <2> QED BY <1>0, <2>1, <2>2, <2>3 DEF Tables
<1> QED BY <1>1, <1>2

LEMMA RestTables == Tables /\ (CheckEqv \/ Running \/ UNCHANGED vars) => Tables'
<1>1. CheckEqv \/ Running \/ UNCHANGED vars => UNCHANGED <<ntk, foldVars>>
    BY DEF CheckEqv, Running, vars
<1> QED BY <1>1, AgreeUnchanged DEF foldVars, Tables

LEMMA SpecTables == Spec => []Tables
<1>1. Tables /\ [Next]_vars => Tables'
    BY CutTables, FindPathTables, AddTransTables, NextStateTables, NextFrameTables, RestTables
    DEF Next, Folding
<1> QED BY InitTables, <1>1, PTL DEF Spec

\* The words before a frame fall into its states, each into one, whatever
\* the hyper-function is (Extra_bddNodePathsUnderCut, bddStateEncode).
THEOREM StatesPartitionHolds == Spec => []StatesPartition
<1>1. Tables => StatesPartition
    <2> SUFFICES ASSUME Tables, pc # "done" PROVE StatesPartition
        BY DEF StatesPartition
    <2>1. IsTable(nsts, i + 1)
        BY DEF Tables
    <2>2. UNION Range(nsts) = Words(i + 1)
        BY <2>1 DEF IsTable, Range
    <2> QED BY <2>1, <2>2 DEF IsTable, StatesPartition
<1> QED BY SpecTables, <1>1, PTL

-----------------------------------------------------------------------------
(* The machine.  The states of the frames that are done are forgotten by   *)
(* the fold; W recalls them: W[f] is the table of frame f.                 *)

\* The first frame that has a table.
First == IF pc = "cut" THEN i + 1 ELSE i

Recalls(W) ==
    /\ \A f \in First .. NTimeFrame : IsTable(W[f], f)
    /\ W[NTimeFrame] = DummyState(NTimeFrame)
    /\ pc # "done" => W[i + 1] = nsts
    /\ pc \in {"path", "trans"} => W[i] = csts
    /\ pc = "done" => W[0] = DummyState(0)

\* Transition t leads from state c of frame f to state n of the next one: all
\* words of the one go to the other, and show the outputs of the frame.
Leads(W, t, f, c, n) ==
    /\ t.cst = Name(f, c) /\ c \in DOMAIN W[f]
    /\ t.nst = Name(f + 1, n) /\ n \in DOMAIN W[f + 1]
    /\ t.out \in [Pos -> {"0", "1", "-"}]
    /\ \A w \in W[f][c], x \in PinValues : Matches(x, t.in) =>
          /\ Append(w, x) \in W[f + 1][n]
          /\ \A k \in Outputs(ntk) : FrameOf(ntk, k) = f =>
                t.out[ntk.oPerm[k] % nPo] = IF ntk.func[k][Append(w, x)] THEN "1" ELSE "0"

Right(W) == \A t \in transs : \E f \in First .. NTimeFrame - 1, c, n \in Nat : Leads(W, t, f, c, n)

Exactly(s, x) ==
    \E t \in transs : /\ t.cst = s /\ Matches(x, t.in)
                      /\ \A r \in transs : r.cst = s /\ Matches(x, r.in) => r = t

\* The states that are done have one transition for every input,
Complete(W) ==
    \A f \in First .. NTimeFrame - 1 : \A c \in DOMAIN W[f] :
        (f = i /\ pc # "done" => c < cCnt) => \A x \in PinValues : Exactly(Name(f, c), x)

\* the state at work has one for the inputs that lead to the states that were
\* considered, and the others have none.
Current ==
    /\ pc = "path" => \A t \in transs, c \in Nat : t.cst = Name(i, c) => c < cCnt
    /\ pc = "trans" =>
          /\ \A t \in transs, c \in Nat : t.cst = Name(i, c) =>
                \/ c < cCnt
                \/ c = cCnt /\ \E n \in Nat : n < nCnt /\ t.nst = Name(i + 1, n)
          /\ \A n \in DOMAIN nsts, x \in PinValues :
                n < nCnt /\ Append(path, x) \in nsts[n] => Exactly(Name(i, cCnt), x)

\* The inputs that the machine has read lead to the state it is in.
Reached(W) ==
    /\ pc # "done" => st = S0_0 /\ cycle = 0 /\ got = <<>> /\ out = <<>>
    /\ pc = "done" =>
          \/ st = Star /\ cycle = 0
          \/ /\ cycle \in 0 .. NTimeFrame - 1
             /\ \E c \in DOMAIN W[cycle] :
                   st = Name(cycle, c) /\ (IF cycle = 0 THEN <<>> ELSE got) \in W[cycle][c]

\* The states of the frames that are done, under their names in the STG.
Named(W) == {q \in (First .. NTimeFrame) \X Nat : q[2] \in DOMAIN W[q[1]]}

\* What comes next tells the words w and u of frame f apart: an output of the
\* frame or the state that follows.
Differ(W, f, w, u) ==
    \E x \in PinValues :
       \/ \E k \in Outputs(ntk) : /\ FrameOf(ntk, k) = f
                                 /\ ~ (ntk.func[k][Append(w, x)] <=> ntk.func[k][Append(u, x)])
       \/ \E n \in DOMAIN W[f + 1] : ~ (Append(w, x) \in W[f + 1][n] <=> Append(u, x) \in W[f + 1][n])

\* The states are counted, none is empty, and no two can be taken for one.
Told(W) ==
    /\ IsFiniteSet(Named(W)) /\ stsSum = Cardinality(Named(W))
    /\ \A f \in First .. NTimeFrame : \A c \in DOMAIN W[f] : W[f][c] # {}
    /\ \A f \in First .. NTimeFrame - 1 : \A c, d \in DOMAIN W[f] : c # d =>
          \A w \in W[f][c], u \in W[f][d] : Differ(W, f, w, u)

History(W) == Recalls(W) /\ Right(W) /\ Complete(W) /\ Current /\ Reached(W) /\ Told(W)

IInv == Tables /\ \E W : History(W)

\* Every frame has a word.
LEMMA WordsExist ==
    ASSUME NEW n \in Nat
    PROVE  Words(n) # {}
<1> DEFINE x == [q \in 0 .. NPi - 1 |-> TRUE]
<1>1. [f \in 1 .. n |-> x] \in Words(n)
    BY DEF Words, PinValues
<1> QED BY <1>1

LEMMA InitHistory == Init => \E W : History(W)
<1> SUFFICES ASSUME Init PROVE \E W : History(W)
    OBVIOUS
<1>0. NTimeFrame \in Nat /\ First = NTimeFrame /\ i + 1 = NTimeFrame /\ pc = "cut"
    BY STGAssumption DEF Init, First
<1> PICK W : W = [f \in {NTimeFrame} |-> DummyState(NTimeFrame)]
    OBVIOUS
<1>1. W[NTimeFrame] = DummyState(NTimeFrame)
    OBVIOUS
<1>2. Recalls(W)
    BY <1>0, <1>1, DummyIsTable DEF Recalls, Init
<1>3. Right(W) /\ Complete(W) /\ Current /\ Reached(W)
    BY <1>0 DEF Right, Complete, Current, Reached, Init, STGInit
<1>4. Told(W)
    <2>1. DOMAIN W[NTimeFrame] = {0} /\ W[NTimeFrame][0] # {}
        BY <1>0, <1>1, WordsExist DEF DummyState
    <2>2. Named(W) = {<<NTimeFrame, 0>>}
        BY <1>0, <2>1 DEF Named
    <2>3. IsFiniteSet(Named(W)) /\ Cardinality(Named(W)) = 1
        BY <2>2, FS_Singleton
    <2> QED BY <1>0, <2>1, <2>3 DEF Told, Init
<1> QED BY <1>2, <1>3, <1>4 DEF History

\* nodeVec finds the output of the frame that is shown on a pin.
LEMMA NodeVecOf ==
    ASSUME Tables, NEW k \in Outputs(ntk), FrameOf(ntk, k) = i, NEW pos, pos = ntk.oPerm[k] % nPo
    PROVE  pos \in Valid /\ \A v : nodeVec(pos, v) = ntk.func[k][v]
<1>1. /\ nPo \in Nat /\ NTimeFrame \in Nat
      /\ ntk.oPerm \in [Outputs(ntk) -> 0 .. nPo * NTimeFrame - 1]
      /\ \A m \in Outputs(ntk) : ntk.oPerm[m] = ntk.oPerm[k] => m = k
    BY BddFoldAssumption, STGAssumption DEF Tables, Injection, IsInjective, nPo
<1>2. nPo * NTimeFrame = NTimeFrame * nPo
    BY <1>1
<1>3. ntk.oPerm[k] \in 0 .. NTimeFrame * nPo - 1
    BY <1>1, <1>2
<1>4. pos \in Pos /\ ntk.oPerm[k] = i * nPo + pos
    BY <1>1, <1>3, FrameAndItem DEF FrameOf, nPo, Pos
<1>5. pos \in Valid
    BY <1>4 DEF Valid
<1>6. (CHOOSE m \in Outputs(ntk) : ntk.oPerm[m] = i * nPo + pos) = k
    BY <1>1, <1>4
<1> QED BY <1>5, <1>6 DEF nodeVec

\* On every pin that is valid an output of the frame is shown.
LEMMA ValidShows ==
    ASSUME Tables, NEW pos \in Valid
    PROVE  \E k \in Outputs(ntk) : FrameOf(ntk, k) = i /\ \A v : nodeVec(pos, v) = ntk.func[k][v]
<1>1. PICK k \in Outputs(ntk) : ntk.oPerm[k] = i * nPo + pos
    BY DEF Valid
<1>2. nPo \in Nat /\ i \in Nat /\ pos \in 0 .. nPo - 1
    BY BddFoldAssumption DEF Tables, nPo, Valid, Pos
<1>3. (i * nPo + pos) \div nPo = i /\ (i * nPo + pos) % nPo = pos
    BY <1>2, ItemOfFrame
<1>4. FrameOf(ntk, k) = i /\ pos = ntk.oPerm[k] % nPo
    BY <1>1, <1>3 DEF FrameOf, nPo
<1> QED BY <1>4, NodeVecOf

LEMMA ToldUnchanged ==
    ASSUME NEW W, Told(W), UNCHANGED <<ntk, stsSum>>, First' = First
    PROVE  Told(W)'
BY DEF Told, Named, Differ, Outputs, FrameOf

\* The cut gives words two states only if the hyper-function differs, and
\* counts the states.
LEMMA CutTold ==
    ASSUME Tables, Tables', Cut, NEW W, Recalls(W), Told(W), First = i + 1, First' = i,
           NEW V, V[i] = csts', \A f \in i + 1 .. NTimeFrame : V[f] = W[f]
    PROVE  Told(V)'
<1>0. /\ pc = "cut" /\ pc' = "path" /\ i \in 0 .. NTimeFrame - 1 /\ NTimeFrame \in Nat
      /\ UNCHANGED <<ntk, i, nsts>> /\ W[i + 1] = nsts /\ V[i + 1] = nsts
      /\ stsSum' = stsSum + Cardinality(DOMAIN csts')
    BY STGAssumption DEF Tables, Cut, Recalls
<1>1. IsTable(csts', i)
    BY <1>0 DEF Tables
<1>2. \A c \in DOMAIN csts' : csts'[c] # {}
    <2>1. CASE i = 0
        <3>1. csts' = DummyState(0)
            BY <2>1 DEF Cut
        <3> QED BY <3>1, EmptyWord DEF DummyState
    <2>2. CASE i # 0
        <3>1. csts' = Listed(NodePathsUnderCut)
            BY <2>2 DEF Cut
        <3>2. \A m \in DOMAIN csts' : csts'[m] \in NodePathsUnderCut
            BY <1>0, <3>1, CutIsTable
        <3>3. \A c \in NodePathsUnderCut : c # {}
            BY DEF NodePathsUnderCut
        <3> QED BY <3>2, <3>3
    <2> QED BY <2>1, <2>2
<1>3. ASSUME NEW c \in DOMAIN csts', NEW d \in DOMAIN csts', c # d,
             NEW w \in csts'[c], NEW u \in csts'[d]
      PROVE  Differ(V, i, w, u)
    <2>1. i # 0
        <3> SUFFICES ASSUME i = 0 PROVE FALSE
            OBVIOUS
        <3>1. csts' = DummyState(0)
            BY DEF Cut
        <3> QED BY <1>3, <3>1 DEF DummyState
    <2>2. csts' = Listed(NodePathsUnderCut)
        BY <2>1 DEF Cut
    <2>3. Hyper(w) # Hyper(u)
        BY <1>0, <1>3, <2>2, CutTellsApart
    <2>4. \/ \E a \in Valid \X PinValues :
                ~ (nodeVec(a[1], Append(w, a[2])) <=> nodeVec(a[1], Append(u, a[2])))
          \/ \E a \in (DOMAIN nsts) \X PinValues :
                ~ (Append(w, a[2]) \in nsts[a[1]] <=> Append(u, a[2]) \in nsts[a[1]])
        BY <2>3 DEF Hyper
    <2>5. ASSUME NEW a \in Valid \X PinValues,
                 ~ (nodeVec(a[1], Append(w, a[2])) <=> nodeVec(a[1], Append(u, a[2])))
          PROVE  Differ(V, i, w, u)
        <3>1. a[1] \in Valid /\ a[2] \in PinValues
            OBVIOUS
        <3>2. PICK k \in Outputs(ntk) : FrameOf(ntk, k) = i /\ \A v : nodeVec(a[1], v) = ntk.func[k][v]
            BY <3>1, ValidShows
        <3> QED BY <2>5, <3>1, <3>2 DEF Differ
    <2>6. ASSUME NEW a \in (DOMAIN nsts) \X PinValues,
                 ~ (Append(w, a[2]) \in nsts[a[1]] <=> Append(u, a[2]) \in nsts[a[1]])
          PROVE  Differ(V, i, w, u)
        BY <1>0, <2>6 DEF Differ
    <2> QED BY <2>4, <2>5, <2>6
<1>4. ASSUME NEW f \in i .. NTimeFrame - 1, NEW c \in DOMAIN V[f], NEW d \in DOMAIN V[f], c # d,
             NEW w \in V[f][c], NEW u \in V[f][d]
      PROVE  Differ(V, f, w, u)
    <2>1. CASE f = i
        BY <1>3, <1>4, <2>1
    <2>2. CASE f # i
        <3>1. f \in First .. NTimeFrame - 1 /\ V[f] = W[f] /\ V[f + 1] = W[f + 1]
            BY <1>0, <2>2
        <3>2. Differ(W, f, w, u)
            BY <1>4, <3>1 DEF Told
        <3> QED BY <3>1, <3>2 DEF Differ
    <2> QED BY <2>1, <2>2
<1>5. \A f \in i .. NTimeFrame : \A c \in DOMAIN V[f] : V[f][c] # {}
    BY <1>0, <1>2 DEF Told
<1> DEFINE Here == {q \in {i} \X Nat : q[2] \in DOMAIN csts'}
<1>6. Named(V)' = Named(W) \cup Here /\ Named(W) \cap Here = {}
    BY <1>0 DEF Named
<1>7. IsFiniteSet(Here) /\ Cardinality(Here) = Cardinality(DOMAIN csts')
    <2>1. PICK m \in Nat : DOMAIN csts' = 0 .. m - 1
        BY <1>1 DEF IsTable
    <2>2. IsFiniteSet(DOMAIN csts')
        BY <2>1, FS_Interval
    <2> DEFINE g == [c \in DOMAIN csts' |-> <<i, c>>]
    <2>3. g \in [DOMAIN csts' -> Here]
        BY <1>0, <2>1
    <2>4. \A a, b \in DOMAIN csts' : g[a] = g[b] => a = b
        OBVIOUS
    <2>5. \A q \in Here : \E c \in DOMAIN csts' : g[c] = q
        OBVIOUS
    <2> HIDE DEF g, Here
    <2>6. g \in Bijection(DOMAIN csts', Here)
        BY <2>3, <2>4, <2>5 DEF Bijection, Injection, Surjection, IsInjective
    <2>7. ExistsBijection(DOMAIN csts', Here)
        BY <2>6 DEF ExistsBijection
    <2> QED BY <2>2, <2>7, FS_Bijection
<1>8. IsFiniteSet(Named(V)') /\ Cardinality(Named(V)') = stsSum'
    <2> HIDE DEF Here
    <2>1. IsFiniteSet(Named(W)) /\ stsSum = Cardinality(Named(W))
        BY DEF Told
    <2>2. /\ IsFiniteSet(Named(W) \cup Here)
          /\ Cardinality(Named(W) \cup Here)
                = Cardinality(Named(W)) + Cardinality(Here) - Cardinality(Named(W) \cap Here)
        BY <1>7, <2>1, FS_Union
    <2>3. Cardinality(Named(W) \cap Here) = 0 /\ Cardinality(Named(W)) \in Nat /\ Cardinality(Here) \in Nat
        BY <1>6, <1>7, <2>1, FS_EmptySet, FS_CardinalityType
    <2> QED BY <1>0, <1>6, <1>7, <2>1, <2>2, <2>3
<1>9. \A f, w, u : Differ(V, f, w, u)' <=> Differ(V, f, w, u)
    BY <1>0 DEF Differ, Outputs, FrameOf
<1> QED BY <1>0, <1>4, <1>5, <1>8, <1>9 DEF Told

LEMMA CutHistory ==
    ASSUME Tables, Tables', Cut, NEW W, History(W)
    PROVE  \E V : History(V)'
<1>0. /\ pc = "cut" /\ pc' = "path" /\ i \in 0 .. NTimeFrame - 1 /\ NTimeFrame \in Nat /\ cCnt' = 0
      /\ UNCHANGED <<ntk, i, nsts, path, nCnt, transs, st, cycle, got, out>>
    BY STGAssumption DEF Tables, Cut, runVars
<1>1. First = i + 1 /\ First' = i
    BY <1>0 DEF First
<1> PICK V : V = [f \in i .. NTimeFrame |-> IF f = i THEN csts' ELSE W[f]]
    OBVIOUS
<1>2. V[i] = csts' /\ \A f \in i + 1 .. NTimeFrame : V[f] = W[f]
    BY <1>0
<1>3. Recalls(V)'
    <2>1. IsTable(csts', i)
        BY <1>0 DEF Tables
    <2>2. \A f \in i .. NTimeFrame : IsTable(V[f], f)
        BY <1>0, <1>1, <1>2, <2>1 DEF History, Recalls
    <2>3. V[i + 1] = nsts /\ V[NTimeFrame] = DummyState(NTimeFrame)
        BY <1>0, <1>2 DEF History, Recalls
    <2> QED BY <1>0, <1>1, <1>2, <2>2, <2>3 DEF Recalls
<1>4. Right(V)'
    <2> SUFFICES ASSUME NEW t \in transs
                 PROVE  \E f \in i .. NTimeFrame - 1, c, n \in Nat : Leads(V, t, f, c, n)'
        BY <1>0, <1>1 DEF Right
    <2>1. PICK f \in i + 1 .. NTimeFrame - 1, c \in Nat, n \in Nat : Leads(W, t, f, c, n)
        BY <1>1 DEF History, Right
    <2>2. f \in i .. NTimeFrame - 1 /\ V[f] = W[f] /\ V[f + 1] = W[f + 1]
        BY <1>0, <1>2
    <2>3. Leads(V, t, f, c, n)'
        BY <1>0, <2>1, <2>2 DEF Leads, Outputs, FrameOf, Pos, nPo
    <2> QED BY <2>2, <2>3
<1>5. Complete(V)'
    <2> SUFFICES ASSUME NEW f \in i .. NTimeFrame - 1, NEW c \in DOMAIN V[f], f = i => c < 0,
                        NEW x \in PinValues
                 PROVE  Exactly(Name(f, c), x)'
        BY <1>0, <1>1 DEF Complete
    <2>1. f # i
        BY <1>0, <1>2 DEF Tables, IsTable
    <2>2. f \in i + 1 .. NTimeFrame - 1 /\ V[f] = W[f]
        BY <1>0, <1>2, <2>1
    <2>3. Exactly(Name(f, c), x)
        BY <1>1, <2>1, <2>2 DEF History, Complete
    <2> QED BY <1>0, <2>3 DEF Exactly
<1>6. Current'
    <2> SUFFICES ASSUME NEW t \in transs, NEW c \in Nat, t.cst = Name(i, c) PROVE FALSE
        BY <1>0 DEF Current
    <2>1. PICK f \in i + 1 .. NTimeFrame - 1, d \in Nat, n \in Nat : Leads(W, t, f, d, n)
        BY <1>1 DEF History, Right
    <2> QED BY <1>0, <2>1 DEF Leads, Name
<1>7. Reached(V)'
    BY <1>0 DEF History, Reached, S0_0, Name
<1>8. Told(V)'
    BY <1>0, <1>1, <1>2, CutTold DEF History
<1> QED BY <1>3, <1>4, <1>5, <1>6, <1>7, <1>8 DEF History

\* What does not touch the transitions keeps what is known of them.
LEMMA RightUnchanged ==
    ASSUME NEW W, Right(W), UNCHANGED <<ntk, transs>>, First' = First
    PROVE  Right(W)'
<1> SUFFICES ASSUME NEW t \in transs
             PROVE  \E f \in First .. NTimeFrame - 1, c, n \in Nat : Leads(W, t, f, c, n)'
    BY DEF Right
<1>1. PICK f \in First .. NTimeFrame - 1, c \in Nat, n \in Nat : Leads(W, t, f, c, n)
    BY DEF Right
<1>2. Leads(W, t, f, c, n)'
    BY <1>1 DEF Leads, Outputs, FrameOf, Pos, nPo
<1> QED BY <1>2

LEMMA FindPathHistory ==
    ASSUME Tables, FindPath, NEW W, History(W)
    PROVE  History(W)'
<1>0. /\ pc = "path" /\ pc' = "trans" /\ nCnt' = 0
      /\ UNCHANGED <<ntk, i, csts, nsts, cCnt, transs, st, cycle, got, out>>
    BY DEF FindPath, runVars
<1>1. First' = First
    BY <1>0 DEF First
<1>2. Recalls(W)'
    BY <1>0, <1>1 DEF History, Recalls
<1>3. Right(W)'
    BY <1>0, <1>1, RightUnchanged DEF History
<1>4. Complete(W)'
    BY <1>0, <1>1 DEF History, Complete, Exactly
<1>5. Current'
    <2>1. \A n \in DOMAIN nsts : ~ (n < 0)
        BY <1>0 DEF Tables, IsTable
    <2> QED BY <1>0, <2>1 DEF History, Current
<1>6. Reached(W)'
    BY <1>0 DEF History, Reached, S0_0, Name
<1>7. Told(W)'
    BY <1>0, <1>1, ToldUnchanged DEF History, FindPath
<1> QED BY <1>2, <1>3, <1>4, <1>5, <1>6, <1>7 DEF History

LEMMA NextStateHistory ==
    ASSUME Tables, NextState, NEW W, History(W)
    PROVE  History(W)'
<1>0. /\ pc = "trans" /\ pc' = "path" /\ cCnt' = cCnt + 1 /\ nCnt \notin DOMAIN nsts
      /\ i \in 0 .. NTimeFrame - 1 /\ cCnt \in Nat /\ nCnt \in Nat
      /\ UNCHANGED <<ntk, i, csts, nsts, path, nCnt, transs, st, cycle, got, out>>
    BY DEF NextState, runVars, Tables
<1>1. First' = First /\ First = i
    BY <1>0 DEF First
<1>2. Recalls(W)'
    BY <1>0, <1>1 DEF History, Recalls
<1>3. Right(W)'
    BY <1>0, <1>1, RightUnchanged DEF History
<1>4. ASSUME NEW x \in PinValues PROVE Exactly(Name(i, cCnt), x)
    <2>1. path \in Words(i) /\ i \in Nat
        BY <1>0 DEF Tables, IsTable
    <2>2. Append(path, x) \in Words(i + 1)
        BY <2>1, AppendWord
    <2>3. PICK n \in DOMAIN nsts : Append(path, x) \in nsts[n]
        BY <1>0, <2>2 DEF Tables, IsTable
    <2>4. n < nCnt
        <3>1. PICK m \in Nat : DOMAIN nsts = 0 .. m - 1
            BY <1>0 DEF Tables, IsTable
        <3> QED BY <1>0, <2>3, <3>1
    <2> QED BY <1>0, <2>3, <2>4 DEF History, Current
<1>5. Complete(W)'
    <2> SUFFICES ASSUME NEW f \in i .. NTimeFrame - 1, NEW c \in DOMAIN W[f], f = i => c < cCnt + 1,
                        NEW x \in PinValues
                 PROVE  Exactly(Name(f, c), x)
        BY <1>0, <1>1 DEF Complete, Exactly
    <2>1. CASE f = i /\ c = cCnt
        BY <1>4, <2>1
    <2>2. CASE ~ (f = i /\ c = cCnt)
        <3>1. f = i => c < cCnt
            <4>1. f = i => c \in Nat
                BY <1>0 DEF Tables, IsTable, History, Recalls
            <4> QED BY <1>0, <4>1, <2>2
        <3> QED BY <1>0, <1>1, <3>1 DEF History, Complete
    <2> QED BY <2>1, <2>2
<1>6. Current'
    <2>1. \A t \in transs, c \in Nat : t.cst = Name(i, c) => c < cCnt \/ c = cCnt
        BY <1>0 DEF History, Current
    <2>2. \A c \in Nat : c < cCnt \/ c = cCnt => c < cCnt + 1
        BY <1>0
    <2> QED BY <1>0, <2>1, <2>2 DEF Current
<1>7. Reached(W)'
    BY <1>0 DEF History, Reached, S0_0, Name
<1>8. Told(W)'
    BY <1>0, <1>1, ToldUnchanged DEF History, NextState
<1> QED BY <1>2, <1>3, <1>5, <1>6, <1>7, <1>8 DEF History

LEMMA NextFrameHistory ==
    ASSUME Tables, Tables', NextFrame, NEW W, History(W)
    PROVE  History(W)'
<1>0. /\ pc = "path" /\ cCnt \notin DOMAIN csts /\ nsts' = csts
      /\ i \in 0 .. NTimeFrame - 1 /\ NTimeFrame \in Nat /\ cCnt \in Nat
      /\ pc' = (IF i = 0 THEN "done" ELSE "cut") /\ i' = (IF i = 0 THEN 0 ELSE i - 1)
      /\ UNCHANGED <<ntk, csts, cCnt, transs, st, cycle, got, out>>
    BY STGAssumption DEF NextFrame, runVars, Tables
<1>1. First' = First /\ First = i
    BY <1>0 DEF First
<1>2. W[i] = csts /\ \A f \in i .. NTimeFrame : IsTable(W[f], f)
    BY <1>0, <1>1 DEF History, Recalls
<1>3. Recalls(W)'
    <2>1. i = 0 => W[0] = DummyState(0)
        BY <1>0, <1>2 DEF Tables
    <2>2. i # 0 => i' + 1 = i
        BY <1>0
    <2> QED BY <1>0, <1>1, <1>2, <2>1, <2>2 DEF History, Recalls
<1>4. Right(W)'
    BY <1>0, <1>1, RightUnchanged DEF History
<1>5. Complete(W)'
    <2> SUFFICES ASSUME NEW f \in i .. NTimeFrame - 1, NEW c \in DOMAIN W[f], NEW x \in PinValues
                 PROVE  Exactly(Name(f, c), x)
        BY <1>0, <1>1 DEF Complete, Exactly
    <2>1. f = i => c < cCnt
        <3>1. PICK m \in Nat : DOMAIN csts = 0 .. m - 1
            BY <1>0 DEF Tables, IsTable
        <3> QED BY <1>0, <1>2, <3>1
    <2> QED BY <1>0, <1>1, <2>1 DEF History, Complete
<1>6. Current'
    BY <1>0 DEF Current
<1>7. Reached(W)'
    <2>1. st = S0_0 /\ cycle = 0 /\ got = <<>> /\ out = <<>>
        BY <1>0 DEF History, Reached
    <2>2. CASE i = 0
        <3>1. W[0] = DummyState(0)
            BY <1>0, <1>2, <2>2 DEF Tables
        <3>2. 0 \in DOMAIN W[0] /\ <<>> \in W[0][0]
            BY <3>1, EmptyWord DEF DummyState
        <3> QED BY <1>0, <2>1, <2>2, <3>2 DEF Reached, S0_0
    <2>3. CASE i # 0
        BY <1>0, <2>1, <2>3 DEF Reached, S0_0, Name
    <2> QED BY <2>2, <2>3
<1>8. Told(W)'
    BY <1>0, <1>1, ToldUnchanged DEF History, NextFrame
<1> QED BY <1>3, <1>4, <1>5, <1>6, <1>7, <1>8 DEF History

-----------------------------------------------------------------------------
(* The transitions that buildTrans adds for one next state                 *)

\* Every input that leads to the state has a code.
LEMMA GuardedInputs ==
    ASSUME NEW n, NEW x \in PinValues
    PROVE  x \in Guarded(n) <=> Append(path, x) \in nsts[n]
BY SignNotEmpty DEF Guarded

\* The words of one state go the same way and show the same outputs.
LEMMA SameState ==
    ASSUME Tables, pc = "trans", NEW w \in csts[cCnt], NEW x \in PinValues
    PROVE  /\ \A n \in DOMAIN nsts : Append(w, x) \in nsts[n] <=> Append(path, x) \in nsts[n]
           /\ \A k \in Valid : nodeVec(k, Append(w, x)) <=> nodeVec(k, Append(path, x))
<1>1. Hyper(w) = Hyper(path)
    BY DEF Tables, Agree
<1>2. {a \in Valid \X PinValues : nodeVec(a[1], Append(w, a[2]))}
        = {a \in Valid \X PinValues : nodeVec(a[1], Append(path, a[2]))}
    BY <1>1 DEF Hyper
<1>3. {a \in (DOMAIN nsts) \X PinValues : Append(w, a[2]) \in nsts[a[1]]}
        = {a \in (DOMAIN nsts) \X PinValues : Append(path, a[2]) \in nsts[a[1]]}
    BY <1>1 DEF Hyper
<1>4. ASSUME NEW n \in DOMAIN nsts
      PROVE  Append(w, x) \in nsts[n] <=> Append(path, x) \in nsts[n]
    <2>1. <<n, x>> \in (DOMAIN nsts) \X PinValues /\ <<n, x>>[1] = n /\ <<n, x>>[2] = x
        OBVIOUS
    <2> QED BY <1>3, <2>1
<1>5. ASSUME NEW k \in Valid
      PROVE  nodeVec(k, Append(w, x)) <=> nodeVec(k, Append(path, x))
    <2>1. <<k, x>> \in Valid \X PinValues /\ <<k, x>>[1] = k /\ <<k, x>>[2] = x
        OBVIOUS
    <2> QED BY <1>2, <2>1
<1> QED BY <1>4, <1>5

LEMMA NewLeads ==
    ASSUME Tables, pc = "trans", nCnt \in DOMAIN nsts, NEW W, Recalls(W),
           NEW C \in Cubes(Guarded(nCnt), Sign(oFuncs, Pos)), NEW p \in C, NEW t,
           t = [in |-> p, cst |-> Name(i, cCnt), nst |-> Name(i + 1, nCnt),
                out |-> OutBits(oFuncs, Pos, p)]
    PROVE  Leads(W, t, i, cCnt, nCnt)
<1>1. W[i] = csts /\ W[i + 1] = nsts /\ cCnt \in DOMAIN csts
    BY DEF Recalls, Tables
<1>2. Guarded(nCnt) \in SUBSET PinValues
    BY DEF Guarded
<1>3. t.out \in [Pos -> {"0", "1", "-"}]
    BY OutBitsType
<1>4. nPo \in Nat /\ DOMAIN oFuncs = Valid /\ Valid \subseteq 0 .. nPo - 1 /\ Pos = 0 .. nPo - 1
    BY BddFoldAssumption DEF Tables, nPo, oFuncs, Valid, Pos
<1>5. ASSUME NEW w \in csts[cCnt], NEW x \in PinValues, Matches(x, p)
      PROVE  /\ Append(w, x) \in nsts[nCnt]
             /\ \A k \in Outputs(ntk) : FrameOf(ntk, k) = i =>
                   t.out[ntk.oPerm[k] % nPo] = IF ntk.func[k][Append(w, x)] THEN "1" ELSE "0"
    <2>1. x \in Guarded(nCnt)
        BY <1>2, <1>5, CubesPartition
    <2>2. Append(w, x) \in nsts[nCnt]
        BY <2>1, GuardedInputs, SameState
    <2>3. ASSUME NEW k \in Outputs(ntk), FrameOf(ntk, k) = i
          PROVE  t.out[ntk.oPerm[k] % nPo] = IF ntk.func[k][Append(w, x)] THEN "1" ELSE "0"
        <3> DEFINE pos == ntk.oPerm[k] % nPo
        <3>1. pos \in Valid /\ \A v : nodeVec(pos, v) = ntk.func[k][v]
            BY <2>3, NodeVecOf
        <3> HIDE DEF pos
        <3>2. \A y \in PinValues : Matches(y, p) => Sign(oFuncs, Pos)[x] = Sign(oFuncs, Pos)[y]
            BY <1>2, <1>5, CubesPartition
        <3>3. OutBits(oFuncs, 0 .. nPo - 1, p)[pos] = IF oFuncs[pos][x] THEN "1" ELSE "0"
            <4>1. nPo \in Nat /\ DOMAIN oFuncs \subseteq 0 .. nPo - 1 /\ pos \in DOMAIN oFuncs
                BY <1>4, <3>1
            <4>2. \A y \in PinValues : Matches(y, p) =>
                     Sign(oFuncs, 0 .. nPo - 1)[x] = Sign(oFuncs, 0 .. nPo - 1)[y]
                BY <1>4, <3>2
            <4> QED BY <1>5, <4>1, <4>2, OutBitsRight
        <3>4. oFuncs[pos][x] = nodeVec(pos, Append(path, x))
            BY <3>1 DEF oFuncs
        <3>5. nodeVec(pos, Append(path, x)) <=> ntk.func[k][Append(w, x)]
            BY <3>1, SameState
        <3>6. t.out[pos] = IF ntk.func[k][Append(w, x)] THEN "1" ELSE "0"
            BY <1>4, <3>3, <3>4, <3>5
        <3> QED BY <3>6 DEF pos
    <2> QED BY <2>2, <2>3
<1> QED BY <1>1, <1>3, <1>5 DEF Leads

LEMMA AddTransHistory ==
    ASSUME Tables, AddTrans, NEW W, History(W)
    PROVE  History(W)'
<1> DEFINE New(p) == [in |-> p, cst |-> Name(i, cCnt), nst |-> Name(i + 1, nCnt),
                      out |-> OutBits(oFuncs, Pos, p)]
<1>0. /\ pc = "trans" /\ nCnt \in DOMAIN nsts /\ nCnt' = nCnt + 1
      /\ cCnt \in DOMAIN csts /\ path \in csts[cCnt]
      /\ i \in 0 .. NTimeFrame - 1 /\ NTimeFrame \in Nat /\ cCnt \in Nat /\ nCnt \in Nat
      /\ UNCHANGED <<ntk, pc, i, csts, nsts, cCnt, path, st, cycle, got, out>>
    BY STGAssumption DEF AddTrans, runVars, Tables
<1>1. First' = First /\ First = i /\ W[i] = csts /\ W[i + 1] = nsts
    BY <1>0 DEF First, History, Recalls
\* What is added: one transition for every input that leads to the state.
<1> DEFINE Adds(C) ==
               /\ transs' = transs \cup {New(p) : p \in C}
               /\ \A p \in C : Leads(W, New(p), i, cCnt, nCnt)
               /\ \A p \in C, x \in PinValues : Matches(x, p) => Append(path, x) \in nsts[nCnt]
               /\ \A x \in PinValues : Append(path, x) \in nsts[nCnt] =>
                     \E p \in C : Matches(x, p) /\ \A r \in C : Matches(x, r) => r = p
<1>2. PICK C : Adds(C)
    <2>1. CASE \E w \in csts[cCnt], x \in PinValues : Append(w, x) \in nsts[nCnt]
        <3>1. AddOneTrans(Guarded(nCnt), Sign(oFuncs, Pos), oFuncs, Pos, i, cCnt, nCnt)
            BY <2>1 DEF AddTrans
        <3>2. PICK C \in Cubes(Guarded(nCnt), Sign(oFuncs, Pos)) : transs' = transs \cup {New(p) : p \in C}
            BY <3>1 DEF AddOneTrans
        <3>4. \A p \in C : Leads(W, New(p), i, cCnt, nCnt)
            BY <1>0, NewLeads DEF History
        <3>5. Guarded(nCnt) \in SUBSET PinValues
            BY DEF Guarded
        <3>6. \A x \in PinValues : x \in Guarded(nCnt) <=> Append(path, x) \in nsts[nCnt]
            BY GuardedInputs
        <3>7. \A p \in C, x \in PinValues : Matches(x, p) => Append(path, x) \in nsts[nCnt]
            BY <3>5, <3>6, CubesPartition
        <3>8. \A x \in Guarded(nCnt) : \E p \in C : \A r \in C : Matches(x, r) <=> r = p
            BY <3>2 DEF Cubes
        <3>9. \A x \in PinValues : Append(path, x) \in nsts[nCnt] =>
                 \E p \in C : Matches(x, p) /\ \A r \in C : Matches(x, r) => r = p
            BY <3>6, <3>8
        <3> QED BY <3>2, <3>4, <3>7, <3>9
    <2>2. CASE ~ \E w \in csts[cCnt], x \in PinValues : Append(w, x) \in nsts[nCnt]
        <3>1. transs' = transs \cup {New(p) : p \in {}}
            BY <2>2 DEF AddTrans
        <3>2. \A x \in PinValues : Append(path, x) \notin nsts[nCnt]
            BY <1>0, <2>2
        <3>3. Adds({})
            BY <3>1, <3>2
        <3> HIDE DEF Adds
        <3> QED BY <3>3
    <2> QED BY <2>1, <2>2
<1>3. Recalls(W)'
    BY <1>0, <1>1 DEF History, Recalls
<1>4. Right(W)'
    <2> SUFFICES ASSUME NEW t \in transs'
                 PROVE  \E f \in i .. NTimeFrame - 1, c, n \in Nat : Leads(W, t, f, c, n)'
        BY <1>0, <1>1 DEF Right
    <2>1. PICK f \in i .. NTimeFrame - 1, c \in Nat, n \in Nat : Leads(W, t, f, c, n)
        <3>1. CASE t \in transs
            BY <1>1, <3>1 DEF History, Right
        <3>2. CASE t \notin transs
            <4>1. PICK p \in C : t = New(p)
                BY <1>2, <3>2
            <4>2. i \in i .. NTimeFrame - 1
                BY <1>0
            <4> QED BY <1>0, <1>2, <4>1, <4>2
        <3> QED BY <3>1, <3>2
    <2>2. Leads(W, t, f, c, n)'
        BY <1>0, <2>1 DEF Leads, Outputs, FrameOf, Pos, nPo
    <2> QED BY <2>2
\* Transitions of other states are as they were.
<1>5. ASSUME NEW s, s # Name(i, cCnt), NEW x, Exactly(s, x) PROVE Exactly(s, x)'
    <2>1. PICK t \in transs : /\ t.cst = s /\ Matches(x, t.in)
                              /\ \A r \in transs : r.cst = s /\ Matches(x, r.in) => r = t
        BY <1>5 DEF Exactly
    <2>2. t \in transs' /\ \A r \in transs' : r.cst = s => r \in transs
        BY <1>2, <1>5
    <2> QED BY <2>1, <2>2 DEF Exactly
<1>6. Complete(W)'
    <2> SUFFICES ASSUME NEW f \in i .. NTimeFrame - 1, NEW c \in DOMAIN W[f], f = i => c < cCnt,
                        NEW x \in PinValues
                 PROVE  Exactly(Name(f, c), x)'
        BY <1>0, <1>1 DEF Complete
    <2>1. Exactly(Name(f, c), x)
        BY <1>0, <1>1 DEF History, Complete
    <2>2. Name(f, c) # Name(i, cCnt)
        BY <1>0 DEF Name
    <2> QED BY <1>5, <2>1, <2>2
\* An input has a transition to the one state that it leads to.
<1>7. ASSUME NEW t \in transs, t.cst = Name(i, cCnt), NEW x \in PinValues, Matches(x, t.in)
      PROVE  \E n \in DOMAIN nsts : n < nCnt /\ Append(path, x) \in nsts[n]
    <2>1. PICK f \in i .. NTimeFrame - 1, c \in Nat, n \in Nat : Leads(W, t, f, c, n)
        BY <1>1 DEF History, Right
    <2>2. f = i /\ c = cCnt
        BY <1>7, <2>1 DEF Leads, Name
    <2>3. n \in DOMAIN nsts /\ Append(path, x) \in nsts[n] /\ t.nst = Name(i + 1, n)
        BY <1>0, <1>1, <1>7, <2>1, <2>2 DEF Leads
    <2>4. ~ (cCnt < cCnt)
        BY <1>0
    <2>5. \E m \in Nat : m < nCnt /\ t.nst = Name(i + 1, m)
        BY <1>0, <1>7, <2>4 DEF History, Current
    <2>6. n < nCnt
        BY <2>3, <2>5 DEF Name
    <2> QED BY <2>3, <2>6
<1>8. Current'
    <2>1. ASSUME NEW t \in transs', NEW c \in Nat, t.cst = Name(i, c)
          PROVE  \/ c < cCnt
                 \/ c = cCnt /\ \E n \in Nat : n < nCnt + 1 /\ t.nst = Name(i + 1, n)
        <3>1. CASE t \in transs
            <4>1. \/ c < cCnt
                  \/ c = cCnt /\ \E n \in Nat : n < nCnt /\ t.nst = Name(i + 1, n)
                BY <1>0, <2>1, <3>1 DEF History, Current
            <4>2. \A n \in Nat : n < nCnt => n < nCnt + 1
                BY <1>0
            <4> QED BY <4>1, <4>2
        <3>2. CASE t \notin transs
            <4>1. PICK p \in C : t = New(p)
                BY <1>2, <3>2
            <4>2. c = cCnt /\ t.nst = Name(i + 1, nCnt) /\ nCnt < nCnt + 1
                BY <1>0, <2>1, <4>1 DEF Name
            <4> QED BY <1>0, <4>2
        <3> QED BY <3>1, <3>2
    <2>2. ASSUME NEW n \in DOMAIN nsts, NEW x \in PinValues, n < nCnt + 1, Append(path, x) \in nsts[n]
          PROVE  Exactly(Name(i, cCnt), x)'
        <3>0. n \in Nat /\ \A m \in DOMAIN nsts : Append(path, x) \in nsts[m] => m = n
            BY <1>0, <2>2 DEF Tables, IsTable
        <3>1. CASE n = nCnt
            <4>1. PICK p \in C : Matches(x, p) /\ \A r \in C : Matches(x, r) => r = p
                BY <1>2, <2>2, <3>1
            <4>2. New(p) \in transs' /\ New(p).cst = Name(i, cCnt) /\ New(p).in = p
                BY <1>2
            <4>3. ASSUME NEW r \in transs', r.cst = Name(i, cCnt), Matches(x, r.in) PROVE r = New(p)
                <5>1. r \notin transs
                    <6>1. SUFFICES ASSUME r \in transs PROVE FALSE
                        OBVIOUS
                    <6>2. PICK m \in DOMAIN nsts : m < nCnt /\ Append(path, x) \in nsts[m]
                        BY <1>7, <4>3, <6>1
                    <6> QED BY <1>0, <3>0, <3>1, <6>2
                <5>2. PICK q \in C : r = New(q)
                    BY <1>2, <5>1
                <5>3. q = p
                    BY <4>1, <4>3, <5>2
                <5> QED BY <5>2, <5>3
            <4> QED BY <1>0, <4>1, <4>2, <4>3 DEF Exactly
        <3>2. CASE n # nCnt
            <4>1. n < nCnt
                BY <1>0, <2>2, <3>0, <3>2
            <4>2. Exactly(Name(i, cCnt), x)
                BY <1>0, <2>2, <4>1 DEF History, Current
            <4>3. PICK t \in transs : /\ t.cst = Name(i, cCnt) /\ Matches(x, t.in)
                                      /\ \A r \in transs : r.cst = Name(i, cCnt) /\ Matches(x, r.in) => r = t
                BY <4>2 DEF Exactly
            <4>4. ASSUME NEW r \in transs', r.cst = Name(i, cCnt), Matches(x, r.in) PROVE r = t
                <5>1. r \in transs
                    <6>1. SUFFICES ASSUME r \notin transs PROVE FALSE
                        OBVIOUS
                    <6>2. PICK q \in C : r = New(q)
                        BY <1>2, <6>1
                    <6>3. Append(path, x) \in nsts[nCnt]
                        BY <1>2, <4>4, <6>2
                    <6> QED BY <1>0, <3>0, <3>2, <6>3
                <5> QED BY <4>3, <4>4, <5>1
            <4>5. t \in transs'
                BY <1>2
            <4> QED BY <1>0, <4>3, <4>4, <4>5 DEF Exactly
        <3> QED BY <3>1, <3>2
    <2> QED BY <1>0, <2>1, <2>2 DEF Current
<1>9. Reached(W)'
    BY <1>0 DEF History, Reached, S0_0, Name
<1>10. Told(W)'
    BY <1>0, <1>1, ToldUnchanged DEF History, AddTrans
<1> QED BY <1>3, <1>4, <1>6, <1>8, <1>9, <1>10 DEF History

-----------------------------------------------------------------------------
(* The machine runs                                                        *)

\* A clock cycle takes a transition of the frame of the cycle.
LEMMA ClockLeads ==
    ASSUME Tables, pc = "done", NEW W, History(W), st # Star,
           NEW x \in PinValues, NEW t \in transs, t.cst = st, Matches(x, t.in)
    PROVE  /\ cycle \in 0 .. NTimeFrame - 1
           /\ \E c, n \in Nat :
                 /\ Leads(W, t, cycle, c, n) /\ Read \in W[cycle][c]
                 /\ Append(Read, x) \in W[cycle + 1][n] /\ W[cycle + 1][n] \subseteq Words(cycle + 1)
<1>0. i = 0 /\ First = 0 /\ NTimeFrame \in Nat
    BY STGAssumption DEF Tables, First
<1>1. cycle \in 0 .. NTimeFrame - 1
    BY DEF History, Reached
<1>2. PICK c \in DOMAIN W[cycle] : st = Name(cycle, c) /\ Read \in W[cycle][c]
    BY DEF History, Reached, Read
<1>3. PICK f \in 0 .. NTimeFrame - 1, d \in Nat, n \in Nat : Leads(W, t, f, d, n)
    BY <1>0 DEF History, Right
<1>4. f = cycle /\ d = c
    BY <1>2, <1>3 DEF Leads, Name
<1>5. Append(Read, x) \in W[cycle + 1][n] /\ n \in DOMAIN W[cycle + 1]
    BY <1>2, <1>3, <1>4 DEF Leads
<1>6. cycle + 1 \in First .. NTimeFrame
    BY <1>0, <1>1
<1>7. IsTable(W[cycle + 1], cycle + 1)
    BY <1>6 DEF History, Recalls
<1>8. W[cycle + 1][n] \subseteq Words(cycle + 1)
    BY <1>5, <1>7 DEF IsTable
<1> QED BY <1>1, <1>2, <1>3, <1>4, <1>5, <1>8

LEMMA ClockHistory ==
    ASSUME Tables, pc = "done", Clock, UNCHANGED <<ntk, foldVars>>, NEW W, History(W)
    PROVE  History(W)'
<1>0. /\ st # Star /\ cycle' = (cycle + 1) % NTimeFrame /\ transs' = transs
      /\ UNCHANGED <<ntk, pc, i, csts, nsts, cCnt, path, nCnt>>
    BY DEF Clock, foldVars
<1> PICK x \in PinValues, t \in transs :
        /\ t.cst = st /\ Matches(x, t.in)
        /\ st' = t.nst
        /\ got' = Append(Read, x)
    BY DEF Clock, Read
<1>1. /\ cycle \in 0 .. NTimeFrame - 1
      /\ \E c, n \in Nat :
            /\ Leads(W, t, cycle, c, n) /\ Read \in W[cycle][c]
            /\ Append(Read, x) \in W[cycle + 1][n] /\ W[cycle + 1][n] \subseteq Words(cycle + 1)
    BY <1>0, ClockLeads
<1>2. PICK n \in Nat : /\ st' = Name(cycle + 1, n) /\ n \in DOMAIN W[cycle + 1]
                       /\ got' \in W[cycle + 1][n]
    BY <1>1 DEF Leads
<1>3. Reached(W)'
    <2>1. CASE cycle = NTimeFrame - 1
        <3>1. cycle' = 0 /\ cycle + 1 = NTimeFrame
            BY <1>0, <1>1, <2>1, NextCycle, STGAssumption
        <3>2. n = 0
            BY <1>2, <3>1 DEF History, Recalls, DummyState
        <3>3. st' = Star
            BY <1>2, <3>1, <3>2 DEF Star
        <3> QED BY <1>0, <3>1, <3>3 DEF Reached
    <2>2. CASE cycle # NTimeFrame - 1
        <3>1. cycle' = cycle + 1 /\ cycle' # 0 /\ cycle' \in 0 .. NTimeFrame - 1
            BY <1>0, <1>1, <2>2, NextCycle, STGAssumption
        <3>2. \E c \in DOMAIN W[cycle'] : st' = Name(cycle', c) /\ got' \in W[cycle'][c]
            BY <1>2, <3>1
        <3> QED BY <1>0, <3>1, <3>2 DEF Reached
    <2> QED BY <2>1, <2>2
<1>4. Recalls(W)' /\ Complete(W)' /\ Current'
    BY <1>0 DEF History, Recalls, Complete, Current, First, Exactly
<1>5. Right(W)'
    BY <1>0, RightUnchanged DEF History, First
<1>6. Told(W)'
    BY <1>0, ToldUnchanged DEF History, First, foldVars
<1> QED BY <1>3, <1>4, <1>5, <1>6 DEF History

LEMMA ResetHistory ==
    ASSUME Tables, pc = "done", ResetMachine, UNCHANGED <<ntk, foldVars>>, NEW W, History(W)
    PROVE  History(W)'
<1>0. /\ st = Star /\ st' = S0_0 /\ UNCHANGED <<transs, cycle>>
      /\ UNCHANGED <<ntk, pc, i, csts, nsts, cCnt, path, nCnt>>
    BY DEF ResetMachine, foldVars
<1>1. NTimeFrame \in Nat /\ 0 \in 0 .. NTimeFrame - 1
    BY STGAssumption
<1>2. cycle = 0
    BY <1>0, <1>1 DEF History, Reached, Star, Name
<1>3. Reached(W)'
    <2>1. 0 \in DOMAIN W[0] /\ <<>> \in W[0][0]
        BY EmptyWord DEF History, Recalls, DummyState
    <2> QED BY <1>0, <1>1, <1>2, <2>1 DEF Reached, S0_0
<1>4. Recalls(W)' /\ Complete(W)' /\ Current'
    BY <1>0 DEF History, Recalls, Complete, Current, First, Exactly
<1>5. Right(W)'
    BY <1>0, RightUnchanged DEF History, First
<1>6. Told(W)'
    BY <1>0, ToldUnchanged DEF History, First, foldVars
<1> QED BY <1>3, <1>4, <1>5, <1>6 DEF History

LEMMA StutterHistory ==
    ASSUME UNCHANGED <<ntk, foldVars, transs, runVars>>, NEW W, History(W)
    PROVE  History(W)'
<1>0. UNCHANGED <<ntk, pc, i, csts, nsts, cCnt, path, nCnt, transs, st, cycle, got, out>>
    BY DEF foldVars, runVars
<1>1. Right(W)'
    BY <1>0, RightUnchanged DEF History, First
<1>2. Recalls(W)' /\ Complete(W)'
    BY <1>0 DEF History, Recalls, Complete, First, Exactly
<1>3. Current'
    BY <1>0 DEF History, Current, Exactly
<1>4. Reached(W)'
    BY <1>0 DEF History, Reached, S0_0, Star
<1>5. Told(W)'
    BY <1>0, ToldUnchanged DEF History, First, foldVars
<1> QED BY <1>1, <1>2, <1>3, <1>4, <1>5 DEF History

LEMMA SpecIInv == Spec => []IInv
<1>1. Init => IInv
    BY InitTables, InitHistory DEF IInv
<1>2. IInv /\ [Next]_vars => IInv'
    <2> SUFFICES ASSUME IInv, [Next]_vars PROVE IInv'
        OBVIOUS
    <2>1. Tables /\ Tables'
        BY CutTables, FindPathTables, AddTransTables, NextStateTables, NextFrameTables, RestTables
        DEF IInv, Next, Folding
    <2>2. PICK W : History(W)
        BY DEF IInv
    <2>3. CASE Cut
        BY <2>1, <2>2, <2>3, CutHistory DEF IInv
    <2>4. CASE FindPath
        BY <2>1, <2>2, <2>4, FindPathHistory DEF IInv
    <2>5. CASE AddTrans
        BY <2>1, <2>2, <2>5, AddTransHistory DEF IInv
    <2>6. CASE NextState
        BY <2>1, <2>2, <2>6, NextStateHistory DEF IInv
    <2>7. CASE NextFrame
        BY <2>1, <2>2, <2>7, NextFrameHistory DEF IInv
    <2>8. CASE CheckEqv \/ UNCHANGED vars
        <3>1. UNCHANGED <<ntk, foldVars, transs, runVars>>
            BY <2>8 DEF CheckEqv, vars
        <3> QED BY <2>1, <2>2, <3>1, StutterHistory DEF IInv
    <2>9. CASE Running
        <3>1. pc = "done" /\ UNCHANGED <<ntk, foldVars>> /\ (Clock \/ ResetMachine)
            BY <2>9 DEF Running
        <3>2. CASE Clock
            BY <2>1, <2>2, <3>1, <3>2, ClockHistory DEF IInv
        <3>3. CASE ResetMachine
            BY <2>1, <2>2, <3>1, <3>3, ResetHistory DEF IInv
        <3> QED BY <3>1, <3>2, <3>3
    <2> QED BY <2>3, <2>4, <2>5, <2>6, <2>7, <2>8, <2>9 DEF Next, Folding
<1> QED BY <1>1, <1>2, PTL DEF Spec

\* The machine is deterministic and complete: buildTrans gives every state
\* but "*" one transition for every input.
THEOREM OneTransitionHolds == Spec => []OneTransition
<1>1. IInv => OneTransition
    <2> SUFFICES ASSUME IInv, pc = "done", NEW s \in States \ {Star}, NEW x \in PinValues
                 PROVE  Cardinality({t \in transs : t.cst = s /\ Matches(x, t.in)}) = 1
        BY DEF OneTransition
    <2>1. PICK W : History(W)
        BY DEF IInv
    <2>2. i = 0 /\ First = 0 /\ NTimeFrame \in Nat \ {0}
        BY STGAssumption DEF IInv, Tables, First
    \* s is a state of a table.
    <2>3. \E f \in 0 .. NTimeFrame - 1 : \E c \in DOMAIN W[f] : s = Name(f, c)
        <3>1. CASE s = S0_0
            BY <2>1, <2>2, <3>1 DEF History, Recalls, DummyState, S0_0
        <3>2. CASE s # S0_0
            <4>1. PICK t \in transs : s = t.cst \/ s = t.nst
                BY <3>2 DEF States
            <4>2. PICK f \in 0 .. NTimeFrame - 1, c \in Nat, n \in Nat : Leads(W, t, f, c, n)
                BY <2>1, <2>2 DEF History, Right
            <4>3. CASE s = t.cst
                BY <4>2, <4>3 DEF Leads
            <4>4. CASE s = t.nst /\ f + 1 # NTimeFrame
                <5>1. f + 1 \in 0 .. NTimeFrame - 1
                    BY <2>2, <4>4
                <5> QED BY <4>2, <4>4, <5>1 DEF Leads
            <4>5. CASE s = t.nst /\ f + 1 = NTimeFrame
                <5>1. n = 0
                    BY <2>1, <4>2, <4>5 DEF Leads, History, Recalls, DummyState
                <5> QED BY <4>2, <4>5, <5>1 DEF Leads, Star
            <4> QED BY <4>1, <4>3, <4>4, <4>5
        <3> QED BY <3>1, <3>2
    <2>4. Exactly(s, x)
        BY <2>1, <2>2, <2>3 DEF History, Complete
    <2>5. \E t : {r \in transs : r.cst = s /\ Matches(x, r.in)} = {t}
        BY <2>4 DEF Exactly
    <2> QED BY <2>5, FS_Singleton
<1> QED BY SpecIInv, <1>1, PTL

-----------------------------------------------------------------------------
(* Refinement                                                              *)

LEMMA CompletionsOf ==
    ASSUME NEW n \in 0 .. NTimeFrame, NEW g \in Words(n), NEW full \in Fold!Completions(g)
    PROVE  WordOf(full, n) = g
<1>1. n \in Nat /\ Len(g) = n
    BY STGAssumption, WordIsSeq
<1>2. PICK rest \in [1 .. NTimeFrame - n -> PinValues] : full = Fold!Flat(g \o rest)
    BY <1>1 DEF Fold!Completions, Fold!PinValues, PinValues
<1>3. full = Numbered(g, rest)
    BY <1>2 DEF Fold!Flat, Numbered
<1>4. WordOf(Numbered(g, rest), n) = g
    BY <1>2, WordOfFlat
<1> QED BY <1>3, <1>4

LEMMA InitRefines == Init => Fold!Init
BY DEF Init, STGInit, Fold!Init

LEMMA FoldingRefines == Tables /\ Folding => Fold!Fold \/ UNCHANGED Fold!avars
<1> SUFFICES ASSUME Tables, Folding PROVE Fold!Fold \/ UNCHANGED Fold!avars
    OBVIOUS
<1>1. pc # "done" /\ UNCHANGED <<ntk, cycle, got, out>>
    BY DEF Folding, Cut, FindPath, AddTrans, NextState, NextFrame, runVars
<1>2. UNCHANGED nPo
    BY <1>1 DEF nPo
<1>3. CASE pc' # "done"
    BY <1>1, <1>2, <1>3 DEF Fold!avars
<1>4. CASE pc' = "done"
    <2>1. ntk.oPerm \in Injection(Outputs(ntk), 0 .. nPo * NTimeFrame - 1) /\ nPo \in Nat
        BY BddFoldAssumption DEF Tables, nPo
    <2>2. /\ ntk.oPerm \in [Outputs(ntk) -> 0 .. nPo * NTimeFrame - 1]
          /\ \A k, m \in Outputs(ntk) : ntk.oPerm[k] = ntk.oPerm[m] => k = m
        BY <2>1 DEF Injection, IsInjective
    <2> QED BY <1>1, <1>2, <1>4, <2>1, <2>2 DEF Fold!Fold
<1> QED BY <1>3, <1>4

LEMMA ClockRefines ==
    ASSUME IInv, pc = "done", Clock, UNCHANGED <<ntk, foldVars>>
    PROVE  Fold!Clock
<1>0. Tables /\ st # Star /\ UNCHANGED <<ntk, pc>> /\ UNCHANGED nPo /\ Pos = 0 .. nPo - 1
    BY DEF IInv, Clock, foldVars, nPo, Pos
<1> PICK W : History(W)
    BY DEF IInv
<1> PICK x \in PinValues, t \in transs :
        /\ t.cst = st /\ Matches(x, t.in)
        /\ got' = Append(Read, x)
        /\ out' \in {o \in [DOMAIN t.out -> BOOLEAN] :
                        \A k \in DOMAIN t.out : t.out[k] = "-" \/ (t.out[k] = "1" <=> o[k])}
    BY DEF Clock, Read
<1>1. /\ cycle \in 0 .. NTimeFrame - 1
      /\ \E c, n \in Nat :
            /\ Leads(W, t, cycle, c, n) /\ Read \in W[cycle][c]
            /\ Append(Read, x) \in W[cycle + 1][n] /\ W[cycle + 1][n] \subseteq Words(cycle + 1)
    BY <1>0, ClockLeads
<1>2. PICK c \in Nat, n \in Nat : Leads(W, t, cycle, c, n) /\ Read \in W[cycle][c]
    BY <1>1
<1>3. got' \in Words(cycle + 1)
    BY <1>1
<1>4. out' \in [0 .. nPo - 1 -> BOOLEAN] /\ DOMAIN t.out = Pos
    BY <1>0, <1>2 DEF Leads
<1>5. ASSUME NEW k \in Outputs(ntk), ntk.oPerm[k] \div nPo = cycle, NEW full \in Fold!Completions(got')
      PROVE  out'[ntk.oPerm[k] % nPo] = Value(ntk, k, full)
    <2> DEFINE pos == ntk.oPerm[k] % nPo
    <2>1. /\ nPo \in Nat /\ NTimeFrame \in Nat
          /\ ntk.oPerm \in [Outputs(ntk) -> 0 .. nPo * NTimeFrame - 1]
          /\ ntk.func[k] \in [Words(FrameOf(ntk, k) + 1) -> BOOLEAN]
        BY <1>0, BddFoldAssumption, STGAssumption DEF Tables, Injection, nPo
    <2>2. nPo * NTimeFrame = NTimeFrame * nPo
        BY <2>1
    <2>3. ntk.oPerm[k] \in 0 .. NTimeFrame * nPo - 1
        BY <2>1, <2>2
    <2>4. pos \in Pos /\ FrameOf(ntk, k) = cycle
        BY <1>0, <1>5, <2>1, <2>3, FrameAndItem DEF FrameOf, nPo
    <2>5. t.out[pos] = IF ntk.func[k][got'] THEN "1" ELSE "0"
        BY <1>2, <2>4 DEF Leads
    <2> HIDE DEF pos
    <2>6. out'[pos] <=> ntk.func[k][got']
        BY <1>4, <2>4, <2>5
    <2>7. out'[pos] \in BOOLEAN /\ ntk.func[k][got'] \in BOOLEAN
        BY <1>0, <1>3, <1>4, <2>1, <2>4
    <2>8. out'[pos] = ntk.func[k][got']
        BY <2>6, <2>7, Zenon
    <2>9. cycle + 1 \in 0 .. NTimeFrame
        BY <1>1, <2>1
    <2>10. WordOf(full, cycle + 1) = got'
        BY <1>3, <1>5, <2>9, CompletionsOf
    <2> QED BY <2>4, <2>8, <2>10 DEF Value, pos
<1>6. \E in \in Fold!PinValues : got' = Append(IF cycle = 0 THEN <<>> ELSE got, in)
    BY DEF Fold!PinValues, PinValues, Read
<1>7. cycle' = (cycle + 1) % NTimeFrame
    BY DEF Clock
<1> QED BY <1>0, <1>4, <1>5, <1>6, <1>7 DEF Fold!Clock

\* The machine that is written shows the outputs of the circuit in the frames
\* where they are placed (buildTrans, addOneTrans), whatever path stands for a
\* state and however its transitions are taken apart.
THEOREM Implements == Spec => ImplementsFold
<1>1. IInv /\ [Next]_vars => [Fold!Next]_(Fold!avars)
    <2> SUFFICES ASSUME IInv, [Next]_vars PROVE [Fold!Next]_(Fold!avars)
        OBVIOUS
    <2>1. CASE Folding
        BY <2>1, FoldingRefines DEF IInv, Fold!Next
    <2>2. CASE CheckEqv \/ UNCHANGED vars
        BY <2>2 DEF CheckEqv, vars, foldVars, runVars, Fold!avars, nPo
    <2>3. CASE Running
        <3>1. pc = "done" /\ UNCHANGED <<ntk, foldVars>> /\ (Clock \/ ResetMachine)
            BY <2>3 DEF Running
        <3>2. CASE Clock
            BY <3>1, <3>2, ClockRefines DEF Fold!Next
        <3>3. CASE ResetMachine
            BY <3>1, <3>3 DEF ResetMachine, foldVars, Fold!avars, nPo
        <3> QED BY <3>1, <3>2, <3>3
    <2> QED BY <2>1, <2>2, <2>3 DEF Next
<1> QED BY InitRefines, SpecIInv, <1>1, PTL DEF Spec, ImplementsFold, Fold!Spec

-----------------------------------------------------------------------------
(* The states and what they show                                           *)

\* The states of the finished STG are those of the tables.
LEMMA NamedStates ==
    ASSUME pc = "done", NEW W, Tables, History(W)
    PROVE  States = Named(W)
<1>1. i = 0 /\ First = 0 /\ NTimeFrame \in Nat \ {0}
    BY STGAssumption DEF Tables, First
<1>2. \A f \in 0 .. NTimeFrame : IsTable(W[f], f)
    BY <1>1 DEF History, Recalls
<1>3. W[0] = DummyState(0) /\ W[NTimeFrame] = DummyState(NTimeFrame)
    BY DEF History, Recalls
<1>4. \A t \in transs : \E f \in 0 .. NTimeFrame - 1, c, n \in Nat : Leads(W, t, f, c, n)
    BY <1>1 DEF History, Right
<1>5. ASSUME NEW s \in States PROVE s \in Named(W)
    <2>1. CASE s = S0_0
        BY <1>1, <1>3, <2>1 DEF DummyState, Named, S0_0, Name
    <2>2. CASE s # S0_0
        <3>1. PICK t \in transs : s = t.cst \/ s = t.nst
            BY <2>2 DEF States
        <3>2. PICK f \in 0 .. NTimeFrame - 1, c \in Nat, n \in Nat : Leads(W, t, f, c, n)
            BY <1>4
        <3>3. f \in 0 .. NTimeFrame /\ f + 1 \in 0 .. NTimeFrame
            BY <1>1
        <3>4. <<f, c>> \in Named(W) /\ <<f + 1, n>> \in Named(W)
            BY <1>1, <3>2, <3>3 DEF Leads, Named
        <3> QED BY <3>1, <3>2, <3>4 DEF Leads, Name
    <2> QED BY <2>1, <2>2
<1>6. ASSUME NEW f \in 0 .. NTimeFrame - 1, NEW c \in DOMAIN W[f] PROVE Name(f, c) \in States
    <2>1. PICK w : w \in Words(1)
        BY WordsExist
    <2>2. w[1] \in PinValues
        BY <2>1 DEF Words
    <2>3. Exactly(Name(f, c), w[1])
        BY <1>1, <2>2 DEF History, Complete
    <2> QED BY <2>3 DEF Exactly, States
<1>7. Star \in States
    <2>1. NTimeFrame - 1 \in 0 .. NTimeFrame - 1 /\ NTimeFrame - 1 \in Nat /\ (NTimeFrame - 1) + 1 = NTimeFrame
        BY <1>1
    <2> DEFINE f == NTimeFrame - 1
    <2>2. f \in 0 .. NTimeFrame - 1 /\ f \in Nat /\ f + 1 = NTimeFrame /\ f \in 0 .. NTimeFrame
        BY <2>1
    <2> HIDE DEF f
    <2>3. PICK w : w \in Words(f)
        BY <2>2, WordsExist
    <2>4. PICK c \in DOMAIN W[f] : w \in W[f][c]
        BY <1>2, <2>2, <2>3 DEF IsTable
    <2>5. PICK v : v \in Words(1)
        BY WordsExist
    <2>6. v[1] \in PinValues
        BY <2>5 DEF Words
    <2>7. Exactly(Name(f, c), v[1])
        BY <1>1, <2>2, <2>6 DEF History, Complete
    <2>8. PICK t \in transs : t.cst = Name(f, c)
        BY <2>7 DEF Exactly
    <2>9. PICK g \in 0 .. NTimeFrame - 1, d \in Nat, n \in Nat : Leads(W, t, g, d, n)
        BY <1>4
    <2>10. g = f /\ n \in DOMAIN W[g + 1] /\ t.nst = Name(g + 1, n)
        BY <2>8, <2>9 DEF Leads, Name
    <2>11. t.nst = Star
        BY <1>3, <2>2, <2>10 DEF DummyState, Star
    <2> QED BY <2>11 DEF States
<1>8. ASSUME NEW s \in Named(W) PROVE s \in States
    <2>1. PICK f \in 0 .. NTimeFrame, c \in Nat : s = <<f, c>> /\ c \in DOMAIN W[f]
        BY <1>1 DEF Named
    <2>2. CASE f = NTimeFrame
        <3>1. s = Star
            BY <1>3, <2>1, <2>2 DEF DummyState, Star, Name
        <3> QED BY <1>7, <3>1
    <2>3. CASE f # NTimeFrame
        <3>1. f \in 0 .. NTimeFrame - 1
            BY <1>1, <2>1, <2>3
        <3> QED BY <1>6, <2>1, <3>1 DEF Name
    <2> QED BY <2>2, <2>3
<1> QED BY <1>5, <1>8

\* The header of the KISS file counts the states of the machine, "*" among them.
THEOREM StatesCountedHolds == Spec => []StatesCounted
<1>1. IInv => StatesCounted
    BY NamedStates DEF IInv, StatesCounted, History, Told
<1> QED BY SpecIInv, <1>1, PTL

\* The value of the outputs of frame f after a word, as a transition shows it.
Showing(t, f, w) ==
    /\ t.out \in [Pos -> {"0", "1", "-"}]
    /\ \A k \in Outputs(ntk) : FrameOf(ntk, k) = f =>
          t.out[ntk.oPerm[k] % nPo] = IF ntk.func[k][w] THEN "1" ELSE "0"

\* The finished machine has a step for every input, which leads to the state of
\* the longer word.
LEMMA StepLeads ==
    ASSUME pc = "done", Tables, NEW W, History(W),
           NEW f \in 0 .. NTimeFrame - 1, NEW c \in DOMAIN W[f], NEW w \in W[f][c], NEW x \in PinValues
    PROVE  /\ \E n \in DOMAIN W[f + 1] : /\ Step(Name(f, c), x).nst = Name(f + 1, n)
                                         /\ Append(w, x) \in W[f + 1][n]
           /\ Showing(Step(Name(f, c), x), f, Append(w, x))
<1> DEFINE t == Step(Name(f, c), x)
<1>1. i = 0 /\ First = 0 /\ NTimeFrame \in Nat \ {0}
    BY STGAssumption DEF Tables, First
<1>2. Exactly(Name(f, c), x)
    BY <1>1 DEF History, Complete
<1>3. t \in transs /\ t.cst = Name(f, c) /\ Matches(x, t.in)
    BY <1>2 DEF Exactly, Step
<1> HIDE DEF t
<1>4. PICK g \in 0 .. NTimeFrame - 1, d \in Nat, n \in Nat : Leads(W, t, g, d, n)
    BY <1>1, <1>3 DEF History, Right
<1>5. g = f /\ d = c
    BY <1>3, <1>4 DEF Leads, Name
<1> QED BY <1>3, <1>4, <1>5 DEF Leads, Showing, t

\* What the machine shows from a state on is what the outputs are after any
\* word of the state.
LEMMA RunShows ==
    ASSUME pc = "done", Tables, NEW W, History(W),
           NEW f \in 0 .. NTimeFrame, NEW n \in Nat, f + n <= NTimeFrame,
           NEW c \in DOMAIN W[f], NEW w \in W[f][c], NEW v \in Words(n)
    PROVE  \A k \in 1 .. n : Showing(Run(Name(f, c), v)[k], f + (k - 1), Ext(w, f, v, k))
<1>1. i = 0 /\ First = 0 /\ NTimeFrame \in Nat \ {0} /\ f \in Nat
    BY STGAssumption DEF Tables, First
<1>2. \A g \in 0 .. NTimeFrame : IsTable(W[g], g)
    BY <1>1 DEF History, Recalls
<1>3. w \in Words(f)
    BY <1>2 DEF IsTable
<1>30. /\ Ext(w, f, v, 0) = w
      /\ \A k \in 0 .. n : Ext(w, f, v, k) \in Words(f + k)
    BY <1>1, <1>3, ExtendedWord
<1>31. ASSUME NEW k \in 1 .. n PROVE Ext(w, f, v, k) = Append(Ext(w, f, v, k - 1), v[k])
    <2>1. f \in Nat
        BY <1>1
    <2> QED BY <1>3, <2>1, ExtendedWord, ZenonT(60)
<1> DEFINE e(k) == Ext(w, f, v, k)
           home(k) == CHOOSE d \in DOMAIN W[f + k] : e(k) \in W[f + k][d]
           state == [k \in 0 .. n |-> Name(f + k, home(k))]
<1>4. /\ e(0) = w /\ \A k \in 0 .. n : e(k) \in Words(f + k)
      /\ \A k \in 1 .. n : e(k) = Append(e(k - 1), v[k])
    <2> HIDE DEF home, state
    <2> QED BY <1>30, <1>31
<1> HIDE DEF e
<1>5. ASSUME NEW k \in 0 .. n
      PROVE  home(k) \in DOMAIN W[f + k] /\ e(k) \in W[f + k][home(k)]
    <2>1. f + k \in 0 .. NTimeFrame
        BY <1>1
    <2>2. IsTable(W[f + k], f + k) /\ e(k) \in Words(f + k)
        BY <1>2, <1>4, <2>1
    <2> QED BY <2>2 DEF IsTable
<1>6. ASSUME NEW k \in 0 .. n, NEW d \in DOMAIN W[f + k], e(k) \in W[f + k][d]
      PROVE  home(k) = d
    <2>1. f + k \in 0 .. NTimeFrame
        BY <1>1
    <2>2. IsTable(W[f + k], f + k)
        BY <1>2, <2>1
    <2> HIDE DEF home
    <2> QED BY <1>5, <1>6, <2>2 DEF IsTable
<1> HIDE DEF home
<1>7. state[0] = Name(f, c)
    <2>1. 0 \in 0 .. n /\ f + 0 = f
        BY <1>1
    <2>2. c \in DOMAIN W[f + 0] /\ e(0) \in W[f + 0][c]
        BY <1>4, <2>1
    <2>3. home(0) = c
        BY <1>6, <2>1, <2>2
    <2> QED BY <2>1, <2>3
<1>8. ASSUME NEW k \in 1 .. n
      PROVE  /\ state[k] = Step(state[k - 1], v[k]).nst
             /\ Showing(Step(state[k - 1], v[k]), f + (k - 1), e(k))
    <2>1. /\ k - 1 \in 0 .. n /\ k \in 0 .. n /\ f + (k - 1) \in 0 .. NTimeFrame - 1
          /\ (f + (k - 1)) + 1 = f + k
        BY <1>1
    <2>2. v[k] \in PinValues /\ e(k) = Append(e(k - 1), v[k])
        BY <1>4 DEF Words
    <2>3. home(k - 1) \in DOMAIN W[f + (k - 1)] /\ e(k - 1) \in W[f + (k - 1)][home(k - 1)]
        BY <1>5, <2>1
    <2> DEFINE g == f + (k - 1)
               d == home(k - 1)
               u == e(k - 1)
    <2>4. /\ g \in 0 .. NTimeFrame - 1 /\ g + 1 = f + k /\ d \in DOMAIN W[g] /\ u \in W[g][d]
          /\ e(k) = Append(u, v[k])
        BY <2>1, <2>2, <2>3
    <2>5. state[k - 1] = Name(g, d)
        BY <2>1
    <2>6. state[k] = Name(f + k, home(k))
        BY <2>1
    <2> HIDE DEF g, d, u, state
    <2>7. /\ \E m \in DOMAIN W[g + 1] : /\ Step(Name(g, d), v[k]).nst = Name(g + 1, m)
                                        /\ Append(u, v[k]) \in W[g + 1][m]
          /\ Showing(Step(Name(g, d), v[k]), g, Append(u, v[k]))
        BY <2>2, <2>4, StepLeads
    <2>8. PICK m \in DOMAIN W[f + k] : /\ Step(Name(g, d), v[k]).nst = Name(f + k, m)
                                       /\ e(k) \in W[f + k][m]
        BY <2>4, <2>7
    <2>9. home(k) = m
        BY <1>6, <2>1, <2>8
    <2>10. state[k] = Step(state[k - 1], v[k]).nst
        BY <2>5, <2>6, <2>8, <2>9
    <2>11. Showing(Step(state[k - 1], v[k]), g, e(k))
        BY <2>4, <2>5, <2>7
    <2> QED BY <2>10, <2>11 DEF g
<1>9. state \in [0 .. n -> {state[k] : k \in 0 .. n}]
    OBVIOUS
<1> HIDE DEF state
<1>11. ASSUME NEW k \in 1 .. n
       PROVE  Showing(Run(Name(f, c), v)[k], f + (k - 1), e(k))
    <2>1. \A m \in 1 .. n : state[m] = Step(state[m - 1], v[m]).nst
        BY <1>8
    <2>2. Run(Name(f, c), v)[k] = Step(state[k - 1], v[k])
        <3>1. Run(state[0], v)[k] = Step(state[k - 1], v[k])
            BY <1>9, <2>1, RunIs
        <3> QED BY <1>7, <3>1
    <2> QED BY <1>8, <2>2
<1> QED BY <1>11 DEF e

\* Some inputs of the frames that are left tell the words w and u of f frames
\* apart by an output.
Apart(f, w, u) ==
    \E v \in Words(NTimeFrame - f), k \in 1 .. NTimeFrame - f, o \in Outputs(ntk) :
       /\ FrameOf(ntk, o) = f + (k - 1)
       /\ ~ (ntk.func[o][Ext(w, f, v, k)] <=> ntk.func[o][Ext(u, f, v, k)])

\* Every word of a state can be told from every word of another one.
LEMMA StatesApart ==
    ASSUME pc = "done", Tables, NEW W, History(W), NEW f \in 0 .. NTimeFrame,
           NEW c \in DOMAIN W[f], NEW d \in DOMAIN W[f], c # d, NEW w \in W[f][c], NEW u \in W[f][d]
    PROVE  Apart(f, w, u)
<1>1. i = 0 /\ First = 0 /\ NTimeFrame \in Nat \ {0} /\ f \in Nat
    BY STGAssumption DEF Tables, First
<1>2. \A g \in 0 .. NTimeFrame : IsTable(W[g], g)
    BY <1>1 DEF History, Recalls
<1> DEFINE Told_(g) == \A a, b \in DOMAIN W[g] : a # b => \A p \in W[g][a], q \in W[g][b] : Apart(g, p, q)
           Bad == {j \in 0 .. NTimeFrame : ~ Told_(NTimeFrame - j)}
<1>3. 0 \notin Bad
    <2>1. DOMAIN W[NTimeFrame] = {0} /\ NTimeFrame - 0 = NTimeFrame
        BY <1>1 DEF History, Recalls, DummyState
    <2> QED BY <2>1
<1>4. ASSUME NEW j \in 1 .. NTimeFrame, j - 1 \notin Bad PROVE j \notin Bad
    <2> DEFINE g == NTimeFrame - j
    <2>1. /\ g \in 0 .. NTimeFrame - 1 /\ g \in Nat /\ g + 1 \in 0 .. NTimeFrame /\ NTimeFrame - (j - 1) = g + 1
          /\ j - 1 \in 0 .. NTimeFrame /\ j - 1 \in Nat /\ NTimeFrame - g = j /\ NTimeFrame - (g + 1) = j - 1
          /\ (j - 1) + 1 = j /\ g \in 0 .. NTimeFrame
        BY <1>1
    <2>2. Told_(g + 1)
        BY <1>4, <2>1
    <2>3. Told_(g)
        <3> HIDE DEF g, Bad
        <3> SUFFICES ASSUME NEW a \in DOMAIN W[g], NEW b \in DOMAIN W[g], a # b,
                            NEW p \in W[g][a], NEW q \in W[g][b]
                     PROVE  Apart(g, p, q)
            OBVIOUS
        <3>1. p \in Words(g) /\ q \in Words(g)
            BY <1>2, <2>1 DEF IsTable
        <3>2. Differ(W, g, p, q)
            BY <1>1, <2>1 DEF History, Told
        <3>3. PICK x \in PinValues :
                 \/ \E k \in Outputs(ntk) :
                       /\ FrameOf(ntk, k) = g
                       /\ ~ (ntk.func[k][Append(p, x)] <=> ntk.func[k][Append(q, x)])
                 \/ \E n \in DOMAIN W[g + 1] : ~ (Append(p, x) \in W[g + 1][n] <=> Append(q, x) \in W[g + 1][n])
            BY <3>2 DEF Differ
        \* Both words and x, followed by v, are told apart after k more frames.
        <3>4. ASSUME NEW v \in Words(j - 1), NEW k \in 0 .. j - 1, NEW o \in Outputs(ntk),
                     FrameOf(ntk, o) = g + k,
                     ~ (ntk.func[o][Ext(Append(p, x), g + 1, v, k)] <=> ntk.func[o][Ext(Append(q, x), g + 1, v, k)])
              PROVE  Apart(g, p, q)
            <4> DEFINE y == [m \in 1 .. (j - 1) + 1 |-> IF m = 1 THEN x ELSE v[m - 1]]
            <4>1. /\ y \in Words((j - 1) + 1)
                  /\ Ext(p, g, y, k + 1) = Ext(Append(p, x), g + 1, v, k)
                  /\ Ext(q, g, y, k + 1) = Ext(Append(q, x), g + 1, v, k)
                BY <2>1, <3>1, ExtendedLater
            <4> HIDE DEF y
            <4>2. k + 1 \in 1 .. NTimeFrame - g /\ g + ((k + 1) - 1) = g + k /\ y \in Words(NTimeFrame - g)
                BY <2>1, <4>1
            <4> QED BY <3>4, <4>1, <4>2 DEF Apart
        <3>5. Append(p, x) \in Words(g + 1) /\ Append(q, x) \in Words(g + 1)
            BY <2>1, <3>1, AppendWord
        <3>6. CASE \E k \in Outputs(ntk) :
                      /\ FrameOf(ntk, k) = g
                      /\ ~ (ntk.func[k][Append(p, x)] <=> ntk.func[k][Append(q, x)])
            <4>1. PICK o \in Outputs(ntk) :
                      /\ FrameOf(ntk, o) = g
                      /\ ~ (ntk.func[o][Append(p, x)] <=> ntk.func[o][Append(q, x)])
                BY <3>6
            <4>2. PICK v : v \in Words(j - 1)
                BY <2>1, WordsExist
            <4>3. /\ Ext(Append(p, x), g + 1, v, 0) = Append(p, x)
                  /\ Ext(Append(q, x), g + 1, v, 0) = Append(q, x)
                <5>1. g + 1 \in Nat
                    BY <2>1
                <5> QED BY <3>5, <5>1, ExtendedByNone
            <4>4. 0 \in 0 .. j - 1 /\ g + 0 = g
                BY <2>1
            <4>5. /\ FrameOf(ntk, o) = g + 0
                  /\ ~ (ntk.func[o][Ext(Append(p, x), g + 1, v, 0)] <=> ntk.func[o][Ext(Append(q, x), g + 1, v, 0)])
                BY <4>1, <4>3, <4>4
            <4> QED BY <3>4, <4>2, <4>4, <4>5
        <3>7. CASE \E n \in DOMAIN W[g + 1] : ~ (Append(p, x) \in W[g + 1][n] <=> Append(q, x) \in W[g + 1][n])
            <4>1. PICK m \in DOMAIN W[g + 1], n \in DOMAIN W[g + 1] :
                      Append(p, x) \in W[g + 1][m] /\ Append(q, x) \in W[g + 1][n]
                BY <1>2, <2>1, <3>5 DEF IsTable
            <4>2. m # n
                BY <1>2, <2>1, <3>7, <4>1 DEF IsTable
            <4>3. Apart(g + 1, Append(p, x), Append(q, x))
                BY <2>2, <4>1, <4>2
            <4>4. PICK v \in Words(j - 1), k \in 1 .. j - 1, o \in Outputs(ntk) :
                      /\ FrameOf(ntk, o) = (g + 1) + (k - 1)
                      /\ ~ (ntk.func[o][Ext(Append(p, x), g + 1, v, k)]
                              <=> ntk.func[o][Ext(Append(q, x), g + 1, v, k)])
                BY <2>1, <4>3 DEF Apart
            <4>5. (g + 1) + (k - 1) = g + k /\ k \in 0 .. j - 1
                BY <2>1
            <4> QED BY <3>4, <4>4, <4>5
        <3> QED BY <3>3, <3>6, <3>7
    <2> QED BY <2>3
<1>5. Bad = {}
    <2>1. Bad \in SUBSET (0 .. NTimeFrame)
        OBVIOUS
    <2> HIDE DEF Bad
    <2> QED BY <1>1, <1>3, <1>4, <2>1, FirstFailure
<1>6. NTimeFrame - f \in 0 .. NTimeFrame /\ NTimeFrame - (NTimeFrame - f) = f
    BY <1>1
<1>7. Told_(f)
    BY <1>5, <1>6
<1> QED BY <1>7

\* The STG is minimal: any two states of a frame show different outputs for
\* some inputs of the frames that are left (Extra_bddNodePathsUnderCut joins
\* the words that nothing tells apart, and only those).
THEOREM MinimalHolds == Spec => []Minimal
<1>1. IInv => Minimal
    <2> SUFFICES ASSUME IInv, pc = "done", NEW s \in States \ {Star}, NEW r \in States \ {Star},
                        s[1] = r[1], s # r
                 PROVE  \E word \in Words(NTimeFrame - s[1]) : Shows(s, word) # Shows(r, word)
        BY DEF Minimal
    <2>0. Tables
        BY DEF IInv
    <2>1. PICK W : History(W)
        BY DEF IInv
    <2>2. i = 0 /\ First = 0 /\ NTimeFrame \in Nat \ {0} /\ DOMAIN W[NTimeFrame] = {0}
        BY <2>0, <2>1, STGAssumption DEF Tables, First, History, Recalls, DummyState
    <2>3. s \in Named(W) /\ r \in Named(W)
        BY <2>0, <2>1, NamedStates
    <2>15. PICK f \in 0 .. NTimeFrame : \E c, d \in DOMAIN W[f] : s = Name(f, c) /\ r = Name(f, d)
        BY <2>2, <2>3 DEF Named, Name
    <2>4. PICK c \in DOMAIN W[f], d \in DOMAIN W[f] : s = Name(f, c) /\ r = Name(f, d)
        BY <2>15
    <2>5. c # d /\ s[1] = f
        BY <2>4 DEF Name
    <2>6. f \in 0 .. NTimeFrame - 1 /\ NTimeFrame - f \in Nat /\ f + (NTimeFrame - f) <= NTimeFrame
        BY <2>2, <2>4 DEF Name, Star
    <2>7. PICK w \in W[f][c], u \in W[f][d] : TRUE
        BY <2>1, <2>2, <2>4 DEF History, Told
    <2>8. Apart(f, w, u)
        BY <2>0, <2>1, <2>5, StatesApart
    <2>9. PICK v \in Words(NTimeFrame - f), k \in 1 .. NTimeFrame - f, o \in Outputs(ntk) :
              /\ FrameOf(ntk, o) = f + (k - 1)
              /\ ~ (ntk.func[o][Ext(w, f, v, k)] <=> ntk.func[o][Ext(u, f, v, k)])
        BY <2>8 DEF Apart
    <2>10. Showing(Run(s, v)[k], f + (k - 1), Ext(w, f, v, k)) /\ Showing(Run(r, v)[k], f + (k - 1), Ext(u, f, v, k))
        BY <2>0, <2>1, <2>4, <2>6, RunShows
    <2>11. Run(s, v)[k].out # Run(r, v)[k].out
        BY <2>9, <2>10 DEF Showing
    <2>12. DOMAIN v = 1 .. NTimeFrame - f
        BY DEF Words
    <2>13. Shows(s, v)[k] = Run(s, v)[k].out /\ Shows(r, v)[k] = Run(r, v)[k].out
        BY <2>12 DEF Shows
    <2>14. Shows(s, v) # Shows(r, v)
        BY <2>11, <2>13
    <2> QED BY <2>5, <2>14
<1> QED BY SpecIInv, <1>1, PTL

-----------------------------------------------------------------------------
(* The equivalence check                                                   *)

\* The expanded machine shows an output where it is placed.
LEMMA FramesShow ==
    ASSUME Tables, pc = "done", NEW W, History(W), NEW dc \in BOOLEAN,
           NEW k \in Outputs(ntk), NEW in \in Ins(NumCi)
    PROVE  FramesOutputs(Pos, dc)[ntk.oPerm[k]][in] = ntk.func[k][WordOf(in, FrameOf(ntk, k) + 1)]
<1> DEFINE j == ntk.oPerm[k]
           f == j \div nPo
           word == WordOf(in, NTimeFrame)
<1>1. /\ nPo \in Nat /\ NTimeFrame \in Nat /\ Pos = 0 .. nPo - 1
      /\ ntk.oPerm \in [Outputs(ntk) -> 0 .. nPo * NTimeFrame - 1]
      /\ ntk.func[k] \in [Words(FrameOf(ntk, k) + 1) -> BOOLEAN]
    BY BddFoldAssumption, STGAssumption DEF Tables, Injection, nPo, Pos
<1>2. nPo * NTimeFrame = NTimeFrame * nPo
    BY <1>1
<1>3. j \in 0 .. NTimeFrame * nPo - 1
    BY <1>1, <1>2
<1> HIDE DEF j
<1>4. f \in 0 .. NTimeFrame - 1 /\ FrameOf(ntk, k) = f
    <2>1. f \in 0 .. NTimeFrame - 1
        BY <1>1, <1>3, FrameAndItem
    <2> QED BY <2>1 DEF FrameOf, nPo, j
<1> HIDE DEF f
<1>5. f + 1 \in 1 .. NTimeFrame /\ f + 1 \in 0 .. NTimeFrame /\ 0 + ((f + 1) - 1) = f
    BY <1>1, <1>4
<1>6. in \in Ins(NTimeFrame * NPi)
    BY DEF NumCi
<1>7. word \in Words(NTimeFrame) /\ WordOf(in, f + 1) \in Words(f + 1)
    BY <1>1, <1>5, <1>6, InputsWord
<1>8. Ext(<<>>, 0, word, f + 1) = WordOf(in, f + 1)
    BY <1>5, ExtendedFromReset
<1> HIDE DEF word
<1>9. 0 \in DOMAIN W[0] /\ <<>> \in W[0][0]
    BY EmptyWord DEF History, Recalls, DummyState
<1>10. \A l \in 1 .. NTimeFrame : Showing(Run(Name(0, 0), word)[l], 0 + (l - 1), Ext(<<>>, 0, word, l))
    <2>1. 0 \in 0 .. NTimeFrame /\ 0 + NTimeFrame <= NTimeFrame
        BY <1>1
    <2> QED BY <1>1, <1>7, <1>9, <2>1, RunShows
<1>11. Showing(Run(S0_0, word)[f + 1], f, WordOf(in, f + 1))
    BY <1>5, <1>8, <1>10 DEF S0_0
<1>12. Run(S0_0, word)[f + 1].out[j % nPo] = IF ntk.func[k][WordOf(in, f + 1)] THEN "1" ELSE "0"
    BY <1>4, <1>11 DEF Showing, j
<1> DEFINE o == Run(S0_0, word)[f + 1].out[j % nPo]
           b == FramesOutputs(Pos, dc)[j][in]
           u == ntk.func[k][WordOf(in, f + 1)]
<1>13. b = (o = "1" \/ (o = "-" /\ dc))
    BY <1>1, <1>3, <1>6, FramesOf DEF f, word
<1>14. u \in BOOLEAN
    BY <1>1, <1>4, <1>7
<1>15. (o = "1" \/ (o = "-" /\ dc)) <=> u
    <2>1. o = IF u THEN "1" ELSE "0"
        BY <1>12
    <2> HIDE DEF o, u
    <2> QED BY <2>1
<1> HIDE DEF o, b, u
<1>16. b = u
    BY <1>13, <1>14, <1>15, Zenon
<1> QED BY <1>4, <1>16 DEF b, u, j

\* The equivalence check finds the circuit in the machine.
LEMMA CheckFinds ==
    ASSUME Tables, pc = "done", NEW W, History(W), NEW dc \in BOOLEAN
    PROVE  prepNtkToCheck(dc) = Original
<1> DEFINE n == NumCi
           P == NTimeFrame * nPo
           nCo == Cardinality(Outputs(ntk))
           fo == FramesOutputs(Pos, dc)
           mo == [k \in 0 .. P - 1 |-> [v \in Ins(n) |-> fo[k][Moved(n, ntk.iPerm, v)]]]
           q == extendPerm(ntk.oPerm, nCo, P)
           co == [k \in 0 .. P - 1 |-> mo[q[k]]]
<1>1. /\ nPo \in Nat /\ NTimeFrame \in Nat /\ NPi \in Nat /\ Pos = 0 .. nPo - 1
      /\ ntk.iPerm \in Bijection(0 .. n - 1, 0 .. n - 1)
      /\ ntk.oPerm \in Injection(Outputs(ntk), 0 .. nPo * NTimeFrame - 1)
      /\ IsFiniteSet(Outputs(ntk)) /\ Outputs(ntk) = 0 .. nCo - 1
    BY BddFoldAssumption, STGAssumption DEF Tables, nPo, Pos, NumCi
<1>2. n \in Nat /\ P \in Nat /\ P = nPo * NTimeFrame
    BY <1>1 DEF NumCi
<1>3. nCo \in Nat /\ nCo <= P
    <2>1. nCo \in Nat
        BY <1>1, FS_CardinalityType
    <2> HIDE DEF P, nCo, n
    <2>2. Cardinality(0 .. P - 1) = P /\ IsFiniteSet(0 .. P - 1)
        <3>1. Cardinality(0 .. P - 1) = P
            BY <1>2, CardinalityTo
        <3>2. IsFiniteSet(0 .. P - 1)
            BY <1>2, FS_Interval
        <3> QED BY <3>1, <3>2
    <2>3. ntk.oPerm \in Injection(Outputs(ntk), 0 .. P - 1)
        BY <1>1, <1>2
    <2>4. Cardinality(Outputs(ntk)) <= Cardinality(0 .. P - 1)
        BY <2>2, <2>3, FS_Injection DEF nCo
    <2> QED BY <2>1, <2>2, <2>4 DEF nCo
<1> HIDE DEF n, P, nCo, fo
<1>21. n \in Nat /\ P \in Nat
    BY <1>2
<1>4. fo \in [0 .. P - 1 -> {fo[k] : k \in 0 .. P - 1}]
    <2>1. fo = [k \in 0 .. P - 1 |-> fo[k]]
        BY <1>1, FramesShape DEF fo, P
    <2> QED BY <2>1
<1>5. aigPermCi(Comb(n, fo), ntk.iPerm) = Comb(n, mo)
    <2>1. mo = MovedIn(n, P, fo, ntk.iPerm)
        BY DEF MovedIn
    <2> HIDE DEF mo
    <2> QED BY <1>21, <1>4, <2>1, PermCiOf, ZenonT(60)
<1> HIDE DEF mo, q
<1>6. aigPermCo(Comb(n, mo), q) = Comb(n, co)
    <2>1. DOMAIN mo = 0 .. P - 1
        BY DEF mo
    <2> QED BY <2>1, PermCoOf, ZenonT(60)
<1>7. aigCone(Comb(n, co), 0, nCo) = Comb(n, [k \in 0 .. nCo - 0 - 1 |-> co[0 + k]])
    <2>1. Part(co, 0, nCo) = [k \in 0 .. nCo - 0 - 1 |-> co[0 + k]]
        BY DEF Part
    <2> HIDE DEF co
    <2>2. aigCone(Comb(n, co), 0, nCo) = Comb(n, Part(co, 0, nCo))
        BY <1>21, ConeOf
    <2> QED BY <2>1, <2>2
<1>8. prepNtkToCheck(dc) = Comb(n, [k \in 0 .. nCo - 0 - 1 |-> co[0 + k]])
    BY <1>5, <1>6, <1>7 DEF prepNtkToCheck, n, fo, q, nCo, P
<1> DEFINE In(k) == [v \in Ins(n) |-> ntk.func[k][WordOf(Moved(n, ntk.iPerm, v), FrameOf(ntk, k) + 1)]]
<1>9. ASSUME NEW k \in Outputs(ntk) PROVE co[0 + k] = In(k)
    <2>1. k \in 0 .. P - 1 /\ 0 + k = k /\ k < nCo
        BY <1>1, <1>2, <1>3
    <2>2. q[k] = ntk.oPerm[k]
        BY <2>1 DEF q, extendPerm
    <2>3. ntk.oPerm[k] \in 0 .. P - 1
        BY <1>1, <1>2 DEF Injection
    <2>4. co[0 + k] = [v \in Ins(n) |-> fo[ntk.oPerm[k]][Moved(n, ntk.iPerm, v)]]
        BY <2>1, <2>2, <2>3 DEF mo
    <2>5. ASSUME NEW v \in Ins(n)
          PROVE  fo[ntk.oPerm[k]][Moved(n, ntk.iPerm, v)]
                    = ntk.func[k][WordOf(Moved(n, ntk.iPerm, v), FrameOf(ntk, k) + 1)]
        <3>1. Moved(n, ntk.iPerm, v) \in Ins(NumCi)
            BY <1>1, <1>2, MovedInputs DEF n
        <3> QED BY <3>1, FramesShow DEF fo
    <2> HIDE DEF co
    <2> QED BY <2>4, <2>5
<1>10. Original = Comb(n, [k \in Outputs(ntk) |-> In(k)])
    <2>1. DOMAIN ntk.iPerm = 0 .. n - 1
        BY <1>1 DEF Bijection, Injection
    <2>2. Original = Comb(NumCi, [k \in Outputs(ntk) |-> [v \in Ins(NumCi) |->
              ntk.func[k][WordOf([p \in 0 .. NumCi - 1 |-> v[CHOOSE m \in DOMAIN ntk.iPerm : ntk.iPerm[m] = p]],
                                 FrameOf(ntk, k) + 1)]]])
        BY Zenon DEF Original
    <2>3. \A v : [p \in 0 .. NumCi - 1 |-> v[CHOOSE m \in DOMAIN ntk.iPerm : ntk.iPerm[m] = p]]
                 = Moved(n, ntk.iPerm, v)
        BY <2>1 DEF Moved, n
    <2> QED BY <2>2, <2>3, ZenonT(60) DEF n
<1>11. [k \in 0 .. nCo - 0 - 1 |-> co[0 + k]] = [k \in Outputs(ntk) |-> In(k)]
    <2>1. 0 .. nCo - 0 - 1 = Outputs(ntk)
        BY <1>1, <1>3
    <2> HIDE DEF co, In
    <2> QED BY <1>9, <2>1, Zenon
<1> QED BY <1>8, <1>10, <1>11

\* The equivalence check of func_fold never rejects a machine of the fold:
\* prepNtkToCheck undoes the permutations of inputs and outputs, and gives
\* outputs of open slots no place among those compared.
THEOREM CheckAgreesHolds == Spec => []CheckAgrees
<1>1. Init => CheckAgrees
    BY DEF Init, CheckAgrees
<1>2. IInv /\ CheckAgrees /\ [Next]_vars => CheckAgrees'
    <2> SUFFICES ASSUME IInv, CheckAgrees, [Next]_vars PROVE CheckAgrees'
        OBVIOUS
    <2>1. CASE CheckEqv
        <3>1. PICK W : History(W)
            BY DEF IInv
        <3>2. PICK dc \in BOOLEAN : eqv' = IF prepNtkToCheck(dc) = Original THEN "equivalent" ELSE "different"
            BY <2>1 DEF CheckEqv
        <3>3. prepNtkToCheck(dc) = Original
            BY <2>1, <3>1, CheckFinds DEF CheckEqv, IInv
        <3> QED BY <3>2, <3>3 DEF CheckAgrees
    <2>2. CASE ~ CheckEqv
        BY <2>2 DEF CheckAgrees, Next, Folding, Cut, FindPath, AddTrans, NextState, NextFrame, Running, vars
    <2> QED BY <2>1, <2>2
<1> QED BY SpecIInv, <1>1, <1>2, PTL DEF Spec
=============================================================================

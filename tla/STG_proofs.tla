----------------------------- MODULE STG_proofs -----------------------------
(***************************************************************************)
(* Facts about words of inputs, tables of states, the transitions that     *)
(* addOneTrans adds, runs of the machine and the circuits that the         *)
(* equivalence checks make of it, for every number of frames and pins.     *)
(***************************************************************************)
EXTENDS STG, AigUtils, NumberLemmas

-----------------------------------------------------------------------------
(* Words                                                                   *)

LEMMA PinValuesFinite == IsFiniteSet(PinValues)
<1> DEFINE On == [x \in PinValues |-> {q \in 0 .. NPi - 1 : x[q]}]
<1>1. IsFiniteSet(SUBSET (0 .. NPi - 1))
    <2>1. 0 \in Int /\ NPi - 1 \in Int
        BY STGAssumption
    <2>2. IsFiniteSet(0 .. NPi - 1)
        BY <2>1, FS_Interval
    <2> QED BY <2>2, FS_SUBSET
<1>2. On \in [PinValues -> SUBSET (0 .. NPi - 1)]
    OBVIOUS
<1>3. ASSUME NEW x \in PinValues, NEW y \in PinValues, On[x] = On[y]
      PROVE  x = y
    <2>1. \A q \in 0 .. NPi - 1 : x[q] <=> y[q]
        BY <1>3
    <2>2. \A q \in 0 .. NPi - 1 : x[q] \in BOOLEAN /\ y[q] \in BOOLEAN
        BY DEF PinValues
    <2>3. \A q \in 0 .. NPi - 1 : x[q] = y[q]
        BY <2>1, <2>2, Zenon
    <2>4. x = [q \in 0 .. NPi - 1 |-> x[q]] /\ y = [q \in 0 .. NPi - 1 |-> y[q]]
        BY Zenon DEF PinValues
    <2> QED BY <2>3, <2>4, Zenon
<1>4. On \in Injection(PinValues, SUBSET (0 .. NPi - 1))
    BY <1>2, <1>3 DEF Injection, IsInjective
<1> QED BY <1>1, <1>4, FS_Injection

LEMMA WordsFinite ==
    ASSUME NEW n \in Nat
    PROVE  IsFiniteSet(Words(n))
<1> DEFINE Graph == [w \in Words(n) |-> {p \in (1 .. n) \X PinValues : w[p[1]] = p[2]}]
<1>1. IsFiniteSet(SUBSET ((1 .. n) \X PinValues))
    <2>1. IsFiniteSet(1 .. n)
        BY FS_Interval
    <2>2. IsFiniteSet((1 .. n) \X PinValues)
        BY <2>1, PinValuesFinite, FS_Product
    <2> QED BY <2>2, FS_SUBSET
<1>2. Graph \in [Words(n) -> SUBSET ((1 .. n) \X PinValues)]
    OBVIOUS
<1>3. ASSUME NEW w \in Words(n), NEW u \in Words(n), Graph[w] = Graph[u]
      PROVE  w = u
    <2>1. ASSUME NEW f \in 1 .. n PROVE w[f] = u[f]
        <3>1. <<f, w[f]>> \in Graph[w]
            BY DEF Words
        <3>2. <<f, w[f]>> \in Graph[u]
            BY <3>1, <1>3
        <3> QED BY <3>2
    <2> QED BY <2>1 DEF Words
<1>4. Graph \in Injection(Words(n), SUBSET ((1 .. n) \X PinValues))
    BY <1>2, <1>3 DEF Injection, IsInjective
<1> QED BY <1>1, <1>4, FS_Injection

LEMMA WordIsSeq ==
    ASSUME NEW n \in Nat, NEW w \in Words(n)
    PROVE  w \in Seq(PinValues) /\ Len(w) = n
BY DEF Words

LEMMA AppendWord ==
    ASSUME NEW n \in Nat, NEW w \in Words(n), NEW x \in PinValues
    PROVE  Append(w, x) \in Words(n + 1)
<1>1. w \in Seq(PinValues) /\ Len(w) = n
    BY WordIsSeq
<1>2. Append(w, x) \in Seq(PinValues) /\ Len(Append(w, x)) = n + 1
    BY <1>1
<1> DEFINE s == Append(w, x)
<1>3. s \in Seq(PinValues) /\ Len(s) = n + 1
    BY <1>2
<1> HIDE DEF s
<1>4. s \in [1 .. Len(s) -> PinValues]
    BY <1>3
<1> QED BY <1>3, <1>4 DEF Words, s

\* There is one word of no frames.
LEMMA EmptyWord == <<>> \in Words(0) /\ \A w \in Words(0) : w = <<>>
<1>1. <<>> \in Seq(PinValues) /\ Len(<<>>) = 0
    OBVIOUS
<1>2. <<>> \in Words(0)
    BY <1>1 DEF Words
<1>3. ASSUME NEW w \in Words(0) PROVE w = <<>>
    <2>1. w \in Seq(PinValues) /\ Len(w) = 0
        BY WordIsSeq
    <2> QED BY <2>1
<1> QED BY <1>2, <1>3

\* The inputs of a batch that starts with g, numbered through
Numbered(g, rest) ==
    [j \in 0 .. NTimeFrame * NPi - 1 |-> (g \o rest)[j \div NPi + 1][j % NPi]]

\* and taken apart again.
LEMMA WordOfFlat ==
    ASSUME NEW n \in 0 .. NTimeFrame, NEW g \in Words(n),
           NEW rest \in [1 .. NTimeFrame - n -> PinValues]
    PROVE  WordOf(Numbered(g, rest), n) = g
<1> DEFINE full == Numbered(g, rest)
<1>0. NTimeFrame \in Nat /\ NPi \in Nat /\ n \in Nat /\ Len(g) = n /\ g \in Seq(PinValues)
    BY STGAssumption, WordIsSeq
<1>1. \A f \in 1 .. n : (g \o rest)[f] = g[f]
    <2>1. NTimeFrame - n \in Nat
        BY <1>0
    <2>2. rest \in Seq(PinValues)
        BY <2>1
    <2> QED BY <1>0, <2>2
<1>2. ASSUME NEW f \in 1 .. n, NEW q \in 0 .. NPi - 1
      PROVE  full[(f - 1) * NPi + q] = g[f][q]
    <2>1. f - 1 \in 0 .. NTimeFrame - 1 /\ f - 1 \in Nat /\ (f - 1) + 1 = f
        BY <1>0
    <2>2. (f - 1) * NPi + q \in 0 .. NTimeFrame * NPi - 1
        BY <1>0, <2>1, ItemInRange
    <2>3. ((f - 1) * NPi + q) \div NPi = f - 1 /\ ((f - 1) * NPi + q) % NPi = q
        BY <1>0, <2>1, ItemOfFrame
    <2>4. full[(f - 1) * NPi + q] = (g \o rest)[(f - 1) + 1][q]
        BY <2>2, <2>3 DEF Numbered
    <2> QED BY <1>1, <2>1, <2>4
<1>3. ASSUME NEW f \in 1 .. n
      PROVE  [q \in 0 .. NPi - 1 |-> full[(f - 1) * NPi + q]] = g[f]
    <2>1. g[f] \in PinValues
        BY DEF Words
    <2>2. g[f] = [q \in 0 .. NPi - 1 |-> g[f][q]]
        BY <2>1, Zenon DEF PinValues
    <2> QED BY <1>2, <2>2, Zenon
<1>4. g = [f \in 1 .. n |-> g[f]]
    BY DEF Words
<1> QED BY <1>3, <1>4, Zenon DEF WordOf

\* The inputs of all frames as a word.
LEMMA InputsWord ==
    ASSUME NEW in \in Ins(NTimeFrame * NPi), NEW n \in 0 .. NTimeFrame
    PROVE  WordOf(in, n) \in Words(n)
<1>1. NTimeFrame \in Nat /\ NPi \in Nat /\ n \in Nat
    BY STGAssumption
<1>2. ASSUME NEW f \in 1 .. n, NEW q \in 0 .. NPi - 1 PROVE in[(f - 1) * NPi + q] \in BOOLEAN
    <2>1. f - 1 \in 0 .. NTimeFrame - 1
        BY <1>1
    <2>2. (f - 1) * NPi + q \in 0 .. NTimeFrame * NPi - 1
        BY <1>1, <2>1, ItemInRange
    <2> QED BY <2>2 DEF Ins
<1> QED BY <1>2 DEF WordOf, Words, PinValues

\* The word w of f frames and the first k inputs of v.
Ext(w, f, v, k) == [j \in 1 .. f + k |-> IF j <= f THEN w[j] ELSE v[j - f]]

LEMMA ExtendedByNone ==
    ASSUME NEW f \in Nat, NEW w \in Words(f), NEW v
    PROVE  Ext(w, f, v, 0) = w
<1>1. w = [j \in 1 .. f |-> w[j]]
    BY DEF Words
<1>2. Ext(w, f, v, 0) = [j \in 1 .. f |-> w[j]]
    BY DEF Ext
<1> QED BY <1>1, <1>2

LEMMA ExtendedWord ==
    ASSUME NEW f \in Nat, NEW n \in Nat, NEW w \in Words(f), NEW v \in Words(n)
    PROVE  /\ Ext(w, f, v, 0) = w
           /\ \A k \in 0 .. n : Ext(w, f, v, k) \in Words(f + k)
           /\ \A k \in 1 .. n : Ext(w, f, v, k) = Append(Ext(w, f, v, k - 1), v[k])
<1>1. Ext(w, f, v, 0) = w
    BY ExtendedByNone
<1>2. ASSUME NEW k \in 0 .. n PROVE Ext(w, f, v, k) \in Words(f + k)
    <2>1. ASSUME NEW j \in 1 .. f + k PROVE (IF j <= f THEN w[j] ELSE v[j - f]) \in PinValues
        <3>1. CASE j <= f
            <4>1. j \in 1 .. f
                BY <3>1
            <4> QED BY <3>1, <4>1 DEF Words
        <3>2. CASE ~ (j <= f)
            <4>1. j - f \in 1 .. n
                BY <3>2
            <4> QED BY <3>2, <4>1 DEF Words
        <3> QED BY <3>1, <3>2
    <2> QED BY <2>1 DEF Ext, Words
<1>3. ASSUME NEW k \in 1 .. n
      PROVE  Ext(w, f, v, k) = Append(Ext(w, f, v, k - 1), v[k])
    <2> DEFINE e == Ext(w, f, v, k)
               p == Ext(w, f, v, k - 1)
    <2>1. k - 1 \in 0 .. n /\ k \in 0 .. n /\ f + (k - 1) \in Nat /\ f + k \in Nat /\ v[k] \in PinValues
        BY DEF Words
    <2>2. p \in Words(f + (k - 1)) /\ e \in Words(f + k)
        BY <1>2, <2>1
    <2>3. p \in Seq(PinValues) /\ Len(p) = f + (k - 1)
        BY <2>1, <2>2, WordIsSeq
    <2>4. (f + (k - 1)) + 1 = f + k
        OBVIOUS
    <2>5. Append(p, v[k]) \in Words(f + k)
        BY <2>1, <2>2, <2>4, AppendWord
    <2>6. ASSUME NEW j \in 1 .. f + k PROVE e[j] = Append(p, v[k])[j]
        <3>1. CASE j = f + k
            <4>1. Append(p, v[k])[j] = v[k]
                <5> HIDE DEF p
                <5> QED BY <2>1, <2>3, <2>4, <3>1
            <4>2. e[j] = v[k]
                <5>1. ~ (j <= f) /\ j - f = k
                    BY <3>1
                <5> QED BY <5>1 DEF Ext
            <4> QED BY <4>1, <4>2
        <3>2. CASE j # f + k
            <4>1. j \in 1 .. f + (k - 1)
                BY <3>2
            <4>2. Append(p, v[k])[j] = p[j]
                <5> HIDE DEF p
                <5> QED BY <2>1, <2>3, <4>1
            <4>3. e[j] = p[j]
                BY <4>1 DEF Ext
            <4> QED BY <4>2, <4>3
        <3> QED BY <3>1, <3>2
    <2> HIDE DEF e, p
    <2>7. e = [j \in 1 .. f + k |-> e[j]] /\ Append(p, v[k]) = [j \in 1 .. f + k |-> Append(p, v[k])[j]]
        BY <2>2, <2>5 DEF Words
    <2>8. e = Append(p, v[k])
        BY <2>6, <2>7
    <2> QED BY <2>8 DEF e, p
<1> QED BY <1>1, <1>2, <1>3

\* A word read one input later.
LEMMA ExtendedLater ==
    ASSUME NEW f \in Nat, NEW n \in Nat, NEW w \in Words(f), NEW x \in PinValues, NEW v \in Words(n),
           NEW y, y = [j \in 1 .. n + 1 |-> IF j = 1 THEN x ELSE v[j - 1]], NEW k \in 0 .. n
    PROVE  /\ y \in Words(n + 1)
           /\ Ext(w, f, y, k + 1) = Ext(Append(w, x), f + 1, v, k)
<1>1. y \in Words(n + 1)
    <2>1. ASSUME NEW j \in 1 .. n + 1 PROVE (IF j = 1 THEN x ELSE v[j - 1]) \in PinValues
        <3>1. j # 1 => j - 1 \in 1 .. n
            OBVIOUS
        <3> QED BY <3>1 DEF Words
    <2> QED BY <2>1 DEF Words
<1>2. (f + 1) + k = f + (k + 1)
    OBVIOUS
<1>3. ASSUME NEW j \in 1 .. f + (k + 1)
      PROVE  (IF j <= f THEN w[j] ELSE y[j - f]) = (IF j <= f + 1 THEN Append(w, x)[j] ELSE v[j - (f + 1)])
    <2>0. w \in Seq(PinValues) /\ Len(w) = f
        BY WordIsSeq
    <2>1. CASE j <= f
        <3>1. Append(w, x)[j] = w[j]
            BY <2>0, <2>1
        <3> QED BY <2>1, <3>1
    <2>2. CASE j = f + 1
        <3>1. Append(w, x)[j] = x
            BY <2>0, <2>2
        <3>2. j - f = 1 /\ 1 \in 1 .. n + 1 /\ ~ (j <= f) /\ j <= f + 1
            BY <2>2
        <3>3. y[j - f] = x
            BY <3>2
        <3> QED BY <3>1, <3>2, <3>3
    <2>3. CASE j > f + 1
        <3>1. j - f \in 1 .. n + 1 /\ j - f # 1 /\ (j - f) - 1 = j - (f + 1) /\ ~ (j <= f) /\ ~ (j <= f + 1)
            BY <2>3
        <3>2. y[j - f] = v[j - (f + 1)]
            BY <3>1
        <3> QED BY <3>1, <3>2
    <2>4. j <= f \/ j = f + 1 \/ j > f + 1
        OBVIOUS
    <2> QED BY <2>1, <2>2, <2>3, <2>4
<1>4. Ext(w, f, y, k + 1) = [j \in 1 .. f + (k + 1) |-> IF j <= f + 1 THEN Append(w, x)[j] ELSE v[j - (f + 1)]]
    <2>1. Ext(w, f, y, k + 1) = [j \in 1 .. f + (k + 1) |-> IF j <= f THEN w[j] ELSE y[j - f]]
        BY DEF Ext
    <2> QED BY <1>3, <2>1
<1> QED BY <1>1, <1>2, <1>4 DEF Ext

\* The first frames of a batch.
LEMMA ExtendedFromReset ==
    ASSUME NEW in, NEW k \in 0 .. NTimeFrame
    PROVE  Ext(<<>>, 0, WordOf(in, NTimeFrame), k) = WordOf(in, k)
<1>1. NTimeFrame \in Nat /\ 0 + k = k /\ k \in Nat
    BY STGAssumption
<1> DEFINE v == WordOf(in, NTimeFrame)
<1>2. ASSUME NEW j \in 1 .. k
      PROVE  (IF j <= 0 THEN <<>>[j] ELSE v[j - 0]) = [q \in 0 .. NPi - 1 |-> in[(j - 1) * NPi + q]]
    <2>1. ~ (j <= 0) /\ j - 0 = j /\ j \in 1 .. NTimeFrame
        BY <1>1
    <2>2. v[j] = [q \in 0 .. NPi - 1 |-> in[(j - 1) * NPi + q]]
        BY <2>1 DEF WordOf
    <2> HIDE DEF v
    <2> QED BY <2>1, <2>2
<1>3. Ext(<<>>, 0, v, k) = [j \in 1 .. k |-> IF j <= 0 THEN <<>>[j] ELSE v[j - 0]]
    BY <1>1 DEF Ext
<1>4. WordOf(in, k) = [j \in 1 .. k |-> [q \in 0 .. NPi - 1 |-> in[(j - 1) * NPi + q]]]
    BY DEF WordOf
<1> HIDE DEF v
<1>5. Ext(<<>>, 0, v, k) = WordOf(in, k)
    BY <1>2, <1>3, <1>4, Zenon
<1> QED BY <1>5 DEF v

-----------------------------------------------------------------------------
(* Cycles of the machine                                                   *)

\* What the machine has read in this batch.
Read == IF cycle = 0 THEN <<>> ELSE got

LEMMA NextCycle ==
    ASSUME cycle \in 0 .. NTimeFrame - 1
    PROVE  (cycle + 1) % NTimeFrame = IF cycle = NTimeFrame - 1 THEN 0 ELSE cycle + 1
BY STGAssumption

-----------------------------------------------------------------------------
(* Tables of states                                                        *)

\* A table numbers the states of frame n; every word of n frames leads to
\* one of them.
IsTable(tb, n) ==
    /\ \E m \in Nat : DOMAIN tb = 0 .. m - 1
    /\ \A c \in DOMAIN tb : tb[c] \subseteq Words(n)
    /\ \A w \in Words(n) : \E c \in DOMAIN tb : w \in tb[c]
    /\ \A c, d \in DOMAIN tb : c # d => tb[c] \cap tb[d] = {}

LEMMA DummyIsTable ==
    ASSUME NEW n \in Nat
    PROVE  IsTable(DummyState(n), n) /\ DOMAIN DummyState(n) = {0}
<1>1. DOMAIN DummyState(n) = 0 .. 1 - 1
    BY DEF DummyState
<1>2. 1 \in Nat
    OBVIOUS
<1> QED BY <1>1, <1>2 DEF IsTable, DummyState

\* However a partition of the words is listed, it is a table.
LEMMA ListedIsTable ==
    ASSUME NEW n \in Nat, NEW S, S \subseteq SUBSET Words(n),
           \A w \in Words(n) : \E c \in S : w \in c,
           \A c, d \in S : c # d => c \cap d = {}
    PROVE  IsTable(Listed(S), n) /\ \A m \in DOMAIN Listed(S) : Listed(S)[m] \in S
<1>1. IsFiniteSet(S)
    <2>1. IsFiniteSet(SUBSET Words(n))
        BY WordsFinite, FS_SUBSET
    <2> QED BY <2>1, FS_Subset
<1> DEFINE k == Cardinality(S)
<1>2. k \in Nat /\ ExistsBijection(1 .. k, S)
    BY <1>1, FS_CardinalityType
<1> HIDE DEF k
<1>3. PICK g : g \in Bijection(1 .. k, S)
    BY <1>2 DEF ExistsBijection
<1>4. /\ g \in [1 .. k -> S]
      /\ \A a, b \in 1 .. k : g[a] = g[b] => a = b
      /\ \A c \in S : \E a \in 1 .. k : g[a] = c
    BY <1>3 DEF Bijection, Injection, Surjection, IsInjective
<1> DEFINE h == [a \in 0 .. k - 1 |-> g[a + 1]]
<1>5. h \in Bijection(0 .. k - 1, S)
    <2>1. h \in [0 .. k - 1 -> S]
        BY <1>2, <1>4
    <2>2. \A a, b \in 0 .. k - 1 : h[a] = h[b] => a = b
        <3> SUFFICES ASSUME NEW a \in 0 .. k - 1, NEW b \in 0 .. k - 1, h[a] = h[b]
                     PROVE  a = b
            OBVIOUS
        <3>1. a + 1 \in 1 .. k /\ b + 1 \in 1 .. k /\ g[a + 1] = g[b + 1]
            BY <1>2
        <3>2. a + 1 = b + 1
            BY <3>1, <1>4
        <3> QED BY <3>2, <1>2
    <2>3. \A c \in S : \E a \in 0 .. k - 1 : h[a] = c
        <3> SUFFICES ASSUME NEW c \in S PROVE \E a \in 0 .. k - 1 : h[a] = c
            OBVIOUS
        <3>1. PICK a \in 1 .. k : g[a] = c
            BY <1>4
        <3>2. a - 1 \in 0 .. k - 1 /\ (a - 1) + 1 = a
            BY <1>2
        <3> QED BY <3>1, <3>2
    <2> HIDE DEF h
    <2>4. h \in Injection(0 .. k - 1, S)
        BY <2>1, <2>2 DEF Injection, IsInjective
    <2>5. h \in Surjection(0 .. k - 1, S)
        BY <2>1, <2>3 DEF Surjection
    <2> QED BY <2>4, <2>5 DEF Bijection
<1>6. Listed(S) \in Bijection(0 .. k - 1, S)
    BY <1>5 DEF Listed, k
<1> DEFINE tb == Listed(S)
<1>7. /\ tb \in [0 .. k - 1 -> S]
      /\ \A a, b \in 0 .. k - 1 : tb[a] = tb[b] => a = b
      /\ \A c \in S : \E a \in 0 .. k - 1 : tb[a] = c
    BY <1>6 DEF Bijection, Injection, Surjection, IsInjective
<1> HIDE DEF tb
<1>8. DOMAIN tb = 0 .. k - 1 /\ \A m \in 0 .. k - 1 : tb[m] \in S
    BY <1>7
<1>9. \A w \in Words(n) : \E c \in 0 .. k - 1 : w \in tb[c]
    BY <1>7
<1>10. \A c, d \in 0 .. k - 1 : c # d => tb[c] \cap tb[d] = {}
    BY <1>7, <1>8
<1>11. IsTable(tb, n)
    BY <1>2, <1>8, <1>9, <1>10 DEF IsTable
<1> QED BY <1>8, <1>11 DEF tb

-----------------------------------------------------------------------------
(* The transitions that are added                                          *)

\* The codes under which an input can occur tell every output apart.
LEMMA SignTellsOutputs ==
    ASSUME NEW n \in Nat, NEW oFuncs, DOMAIN oFuncs \subseteq 0 .. n - 1,
           NEW x \in PinValues, NEW y \in PinValues,
           Sign(oFuncs, 0 .. n - 1)[x] = Sign(oFuncs, 0 .. n - 1)[y],
           NEW k \in DOMAIN oFuncs
    PROVE  oFuncs[k][x] <=> oFuncs[k][y]
<1> DEFINE Code(j, z) == IF oFuncs[j][z] THEN n + j ELSE j
<1>1. Cardinality(0 .. n - 1) = n
    BY FS_Interval
<1>2. \A z \in PinValues : Sign(oFuncs, 0 .. n - 1)[z] = {Code(j, z) : j \in DOMAIN oFuncs}
    BY <1>1 DEF Sign
<1>3. ASSUME NEW a \in PinValues, NEW b \in PinValues, Code(k, a) \in {Code(j, b) : j \in DOMAIN oFuncs}
      PROVE  oFuncs[k][a] <=> oFuncs[k][b]
    <2>1. PICK j \in DOMAIN oFuncs : Code(k, a) = Code(j, b)
        BY <1>3
    <2>2. j \in 0 .. n - 1 /\ k \in 0 .. n - 1
        OBVIOUS
    <2> QED BY <2>1, <2>2
<1>4. Code(k, x) \in {Code(j, y) : j \in DOMAIN oFuncs}
    BY <1>2
<1> QED BY <1>3, <1>4

\* Without a code no input could occur, but every input has one.
LEMMA SignNotEmpty ==
    ASSUME NEW pins, NEW oFuncs, NEW x \in PinValues
    PROVE  Sign(oFuncs, pins)[x] # {}
BY DEF Sign

\* The inputs of G have one transition each, the others have none.
LEMMA CubesPartition ==
    ASSUME NEW G \in SUBSET PinValues, NEW sign, NEW C \in Cubes(G, sign)
    PROVE  /\ \A p \in C, x \in PinValues : Matches(x, p) => x \in G
           /\ \A p \in C, x, y \in PinValues :
                 Matches(x, p) /\ Matches(y, p) => sign[x] = sign[y]
           /\ \A x \in G : \E p \in C : Matches(x, p) /\ \A r \in C : Matches(x, r) => r = p
BY DEF Cubes

\* The output part of a transition shows the values of the outputs for the
\* inputs of the transition.
LEMMA OutBitsRight ==
    ASSUME NEW n \in Nat, NEW oFuncs, DOMAIN oFuncs \subseteq 0 .. n - 1,
           NEW p, NEW x \in PinValues, Matches(x, p),
           \A y \in PinValues : Matches(y, p) =>
               Sign(oFuncs, 0 .. n - 1)[x] = Sign(oFuncs, 0 .. n - 1)[y],
           NEW k \in DOMAIN oFuncs
    PROVE  OutBits(oFuncs, 0 .. n - 1, p)[k] = IF oFuncs[k][x] THEN "1" ELSE "0"
<1>1. \A y \in PinValues : Matches(y, p) => (oFuncs[k][x] <=> oFuncs[k][y])
    BY SignTellsOutputs
<1>2. k \in 0 .. n - 1
    OBVIOUS
<1> QED BY <1>1, <1>2 DEF OutBits

LEMMA OutBitsType ==
    ASSUME NEW pins, NEW oFuncs, NEW p
    PROVE  OutBits(oFuncs, pins, p) \in [pins -> {"0", "1", "-"}]
BY DEF OutBits

-----------------------------------------------------------------------------
(* Runs of the machine                                                     *)

\* Any way to name the states on the way is the run of the machine.
LEMMA RunIs ==
    ASSUME NEW n \in Nat, NEW word \in Words(n), NEW S, NEW state \in [0 .. n -> S],
           \A k \in 1 .. n : state[k] = Step(state[k - 1], word[k]).nst,
           NEW j \in 1 .. n
    PROVE  Run(state[0], word)[j] = Step(state[j - 1], word[j])
<1> DEFINE Equation(g) == g = [k \in 0 .. Len(word) |-> IF k = 0 THEN state[0] ELSE Step(g[k - 1], word[k]).nst]
           z == CHOOSE g : Equation(g)
<1>1. Len(word) = n
    BY WordIsSeq
<1>2. Equation(state)
    <2>1. ASSUME NEW k \in 0 .. n
          PROVE  state[k] = IF k = 0 THEN state[0] ELSE Step(state[k - 1], word[k]).nst
        <3> HIDE DEF z
        <3>1. k = 0 \/ k \in 1 .. n
            OBVIOUS
        <3> QED BY <3>1
    <2>2. state = [k \in 0 .. n |-> IF k = 0 THEN state[0] ELSE Step(state[k - 1], word[k]).nst]
        BY <2>1
    <2> QED BY <1>1, <2>2
<1>3. Equation(z)
    BY <1>2, Zenon
<1>4. Run(state[0], word) = [k \in 1 .. Len(word) |-> Step(z[k - 1], word[k])]
    BY Zenon DEF Run
<1> HIDE DEF z
<1>5. \A k \in 0 .. n : z[k] = IF k = 0 THEN state[0] ELSE Step(z[k - 1], word[k]).nst
    BY <1>1, <1>3
<1> DEFINE Bad == {k \in 0 .. n : z[k] # state[k]}
<1>6. 0 \notin Bad
    BY <1>5
<1>7. ASSUME NEW k \in 1 .. n, k - 1 \notin Bad PROVE k \notin Bad
    <2>1. k \in 0 .. n /\ k # 0 /\ k - 1 \in 0 .. n
        OBVIOUS
    <2>2. z[k - 1] = state[k - 1]
        BY <1>7, <2>1
    <2>3. z[k] = Step(z[k - 1], word[k]).nst
        BY <1>5, <2>1
    <2> QED BY <2>2, <2>3
<1>8. Bad = {}
    <2>1. Bad \in SUBSET (0 .. n)
        OBVIOUS
    <2> HIDE DEF Bad
    <2> QED BY <1>6, <1>7, <2>1, FirstFailure
<1>9. \A k \in 1 .. n : z[k - 1] = state[k - 1]
    <2>1. \A k \in 1 .. n : k - 1 \in 0 .. n
        OBVIOUS
    <2> QED BY <1>8, <2>1
<1> QED BY <1>1, <1>4, <1>9

-----------------------------------------------------------------------------
(* Circuits without latches                                                *)

LEMMA TableIs ==
    ASSUME NEW g
    PROVE  Table(g) = g
BY DEF Table

LEMMA CardinalityTo ==
    ASSUME NEW n \in Nat
    PROVE  Cardinality(0 .. n - 1) = n
BY FS_Interval

\* A circuit of n inputs and the outputs po.
LEMMA CombOf ==
    ASSUME NEW n \in Nat, NEW P \in Nat, NEW V, NEW po \in [0 .. P - 1 -> V]
    PROVE  CiNum(Comb(n, po)) = n /\ PoNum(Comb(n, po)) = P /\ Co(Comb(n, po)) = po
<1>1. Cardinality(0 .. P - 1) = P
    BY CardinalityTo
<1>2. Cardinality(DOMAIN <<>>) = 0
    <2>1. DOMAIN <<>> = {}
        OBVIOUS
    <2> QED BY <2>1, FS_EmptySet
<1>3. DOMAIN po = 0 .. P - 1
    OBVIOUS
<1>4. CiNum(Comb(n, po)) = n /\ PoNum(Comb(n, po)) = P /\ LatNum(Comb(n, po)) = 0
    BY <1>1, <1>2, <1>3 DEF Comb, CiNum, PoNum, LatNum, Num
<1>5. CoNum(Comb(n, po)) = P
    BY <1>4 DEF CoNum
<1>6. Co(Comb(n, po)) = [k \in 0 .. P - 1 |-> IF k < P THEN po[k] ELSE <<>>[k - P]]
    BY <1>4, <1>5 DEF Co, Comb
<1>7. \A k \in 0 .. P - 1 : (IF k < P THEN po[k] ELSE <<>>[k - P]) = po[k]
    OBVIOUS
<1> QED BY <1>4, <1>6, <1>7

\* The cone of some outputs.
Part(po, s, e) == [k \in 0 .. e - s - 1 |-> po[s + k]]

LEMMA ConeOf ==
    ASSUME NEW n \in Nat, NEW po, NEW s, NEW e
    PROVE  aigCone(Comb(n, po), s, e) = Comb(n, Part(po, s, e))
<1>1. CiNum(Comb(n, po)) = n
    <2>1. DOMAIN <<>> = {}
        OBVIOUS
    <2>2. Cardinality(DOMAIN <<>>) = 0
        BY <2>1, FS_EmptySet
    <2> QED BY <2>2 DEF Comb, CiNum, LatNum, Num
<1>2. Comb(n, po).po = po
    BY DEF Comb
<1> QED BY <1>1, <1>2 DEF aigCone, Part

\* The inputs v of a circuit brought back to where they were before.
Moved(n, perm, v) == [p \in 0 .. n - 1 |-> v[CHOOSE m \in 0 .. n - 1 : perm[m] = p]]

MovedIn(n, P, po, perm) == [k \in 0 .. P - 1 |-> [v \in Ins(n) |-> po[k][Moved(n, perm, v)]]]

LEMMA PermCiOf ==
    ASSUME NEW n \in Nat, NEW P \in Nat, NEW V, NEW po \in [0 .. P - 1 -> V], NEW perm
    PROVE  aigPermCi(Comb(n, po), perm) = Comb(n, MovedIn(n, P, po, perm))
<1> DEFINE N == Comb(n, po)
           g == [c \in 0 .. n - 1 |-> CHOOSE m \in 0 .. n - 1 : perm[m] = c]
<1>1. CiNum(N) = n /\ Co(N) = po
    BY CombOf, SMTT(40)
<1> HIDE DEF N
<1>4. aigPermCi(N, perm) =
          Comb(n, [k \in DOMAIN po |-> [v \in Ins(n) |-> po[k][[c \in DOMAIN v |-> v[g[c]]]]]])
    <2> DEFINE Place(x) == [c \in 0 .. x - 1 |-> CHOOSE m \in 0 .. x - 1 : perm[m] = c]
               Body(x, co, pl) ==
                   Comb(x, [k \in DOMAIN co |-> [v \in Ins(x) |-> co[k][[c \in DOMAIN v |-> v[pl[c]]]]]])
    <2>1. aigPermCi(N, perm) = Body(CiNum(N), Co(N), Table(Place(CiNum(N))))
        BY Zenon DEF aigPermCi
    <2>2. Body(n, po, Place(n)) =
              Comb(n, [k \in DOMAIN po |-> [v \in Ins(n) |-> po[k][[c \in DOMAIN v |-> v[g[c]]]]]])
        OBVIOUS
    <2> HIDE DEF Body, Place, g
    <2> QED BY <1>1, <2>1, <2>2, TableIs
<1>5. ASSUME NEW v \in Ins(n) PROVE [c \in DOMAIN v |-> v[g[c]]] = Moved(n, perm, v)
    BY DEF Ins, Moved
<1>6. [k \in DOMAIN po |-> [v \in Ins(n) |-> po[k][[c \in DOMAIN v |-> v[g[c]]]]]]
        = [k \in 0 .. P - 1 |-> [v \in Ins(n) |-> po[k][Moved(n, perm, v)]]]
    <2>1. DOMAIN po = 0 .. P - 1
        OBVIOUS
    <2> HIDE DEF g
    <2> QED BY <1>5, <2>1, Zenon
<1> QED BY <1>4, <1>6 DEF N, MovedIn

LEMMA PermCoOf ==
    ASSUME NEW n, NEW po, NEW perm
    PROVE  aigPermCo(Comb(n, po), perm) = Comb(n, [k \in DOMAIN po |-> po[perm[k]]])
BY DEF aigPermCo, Comb

\* The outputs of the expanded machine.
LEMMA FramesOf ==
    ASSUME NEW m \in Nat, NEW dc, NEW j \in 0 .. NTimeFrame * m - 1,
           NEW in \in Ins(NTimeFrame * NPi)
    PROVE  FramesOutputs(0 .. m - 1, dc)[j][in] =
               LET o == Run(S0_0, WordOf(in, NTimeFrame))[j \div m + 1].out[j % m]
               IN o = "1" \/ (o = "-" /\ dc)
<1>1. Cardinality(0 .. m - 1) = m
    BY CardinalityTo
<1> DEFINE In == [0 .. NTimeFrame * NPi - 1 -> BOOLEAN]
           runs == [z \in In |-> Run(S0_0, WordOf(z, NTimeFrame))]
           o(z, l) == runs[z][l \div m + 1].out[l % m]
<1>2. FramesOutputs(0 .. m - 1, dc) =
          [l \in 0 .. NTimeFrame * m - 1 |-> [z \in In |-> o(z, l) = "1" \/ (o(z, l) = "-" /\ dc)]]
    BY <1>1, Zenon DEF FramesOutputs
<1>3. in \in In
    BY DEF Ins
<1>4. runs[in] = Run(S0_0, WordOf(in, NTimeFrame))
    BY <1>3
<1> HIDE DEF runs, In
<1>5. FramesOutputs(0 .. m - 1, dc)[j][in] = (o(in, j) = "1" \/ (o(in, j) = "-" /\ dc))
    <2> DEFINE B(z, l) == o(z, l) = "1" \/ (o(z, l) = "-" /\ dc)
    <2>1. FramesOutputs(0 .. m - 1, dc) = [l \in 0 .. NTimeFrame * m - 1 |-> [z \in In |-> B(z, l)]]
        BY <1>2
    <2> HIDE DEF B
    <2>2. FramesOutputs(0 .. m - 1, dc)[j][in] = B(in, j)
        <3>1. FramesOutputs(0 .. m - 1, dc)[j] = [z \in In |-> B(z, j)]
            BY <2>1
        <3> QED BY <1>3, <3>1
    <2> QED BY <2>2 DEF B
<1> QED BY <1>4, <1>5

LEMMA FramesShape ==
    ASSUME NEW m \in Nat, NEW dc
    PROVE  FramesOutputs(0 .. m - 1, dc) = [j \in 0 .. NTimeFrame * m - 1 |-> FramesOutputs(0 .. m - 1, dc)[j]]
<1>1. Cardinality(0 .. m - 1) = m
    BY CardinalityTo
<1> QED BY <1>1 DEF FramesOutputs

LEMMA MovedInputs ==
    ASSUME NEW n \in Nat, NEW perm \in Bijection(0 .. n - 1, 0 .. n - 1), NEW v \in Ins(n)
    PROVE  Moved(n, perm, v) \in Ins(n)
<1>1. ASSUME NEW p \in 0 .. n - 1 PROVE (CHOOSE m \in 0 .. n - 1 : perm[m] = p) \in 0 .. n - 1
    <2>1. \E m \in 0 .. n - 1 : perm[m] = p
        BY DEF Bijection, Surjection
    <2> QED BY <2>1
<1> QED BY <1>1 DEF Moved, Ins
=============================================================================

---------------------------- MODULE NumberLemmas ----------------------------
(***************************************************************************)
(* Facts about numbers that several proofs need.  The code numbers input   *)
(* pins, storage latches and output slots alike: number f * n + i is item  *)
(* i of frame f, when a frame has n items.  What is defined by recursion   *)
(* over numbered things is defined indeed, and sets that grow inside a     *)
(* finite one stop growing.                                                *)
(***************************************************************************)
EXTENDS FiniteSetTheorems, TLAPS

\* Multiplication by the size of a frame is monotonic.
LEMMA MulMonotone ==
    ASSUME NEW a \in Nat, NEW b \in Nat, NEW n \in Nat, a <= b
    PROVE  a * n \in Nat /\ b * n \in Nat /\ a * n <= b * n
<1>1. PICK d \in Nat : b = a + d
    <2>1. b - a \in Nat /\ b = a + (b - a)
        OBVIOUS
    <2> QED BY <2>1
<1>2. b * n = a * n + d * n /\ a * n \in Nat /\ d * n \in Nat
    BY <1>1
<1> QED BY <1>2

\* Number j of m frames with n items each is item j % n of frame j \div n.
LEMMA FrameAndItem ==
    ASSUME NEW n \in Nat, NEW m \in Nat, NEW j \in 0 .. m * n - 1
    PROVE  /\ j \div n \in 0 .. m - 1
           /\ j % n \in 0 .. n - 1
           /\ j = (j \div n) * n + (j % n)
<1>0. n # 0 /\ m * n \in Nat
    <2>1. n = 0 => m * n = 0
        OBVIOUS
    <2> QED BY <2>1
<1>1. j \in Nat /\ n \in Nat \ {0}
    BY <1>0
<1>2. /\ j \div n \in Nat /\ j % n \in 0 .. n - 1
      /\ j = (j \div n) * n + (j % n)
    BY <1>1
<1>3. j \div n < m
    <2> SUFFICES ASSUME m <= j \div n PROVE FALSE
        BY <1>2
    <2>1. m * n <= (j \div n) * n /\ (j \div n) * n \in Nat
        BY <1>2, MulMonotone
    <2>2. m * n <= j
        BY <1>2, <2>1, <1>0
    <2> QED BY <2>2, <1>0
<1> QED BY <1>2, <1>3

\* Item i of frame f has the number f * n + i, and no other item has it.
LEMMA ItemOfFrame ==
    ASSUME NEW n \in Nat, NEW f \in Nat, NEW i \in 0 .. n - 1
    PROVE  /\ f * n + i \in Nat
           /\ (f * n + i) \div n = f
           /\ (f * n + i) % n = i
<1>1. f * n \in Nat /\ n \in Nat \ {0} /\ i \in Nat /\ i < n
    OBVIOUS
<1>2. f * n + i \in Nat
    BY <1>1
<1> DEFINE j == f * n + i
           q == j \div n
<1>3. q \in Nat /\ j % n \in 0 .. n - 1 /\ j = q * n + (j % n)
    BY <1>1, <1>2
<1>4. CASE q < f
    <2>1. (q + 1) * n <= f * n
        BY <1>4, <1>3, MulMonotone
    <2>2. q * n + n <= f * n
        BY <2>1, <1>3, <1>1
    <2> QED BY <2>2, <1>1, <1>3
<1>5. CASE f < q
    <2>1. (f + 1) * n <= q * n
        BY <1>5, <1>3, MulMonotone
    <2>2. f * n + n <= q * n
        BY <2>1, <1>3, <1>1
    <2> QED BY <2>2, <1>1, <1>3
<1>6. CASE q = f
    <2>1. j = f * n + (j % n)
        BY <1>3, <1>6
    <2> QED BY <2>1, <1>1, <1>2, <1>3, <1>6
<1> QED BY <1>3, <1>4, <1>5, <1>6

\* The number of an item of an earlier frame is within the earlier frames.
LEMMA ItemInRange ==
    ASSUME NEW n \in Nat, NEW m \in Nat, NEW f \in 0 .. m - 1, NEW i \in 0 .. n - 1
    PROVE  f * n + i \in 0 .. m * n - 1
<1>1. (f + 1) * n <= m * n /\ m * n \in Nat /\ f * n \in Nat
    BY MulMonotone
<1>2. (f + 1) * n = f * n + n
    OBVIOUS
<1> QED BY <1>1, <1>2

-----------------------------------------------------------------------------
(* Recursion                                                               *)

\* A set of numbers has a least one.
LEMMA LeastNumber ==
    ASSUME NEW T \in SUBSET Nat, T # {}
    PROVE  \E x \in T : \A y \in T : x <= y
<1>1. PICK x \in T : \A y \in T : <<y, x>> \notin OpToRel(<, Nat)
    BY NatLessThanWellFounded, WFMin
<1>2. \A y \in T : ~ (y < x)
    BY <1>1 DEF OpToRel
<1> QED BY <1>2

\* A member of S outside B is reached from two members of smaller rank.
Ranked(S, B, left, right, rank) ==
    /\ left \in [S -> S] /\ right \in [S -> S] /\ rank \in [S -> Nat]
    /\ \A o \in S \ B : rank[left[o]] < rank[o] /\ rank[right[o]] < rank[o]

\* f is base on B, and G combines its values on left and right elsewhere.
Computes(f, S, V, B, base, left, right, G) ==
    /\ f \in [S -> V]
    /\ \A o \in S : f[o] = IF o \in B THEN base[o] ELSE G[<<o, f[left[o]], f[right[o]]>>]

\* Where members have ranks, what is computed from smaller ones exists.
LEMMA RecursionExists ==
    ASSUME NEW S, NEW V, NEW B, NEW base \in [S -> V], NEW G \in [S \X V \X V -> V],
           NEW left, NEW right, NEW rank, Ranked(S, B, left, right, rank)
    PROVE  \E f : Computes(f, S, V, B, base, left, right, G)
<1> USE DEF Ranked
<1> DEFINE Below(n) == {o \in S : rank[o] < n}
           Right(g, o) == g[o] = IF o \in B THEN base[o] ELSE G[<<o, g[left[o]], g[right[o]]>>]
           Approx(n) == {g \in [Below(n) -> V] : \A o \in Below(n) : Right(g, o)}
<1>1. \A n \in Nat : Approx(n) # {}
    <2> DEFINE Bad == {n \in Nat : Approx(n) = {}}
    <2> SUFFICES ASSUME Bad # {} PROVE FALSE
        OBVIOUS
    <2>1. PICK n \in Bad : \A m \in Bad : n <= m
        <3>1. Bad \in SUBSET Nat
            OBVIOUS
        <3> HIDE DEF Bad
        <3> QED BY <3>1, LeastNumber
    <2>2. CASE n = 0
        <3>1. Below(0) = {}
            OBVIOUS
        <3>2. [o \in {} |-> base[o]] \in Approx(0)
            BY <3>1
        <3> QED BY <2>1, <2>2, <3>2
    <2>3. CASE n # 0
        <3>1. n - 1 \in Nat /\ n - 1 \notin Bad
            BY <2>1, <2>3
        <3>2. PICK g : g \in Approx(n - 1)
            BY <3>1
        <3> DEFINE h == [o \in Below(n) |->
                            IF o \in B THEN base[o] ELSE G[<<o, g[left[o]], g[right[o]]>>]]
        <3>3. \A o \in Below(n) \ B : left[o] \in Below(n - 1) /\ right[o] \in Below(n - 1)
            BY <2>1
        <3>4. \A o \in Below(n - 1) : o \in Below(n) /\ g[o] \in V /\ h[o] = g[o]
            <4>1. Below(n - 1) \subseteq Below(n)
                BY <2>1, <3>1
            <4>2. g \in [Below(n - 1) -> V] /\ \A o \in Below(n - 1) : Right(g, o)
                BY <3>2
            <4> QED BY <4>1, <4>2
        <3>5. h \in [Below(n) -> V]
            BY <3>3, <3>4
        <3>6. \A o \in Below(n) : Right(h, o)
            BY <3>3, <3>4
        <3> QED BY <2>1, <3>5, <3>6
    <2> QED BY <2>2, <2>3
<1>2. ASSUME NEW m \in Nat, NEW n \in Nat, NEW g \in Approx(m), NEW h \in Approx(n)
      PROVE  \A o \in Below(m) \cap Below(n) : g[o] = h[o]
    <2> DEFINE Bad == {rank[o] : o \in {o \in Below(m) \cap Below(n) : g[o] # h[o]}}
    <2> SUFFICES ASSUME Bad # {} PROVE FALSE
        <3>1. ASSUME Bad = {}, NEW o \in Below(m) \cap Below(n) PROVE g[o] = h[o]
            <4>1. g[o] # h[o] => rank[o] \in Bad
                OBVIOUS
            <4> QED BY <4>1, <3>1
        <3> QED BY <3>1
    <2>1. PICK r \in Bad : \A q \in Bad : r <= q
        <3>1. Bad \in SUBSET Nat
            OBVIOUS
        <3> HIDE DEF Bad
        <3> QED BY <3>1, LeastNumber
    <2>2. PICK o \in Below(m) \cap Below(n) : g[o] # h[o] /\ rank[o] = r
        BY <2>1
    <2>3. Right(g, o) /\ Right(h, o)
        OBVIOUS
    <2>4. o \notin B
        BY <2>2, <2>3
    <2>5. ASSUME NEW u \in S, rank[u] < rank[o] PROVE g[u] = h[u]
        <3>1. u \in Below(m) \cap Below(n) /\ rank[u] \in Nat /\ rank[o] \in Nat
            <4>1. rank[u] \in Nat /\ rank[o] \in Nat /\ rank[o] < m /\ rank[o] < n
                BY <2>2
            <4> QED BY <4>1, <2>5
        <3>2. ~ (r <= rank[u])
            BY <3>1, <2>2, <2>5
        <3>3. rank[u] \notin Bad
            BY <2>1, <3>2
        <3> QED BY <3>1, <3>3
    <2>6. g[left[o]] = h[left[o]] /\ g[right[o]] = h[right[o]]
        BY <2>4, <2>5
    <2> QED BY <2>2, <2>3, <2>6
<1> DEFINE F(o) == CHOOSE g : g \in Approx(rank[o] + 1)
           f == [o \in S |-> F(o)[o]]
<1>3. \A o \in S : rank[o] + 1 \in Nat /\ F(o) \in Approx(rank[o] + 1) /\ o \in Below(rank[o] + 1)
    <2> HIDE DEF Approx
    <2> QED BY <1>1
<1> HIDE DEF F
<1>4. f \in [S -> V]
    <2>1. \A o \in S : F(o) \in [Below(rank[o] + 1) -> V] /\ o \in Below(rank[o] + 1)
        BY <1>3
    <2> HIDE DEF Below
    <2> QED BY <2>1
<1>5. ASSUME NEW o \in S
      PROVE  f[o] = IF o \in B THEN base[o] ELSE G[<<o, f[left[o]], f[right[o]]>>]
    <2>1. Right(F(o), o)
        BY <1>3
    <2>2. CASE o \in B
        BY <2>1, <2>2
    <2>3. CASE o \notin B
        <3>1. ASSUME NEW u \in S, rank[u] < rank[o] PROVE F(o)[u] = f[u]
            <4>1. u \in Below(rank[o] + 1) \cap Below(rank[u] + 1)
                BY <3>1
            <4>2. F(o)[u] = F(u)[u]
                <5> HIDE DEF Approx, Below
                <5> QED BY <4>1, <1>2, <1>3
            <4> QED BY <4>2
        <3>2. F(o)[left[o]] = f[left[o]] /\ F(o)[right[o]] = f[right[o]]
            BY <2>3, <3>1
        <3> QED BY <2>1, <2>3, <3>2
    <2> QED BY <2>2, <2>3
<1> QED BY <1>4, <1>5 DEF Computes

\* f starts with base, and G[k] leads from the value before k to that of k.
CountedBy(f, V, n, base, G) ==
    f \in [0 .. n -> V] /\ f[0] = base /\ \A k \in 1 .. n : f[k] = G[k][f[k - 1]]

StepsIn(G, n, V) == \A k \in 1 .. n, u \in V : G[k][u] \in V

LEMMA CountedExists ==
    ASSUME NEW V, NEW n \in Nat, NEW base \in V, NEW G, StepsIn(G, n, V)
    PROVE  \E f : CountedBy(f, V, n, base, G)
<1> DEFINE S == 0 .. n
           B == {0}
           bases == [k \in S |-> base]
           prev == [k \in S |-> IF k = 0 THEN 0 ELSE k - 1]
           rank == [k \in S |-> k]
           H == [p \in S \X V \X V |-> IF p[1] = 0 THEN base ELSE G[p[1]][p[2]]]
<1>1. PICK f : Computes(f, S, V, B, bases, prev, prev, H)
    <2>1. bases \in [S -> V] /\ H \in [S \X V \X V -> V]
        <3>1. ASSUME NEW p \in S \X V \X V PROVE (IF p[1] = 0 THEN base ELSE G[p[1]][p[2]]) \in V
            BY DEF StepsIn
        <3> QED BY <3>1
    <2>2. Ranked(S, B, prev, prev, rank)
        BY DEF Ranked
    <2> HIDE DEF S, B, bases, prev, rank, H
    <2> QED BY <2>1, <2>2, RecursionExists
<1>2. f \in [S -> V] /\ \A k \in S : f[k] = IF k \in B THEN bases[k] ELSE H[<<k, f[prev[k]], f[prev[k]]>>]
    BY <1>1 DEF Computes
<1>3. f[0] = base
    <2>1. 0 \in S /\ 0 \in B /\ bases[0] = base
        OBVIOUS
    <2> HIDE DEF S, B, bases, prev, rank, H
    <2> QED BY <1>2, <2>1
<1>4. ASSUME NEW k \in 1 .. n PROVE f[k] = G[k][f[k - 1]]
    <2>1. k \in S /\ k \notin B /\ prev[k] = k - 1 /\ k - 1 \in S
        OBVIOUS
    <2>2. f[k] = H[<<k, f[k - 1], f[k - 1]>>]
        BY <1>2, <2>1
    <2>3. f[k - 1] \in V
        BY <1>2, <2>1
    <2> HIDE DEF B, bases, prev, rank
    <2> QED BY <2>1, <2>2, <2>3
<1> QED BY <1>2, <1>3, <1>4 DEF CountedBy

\* w starts with base, and step leads from each entry to the next one.
Iterates(w, n, base, step) ==
    w = [k \in 0 .. n |-> IF k = 0 THEN base ELSE step[w[k - 1]]]

LEMMA IterationExists ==
    ASSUME NEW D, NEW n \in Nat, NEW base \in SUBSET D, NEW step \in [SUBSET D -> SUBSET D]
    PROVE  \E w : Iterates(w, n, base, step)
<1> DEFINE S == 0 .. n
           V == SUBSET D
           B == {0}
           bases == [k \in S |-> base]
           prev == [k \in S |-> IF k = 0 THEN 0 ELSE k - 1]
           rank == [k \in S |-> k]
           G == [p \in S \X V \X V |-> step[p[2]]]
<1>1. PICK w : Computes(w, S, V, B, bases, prev, prev, G)
    <2>1. bases \in [S -> V] /\ G \in [S \X V \X V -> V]
        OBVIOUS
    <2>2. Ranked(S, B, prev, prev, rank)
        BY DEF Ranked
    <2> HIDE DEF S, V, B, bases, prev, rank, G
    <2> QED BY <2>1, <2>2, RecursionExists
<1>2. w \in [S -> V]
    BY <1>1 DEF Computes
<1>3. \A k \in S : w[k] = IF k = 0 THEN base ELSE step[w[k - 1]]
    <2>1. ASSUME NEW k \in S PROVE w[k] = IF k = 0 THEN base ELSE step[w[k - 1]]
        <3>1. w[k] = IF k \in B THEN bases[k] ELSE G[<<k, w[prev[k]], w[prev[k]]>>]
            BY <1>1 DEF Computes
        <3>2. prev[k] \in S /\ w[prev[k]] \in V
            BY <1>2
        <3>3. G[<<k, w[prev[k]], w[prev[k]]>>] = step[w[prev[k]]]
            BY <3>2
        <3> QED BY <3>1, <3>3
    <2> QED BY <2>1
<1> QED BY <1>2, <1>3 DEF Iterates

\* The step of a counterexample that is as early as possible.
LEMMA FirstFailure ==
    ASSUME NEW n \in Nat, NEW Bad \in SUBSET (0 .. n), 0 \notin Bad,
           \A k \in 1 .. n : k - 1 \notin Bad => k \notin Bad
    PROVE  Bad = {}
<1> SUFFICES ASSUME Bad # {} PROVE FALSE
    OBVIOUS
<1>1. PICK k \in Bad : \A j \in Bad : k <= j
    <2>1. Bad \in SUBSET Nat
        OBVIOUS
    <2> QED BY <2>1, LeastNumber
<1>2. k \in 1 .. n /\ k - 1 \notin Bad
    BY <1>1
<1> QED BY <1>1, <1>2

Grows(step, D) ==
    step \in [SUBSET D -> SUBSET D] /\ \A A \in SUBSET D : A \subseteq step[A]

\* E is the least subset of D that holds base and that step does not leave.
IsClosure(E, D, base, step) ==
    /\ E \in SUBSET D /\ base \subseteq E /\ step[E] = E
    /\ \A A \in SUBSET D :
          base \subseteq A /\ (\A C \in SUBSET A : step[C] \subseteq A) => E \subseteq A

\* Sets that grow inside a finite set with no more than n elements have
\* stopped growing after n steps.
LEMMA IterationCloses ==
    ASSUME NEW D, IsFiniteSet(D), NEW n \in Nat, Cardinality(D) <= n,
           NEW base \in SUBSET D, NEW step, Grows(step, D),
           NEW w, Iterates(w, n, base, step)
    PROVE  IsClosure(w[n], D, base, step)
<1>0. step \in [SUBSET D -> SUBSET D] /\ \A A \in SUBSET D : A \subseteq step[A]
    BY DEF Grows
<1>1. w[0] = base /\ \A k \in 1 .. n : w[k] = step[w[k - 1]]
    <2>1. w[0] = base
        BY DEF Iterates
    <2>2. ASSUME NEW k \in 1 .. n PROVE w[k] = step[w[k - 1]]
        <3>1. k \in 0 .. n /\ k # 0
            OBVIOUS
        <3> QED BY <3>1 DEF Iterates
    <2> QED BY <2>1, <2>2
<1>2. \A k \in 0 .. n : w[k] \in SUBSET D /\ base \subseteq w[k]
    <2> DEFINE Bad == {k \in 0 .. n : ~ (w[k] \in SUBSET D /\ base \subseteq w[k])}
    <2>1. 0 \notin Bad /\ \A k \in 1 .. n : k - 1 \notin Bad => k \notin Bad
        <3>1. ASSUME NEW k \in 1 .. n, k - 1 \notin Bad PROVE k \notin Bad
            <4>1. w[k - 1] \in SUBSET D /\ base \subseteq w[k - 1]
                BY <3>1
            <4>2. w[k] = step[w[k - 1]] /\ step[w[k - 1]] \in SUBSET D
                BY <4>1, <1>0, <1>1
            <4>3. w[k - 1] \subseteq step[w[k - 1]]
                BY <4>1, <1>0
            <4> QED BY <4>1, <4>2, <4>3
        <3> QED BY <1>1, <3>1
    <2>2. Bad = {}
        <3> HIDE DEF Bad
        <3>1. Bad \in SUBSET (0 .. n)
            BY DEF Bad
        <3> QED BY <2>1, <3>1, FirstFailure
    <2> QED BY <2>2
<1>3. \A k \in 0 .. n : IsFiniteSet(w[k]) /\ Cardinality(w[k]) \in Nat
    BY <1>2, FS_Subset, FS_CardinalityType
<1>4. \A k \in 0 .. n : (\A j \in 0 .. k - 1 : step[w[j]] # w[j]) => Cardinality(w[k]) >= k
    <2> DEFINE Bad == {k \in 0 .. n :
                          (\A j \in 0 .. k - 1 : step[w[j]] # w[j]) /\ ~ (Cardinality(w[k]) >= k)}
    <2>1. 0 \notin Bad
        BY <1>3
    <2>2. ASSUME NEW k \in 1 .. n, k - 1 \notin Bad, k \in Bad PROVE FALSE
        <3>1. k - 1 \in 0 .. k - 1 /\ \A j \in 0 .. (k - 1) - 1 : j \in 0 .. k - 1
            OBVIOUS
        <3>2. step[w[k - 1]] # w[k - 1] /\ Cardinality(w[k - 1]) >= k - 1
            BY <2>2, <3>1
        <3>3. w[k] = step[w[k - 1]] /\ w[k - 1] \subseteq w[k] /\ w[k] # w[k - 1]
            <4>1. k - 1 \in 0 .. n
                OBVIOUS
            <4>2. w[k - 1] \in SUBSET D
                BY <4>1, <1>2
            <4> QED BY <1>0, <1>1, <3>2, <4>2
        <3>4. Cardinality(w[k - 1]) <= Cardinality(w[k]) /\ Cardinality(w[k - 1]) # Cardinality(w[k])
            BY <1>3, <3>3, FS_Subset
        <3> QED BY <1>3, <2>2, <3>2, <3>4
    <2>3. Bad = {}
        <3> HIDE DEF Bad
        <3>1. Bad \in SUBSET (0 .. n)
            BY DEF Bad
        <3> QED BY <2>1, <2>2, <3>1, FirstFailure
    <2> QED BY <2>3
<1>5. step[w[n]] = w[n]
    <2> SUFFICES ASSUME step[w[n]] # w[n] PROVE FALSE
        OBVIOUS
    <2>1. ASSUME NEW j \in 0 .. n, step[w[j]] = w[j] PROVE w[n] = w[j]
        <3> DEFINE Bad == {k \in 0 .. n : k >= j /\ w[k] # w[j]}
        <3>1. 0 \notin Bad
            OBVIOUS
        <3>2. ASSUME NEW k \in 1 .. n, k - 1 \notin Bad PROVE k \notin Bad
            <4>1. CASE k <= j
                BY <4>1
            <4>2. CASE k > j
                BY <3>2, <4>2, <1>1, <2>1
            <4> QED BY <4>1, <4>2
        <3>3. Bad = {}
            <4> HIDE DEF Bad
            <4>1. Bad \in SUBSET (0 .. n)
                BY DEF Bad
            <4> QED BY <3>1, <3>2, <4>1, FirstFailure
        <3> QED BY <3>3
    <2>2. \A j \in 0 .. n - 1 : step[w[j]] # w[j]
        BY <2>1
    <2>3. Cardinality(w[n]) >= n /\ w[n] \in SUBSET D
        BY <2>2, <1>2, <1>4
    <2>4. w[n] = D
        BY <2>3, <1>3, FS_Subset, FS_CardinalityType
    <2>5. step[w[n]] \in SUBSET D /\ w[n] \subseteq step[w[n]]
        BY <1>0, <2>3
    <2>6. step[w[n]] = D
        BY <2>4, <2>5
    <2> QED BY <2>4, <2>6
<1>6. ASSUME NEW A \in SUBSET D, base \subseteq A, \A C \in SUBSET A : step[C] \subseteq A
      PROVE  w[n] \subseteq A
    <2> DEFINE Bad == {k \in 0 .. n : ~ (w[k] \subseteq A)}
    <2>1. 0 \notin Bad /\ \A k \in 1 .. n : k - 1 \notin Bad => k \notin Bad
        BY <1>1, <1>6
    <2>2. Bad = {}
        <3> HIDE DEF Bad
        <3>1. Bad \in SUBSET (0 .. n)
            BY DEF Bad
        <3> QED BY <2>1, <3>1, FirstFailure
    <2> QED BY <2>2
<1> QED BY <1>2, <1>5, <1>6 DEF IsClosure
=============================================================================

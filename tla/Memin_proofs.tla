---------------------------- MODULE Memin_proofs ----------------------------
(***************************************************************************)
(* Proofs about memin, for every machine.  The preparation: the reachable  *)
(* part survives the compaction of the vector of states under new numbers, *)
(* the matrix of incompatible states is exact, and the transitions that    *)
(* were cut into pieces do what the given ones did.  The search: no closed *)
(* cover has fewer classes than are found, and the machine that is built   *)
(* from them implements the given one.                                     *)
(***************************************************************************)
EXTENDS Memin, NumberLemmas, FunctionTheorems

-----------------------------------------------------------------------------
(* The machines                                                            *)

\* The states of a machine are numbered from 0.
IsMachine(m, n) ==
    /\ n \in Nat \ {0} /\ DOMAIN m = 0 .. n - 1
    /\ \A s \in DOMAIN m : \A u \in m[s] : u.in \in IncSpecSeqs(NIn)
    /\ Deterministic(m)

LEMMA StatesCount ==
    ASSUME NEW m, NEW n \in Nat \ {0}, DOMAIN m = 0 .. n - 1
    PROVE  IsFiniteSet(DOMAIN m) /\ Cardinality(DOMAIN m) = n /\ NStates(m) = n
<1>1. IsFiniteSet(0 .. n - 1) /\ Cardinality(0 .. n - 1) = n
    <2>1. 0 \in Int /\ n - 1 \in Int /\ ~ (0 > n - 1) /\ (n - 1) - 0 + 1 = n
        OBVIOUS
    <2> QED BY <2>1, FS_Interval
<1> QED BY <1>1 DEF NStates

LEMMA GivenIsMachine ==
    ASSUME given \in Machines
    PROVE  /\ \E n \in Nat \ {0} : IsMachine(given.trans, n)
           /\ given.reset \in DOMAIN given.trans \cup {NoState}
           /\ \A s \in DOMAIN given.trans : \A u \in given.trans[s] : u.to \in DOMAIN given.trans
           /\ NoState \notin DOMAIN given.trans
<1> DEFINE n == NStates(given.trans)
<1>1. /\ given.reset \in DOMAIN given.trans \cup {NoState}
      /\ n \in Nat \ {0} /\ DOMAIN given.trans = 0 .. n - 1
      /\ \A s \in DOMAIN given.trans : given.trans[s] \subseteq Trans(NIn, NOut, n)
      /\ Deterministic(given.trans)
    BY MachinesAssumption
<1> HIDE DEF n
<1>2. \A s \in DOMAIN given.trans : \A u \in given.trans[s] :
          u.in \in IncSpecSeqs(NIn) /\ u.to \in 0 .. n - 1
    BY <1>1 DEF Trans
<1>3. IsMachine(given.trans, n)
    BY <1>1, <1>2 DEF IsMachine
<1>4. NoState \notin 0 .. n - 1
    BY <1>1 DEF NoState
<1> QED BY <1>1, <1>2, <1>3, <1>4

LEMMA GivenHasIn ==
    ASSUME given \in Machines, NEW s \in DOMAIN given.trans, NEW u \in given.trans[s], NEW q
    PROVE  [u EXCEPT !.to = q].in = u.in /\ [u EXCEPT !.to = q].out = u.out
<1>1. u \in Trans(NIn, NOut, NStates(given.trans))
    BY MachinesAssumption
<1> QED BY <1>1 DEF Trans

-----------------------------------------------------------------------------
(* The states that can be reached                                          *)

Nodes == DOMAIN given.trans

SuccessorsOf(A) == {u.to : u \in UNION {given.trans[s] : s \in A}}

\* The reachable states are the least set that holds the reset state and
\* the successors of its members.
LEMMA ReachableIsLeast ==
    ASSUME given \in Machines, given.reset # NoState
    PROVE  /\ Reachable \subseteq Nodes /\ given.reset \in Reachable
           /\ SuccessorsOf(Reachable) \subseteq Reachable
           /\ \A A \in SUBSET Nodes :
                 given.reset \in A /\ SuccessorsOf(A) \subseteq A => Reachable \subseteq A
<1> DEFINE n == Cardinality(Nodes)
           step == [A \in SUBSET Nodes |-> A \cup SuccessorsOf(A)]
           base == {given.reset}
           Equation(w) == w = [k \in 0 .. n |->
               IF k = 0 THEN {given.reset}
               ELSE LET nearer == w[k - 1]
                    IN nearer \cup {t.to : t \in UNION {given.trans[s] : s \in nearer}}]
           within == CHOOSE w : Equation(w)
<1>1. IsFiniteSet(Nodes) /\ n \in Nat
    BY GivenIsMachine, StatesCount DEF Nodes, IsMachine
<1>2. base \in SUBSET Nodes
    BY GivenIsMachine DEF Nodes
<1>3. \A A \in SUBSET Nodes : SuccessorsOf(A) \subseteq Nodes
    BY GivenIsMachine DEF Nodes, SuccessorsOf
<1>4. step \in [SUBSET Nodes -> SUBSET Nodes]
    BY <1>3
<1>5. ASSUME NEW w, Iterates(w, n, base, step) PROVE Equation(w)
    <2>1. ASSUME NEW k \in 0 .. n
          PROVE  w[k] \in SUBSET Nodes
        <3> DEFINE Bad == {j \in 0 .. n : w[j] \notin SUBSET Nodes}
        <3>1. 0 \notin Bad
            BY <1>1, <1>2, <1>5 DEF Iterates
        <3>2. ASSUME NEW j \in 1 .. n, j - 1 \notin Bad PROVE j \notin Bad
            <4>1. j \in 0 .. n /\ j # 0 /\ j - 1 \in 0 .. n
                BY <1>1
            <4>2. w[j] = step[w[j - 1]]
                BY <4>1, <1>5 DEF Iterates
            <4> HIDE DEF step
            <4> QED BY <3>2, <4>1, <4>2, <1>4
        <3>3. Bad = {}
            <4>1. Bad \in SUBSET (0 .. n)
                OBVIOUS
            <4> HIDE DEF Bad, n
            <4> QED BY <1>1, <3>1, <3>2, <4>1, FirstFailure
        <3> QED BY <3>3
    <2>2. ASSUME NEW k \in 0 .. n
          PROVE  w[k] = IF k = 0 THEN {given.reset} ELSE w[k - 1] \cup SuccessorsOf(w[k - 1])
        <3>1. k # 0 => k - 1 \in 0 .. n
            BY <1>1
        <3>2. w[k] = IF k = 0 THEN base ELSE step[w[k - 1]]
            BY <1>5 DEF Iterates
        <3>3. k # 0 => step[w[k - 1]] = w[k - 1] \cup SuccessorsOf(w[k - 1])
            BY <2>1, <3>1
        <3> QED BY <3>2, <3>3
    <2>3. w = [k \in 0 .. n |-> w[k]]
        BY <1>5 DEF Iterates
    <2> HIDE DEF n
    <2> QED BY <2>2, <2>3, Zenon DEF SuccessorsOf
<1>6. ASSUME NEW w, Equation(w) PROVE Iterates(w, n, base, step)
    <2>1. w = [k \in 0 .. n |-> IF k = 0 THEN base ELSE w[k - 1] \cup SuccessorsOf(w[k - 1])]
        <3> HIDE DEF n
        <3> QED BY <1>6, Zenon DEF SuccessorsOf
    <2>2. \A k \in 0 .. n : w[k] \in SUBSET Nodes
        <3> DEFINE Bad == {j \in 0 .. n : w[j] \notin SUBSET Nodes}
        <3>1. 0 \notin Bad
            BY <1>1, <1>2, <2>1
        <3>2. ASSUME NEW j \in 1 .. n, j - 1 \notin Bad PROVE j \notin Bad
            <4>1. j \in 0 .. n /\ j # 0 /\ j - 1 \in 0 .. n
                BY <1>1
            <4>2. w[j] = w[j - 1] \cup SuccessorsOf(w[j - 1])
                BY <4>1, <2>1
            <4> QED BY <3>2, <4>1, <4>2, <1>3
        <3>3. Bad = {}
            <4>1. Bad \in SUBSET (0 .. n)
                OBVIOUS
            <4> HIDE DEF Bad, n
            <4> QED BY <1>1, <3>1, <3>2, <4>1, FirstFailure
        <3> QED BY <3>3
    <2>3. \A k \in 0 .. n : k # 0 => step[w[k - 1]] = w[k - 1] \cup SuccessorsOf(w[k - 1])
        <3>1. \A k \in 0 .. n : k # 0 => k - 1 \in 0 .. n
            BY <1>1
        <3> HIDE DEF n
        <3> QED BY <2>2, <3>1
    <2> HIDE DEF n, step, base
    <2> QED BY <2>1, <2>3 DEF Iterates
<1>7. PICK v : Iterates(v, n, base, step)
    <2> HIDE DEF n, step, base
    <2> QED BY <1>1, <1>2, <1>4, IterationExists
<1>8. Equation(within)
    <2>1. Equation(v)
        BY <1>5, <1>7
    <2> HIDE DEF Equation
    <2> QED BY <2>1
<1>9. Reachable = within[n]
    BY DEF Reachable, Nodes
<1> HIDE DEF within, Equation
<1>10. Iterates(within, n, base, step)
    BY <1>6, <1>8
<1>11. /\ within[n] \in SUBSET Nodes /\ base \subseteq within[n]
       /\ step[within[n]] = within[n]
       /\ \A A \in SUBSET Nodes :
             base \subseteq A /\ (\A C \in SUBSET A : step[C] \subseteq A) => within[n] \subseteq A
    <2>1. Grows(step, Nodes)
        BY <1>4 DEF Grows
    <2>2. Cardinality(Nodes) <= n
        BY <1>1
    <2> HIDE DEF n, step, base
    <2>3. IsClosure(within[n], Nodes, base, step)
        BY <1>1, <1>2, <1>10, <2>1, <2>2, IterationCloses
    <2> QED BY <2>3 DEF IsClosure
<1>12. SuccessorsOf(within[n]) \subseteq within[n]
    BY <1>11
<1>13. ASSUME NEW A \in SUBSET Nodes, given.reset \in A, SuccessorsOf(A) \subseteq A
       PROVE  within[n] \subseteq A
    <2>1. ASSUME NEW C \in SUBSET A PROVE step[C] \subseteq A
        <3>1. C \in SUBSET Nodes /\ SuccessorsOf(C) \subseteq SuccessorsOf(A)
            BY DEF SuccessorsOf
        <3> QED BY <3>1, <1>13
    <2> QED BY ZenonT(60), <1>11, <1>13, <2>1
<1> QED BY <1>9, <1>11, <1>12, <1>13

-----------------------------------------------------------------------------
(* removeUnreachableStates                                                 *)

Settled == pc \notin {"reach", "compact"}

\* All states that were seen can be reached; those that are not in the
\* worklist have had their successors seen.
ReachInv ==
    /\ machine = given.trans /\ resetState = given.reset /\ given.reset # NoState
    /\ stateRemapping = [s \in Nodes |-> Unset] /\ pos = 0
    /\ reachableStates \subseteq Reachable /\ given.reset \in reachableStates
    /\ worklist \in Seq(reachableStates)
    /\ \A s \in reachableStates :
          \/ \E k \in 1 .. Len(worklist) : worklist[k] = s
          \/ \A u \in given.trans[s] : u.to \in reachableStates

\* A reachable state is still to be looked at, where it always was, or it
\* has its place among those that were looked at.
Pending(s) == s \in reachableStates /\ s >= pos

Placed(s) ==
    /\ stateRemapping[s] \in reachableStates /\ stateRemapping[s] < pos
    /\ machine[stateRemapping[s]] = given.trans[s]

CompactInv ==
    /\ resetState = given.reset /\ given.reset # NoState
    /\ \E n \in Nat \ {0} : DOMAIN machine = 0 .. n - 1
    /\ DOMAIN machine \subseteq Nodes /\ pos \in Nat
    /\ stateRemapping \in [Nodes -> Nat]
    /\ reachableStates \subseteq DOMAIN machine /\ reachableStates # {}
    /\ \A s \in Reachable : Pending(s) \/ Placed(s)
    /\ \A s, r \in Reachable :
          Placed(s) /\ Placed(r) /\ stateRemapping[s] = stateRemapping[r] => s = r
    /\ \A q \in DOMAIN machine : q < pos => \E s \in Reachable : Placed(s) /\ stateRemapping[s] = q
    /\ \A q \in reachableStates : q >= pos =>
          q \in Reachable /\ stateRemapping[q] = Unset /\ machine[q] = given.trans[q]

\* What ReachablePartRenamed says, as long as the machine is not changed.
IsRenaming(kept) ==
    /\ kept \in Bijection(Reachable, DOMAIN machine)
    /\ \A s \in Reachable : machine[kept[s]] =
          {[u EXCEPT !.to = kept[u.to]] : u \in given.trans[s]}
    /\ resetState = kept[given.reset]

Renamed == IsRenaming(Restrict(stateRemapping, Reachable))

SettledInv ==
    /\ \E n \in Nat \ {0} : IsMachine(machine, n)
    /\ given.reset # NoState => Renamed

RemoveInv ==
    /\ given \in Machines
    /\ pc \in {"reach", "compact", "compare", "propagate", "classes", "collect", "split", "sort"}
    /\ pc = "reach" => ReachInv
    /\ pc = "compact" => CompactInv
    /\ Settled => SettledInv

LEMMA UnsetIsNew == given \in Machines => Unset \in Nat \ Nodes
<1> SUFFICES ASSUME given \in Machines PROVE Unset \in Nat \ Nodes
    OBVIOUS
<1>1. PICK n \in Nat \ {0} : DOMAIN given.trans = 0 .. n - 1
    BY GivenIsMachine DEF IsMachine
<1>2. Unset = n
    BY <1>1, StatesCount DEF Unset
<1>3. n \notin 0 .. n - 1
    BY <1>1
<1> QED BY <1>1, <1>2, <1>3 DEF Nodes

LEMMA InitRemove == Init => RemoveInv
<1> SUFFICES ASSUME Init PROVE RemoveInv
    OBVIOUS
<1> USE DEF Init, Parsed, RemoveInit
<1>1. CASE given.reset = NoState
    <2>1. pc = "compare" /\ machine = given.trans /\ given \in Machines
        BY <1>1
    <2>2. SettledInv
        BY <1>1, <2>1, GivenIsMachine DEF SettledInv
    <2> QED BY <2>1, <2>2 DEF RemoveInv, Settled
<1>2. CASE given.reset # NoState
    <2>1. pc = "reach" /\ given.reset \in Reachable
        BY <1>2, ReachableIsLeast
    <2>2. worklist \in Seq(reachableStates) /\ Len(worklist) = 1 /\ worklist[1] = given.reset
        OBVIOUS
    <2>3. ReachInv
        BY <1>2, <2>1, <2>2 DEF ReachInv, Nodes
    <2> QED BY <2>1, <2>3 DEF RemoveInv, Settled
<1> QED BY <1>1, <1>2

LEMMA VisitKeeps == RemoveInv /\ Visit => RemoveInv'
<1> SUFFICES ASSUME RemoveInv, Visit PROVE RemoveInv'
    OBVIOUS
<1>1. /\ pc = "reach" /\ pc' = "reach" /\ worklist # <<>>
      /\ UNCHANGED <<given, machine, resetState, stateRemapping, pos>>
    BY DEF Visit
<1>2. ReachInv /\ given \in Machines
    BY <1>1 DEF RemoveInv
<1> DEFINE o == worklist[1]
           new == {u.to : u \in machine[o]} \ reachableStates
<1>3. o \in reachableStates /\ Tail(worklist) \in Seq(reachableStates)
      /\ Len(Tail(worklist)) = Len(worklist) - 1 /\ Len(worklist) \in Nat \ {0}
      /\ \A k \in 1 .. Len(worklist) - 1 : Tail(worklist)[k] = worklist[k + 1]
    BY <1>1, <1>2 DEF ReachInv
<1>4. PICK order \in Listings(new) : worklist' = Tail(worklist) \o order
    BY DEF Visit
<1>5. reachableStates' = reachableStates \cup new
    BY DEF Visit
<1>6. new \subseteq Reachable /\ new \subseteq Nodes /\ Reachable \subseteq Nodes
    <2>1. /\ Reachable \subseteq Nodes /\ SuccessorsOf(Reachable) \subseteq Reachable
          /\ o \in Reachable
        BY <1>2, <1>3, ReachableIsLeast DEF ReachInv
    <2>2. {u.to : u \in machine[o]} \subseteq SuccessorsOf(Reachable)
        BY <1>2, <2>1 DEF SuccessorsOf, ReachInv
    <2> QED BY <2>1, <2>2
<1>7. IsFiniteSet(new) /\ Cardinality(new) \in Nat
    <2>1. IsFiniteSet(Nodes)
        BY <1>2, GivenIsMachine, StatesCount DEF Nodes, IsMachine
    <2> HIDE DEF new
    <2> QED BY <1>6, <2>1, FS_Subset, FS_CardinalityType
<1>8. /\ order \in Seq(new) /\ Len(order) = Cardinality(new)
      /\ \A s \in new : \E k \in 1 .. Len(order) : order[k] = s
    <2>1. order \in [1 .. Cardinality(new) -> new]
          /\ \A s \in new : \E k \in 1 .. Cardinality(new) : order[k] = s
        BY <1>4 DEF Listings, Bijection, Injection, Surjection
    <2> HIDE DEF new
    <2> QED BY <2>1, <1>7
<1> HIDE DEF new
<1>9. worklist' \in Seq(reachableStates')
    BY <1>3, <1>4, <1>5, <1>8
<1>10. Len(worklist') = Len(worklist) - 1 + Len(order)
       /\ (\A k \in 1 .. Len(worklist) - 1 : worklist'[k] = worklist[k + 1])
       /\ (\A k \in 1 .. Len(order) : worklist'[Len(worklist) - 1 + k] = order[k])
    <2> DEFINE a == Tail(worklist)
    <2>1. a \in Seq(reachableStates') /\ order \in Seq(reachableStates')
        BY <1>3, <1>5, <1>8
    <2>2. Len(a \o order) = Len(a) + Len(order)
          /\ (\A k \in 1 .. Len(a) : (a \o order)[k] = a[k])
          /\ (\A k \in 1 .. Len(order) : (a \o order)[Len(a) + k] = order[k])
        <3> HIDE DEF a
        <3> QED BY <2>1
    <2> QED BY <2>2, <1>3, <1>4
<1>11. ASSUME NEW s \in reachableStates'
       PROVE  \/ \E k \in 1 .. Len(worklist') : worklist'[k] = s
              \/ \A u \in given.trans[s] : u.to \in reachableStates'
    <2>1. CASE s \in new
        <3>1. PICK k \in 1 .. Len(order) : order[k] = s
            BY <1>8, <2>1
        <3>2. Len(worklist) - 1 + k \in 1 .. Len(worklist') /\ worklist'[Len(worklist) - 1 + k] = s
            BY <1>3, <1>8, <1>10, <1>7, <3>1
        <3> QED BY <3>2
    <2>2. CASE s = o
        <3>1. \A u \in given.trans[s] : u.to \in reachableStates'
            BY <1>2, <1>5, <2>2 DEF ReachInv, new
        <3> QED BY <3>1
    <2>3. CASE s \in reachableStates /\ s # o
        <3>1. CASE \E k \in 1 .. Len(worklist) : worklist[k] = s
            <4>1. PICK k \in 1 .. Len(worklist) : worklist[k] = s
                BY <3>1
            <4>2. k # 1
                BY <2>3, <4>1
            <4>3. k - 1 \in 1 .. Len(worklist) - 1 /\ worklist'[k - 1] = s
                BY <1>3, <1>10, <4>1, <4>2
            <4>4. k - 1 \in 1 .. Len(worklist')
                BY <4>3, <1>3, <1>7, <1>8, <1>10
            <4> QED BY <4>3, <4>4
        <3>2. CASE \A u \in given.trans[s] : u.to \in reachableStates
            BY <3>2, <1>5
        <3> QED BY <2>3, <3>1, <3>2, <1>2 DEF ReachInv
    <2> QED BY <1>5, <2>1, <2>2, <2>3
<1>12. ReachInv'
    <2>1. Reachable' = Reachable /\ Nodes' = Nodes /\ Unset' = Unset
        BY <1>1 DEF Reachable, Nodes, Unset
    <2> QED BY <1>1, <1>2, <1>5, <1>6, <1>9, <1>11, <2>1 DEF ReachInv
<1> QED BY <1>1, <1>2, <1>12 DEF RemoveInv, Settled

\* When the worklist is empty all reachable states were seen.
LEMMA VisitedKeeps == RemoveInv /\ Visited => RemoveInv'
<1> SUFFICES ASSUME RemoveInv, Visited PROVE RemoveInv'
    OBVIOUS
<1>1. /\ pc = "reach" /\ pc' = "compact" /\ worklist = <<>>
      /\ UNCHANGED <<given, machine, resetState, reachableStates, stateRemapping, pos>>
    BY DEF Visited
<1>2. ReachInv /\ given \in Machines
    BY <1>1 DEF RemoveInv
<1>3. Reachable \subseteq Nodes
    BY <1>2, ReachableIsLeast DEF ReachInv
<1>4. reachableStates = Reachable
    <2>1. reachableStates \in SUBSET Nodes
        BY <1>2, <1>3 DEF ReachInv
    <2>2. \A s \in reachableStates : \A u \in given.trans[s] : u.to \in reachableStates
        BY <1>1, <1>2 DEF ReachInv
    <2>3. SuccessorsOf(reachableStates) \subseteq reachableStates
        BY <2>2 DEF SuccessorsOf
    <2> QED BY <1>2, <2>1, <2>3, ReachableIsLeast DEF ReachInv
<1>5. PICK n \in Nat \ {0} : Nodes = 0 .. n - 1
    BY <1>2, GivenIsMachine DEF IsMachine, Nodes
<1>6. CompactInv
    <2>1. stateRemapping \in [Nodes -> Nat]
        BY <1>2, UnsetIsNew DEF ReachInv
    <2>2. \A q \in Reachable : stateRemapping[q] = Unset /\ q >= pos /\ q \in reachableStates
        BY <1>2, <1>3, <1>4, <1>5 DEF ReachInv
    <2>3. \A s \in Reachable : Pending(s) /\ ~ Placed(s)
        BY <1>2, <1>3, <1>4, <2>2, UnsetIsNew DEF Pending, Placed
    <2>4. \A q \in DOMAIN machine : ~ (q < pos)
        BY <1>2, <1>5 DEF ReachInv, Nodes
    <2>5. /\ resetState = given.reset /\ given.reset # NoState
          /\ DOMAIN machine = Nodes /\ pos \in Nat
          /\ reachableStates \subseteq DOMAIN machine /\ reachableStates # {}
          /\ machine = given.trans
        BY <1>2, <1>3 DEF ReachInv, Nodes
    <2> QED BY <1>4, <1>5, <2>1, <2>2, <2>3, <2>4, <2>5 DEF CompactInv
<1>7. CompactInv'
    <2>1. Reachable' = Reachable /\ Nodes' = Nodes /\ Unset' = Unset
        BY <1>1 DEF Reachable, Nodes, Unset
    <2> QED BY <1>1, <1>6, <2>1 DEF CompactInv, Pending, Placed
<1> QED BY <1>1, <1>2, <1>7 DEF RemoveInv, Settled

\* What the invariant of the compaction says of numbers.
LEMMA CompactFacts ==
    ASSUME given \in Machines, CompactInv
    PROVE  /\ Reachable \subseteq Nodes /\ pos \in Nat /\ Nodes \subseteq Nat
           /\ reachableStates \subseteq Nodes /\ DOMAIN machine \subseteq Nat
           /\ \A q \in reachableStates : q >= pos =>
                 q \in Reachable /\ stateRemapping[q] = Unset /\ ~ Placed(q)
           /\ \A s \in Reachable : Placed(s) => stateRemapping[s] \in Nat
<1>1. PICK n \in Nat \ {0} : Nodes = 0 .. n - 1
    BY GivenIsMachine DEF IsMachine, Nodes
<1>2. /\ reachableStates \subseteq Nodes /\ DOMAIN machine \subseteq Nat /\ Nodes \subseteq Nat
      /\ Reachable \subseteq Nodes
    <2>1. DOMAIN machine \subseteq Nodes /\ reachableStates \subseteq DOMAIN machine
        BY DEF CompactInv
    <2>2. Reachable \subseteq Nodes
        BY ReachableIsLeast DEF CompactInv
    <2> QED BY <1>1, <2>1, <2>2
<1>3. ASSUME NEW q \in reachableStates, q >= pos
      PROVE  q \in Reachable /\ stateRemapping[q] = Unset /\ ~ Placed(q)
    <2>1. q \in Reachable /\ stateRemapping[q] = Unset
        BY <1>3 DEF CompactInv
    <2> QED BY <1>2, <2>1, UnsetIsNew DEF Placed
<1>4. \A s \in Reachable : stateRemapping[s] \in Nat
    BY <1>2 DEF CompactInv
<1> QED BY <1>2, <1>3, <1>4 DEF CompactInv

\* A reachable state stays where it is.
LEMMA KeepKeeps == RemoveInv /\ Keep => RemoveInv'
<1> SUFFICES ASSUME RemoveInv, Keep PROVE RemoveInv'
    OBVIOUS
<1>1. /\ pc = "compact" /\ pc' = "compact" /\ pos \in reachableStates /\ pos' = pos + 1
      /\ stateRemapping' = [stateRemapping EXCEPT ![pos] = pos]
      /\ given' = given /\ machine' = machine /\ resetState' = resetState
      /\ reachableStates' = reachableStates
    BY DEF Keep
<1>2. CompactInv /\ given \in Machines
    BY <1>1 DEF RemoveInv
<1>3. Reachable' = Reachable /\ Nodes' = Nodes /\ Unset' = Unset
    BY <1>1 DEF Reachable, Nodes, Unset
<1>4. /\ pos \in Nat /\ pos \in Nodes /\ pos \in Reachable /\ stateRemapping[pos] = Unset
      /\ ~ Placed(pos) /\ machine[pos] = given.trans[pos] /\ pos >= pos /\ pos < pos + 1
      /\ Reachable \subseteq Nodes /\ Nodes \subseteq Nat /\ reachableStates \subseteq Nodes
    <2>1. pos \in Nat /\ pos >= pos /\ pos < pos + 1
        BY <1>2 DEF CompactInv
    <2> QED BY <1>1, <1>2, <2>1, CompactFacts DEF CompactInv
<1>5. /\ stateRemapping' \in [Nodes -> Nat] /\ stateRemapping'[pos] = pos
      /\ \A s \in Nodes : s # pos => stateRemapping'[s] = stateRemapping[s]
    BY <1>1, <1>2, <1>4 DEF CompactInv
<1>6. ASSUME NEW s \in Reachable, s # pos
      PROVE  /\ Placed(s)' <=> Placed(s)
             /\ Pending(s) => Pending(s)'
             /\ Placed(s) => stateRemapping'[s] = stateRemapping[s] /\ stateRemapping'[s] # pos
    <2>1. stateRemapping'[s] = stateRemapping[s] /\ stateRemapping[s] \in Nat /\ s \in Nat
        BY <1>2, <1>4, <1>5, <1>6 DEF CompactInv
    <2>2. Placed(s) => Placed(s)' /\ stateRemapping[s] # pos
        BY <1>1, <1>3, <1>4, <2>1 DEF Placed
    <2>3. Pending(s) => Pending(s)'
        BY <1>1, <1>4, <1>6, <2>1 DEF Pending
    <2>4. ASSUME Placed(s)' PROVE Placed(s)
        <3>1. stateRemapping[s] \in reachableStates
            BY <1>1, <2>1, <2>4 DEF Placed
        <3>2. ~ Pending(s)
            BY <3>1, <1>2, <1>4, CompactFacts, UnsetIsNew DEF Pending
        <3> QED BY <3>2, <1>2 DEF CompactInv
    <2> QED BY <2>1, <2>2, <2>3, <2>4
<1>7. ASSUME NEW s, s = pos PROVE Placed(s)'
    <2>1. s \in reachableStates' /\ s < pos' /\ stateRemapping'[s] = s
        BY <1>1, <1>4, <1>5, <1>7
    <2>2. machine'[s] = given'.trans[s]
        BY <1>1, <1>4, <1>7
    <2> QED BY <2>1, <2>2 DEF Placed
<1>8. CompactInv'
    <2>1. \A s \in Reachable : Pending(s)' \/ Placed(s)'
        <3>1. \A s \in Reachable : Pending(s) \/ Placed(s)
            BY <1>2 DEF CompactInv
        <3>2. ASSUME NEW s \in Reachable PROVE Pending(s)' \/ Placed(s)'
            <4>1. CASE s = pos
                BY <4>1, <1>7
            <4>2. CASE s # pos
                BY <4>2, <3>1, <1>6
            <4> QED BY <4>1, <4>2
        <3> QED BY <3>2
    <2>2. ASSUME NEW s \in Reachable, NEW r \in Reachable, Placed(s)', Placed(r)',
                 stateRemapping'[s] = stateRemapping'[r]
          PROVE  s = r
        <3>1. CASE s # pos /\ r # pos
            BY <2>2, <3>1, <1>2, <1>6 DEF CompactInv
        <3>2. CASE s = pos /\ r # pos
            BY <2>2, <3>2, <1>5, <1>6
        <3>3. CASE s # pos /\ r = pos
            BY <2>2, <3>3, <1>5, <1>6
        <3> QED BY <3>1, <3>2, <3>3
    <2>3. ASSUME NEW q \in DOMAIN machine, q < pos + 1
          PROVE  \E s \in Reachable : Placed(s)' /\ stateRemapping'[s] = q
        <3>1. CASE q = pos
            BY <3>1, <1>4, <1>5, <1>7
        <3>2. CASE q # pos
            <4>1. q \in Nat
                BY <1>2, CompactFacts
            <4>2. q < pos
                BY <4>1, <1>4, <2>3, <3>2
            <4>3. PICK s \in Reachable : Placed(s) /\ stateRemapping[s] = q
                BY <4>2, <1>2 DEF CompactInv
            <4>4. s # pos
                BY <4>3, <1>4
            <4> QED BY <4>3, <4>4, <1>6
        <3> QED BY <3>1, <3>2
    <2>4. ASSUME NEW q \in reachableStates, q >= pos + 1
          PROVE  q \in Reachable /\ stateRemapping'[q] = Unset /\ machine[q] = given.trans[q]
        <3>1. q \in Nat /\ q >= pos /\ q # pos
            BY <1>4, <2>4
        <3> QED BY <3>1, <1>2, <1>4, <1>5 DEF CompactInv
    <2>5. /\ resetState' = given'.reset /\ given'.reset # NoState
          /\ \E n \in Nat \ {0} : DOMAIN machine' = 0 .. n - 1
          /\ DOMAIN machine' \subseteq Nodes' /\ pos' \in Nat
          /\ stateRemapping' \in [Nodes' -> Nat]
          /\ reachableStates' \subseteq DOMAIN machine' /\ reachableStates' # {}
        BY SMTT(40), <1>1, <1>2, <1>3, <1>5 DEF CompactInv
    <2>6. \A s \in Reachable' : Pending(s)' \/ Placed(s)'
        BY <1>3, <2>1
    <2>7. \A s, r \in Reachable' :
             Placed(s)' /\ Placed(r)' /\ stateRemapping'[s] = stateRemapping'[r] => s = r
        BY <1>3, <2>2
    <2>8. \A q \in DOMAIN machine' : q < pos' =>
             \E s \in Reachable' : Placed(s)' /\ stateRemapping'[s] = q
        BY <1>1, <1>3, <2>3
    <2>9. \A q \in reachableStates' : q >= pos' =>
             q \in Reachable' /\ stateRemapping'[q] = Unset' /\ machine'[q] = given'.trans[q]
        BY <1>1, <1>3, <2>4
    <2> QED BY <2>5, <2>6, <2>7, <2>8, <2>9 DEF CompactInv
<1> QED BY <1>1, <1>2, <1>8 DEF RemoveInv, Settled

\* The largest of the reachable states that are left.
LEMMA LastReachable ==
    ASSUME given \in Machines, CompactInv
    PROVE  /\ lastReachableState \in reachableStates
           /\ \A r \in reachableStates : r <= lastReachableState
<1> DEFINE T == reachableStates \cap DOMAIN machine
<1>1. T = reachableStates /\ T # {}
    BY DEF CompactInv
<1>2. PICK n \in Nat \ {0} : DOMAIN machine = 0 .. n - 1
    BY DEF CompactInv
<1>3. \E x \in T : \A r \in T : r <= x
    <2> DEFINE Gaps == {n - r : r \in T}
    <2>1. T \in SUBSET (0 .. n - 1)
        BY <1>2
    <2> HIDE DEF T
    <2>2. Gaps \in SUBSET Nat /\ Gaps # {}
        <3>1. \A r \in T : n - r \in Nat
            BY <2>1
        <3> QED BY <1>1, <3>1
    <2>3. PICK g \in Gaps : \A h \in Gaps : g <= h
        <3> HIDE DEF Gaps
        <3> QED BY <2>2, LeastNumber
    <2>4. PICK x \in T : g = n - x
        OBVIOUS
    <2>5. \A r \in T : n - x <= n - r
        BY <2>3, <2>4
    <2>6. \A r \in T : r <= x
        BY <2>1, <2>4, <2>5
    <2> QED BY <2>6
<1>4. lastReachableState \in T /\ \A r \in T : r <= lastReachableState
    BY <1>3 DEF lastReachableState
<1> QED BY <1>1, <1>4

\* A gap is filled with the last reachable state, or nothing is left after it.
LEMMA FillKeeps == RemoveInv /\ Fill => RemoveInv'
<1> SUFFICES ASSUME RemoveInv, Fill PROVE RemoveInv'
    OBVIOUS
<1>0. PICK last : last = lastReachableState
    OBVIOUS
<1>1. /\ pc = "compact" /\ pc' = "compact" /\ pos \notin reachableStates /\ pos' = pos + 1
      /\ given' = given /\ resetState' = resetState /\ pos < size
    BY DEF Fill
<1>2. CompactInv /\ given \in Machines
    BY <1>1 DEF RemoveInv
<1>3. Reachable' = Reachable /\ Nodes' = Nodes /\ Unset' = Unset
    BY <1>1 DEF Reachable, Nodes, Unset
<1>4. /\ Reachable \subseteq Nodes /\ pos \in Nat /\ Nodes \subseteq Nat
      /\ reachableStates \subseteq Nodes /\ reachableStates \subseteq DOMAIN machine
      /\ DOMAIN machine \subseteq Nodes
      /\ \A q \in reachableStates : q >= pos =>
            q \in Reachable /\ stateRemapping[q] = Unset /\ ~ Placed(q)
    BY <1>2, CompactFacts DEF CompactInv
<1>5. /\ last \in reachableStates /\ last \in Nat
      /\ \A r \in reachableStates : r <= last
    BY <1>0, <1>2, <1>4, LastReachable
<1>6. PICK n \in Nat \ {0} : DOMAIN machine = 0 .. n - 1 /\ size = n
    <2>1. PICK n \in Nat \ {0} : DOMAIN machine = 0 .. n - 1
        BY <1>2 DEF CompactInv
    <2>2. size = n
        BY <2>1, StatesCount DEF size
    <2> QED BY <2>1, <2>2
<1>7. pos \in 0 .. n - 1 /\ last \in 0 .. n - 1 /\ last # pos
    BY <1>1, <1>4, <1>5, <1>6
<1>8. ASSUME last > pos PROVE CompactInv'
    <2>1. /\ stateRemapping' = [stateRemapping EXCEPT ![last] = pos]
          /\ machine' = [q \in 0 .. n - 2 |-> [machine EXCEPT ![pos] = machine[last]][q]]
          /\ reachableStates' = (reachableStates \cup {pos}) \ {last}
        BY <1>0, <1>6, <1>8, Zenon DEF Fill, Restrict
    <2>2. /\ last \in Reachable /\ stateRemapping[last] = Unset /\ ~ Placed(last)
          /\ machine[last] = given.trans[last]
        <3>1. last >= pos
            BY <1>4, <1>5, <1>8
        <3> QED BY <3>1, <1>2, <1>4, <1>5 DEF CompactInv
    <2>3. /\ DOMAIN machine' = 0 .. n - 2 /\ pos \in 0 .. n - 2 /\ n - 1 \in Nat \ {0}
          /\ machine'[pos] = machine[last]
          /\ \A q \in 0 .. n - 2 : q # pos => machine'[q] = machine[q]
        <3>1. pos \in 0 .. n - 2 /\ n - 1 \in Nat \ {0}
            BY <1>7, <1>8
        <3>2. 0 .. n - 2 \subseteq 0 .. n - 1
            OBVIOUS
        <3> QED BY <3>1, <3>2, <2>1, <1>6, <1>7
    <2>4. /\ stateRemapping' \in [Nodes -> Nat] /\ stateRemapping'[last] = pos
          /\ \A s \in Nodes : s # last => stateRemapping'[s] = stateRemapping[s]
        BY <1>2, <1>4, <1>5, <2>1 DEF CompactInv
    <2>5. /\ reachableStates' \subseteq DOMAIN machine' /\ pos \in reachableStates'
          /\ \A q \in reachableStates : q # last => q \in reachableStates' /\ q \in 0 .. n - 2
          /\ \A q \in reachableStates' : q # pos => q \in reachableStates /\ q # last
        <3>1. \A q \in reachableStates : q # last => q \in 0 .. n - 2
            BY <1>4, <1>5, <1>6, <1>7
        <3> QED BY <3>1, <2>1, <2>3, <1>7
    <2>6. ASSUME NEW s \in Reachable, s # last
          PROVE  /\ Placed(s)' <=> Placed(s)
                 /\ Pending(s) => Pending(s)'
                 /\ Placed(s) => stateRemapping'[s] = stateRemapping[s] /\ stateRemapping'[s] # pos
        <3>1. stateRemapping'[s] = stateRemapping[s] /\ stateRemapping[s] \in Nat /\ s \in Nat
            BY <1>2, <1>4, <2>4, <2>6 DEF CompactInv
        <3>2. ASSUME Placed(s) PROVE Placed(s)' /\ stateRemapping[s] # pos
            <4> DEFINE q == stateRemapping[s]
            <4>1. q \in reachableStates /\ q < pos /\ machine[q] = given.trans[s]
                BY <3>2 DEF Placed
            <4>2. q # last /\ q # pos /\ q < pos + 1
                BY <3>1, <4>1, <1>4, <1>5, <1>8
            <4>3. q \in reachableStates' /\ machine'[q] = machine[q]
                BY <4>1, <4>2, <2>3, <2>5
            <4> QED BY <1>1, <3>1, <4>1, <4>2, <4>3 DEF Placed
        <3>3. Pending(s) => Pending(s)'
            <4>1. ASSUME Pending(s) PROVE Pending(s)'
                <5>1. s \in reachableStates /\ s >= pos /\ s # pos
                    BY <1>1, <4>1 DEF Pending
                <5>2. s >= pos + 1
                    BY <5>1, <3>1, <1>4
                <5> QED BY <5>1, <5>2, <1>1, <2>5, <2>6 DEF Pending
            <4> QED BY <4>1
        <3>4. ASSUME Placed(s)' PROVE Placed(s)
            <4>1. stateRemapping[s] \in reachableStates' /\ stateRemapping[s] < pos + 1
                BY <1>1, <3>1, <3>4 DEF Placed
            <4>2. stateRemapping[s] \in Nodes
                BY <4>1, <1>4, <2>5, <1>6, <1>7
            <4>3. ~ Pending(s)
                BY <4>2, <1>2, <1>4, UnsetIsNew DEF Pending
            <4> QED BY <4>3, <1>2 DEF CompactInv
        <3> QED BY <3>1, <3>2, <3>3, <3>4
    <2>7. Placed(last)'
        <3>1. pos < pos + 1
            BY <1>4
        <3>2. stateRemapping'[last] = pos /\ machine'[pos] = given'.trans[last]
            BY <1>1, <2>2, <2>3, <2>4
        <3> QED BY <1>1, <2>5, <3>1, <3>2 DEF Placed
    <2>8. ASSUME NEW s \in Reachable PROVE Pending(s)' \/ Placed(s)'
        <3>1. Pending(s) \/ Placed(s)
            BY <1>2 DEF CompactInv
        <3> QED BY <3>1, <2>6, <2>7
    <2>9. ASSUME NEW s \in Reachable, NEW r \in Reachable, Placed(s)', Placed(r)',
                 stateRemapping'[s] = stateRemapping'[r]
          PROVE  s = r
        <3>1. CASE s # last /\ r # last
            BY <2>9, <3>1, <1>2, <2>6 DEF CompactInv
        <3>2. CASE s = last /\ r # last
            BY <2>9, <3>2, <2>4, <2>6
        <3>3. CASE s # last /\ r = last
            BY <2>9, <3>3, <2>4, <2>6
        <3> QED BY <3>1, <3>2, <3>3
    <2>10. ASSUME NEW q \in 0 .. n - 2, q < pos + 1
           PROVE  \E s \in Reachable : Placed(s)' /\ stateRemapping'[s] = q
        <3>1. CASE q = pos
            BY <3>1, <2>2, <2>4, <2>7
        <3>2. CASE q # pos
            <4>1. q \in 0 .. n - 1 /\ q < pos
                BY <3>2, <2>10, <1>4
            <4>2. PICK s \in Reachable : Placed(s) /\ stateRemapping[s] = q
                BY <4>1, <1>2, <1>6 DEF CompactInv
            <4>3. s # last
                BY <4>2, <2>2
            <4> QED BY <4>2, <4>3, <2>6
        <3> QED BY <3>1, <3>2
    <2>11. ASSUME NEW q \in reachableStates', q >= pos + 1
           PROVE  q \in Reachable /\ stateRemapping'[q] = Unset /\ machine'[q] = given.trans[q]
        <3>1. q \in Nat /\ q >= pos /\ q # pos /\ q \in 0 .. n - 2
            BY <1>4, <2>3, <2>5, <2>11
        <3>2. q \in reachableStates /\ q # last
            BY <3>1, <2>5
        <3>3. q \in Reachable /\ stateRemapping[q] = Unset /\ machine[q] = given.trans[q]
            BY <3>1, <3>2, <1>2 DEF CompactInv
        <3> QED BY <3>1, <3>2, <3>3, <1>4, <2>3, <2>4
    <2>12. /\ resetState' = given'.reset /\ given'.reset # NoState
           /\ \E m \in Nat \ {0} : DOMAIN machine' = 0 .. m - 1
           /\ DOMAIN machine' \subseteq Nodes' /\ pos' \in Nat
           /\ stateRemapping' \in [Nodes' -> Nat]
           /\ reachableStates' \subseteq DOMAIN machine' /\ reachableStates' # {}
        <3>1. resetState' = given'.reset /\ given'.reset # NoState /\ pos' \in Nat
            BY <1>1, <1>2, <1>4 DEF CompactInv
        <3>2. 0 .. n - 2 = 0 .. (n - 1) - 1 /\ 0 .. n - 2 \subseteq 0 .. n - 1
            OBVIOUS
        <3>3. DOMAIN machine' \subseteq Nodes'
            BY <3>2, <1>3, <1>4, <1>6, <2>3
        <3> QED BY <3>1, <3>2, <3>3, <1>3, <2>3, <2>4, <2>5
    <2>13. \A s \in Reachable' : Pending(s)' \/ Placed(s)'
        BY <1>3, <2>8
    <2>14. \A s, r \in Reachable' :
              Placed(s)' /\ Placed(r)' /\ stateRemapping'[s] = stateRemapping'[r] => s = r
        BY <1>3, <2>9
    <2>15. \A q \in DOMAIN machine' : q < pos' =>
              \E s \in Reachable' : Placed(s)' /\ stateRemapping'[s] = q
        BY <1>1, <1>3, <2>3, <2>10
    <2>16. \A q \in reachableStates' : q >= pos' =>
              q \in Reachable' /\ stateRemapping'[q] = Unset' /\ machine'[q] = given'.trans[q]
        BY <1>1, <1>3, <2>11
    <2> QED BY <2>12, <2>13, <2>14, <2>15, <2>16 DEF CompactInv
<1>9. ASSUME ~ (last > pos) PROVE CompactInv'
    <2>1. /\ stateRemapping' = stateRemapping /\ reachableStates' = reachableStates
          /\ machine' = [q \in 0 .. last |-> machine[q]]
        BY <1>0, <1>9, Zenon DEF Fill, Restrict
    <2>2. last < pos /\ \A r \in reachableStates : r < pos /\ r < pos + 1 /\ r \in 0 .. last
        <3>1. last < pos
            BY <1>4, <1>5, <1>7, <1>9
        <3>2. \A r \in reachableStates : r \in Nat /\ r <= last
            BY <1>4, <1>5
        <3> QED BY <3>1, <3>2, <1>4, <1>5
    <2>3. \A r \in reachableStates : machine'[r] = machine[r]
        BY <2>1, <2>2
    <2>4. ASSUME NEW s \in Reachable PROVE Placed(s) /\ Placed(s)'
        <3>1. Placed(s)
            BY <1>2, <1>4, <2>2 DEF CompactInv, Pending
        <3> QED BY <3>1, <1>1, <2>1, <2>2, <2>3 DEF Placed
    <2>5. /\ resetState' = given'.reset /\ given'.reset # NoState
          /\ \E m \in Nat \ {0} : DOMAIN machine' = 0 .. m - 1
          /\ DOMAIN machine' \subseteq Nodes' /\ pos' \in Nat
          /\ stateRemapping' \in [Nodes' -> Nat]
          /\ reachableStates' \subseteq DOMAIN machine' /\ reachableStates' # {}
        <3>1. resetState' = given'.reset /\ given'.reset # NoState /\ pos' \in Nat
            BY <1>1, <1>2, <1>4 DEF CompactInv
        <3>2. last + 1 \in Nat \ {0} /\ 0 .. last = 0 .. (last + 1) - 1
              /\ 0 .. last \subseteq 0 .. n - 1
            BY <1>5, <1>7
        <3>3. DOMAIN machine' = 0 .. last /\ DOMAIN machine' \subseteq Nodes'
            BY <3>2, <1>3, <1>4, <1>6, <2>1
        <3>4. stateRemapping' \in [Nodes' -> Nat] /\ reachableStates' # {}
            BY <1>2, <1>3, <2>1 DEF CompactInv
        <3>5. reachableStates' \subseteq DOMAIN machine'
            BY <2>1, <2>2, <3>3
        <3> QED BY <3>1, <3>2, <3>3, <3>4, <3>5
    <2>6. \A s \in Reachable' : Pending(s)' \/ Placed(s)'
        BY <1>3, <2>4
    <2>7. \A s, r \in Reachable' :
              Placed(s)' /\ Placed(r)' /\ stateRemapping'[s] = stateRemapping'[r] => s = r
        BY <1>2, <1>3, <2>1, <2>4 DEF CompactInv
    <2>8. \A q \in DOMAIN machine' : q < pos' =>
              \E s \in Reachable' : Placed(s)' /\ stateRemapping'[s] = q
        <3>1. ASSUME NEW q \in 0 .. last
              PROVE  \E s \in Reachable : Placed(s)' /\ stateRemapping'[s] = q
            <4>1. q \in 0 .. n - 1 /\ q < pos
                BY <1>4, <1>5, <1>7, <2>2
            <4>2. PICK s \in Reachable : Placed(s) /\ stateRemapping[s] = q
                BY <4>1, <1>2, <1>6 DEF CompactInv
            <4> QED BY <4>2, <2>1, <2>4
        <3> QED BY <1>3, <2>1, <3>1
    <2>9. \A q \in reachableStates' : ~ (q >= pos')
        <3>1. \A q \in reachableStates : q \in Nat /\ q < pos
            BY <1>4, <2>2
        <3> QED BY <1>1, <1>4, <2>1, <3>1
    <2> QED BY <2>5, <2>6, <2>7, <2>8, <2>9 DEF CompactInv
<1>10. CompactInv'
    BY <1>8, <1>9
<1> QED BY <1>1, <1>2, <1>10 DEF RemoveInv, Settled

\* When all were looked at the reachable states fill the vector, and the
\* transitions can follow them.
LEMMA RemapKeeps == RemoveInv /\ Remap => RemoveInv'
<1> SUFFICES ASSUME RemoveInv, Remap PROVE RemoveInv'
    OBVIOUS
<1>1. /\ pc = "compact" /\ pc' = "compare" /\ pos >= size
      /\ machine' = [s \in DOMAIN machine |->
                        {[t EXCEPT !.to = stateRemapping[t.to]] : t \in machine[s]}]
      /\ resetState' = stateRemapping[resetState]
      /\ given' = given /\ stateRemapping' = stateRemapping
    BY DEF Remap
<1>2. CompactInv /\ given \in Machines
    BY <1>1 DEF RemoveInv
<1>3. Reachable' = Reachable
    BY <1>1 DEF Reachable
<1>4. PICK n \in Nat \ {0} : DOMAIN machine = 0 .. n - 1 /\ size = n
    <2>1. PICK n \in Nat \ {0} : DOMAIN machine = 0 .. n - 1
        BY <1>2 DEF CompactInv
    <2>2. size = n
        BY <2>1, StatesCount DEF size
    <2> QED BY <2>1, <2>2
<1>5. /\ Reachable \subseteq Nodes /\ given.reset \in Reachable
      /\ \A s \in Reachable : \A u \in given.trans[s] : u.to \in Reachable
    <2>1. /\ Reachable \subseteq Nodes /\ given.reset \in Reachable
          /\ SuccessorsOf(Reachable) \subseteq Reachable
        BY <1>2, ReachableIsLeast DEF CompactInv
    <2> QED BY <2>1 DEF SuccessorsOf
<1>6. \A q \in DOMAIN machine : q < pos
    BY <1>1, <1>2, <1>4, CompactFacts
<1>7. ASSUME NEW s \in Reachable
      PROVE  /\ Placed(s) /\ stateRemapping[s] \in DOMAIN machine
             /\ machine[stateRemapping[s]] = given.trans[s]
    <2>1. ~ Pending(s)
        <3>1. s \in reachableStates => s \in DOMAIN machine /\ s < pos /\ s \in Nat /\ pos \in Nat
            BY <1>2, <1>4, <1>6, CompactFacts DEF CompactInv
        <3> QED BY <3>1 DEF Pending
    <2>2. Placed(s)
        BY <1>2, <2>1 DEF CompactInv
    <2> QED BY <2>2, <1>2 DEF Placed, CompactInv
<1>0. PICK kept : kept = Restrict(stateRemapping, Reachable)
    OBVIOUS
<1>8. /\ kept = [s \in Reachable |-> stateRemapping[s]]
      /\ \A s \in Reachable : kept[s] = stateRemapping[s]
    BY <1>0 DEF Restrict
<1>9. kept \in Bijection(Reachable, DOMAIN machine)
    <2>2. kept \in [Reachable -> DOMAIN machine]
        BY <1>8, <1>7
    <2>3. \A s, r \in Reachable : kept[s] = kept[r] => s = r
        BY <1>2, <1>7, <1>8 DEF CompactInv
    <2>4. \A q \in DOMAIN machine : \E s \in Reachable : kept[s] = q
        BY <1>2, <1>6, <1>8 DEF CompactInv
    <2> QED BY <2>2, <2>3, <2>4 DEF Bijection, Injection, Surjection, IsInjective
<1>10. ASSUME NEW s \in Reachable
       PROVE  machine'[kept[s]] = {[u EXCEPT !.to = kept[u.to]] : u \in given.trans[s]}
    <2>1. machine'[kept[s]] =
              {[u EXCEPT !.to = stateRemapping[u.to]] : u \in machine[kept[s]]}
        BY <1>1, <1>7, <1>8
    <2>2. machine[kept[s]] = given.trans[s]
        BY <1>7, <1>8
    <2>3. \A u \in given.trans[s] : kept[u.to] = stateRemapping[u.to]
        BY <1>5, <1>8
    <2> QED BY <2>1, <2>2, <2>3
<1>11. DOMAIN machine' = DOMAIN machine
    BY <1>1
<1>12. Renamed'
    <2>1. resetState' = kept[given.reset]
        BY <1>1, <1>2, <1>5, <1>8 DEF CompactInv
    <2>2. Restrict(stateRemapping, Reachable)' = kept
        BY <1>1, <1>3, <1>0, Zenon DEF Restrict
    <2>3. IsRenaming(kept)'
        BY <1>1, <1>3, <1>9, <1>10, <1>11, <2>1 DEF IsRenaming
    <2> QED BY <2>2, <2>3 DEF Renamed
<1>13. IsMachine(machine', n)
    <2>1. /\ \A s \in Nodes : \A u \in given.trans[s] : u.in \in IncSpecSeqs(NIn)
          /\ \A s \in Nodes : \A t, u \in given.trans[s] : t # u => isDisjoint(t.in, u.in)
        BY <1>2, GivenIsMachine DEF IsMachine, Deterministic, States, Nodes
    <2>2. ASSUME NEW q \in DOMAIN machine
          PROVE  /\ \A u \in machine'[q] : u.in \in IncSpecSeqs(NIn)
                 /\ \A t, u \in machine'[q] : t # u => isDisjoint(t.in, u.in)
        <3>1. PICK s \in Reachable : kept[s] = q
            <4> QED BY <1>9 DEF Bijection, Surjection
        <3>2. s \in Nodes /\ machine'[q] = {[u EXCEPT !.to = kept[u.to]] : u \in given.trans[s]}
            BY <1>5, <1>10, <3>1
        <3>3. \A u \in given.trans[s] :
                  [u EXCEPT !.to = kept[u.to]].in = u.in
            BY <3>2, <1>2, GivenHasIn DEF Nodes
        <3>4. \A u \in machine'[q] : u.in \in IncSpecSeqs(NIn)
            BY <2>1, <3>2, <3>3
        <3>5. ASSUME NEW t \in machine'[q], NEW u \in machine'[q], t # u
              PROVE  isDisjoint(t.in, u.in)
            <4>1. PICK t0 \in given.trans[s] : t = [t0 EXCEPT !.to = kept[t0.to]]
                BY <3>2
            <4>2. PICK u0 \in given.trans[s] : u = [u0 EXCEPT !.to = kept[u0.to]]
                BY <3>2
            <4>3. t0 # u0
                BY <3>5, <4>1, <4>2
            <4>4. t.in = t0.in /\ u.in = u0.in
                BY <3>3, <4>1, <4>2
            <4> QED BY <2>1, <3>2, <4>3, <4>4
        <3> QED BY <3>4, <3>5
    <2> QED BY <2>2, <1>4, <1>11 DEF IsMachine, Deterministic, States
<1>14. SettledInv'
    BY <1>12, <1>13 DEF SettledInv
<1> QED BY <1>1, <1>2, <1>14 DEF RemoveInv, Settled

\* The later steps leave the states alone.
LEMMA LaterKeeps ==
    RemoveInv /\ (IncompatNext \/ SplitTransitionsNext) /\ UNCHANGED removeVars => RemoveInv'
<1> SUFFICES ASSUME RemoveInv, IncompatNext \/ SplitTransitionsNext, UNCHANGED removeVars
             PROVE  RemoveInv'
    OBVIOUS
<1>1. given' = given /\ machine' = machine /\ resetState' = resetState
      /\ stateRemapping' = stateRemapping
    BY DEF IncompatNext, Compare, Propagate, Return, Compared, SplitTransitionsNext, StartClass,
           GrowClass, EndClass, Collect, Split, EndSplit, FillTable, removeVars
<1>2. /\ pc \in {"compare", "propagate", "classes", "collect", "split"}
      /\ pc' \in {"compare", "propagate", "classes", "collect", "split", "sort"}
    <2>1. CASE IncompatNext
        BY <2>1 DEF IncompatNext, Compare, Propagate, Return, Compared
    <2>2. CASE SplitTransitionsNext
        BY <2>2 DEF SplitTransitionsNext, StartClass,
           GrowClass, EndClass, Collect, Split, EndSplit, FillTable
    <2> QED BY <2>1, <2>2
<1>3. SettledInv /\ given \in Machines
    BY <1>2 DEF RemoveInv, Settled
<1>4. SettledInv'
    <2>1. Reachable' = Reachable
        BY <1>1 DEF Reachable
    <2> QED BY <1>1, <1>3, <2>1 DEF SettledInv, Renamed, IsRenaming
<1> QED BY <1>1, <1>2, <1>3, <1>4 DEF RemoveInv, Settled

LEMMA StutterKeeps == RemoveInv /\ UNCHANGED vars => RemoveInv'
<1> SUFFICES ASSUME RemoveInv, UNCHANGED vars PROVE RemoveInv'
    OBVIOUS
<1>1. /\ given' = given /\ machine' = machine /\ resetState' = resetState /\ pc' = pc
      /\ reachableStates' = reachableStates /\ worklist' = worklist
      /\ stateRemapping' = stateRemapping /\ pos' = pos
    BY DEF vars, sharedVars, removeVars
<1>2. Reachable' = Reachable /\ Nodes' = Nodes /\ Unset' = Unset
    BY <1>1 DEF Reachable, Nodes, Unset
<1>3. CASE pc = "reach"
    BY <1>1, <1>2, <1>3 DEF RemoveInv, ReachInv, Settled
<1>4. CASE pc = "compact"
    BY <1>1, <1>2, <1>4 DEF RemoveInv, CompactInv, Pending, Placed, Settled
<1>5. CASE Settled
    BY <1>1, <1>2, <1>5 DEF RemoveInv, SettledInv, Renamed, IsRenaming, Settled
<1> QED BY <1>3, <1>4, <1>5 DEF Settled

LEMMA RemoveStep == RemoveInv /\ [Next]_vars => RemoveInv'
<1> SUFFICES ASSUME RemoveInv, [Next]_vars PROVE RemoveInv'
    OBVIOUS
<1>1. CASE RemoveNext
    BY <1>1, VisitKeeps, VisitedKeeps, KeepKeeps, FillKeeps, RemapKeeps DEF RemoveNext
<1>2. CASE (IncompatNext \/ SplitTransitionsNext) /\ UNCHANGED removeVars
    BY <1>2, LaterKeeps
<1>3. CASE UNCHANGED vars
    BY <1>3, StutterKeeps
<1> QED BY <1>1, <1>2, <1>3 DEF Next

LEMMA RemoveInvariant == Spec => []RemoveInv
BY RemoveStep, InitRemove, PTL DEF Spec

\* The compaction keeps the machine: when removeUnreachableStates returns,
\* the vector of states holds the reachable ones, renamed one to one, with
\* all their transitions, and nothing else.
THEOREM ReachableKept == Spec => []ReachablePartRenamed
<1>1. RemoveInv => ReachablePartRenamed
    <2> SUFFICES ASSUME RemoveInv, given.reset # NoState, pc = "compare"
                 PROVE  ReachablePartRenamed
        BY DEF ReachablePartRenamed
    <2>1. Renamed
        BY DEF RemoveInv, SettledInv, Settled
    <2> QED BY <2>1 DEF Renamed, IsRenaming, ReachablePartRenamed
<1> QED BY <1>1, RemoveInvariant, PTL

-----------------------------------------------------------------------------
(* The matrix of incompatible states                                       *)

Pairs == States(machine) \X States(machine)

Symmetric(A) == \A p \in A : <<p[2], p[1]>> \in A

LEMMA Symmetry ==
    /\ \A s, o : isDisjoint(s, o) <=> isDisjoint(o, s)
    /\ \A s, o : isCompatible(s, o) <=> isCompatible(o, s)
BY DEF isDisjoint, isCompatible

LEMMA ConflictSymmetry == \A s, r : OutputConflict(s, r) <=> OutputConflict(r, s)
BY Symmetry DEF OutputConflict

LEMMA PredPairsSymmetry ==
    ASSUME NEW p, NEW q \in predPairs(p)
    PROVE  <<q[2], q[1]>> \in predPairs(<<p[2], p[1]>>)
BY Symmetry DEF predPairs

\* A set of pairs that holds those with conflicting outputs and those that
\* lead to a member.
Propagated(A) ==
    /\ Conflicts(machine) \subseteq A
    /\ \A p \in A : predPairs(p) \subseteq A

LEMMA DistinguishableIsLeast ==
    ASSUME NEW n \in Nat \ {0}, IsMachine(machine, n)
    PROVE  /\ Distinguishable(machine) \subseteq Pairs
           /\ Propagated(Distinguishable(machine))
           /\ \A A \in SUBSET Pairs : Propagated(A) => Distinguishable(machine) \subseteq A
<1> DEFINE N == NStates(machine) * NStates(machine)
           steps == PairSteps(machine)
           base == {p : p \in Conflicts(machine)}
           Earlier(A) == {e[1] : e \in {d \in steps : d[2] \in A}}
           step == [A \in SUBSET Pairs |-> A \cup Earlier(A)]
           Equation(w) == w = [k \in 0 .. N |->
               IF k = 0 THEN {p : p \in Conflicts(machine)}
               ELSE LET shorter == w[k - 1]
                    IN shorter \cup {e[1] : e \in {d \in steps : d[2] \in shorter}}]
           within == CHOOSE w : Equation(w)
<1>1. /\ IsFiniteSet(Pairs) /\ N \in Nat /\ Cardinality(Pairs) = N
    <2>1. IsFiniteSet(States(machine)) /\ Cardinality(States(machine)) = n /\ NStates(machine) = n
        BY StatesCount DEF IsMachine, States
    <2>2. IsFiniteSet(Pairs) /\ Cardinality(Pairs) = n * n
        BY <2>1, FS_Product DEF Pairs
    <2> QED BY <2>1, <2>2
<1> HIDE DEF N
<1>2. base \in SUBSET Pairs
    BY DEF Conflicts, Pairs
<1>3. \A e \in steps : e[1] \in Pairs /\ e[2] \in Pairs
    BY DEF PairSteps, Pairs
<1>4. step \in [SUBSET Pairs -> SUBSET Pairs]
    BY <1>3
<1>5. \A A \in SUBSET Pairs : A \subseteq step[A]
    OBVIOUS
<1>6. \A A \in SUBSET Pairs : Earlier(A) \subseteq Pairs
    BY <1>3
<1>7. ASSUME NEW w, Iterates(w, N, base, step) PROVE Equation(w)
    <2>1. ASSUME NEW k \in 0 .. N
          PROVE  w[k] \in SUBSET Pairs
        <3> DEFINE Bad == {j \in 0 .. N : w[j] \notin SUBSET Pairs}
        <3>1. 0 \notin Bad
            BY <1>1, <1>2, <1>7 DEF Iterates
        <3>2. ASSUME NEW j \in 1 .. N, j - 1 \notin Bad PROVE j \notin Bad
            <4>1. j \in 0 .. N /\ j # 0 /\ j - 1 \in 0 .. N
                BY <1>1
            <4>2. w[j] = step[w[j - 1]]
                BY <4>1, <1>7 DEF Iterates
            <4> HIDE DEF step
            <4> QED BY <3>2, <4>1, <4>2, <1>4
        <3>3. Bad = {}
            <4>1. Bad \in SUBSET (0 .. N)
                OBVIOUS
            <4> HIDE DEF Bad
            <4> QED BY <1>1, <3>1, <3>2, <4>1, FirstFailure
        <3> QED BY <3>3
    <2>2. ASSUME NEW k \in 0 .. N
          PROVE  w[k] = IF k = 0 THEN {p : p \in Conflicts(machine)}
                        ELSE w[k - 1] \cup Earlier(w[k - 1])
        <3>1. k # 0 => k - 1 \in 0 .. N
            BY <1>1
        <3>2. w[k] = IF k = 0 THEN base ELSE step[w[k - 1]]
            BY <1>7 DEF Iterates
        <3>3. k # 0 => step[w[k - 1]] = w[k - 1] \cup Earlier(w[k - 1])
            BY <2>1, <3>1
        <3> QED BY <3>2, <3>3
    <2>3. w = [k \in 0 .. N |-> w[k]]
        BY <1>7 DEF Iterates
    <2> QED BY <2>2, <2>3, Zenon DEF Earlier
<1>8. ASSUME NEW w, Equation(w) PROVE Iterates(w, N, base, step)
    <2>1. w = [k \in 0 .. N |-> IF k = 0 THEN base ELSE w[k - 1] \cup Earlier(w[k - 1])]
        BY <1>8, Zenon DEF Earlier
    <2>2. \A k \in 0 .. N : w[k] \in SUBSET Pairs
        <3> DEFINE Bad == {j \in 0 .. N : w[j] \notin SUBSET Pairs}
        <3>1. 0 \notin Bad
            BY <1>1, <1>2, <2>1
        <3>2. ASSUME NEW j \in 1 .. N, j - 1 \notin Bad PROVE j \notin Bad
            <4>1. j \in 0 .. N /\ j # 0 /\ j - 1 \in 0 .. N
                BY <1>1
            <4>2. w[j] = w[j - 1] \cup Earlier(w[j - 1])
                BY <4>1, <2>1
            <4> QED BY <3>2, <4>1, <4>2, <1>3
        <3>3. Bad = {}
            <4>1. Bad \in SUBSET (0 .. N)
                OBVIOUS
            <4> HIDE DEF Bad
            <4> QED BY <1>1, <3>1, <3>2, <4>1, FirstFailure
        <3> QED BY <3>3
    <2>3. \A k \in 0 .. N : k # 0 =>
               step[w[k - 1]] = w[k - 1] \cup Earlier(w[k - 1])
        <3>1. \A k \in 0 .. N : k # 0 => k - 1 \in 0 .. N
            BY <1>1
        <3> QED BY <2>2, <3>1
    <2> HIDE DEF step, base, steps
    <2> QED BY <2>1, <2>3 DEF Iterates
<1>9. PICK v : Iterates(v, N, base, step)
    <2> HIDE DEF step, base, steps
    <2> QED BY <1>1, <1>2, <1>4, IterationExists
<1>10. Equation(within)
    <2>1. Equation(v)
        BY <1>7, <1>9
    <2> HIDE DEF Equation
    <2> QED BY <2>1
<1>11. Distinguishable(machine) = within[N]
    BY DEF Distinguishable, N
<1> HIDE DEF within, Equation
<1>12. Iterates(within, N, base, step)
    BY <1>8, <1>10
<1>13. /\ within[N] \in SUBSET Pairs /\ base \subseteq within[N]
       /\ step[within[N]] = within[N]
       /\ \A A \in SUBSET Pairs :
             base \subseteq A /\ (\A C \in SUBSET A : step[C] \subseteq A) => within[N] \subseteq A
    <2>1. Grows(step, Pairs)
        BY <1>4, <1>5 DEF Grows
    <2>2. Cardinality(Pairs) <= N
        BY <1>1
    <2> HIDE DEF step, base
    <2>3. IsClosure(within[N], Pairs, base, step)
        BY <1>1, <1>2, <1>12, <2>1, <2>2, IterationCloses
    <2> QED BY <2>3 DEF IsClosure
\* The pairs that lead to p are those that a step of a pair takes to p.
<1>14. \A A \in SUBSET Pairs : Earlier(A) \subseteq A <=> \A p \in A : predPairs(p) \subseteq A
    <2>1. \A p \in Pairs : \A q : q \in predPairs(p) <=> <<q, p>> \in steps
        BY DEF predPairs, PairSteps, Pairs
    <2>2. \A A \in SUBSET Pairs : \A q : q \in Earlier(A) <=> \E p \in A : <<q, p>> \in steps
        <3>1. \A e \in steps : e = <<e[1], e[2]>>
            BY DEF PairSteps
        <3> HIDE DEF steps
        <3> QED BY <3>1
    <2> HIDE DEF steps, Earlier
    <2> QED BY <2>1, <2>2
<1>15. base = Conflicts(machine)
    OBVIOUS
<1>16. Propagated(within[N])
    <2>1. Earlier(within[N]) \subseteq within[N]
        <3> HIDE DEF Earlier
        <3> QED BY <1>13
    <2> HIDE DEF Earlier, step, base
    <2> QED BY <1>13, <1>14, <1>15, <2>1 DEF Propagated
<1>17. ASSUME NEW A \in SUBSET Pairs, Propagated(A)
       PROVE  within[N] \subseteq A
    <2>1. Earlier(A) \subseteq A
        <3> HIDE DEF Earlier
        <3> QED BY <1>14, <1>17 DEF Propagated
    <2>2. ASSUME NEW C \in SUBSET A PROVE step[C] \subseteq A
        <3>1. C \in SUBSET Pairs /\ Earlier(C) \subseteq Earlier(A)
            OBVIOUS
        <3> HIDE DEF Earlier
        <3> QED BY <3>1, <2>1
    <2> HIDE DEF Earlier, step, base
    <2> QED BY <1>13, <1>15, <1>17, <2>2 DEF Propagated
<1> QED BY <1>11, <1>13, <1>16, <1>17

LEMMA DistinguishableIsSymmetric ==
    ASSUME NEW n \in Nat \ {0}, IsMachine(machine, n)
    PROVE  Symmetric(Distinguishable(machine))
<1> DEFINE D == Distinguishable(machine)
           A == {p \in Pairs : <<p[2], p[1]>> \in D}
<1>1. D \subseteq Pairs /\ Propagated(D)
    BY DistinguishableIsLeast
<1>2. \A p \in Pairs : p = <<p[1], p[2]>> /\ <<p[2], p[1]>> \in Pairs
    BY DEF Pairs
<1> HIDE DEF D
<1>3. Propagated(A)
    <2>1. ASSUME NEW p \in Conflicts(machine) PROVE p \in A
        <3>1. <<p[2], p[1]>> \in Conflicts(machine) /\ p \in Pairs
            BY <2>1, Symmetry DEF Conflicts, Pairs
        <3> QED BY <3>1, <1>1 DEF Propagated
    <2>2. ASSUME NEW p \in A, NEW q \in predPairs(p) PROVE q \in A
        <3>1. <<q[2], q[1]>> \in predPairs(<<p[2], p[1]>>)
            BY <2>2, PredPairsSymmetry
        <3>2. q \in Pairs
            BY <2>2 DEF predPairs, Pairs
        <3> QED BY <3>1, <3>2, <1>1, <2>2 DEF Propagated
    <2> HIDE DEF A
    <2> QED BY <2>1, <2>2 DEF Propagated
<1>4. D \subseteq A
    <2> HIDE DEF A
    <2>1. A \in SUBSET Pairs
        BY DEF A
    <2> QED BY <1>3, <2>1, DistinguishableIsLeast DEF D
<1> QED BY <1>2, <1>4 DEF Symmetric, D

\* The pairs that the loops have compared.
WasCompared(a, b) == a <= b /\ (a < s1 \/ (a = s1 /\ b < s2))

\* A marked pair is distinguished by some words, and all pairs compared so
\* far whose outputs conflict are marked.
MatrixInv ==
    /\ s1 \in Nat /\ s2 \in Nat /\ s1 <= nStates
    /\ s1 < nStates => s1 <= s2 /\ s2 < nStates
    /\ incomp \subseteq Distinguishable(machine) /\ Symmetric(incomp)
    /\ calls \subseteq incomp /\ (pc # "propagate" => calls = {})
    /\ MarkedIsPropagated
    /\ \A a, b \in States(machine) :
          WasCompared(a, b) /\ OutputConflict(a, b) => <<a, b>> \in incomp
    /\ pc \notin {"compare", "propagate"} => s1 = nStates

IncompatInv ==
    /\ ~ Settled => incomp = {} /\ calls = {} /\ s1 = 0 /\ s2 = 0
    /\ Settled => MatrixInv

\* The loops start with an empty matrix.
LEMMA EmptyMatrix ==
    ASSUME NEW n \in Nat \ {0}, IsMachine(machine, n), pc = "compare",
           incomp = {}, calls = {}, s1 = 0, s2 = 0
    PROVE  MatrixInv
<1>1. nStates = n /\ States(machine) = 0 .. n - 1
    BY StatesCount DEF IsMachine, nStates, States
<1>2. \A a, b \in States(machine) : ~ WasCompared(a, b)
    BY <1>1 DEF WasCompared
<1> QED BY <1>1, <1>2 DEF MatrixInv, Symmetric, MarkedIsPropagated

LEMMA InitIncompat == Init => IncompatInv
<1> SUFFICES ASSUME Init PROVE IncompatInv
    OBVIOUS
<1>1. RemoveInv /\ incomp = {} /\ calls = {} /\ s1 = 0 /\ s2 = 0 /\ pc \in {"reach", "compare"}
    BY InitRemove DEF Init, Parsed, IncompatInit
<1>2. CASE pc = "reach"
    BY <1>1, <1>2 DEF IncompatInv, Settled
<1>3. CASE pc = "compare"
    <2>1. PICK n \in Nat \ {0} : IsMachine(machine, n)
        BY <1>1, <1>3 DEF RemoveInv, Settled, SettledInv
    <2> QED BY <1>1, <1>3, <2>1, EmptyMatrix DEF IncompatInv, Settled
<1> QED BY <1>1, <1>2, <1>3

LEMMA RemoveKeepsIncompat ==
    RemoveInv /\ IncompatInv /\ RemoveNext /\ UNCHANGED incompVars => IncompatInv'
<1> SUFFICES ASSUME RemoveInv, IncompatInv, RemoveNext, UNCHANGED incompVars
             PROVE  IncompatInv'
    OBVIOUS
<1>1. /\ pc \in {"reach", "compact"} /\ pc' \in {"reach", "compact", "compare"}
      /\ incomp' = incomp /\ calls' = calls /\ s1' = s1 /\ s2' = s2
    BY DEF RemoveNext, Visit, Visited, Keep, Fill, Remap, incompVars
<1>2. incomp = {} /\ calls = {} /\ s1 = 0 /\ s2 = 0
    BY <1>1 DEF IncompatInv, Settled
<1>3. CASE pc' # "compare"
    BY <1>1, <1>2, <1>3 DEF IncompatInv, Settled
<1>4. CASE pc' = "compare"
    <2>1. RemoveInv'
        BY VisitKeeps, VisitedKeeps, KeepKeeps, FillKeeps, RemapKeeps DEF RemoveNext
    <2>2. PICK n \in Nat \ {0} : IsMachine(machine, n)'
        BY <1>4, <2>1 DEF RemoveInv, Settled, SettledInv
    <2>3. MatrixInv'
        <3>1. nStates' = n /\ States(machine)' = 0 .. n - 1
            BY <2>2, StatesCount DEF IsMachine, nStates, States
        <3>2. \A a, b \in States(machine)' : ~ WasCompared(a, b)'
            BY <1>1, <1>2, <3>1 DEF WasCompared
        <3> QED BY <1>1, <1>2, <1>4, <3>1, <3>2 DEF MatrixInv, Symmetric, MarkedIsPropagated
    <2> QED BY <1>4, <2>3 DEF IncompatInv, Settled
<1> QED BY <1>3, <1>4

\* What the invariants give every step of the loops.
LEMMA MatrixFacts ==
    ASSUME RemoveInv, IncompatInv, Settled
    PROVE  /\ MatrixInv
           /\ \E n \in Nat \ {0} : /\ IsMachine(machine, n) /\ nStates = n
                                   /\ States(machine) = 0 .. n - 1
           /\ Distinguishable(machine) \subseteq Pairs /\ incomp \subseteq Pairs
           /\ Propagated(Distinguishable(machine)) /\ Symmetric(Distinguishable(machine))
           /\ \A A \in SUBSET Pairs : Propagated(A) => Distinguishable(machine) \subseteq A
<1>1. MatrixInv
    BY DEF IncompatInv
<1>2. PICK n \in Nat \ {0} : IsMachine(machine, n)
    BY DEF RemoveInv, SettledInv
<1>3. nStates = n /\ States(machine) = 0 .. n - 1
    BY <1>2, StatesCount DEF IsMachine, nStates, States
<1> QED BY <1>1, <1>2, <1>3, DistinguishableIsLeast, DistinguishableIsSymmetric DEF MatrixInv

LEMMA CompareKeeps == RemoveInv /\ IncompatInv /\ Compare => IncompatInv'
<1> SUFFICES ASSUME RemoveInv, IncompatInv, Compare PROVE IncompatInv'
    OBVIOUS
<1>1. pc = "compare" /\ s1 < nStates /\ machine' = machine /\ Advance
    BY DEF Compare
<1>2. Settled /\ calls = {} /\ MatrixInv
    BY <1>1 DEF Settled, IncompatInv, MatrixInv
<1>3. PICK n \in Nat \ {0} : nStates = n /\ States(machine) = 0 .. n - 1
    BY <1>2, MatrixFacts
<1>4. s1 \in 0 .. n - 1 /\ s2 \in 0 .. n - 1 /\ s1 <= s2
    BY <1>1, <1>2, <1>3 DEF MatrixInv
<1>5. /\ s1' \in Nat /\ s2' \in Nat /\ s1' <= n
      /\ s1' < n => s1' <= s2' /\ s2' < n
      /\ \A a, b \in 0 .. n - 1 :
            WasCompared(a, b)' => WasCompared(a, b) \/ (a = s1 /\ b = s2)
    <2>1. CASE s2 + 1 < n
        <3>1. s1' = s1 /\ s2' = s2 + 1
            BY <1>1, <1>3, <2>1 DEF Advance
        <3> QED BY <3>1, <1>4, <2>1 DEF WasCompared
    <2>2. CASE ~ (s2 + 1 < n)
        <3>1. s1' = s1 + 1 /\ s2' = s1 + 1
            BY <1>1, <1>3, <2>2 DEF Advance
        <3>2. s2 = n - 1
            BY <1>4, <2>2
        <3> QED BY <3>1, <3>2, <1>4 DEF WasCompared
    <2> QED BY <2>1, <2>2
<1>6. nStates' = n /\ States(machine)' = 0 .. n - 1
    BY <1>1, <1>3 DEF nStates, States
<1>7. \A a, b : OutputConflict(a, b)' <=> OutputConflict(a, b)
    BY <1>1 DEF OutputConflict
<1>8. \A p : predPairs(p)' = predPairs(p)
    BY <1>1 DEF predPairs
<1>9. PICK p : p = <<s1, s2>>
    OBVIOUS
<1>10. ASSUME p \notin incomp, OutputConflict(s1, s2) PROVE MatrixInv'
    <2>1. incomp' = incomp \cup Both(p) /\ calls' = {p} /\ pc' = "propagate"
        BY <1>9, <1>10 DEF Compare
    <2>2. /\ p[1] = s1 /\ p[2] = s2 /\ Both(p) = {p, <<p[2], p[1]>>}
          /\ <<p[2], p[1]>>[1] = p[2] /\ <<p[2], p[1]>>[2] = p[1] /\ p = <<p[1], p[2]>>
        BY <1>9 DEF Both
    <2>3. p \in Conflicts(machine)
        BY <1>3, <1>4, <1>9, <1>10 DEF Conflicts, OutputConflict
    <2>4. Both(p) \subseteq Distinguishable(machine)
        BY <2>2, <2>3, <1>2, MatrixFacts DEF Propagated, Symmetric
    <2>5. Symmetric(incomp')
        BY <2>1, <2>2, <1>2 DEF MatrixInv, Symmetric
    <2>6. \A q \in incomp' : \/ q \in calls' \/ <<q[2], q[1]>> \in calls'
                             \/ predPairs(q) \cup predPairs(<<q[2], q[1]>>) \subseteq incomp'
        <3>1. \A q \in incomp : predPairs(q) \cup predPairs(<<q[2], q[1]>>) \subseteq incomp
            BY <1>2 DEF MatrixInv, MarkedIsPropagated
        <3> QED BY <3>1, <2>1, <2>2
    <2>7. MarkedIsPropagated'
        BY <2>6, <1>8 DEF MarkedIsPropagated
    <2>8. \A a, b \in States(machine)' :
             WasCompared(a, b)' /\ OutputConflict(a, b)' => <<a, b>> \in incomp'
        BY <1>2, <1>3, <1>5, <1>6, <1>7, <1>9, <2>1, <2>2 DEF MatrixInv
    <2> QED BY <1>1, <1>2, <1>5, <1>6, <2>1, <2>2, <2>4, <2>5, <2>7, <2>8 DEF MatrixInv
<1>11. ASSUME p \in incomp \/ ~ OutputConflict(s1, s2) PROVE MatrixInv'
    <2>1. incomp' = incomp /\ calls' = calls /\ pc' = pc
        BY <1>9, <1>11 DEF Compare
    <2>2. MarkedIsPropagated'
        BY <1>2, <1>8, <2>1 DEF MatrixInv, MarkedIsPropagated
    <2>3. \A a, b \in States(machine)' :
             WasCompared(a, b)' /\ OutputConflict(a, b)' => <<a, b>> \in incomp'
        BY <1>2, <1>3, <1>5, <1>6, <1>7, <1>9, <1>11, <2>1 DEF MatrixInv
    <2> QED BY <1>1, <1>2, <1>5, <1>6, <2>1, <2>2, <2>3 DEF MatrixInv
<1>12. Settled'
    BY <1>1 DEF Compare, Settled
<1> QED BY <1>10, <1>11, <1>12 DEF IncompatInv

LEMMA PropagateKeeps == RemoveInv /\ IncompatInv /\ Propagate => IncompatInv'
<1> SUFFICES ASSUME RemoveInv, IncompatInv, Propagate PROVE IncompatInv'
    OBVIOUS
<1>1. pc = "propagate" /\ pc' = pc /\ machine' = machine /\ s1' = s1 /\ s2' = s2
    BY DEF Propagate
<1>2. Settled /\ Settled' /\ MatrixInv
    BY <1>1 DEF Settled, IncompatInv
<1>3. PICK p \in calls : \E q \in predPairs(p) \ incomp :
          incomp' = incomp \cup Both(q) /\ calls' = calls \cup {q}
    BY DEF Propagate
<1>4. PICK q \in predPairs(p) \ incomp : incomp' = incomp \cup Both(q) /\ calls' = calls \cup {q}
    BY <1>3
<1>5. /\ Both(q) = {q, <<q[2], q[1]>>} /\ q = <<q[1], q[2]>>
      /\ <<q[2], q[1]>>[1] = q[2] /\ <<q[2], q[1]>>[2] = q[1]
    BY <1>4 DEF Both, predPairs
<1>6. Both(q) \subseteq Distinguishable(machine)
    <2>1. p \in Distinguishable(machine)
        BY <1>2, <1>3 DEF MatrixInv
    <2> QED BY <2>1, <1>2, <1>4, <1>5, MatrixFacts DEF Propagated, Symmetric
<1>7. Symmetric(incomp')
    BY <1>2, <1>4, <1>5 DEF MatrixInv, Symmetric
<1>8. \A r : predPairs(r)' = predPairs(r)
    BY <1>1 DEF predPairs
<1>9. MarkedIsPropagated'
    <2>1. \A r \in incomp' : \/ r \in calls' \/ <<r[2], r[1]>> \in calls'
                             \/ predPairs(r) \cup predPairs(<<r[2], r[1]>>) \subseteq incomp'
        <3>1. \A r \in incomp : \/ r \in calls \/ <<r[2], r[1]>> \in calls
                                \/ predPairs(r) \cup predPairs(<<r[2], r[1]>>) \subseteq incomp
            BY <1>2 DEF MatrixInv, MarkedIsPropagated
        <3> QED BY <3>1, <1>4, <1>5
    <2> QED BY <2>1, <1>8 DEF MarkedIsPropagated
<1>10. \A a, b : /\ OutputConflict(a, b)' <=> OutputConflict(a, b)
                 /\ WasCompared(a, b)' <=> WasCompared(a, b)
    BY <1>1 DEF OutputConflict, WasCompared
<1>11. nStates' = nStates /\ States(machine)' = States(machine)
    BY <1>1 DEF nStates
<1>12. calls' \subseteq incomp' /\ incomp' \subseteq Distinguishable(machine)'
    BY <1>1, <1>2, <1>4, <1>5, <1>6 DEF MatrixInv
<1>13. \A a, b \in States(machine)' :
          WasCompared(a, b)' /\ OutputConflict(a, b)' => <<a, b>> \in incomp'
    BY <1>2, <1>4, <1>10, <1>11 DEF MatrixInv
<1>14. MatrixInv'
    BY <1>1, <1>2, <1>7, <1>9, <1>11, <1>12, <1>13 DEF MatrixInv
<1> QED BY <1>2, <1>14 DEF IncompatInv

\* A call that returns leaves no predecessor of its pair unmarked, in either
\* order, since the matrix is symmetric.
LEMMA ReturnKeeps == RemoveInv /\ IncompatInv /\ Return => IncompatInv'
<1> SUFFICES ASSUME RemoveInv, IncompatInv, Return PROVE IncompatInv'
    OBVIOUS
<1>1. /\ pc = "propagate" /\ pc' = IF calls' = {} THEN "compare" ELSE "propagate"
      /\ machine' = machine /\ s1' = s1 /\ s2' = s2 /\ incomp' = incomp
    BY DEF Return
<1>2. Settled /\ Settled' /\ MatrixInv
    BY <1>1 DEF Settled, IncompatInv
<1>3. PICK p \in calls : predPairs(p) \subseteq incomp /\ calls' = calls \ {p}
    BY DEF Return
<1>4. \A r : predPairs(r)' = predPairs(r)
    BY <1>1 DEF predPairs
<1>5. /\ Symmetric(incomp) /\ calls \subseteq incomp /\ incomp \subseteq Pairs
      /\ \A r \in incomp : r = <<r[1], r[2]>>
    BY <1>2, MatrixFacts DEF MatrixInv, Pairs
<1>6. predPairs(p) \cup predPairs(<<p[2], p[1]>>) \subseteq incomp
    <2>1. p = <<p[1], p[2]>> /\ <<p[2], p[1]>>[1] = p[2] /\ <<p[2], p[1]>>[2] = p[1]
        BY <1>3, <1>5
    <2>2. ASSUME NEW r \in predPairs(<<p[2], p[1]>>) PROVE r \in incomp
        <3>1. <<r[2], r[1]>> \in predPairs(p)
            BY <2>1, <2>2, PredPairsSymmetry
        <3>2. <<r[2], r[1]>> \in incomp
            BY <3>1, <1>3
        <3>3. <<<<r[2], r[1]>>[2], <<r[2], r[1]>>[1]>> \in incomp
            BY <3>2, <1>5 DEF Symmetric
        <3>4. r = <<r[1], r[2]>>
            BY <2>2 DEF predPairs
        <3> QED BY <3>3, <3>4
    <2> QED BY <2>2, <1>3
<1>7. MarkedIsPropagated'
    <2>1. ASSUME NEW r \in incomp
          PROVE  \/ r \in calls' \/ <<r[2], r[1]>> \in calls'
                 \/ predPairs(r) \cup predPairs(<<r[2], r[1]>>) \subseteq incomp
        <3>1. CASE r = p
            BY <3>1, <1>6
        <3>2. CASE <<r[2], r[1]>> = p
            <4>1. r = <<p[2], p[1]>>
                BY <3>2, <1>5
            <4> QED BY <4>1, <3>2, <1>6
        <3>3. CASE r # p /\ <<r[2], r[1]>> # p
            BY <3>3, <1>2, <1>3 DEF MatrixInv, MarkedIsPropagated
        <3> QED BY <3>1, <3>2, <3>3
    <2> QED BY <2>1, <1>1, <1>4 DEF MarkedIsPropagated
<1>8. \A a, b : /\ OutputConflict(a, b)' <=> OutputConflict(a, b)
                /\ WasCompared(a, b)' <=> WasCompared(a, b)
    BY <1>1 DEF OutputConflict, WasCompared
<1>9. nStates' = nStates /\ States(machine)' = States(machine)
    BY <1>1 DEF nStates
<1>10. MatrixInv'
    BY <1>1, <1>2, <1>3, <1>7, <1>8, <1>9 DEF MatrixInv
<1> QED BY <1>2, <1>10 DEF IncompatInv

LEMMA ComparedKeeps == RemoveInv /\ IncompatInv /\ Compared => IncompatInv'
<1> SUFFICES ASSUME RemoveInv, IncompatInv, Compared PROVE IncompatInv'
    OBVIOUS
<1>1. /\ pc = "compare" /\ pc' = "classes" /\ s1 = nStates
      /\ machine' = machine /\ s1' = s1 /\ s2' = s2 /\ incomp' = incomp /\ calls' = calls
    BY DEF Compared
<1>2. Settled /\ Settled' /\ MatrixInv /\ calls = {}
    BY <1>1 DEF Settled, IncompatInv, MatrixInv
<1>3. MatrixInv'
    BY <1>1, <1>2 DEF MatrixInv, MarkedIsPropagated, predPairs, OutputConflict, WasCompared, nStates
<1> QED BY <1>2, <1>3 DEF IncompatInv

LEMMA UnchangedKeepsMatrix ==
    ASSUME IncompatInv, UNCHANGED <<machine, incompVars, incomp>>, pc' = pc
           \/ ({pc, pc'} \cap {"reach", "compact", "compare", "propagate"} = {})
    PROVE  IncompatInv'
<1>1. machine' = machine /\ s1' = s1 /\ s2' = s2 /\ incomp' = incomp /\ calls' = calls
    BY DEF incompVars
<1>2. Settled' <=> Settled
    BY DEF Settled
<1>3. CASE ~ Settled
    BY <1>1, <1>2, <1>3 DEF IncompatInv
<1>4. CASE Settled
    <2>1. MatrixInv
        BY <1>4 DEF IncompatInv
    <2>2. MatrixInv'
        BY <1>1, <2>1
           DEF MatrixInv, MarkedIsPropagated, predPairs, OutputConflict, WasCompared, nStates
    <2> QED BY <1>2, <1>4, <2>2 DEF IncompatInv
<1> QED BY <1>3, <1>4

LEMMA IncompatStep == RemoveInv /\ IncompatInv /\ [Next]_vars => IncompatInv'
<1> SUFFICES ASSUME RemoveInv, IncompatInv, [Next]_vars PROVE IncompatInv'
    OBVIOUS
<1>1. CASE RemoveNext /\ UNCHANGED incompVars
    BY <1>1, RemoveKeepsIncompat
<1>2. CASE IncompatNext
    BY <1>2, CompareKeeps, PropagateKeeps, ReturnKeeps, ComparedKeeps DEF IncompatNext
<1>3. CASE SplitTransitionsNext /\ UNCHANGED incompVars
    <2>1. /\ UNCHANGED <<machine, incompVars, incomp>>
          /\ {pc, pc'} \cap {"reach", "compact", "compare", "propagate"} = {}
        BY <1>3 DEF SplitTransitionsNext, StartClass,
           GrowClass, EndClass, Collect, Split, EndSplit, FillTable
    <2> QED BY <2>1, UnchangedKeepsMatrix
<1>4. CASE UNCHANGED vars
    BY <1>4, UnchangedKeepsMatrix DEF vars, sharedVars
<1> QED BY <1>1, <1>2, <1>3, <1>4 DEF Next

LEMMA IncompatInvariant == Spec => [](RemoveInv /\ IncompatInv)
BY IncompatStep, InitIncompat, RemoveInvariant, PTL DEF Spec

\* At every moment of the recursion of propagateIncompStates a marked pair
\* with predecessors that are not all marked waits in a call that has not
\* returned, although the pair is propagated in one order only.
THEOREM MarksPropagated == Spec => []MarkedIsPropagated
<1>1. IncompatInv => MarkedIsPropagated
    BY DEF IncompatInv, MatrixInv, MarkedIsPropagated
<1> QED BY <1>1, IncompatInvariant, PTL

\* When the loops are over the matrix is a fixed point, the least one.
LEMMA MatrixComplete ==
    ASSUME RemoveInv, IncompatInv, pc \in {"classes", "collect", "split", "sort"}
    PROVE  incomp = Distinguishable(machine)
<1>1. Settled /\ MatrixInv /\ calls = {} /\ s1 = nStates
    BY DEF IncompatInv, Settled, MatrixInv
<1>2. PICK n \in Nat \ {0} : nStates = n /\ States(machine) = 0 .. n - 1
    BY <1>1, MatrixFacts
<1>3. ASSUME NEW p \in Conflicts(machine) PROVE p \in incomp
    <2>1. PICK a \in 0 .. n - 1, b \in 0 .. n - 1 : p = <<a, b>> /\ OutputConflict(a, b)
        BY <1>2, <1>3 DEF Conflicts, OutputConflict
    <2>2. CASE a <= b
        <3>1. WasCompared(a, b)
            BY <2>1, <2>2, <1>1, <1>2 DEF WasCompared
        <3> QED BY <3>1, <2>1, <1>1, <1>2 DEF MatrixInv
    <2>3. CASE b <= a
        <3>1. WasCompared(b, a) /\ OutputConflict(b, a)
            BY <2>1, <2>3, <1>1, <1>2, ConflictSymmetry DEF WasCompared
        <3>2. <<b, a>> \in incomp
            BY <3>1, <2>1, <1>1, <1>2 DEF MatrixInv
        <3> QED BY <3>2, <2>1, <1>1 DEF MatrixInv, Symmetric
    <2> QED BY <2>2, <2>3
<1>4. Propagated(incomp)
    BY <1>1, <1>3 DEF Propagated, MatrixInv, MarkedIsPropagated
<1> QED BY <1>1, <1>4, MatrixFacts DEF MatrixInv

\* The matrix of computeIncompMatrix is exact: two states are marked if and
\* only if some sequence of words leads them to conflicting outputs.
THEOREM MatrixExact == Spec => []MatrixCorrect
<1>1. RemoveInv /\ IncompatInv => MatrixCorrect
    BY MatrixComplete DEF MatrixCorrect
<1> QED BY <1>1, IncompatInvariant, PTL

-----------------------------------------------------------------------------
(* Incompletely specified sequences                                        *)

LEMMA SubsetMatches ==
    ASSUME NEW s, NEW o, isSubset(s, o), NEW w, Matches(w, s)
    PROVE  Matches(w, o)
BY DEF isSubset, isCompatible, Matches, specified

LEMMA SubsetTransitive ==
    ASSUME NEW r, NEW s, NEW o, isSubset(r, s), isSubset(s, o)
    PROVE  isSubset(r, o)
BY DEF isSubset, isCompatible, specified

LEMMA SubsetIsReflexive == \A s : isSubset(s, s)
BY DEF isSubset, isCompatible

LEMMA SubsetDisjoint ==
    ASSUME NEW s, NEW o, isSubset(s, o), NEW r, isDisjoint(o, r)
    PROVE  isDisjoint(s, r)
BY DEF isSubset, isCompatible, isDisjoint, specified

LEMMA NoCommonWord ==
    ASSUME NEW s, NEW o, isDisjoint(s, o), NEW w, Matches(w, s), Matches(w, o)
    PROVE  FALSE
BY DEF isDisjoint, Matches, specified

LEMMA IntersectFacts ==
    ASSUME NEW n \in Nat, NEW s \in IncSpecSeqs(n), NEW o \in IncSpecSeqs(n), ~ isDisjoint(s, o)
    PROVE  /\ intersect(s, o) \in IncSpecSeqs(n)
           /\ isSubset(intersect(s, o), s) /\ isSubset(intersect(s, o), o)
           /\ \A w : Matches(w, s) /\ Matches(w, o) => Matches(w, intersect(s, o))
<1> DEFINE i == intersect(s, o)
<1>1. /\ DOMAIN s = 0 .. n - 1 /\ DOMAIN o = 0 .. n - 1
      /\ \A b \in 0 .. n - 1 : s[b] \in {"0", "1", "-"} /\ o[b] \in {"0", "1", "-"}
    BY DEF IncSpecSeqs
<1>2. \A b \in 0 .. n - 1 : s[b] # "-" /\ o[b] # "-" => s[b] = o[b]
    BY <1>1 DEF isDisjoint, specified
<1>3. /\ DOMAIN i = 0 .. n - 1
      /\ \A b \in 0 .. n - 1 :
            i[b] = IF s[b] = "-" /\ o[b] = "-" THEN "-"
                   ELSE IF s[b] = "1" \/ o[b] = "1" THEN "1" ELSE "0"
    BY <1>1 DEF intersect, specified
<1>4. i = [b \in 0 .. n - 1 |-> i[b]]
    BY <1>1 DEF intersect
<1> HIDE DEF i
<1>5. \A b \in 0 .. n - 1 : i[b] = IF s[b] # "-" THEN s[b] ELSE o[b]
    BY <1>1, <1>2, <1>3
<1>6. i \in IncSpecSeqs(n)
    <2>1. \A b \in 0 .. n - 1 : i[b] \in {"0", "1", "-"}
        BY <1>1, <1>5
    <2> QED BY <2>1, <1>4 DEF IncSpecSeqs
<1>7. isSubset(i, s) /\ isSubset(i, o)
    BY <1>1, <1>2, <1>3, <1>5 DEF isSubset, isCompatible, specified
<1>8. ASSUME NEW w, Matches(w, s), Matches(w, o) PROVE Matches(w, i)
    BY <1>1, <1>3, <1>5, <1>8 DEF Matches, specified
<1> QED BY <1>6, <1>7, <1>8 DEF i

\* The pieces of a difference do not overlap and have all of its words.
LEMMA DiffFacts ==
    ASSUME NEW n \in Nat, NEW s \in IncSpecSeqs(n), NEW o \in IncSpecSeqs(n), ~ isDisjoint(s, o)
    PROVE  /\ \A e \in diff(s, o) : /\ e \in IncSpecSeqs(n) /\ isSubset(e, s)
                                    /\ isDisjoint(e, o) /\ isDisjoint(e, intersect(s, o))
           /\ \A e, f \in diff(s, o) : e # f => isDisjoint(e, f)
           /\ \A w \in Words(n) : Matches(w, s) /\ ~ Matches(w, o) =>
                 \E e \in diff(s, o) : Matches(w, e)
<1> DEFINE open == specified(o) \ specified(s)
           piece(b) == [q \in DOMAIN s |-> IF q \in open /\ q < b THEN o[q]
                                           ELSE IF q = b THEN flip(o[b]) ELSE s[q]]
<1>1. /\ DOMAIN s = 0 .. n - 1 /\ DOMAIN o = 0 .. n - 1
      /\ \A b \in 0 .. n - 1 : s[b] \in {"0", "1", "-"} /\ o[b] \in {"0", "1", "-"}
    BY DEF IncSpecSeqs
<1>2. \A b \in 0 .. n - 1 : s[b] # "-" /\ o[b] # "-" => s[b] = o[b]
    BY <1>1 DEF isDisjoint, specified
<1>3. diff(s, o) = {piece(b) : b \in open}
    BY DEF diff
<1>4. /\ open \subseteq 0 .. n - 1
      /\ \A b \in 0 .. n - 1 : b \in open <=> o[b] # "-" /\ s[b] = "-"
    BY <1>1 DEF specified
<1>5. \A b : /\ DOMAIN piece(b) = 0 .. n - 1
             /\ \A q \in 0 .. n - 1 : piece(b)[q] = IF q \in open /\ q < b THEN o[q]
                                                     ELSE IF q = b THEN flip(o[b]) ELSE s[q]
             /\ piece(b) = [q \in 0 .. n - 1 |-> piece(b)[q]]
    BY <1>1
<1>6. \A b \in open : flip(o[b]) \in {"0", "1"} /\ flip(o[b]) # o[b] /\ b \in Nat
    BY <1>1, <1>4 DEF flip
<1> HIDE DEF open, piece
<1>7. ASSUME NEW b \in open
      PROVE  /\ piece(b) \in IncSpecSeqs(n) /\ isSubset(piece(b), s)
             /\ isDisjoint(piece(b), o) /\ isDisjoint(piece(b), intersect(s, o))
    <2>1. \A q \in 0 .. n - 1 : piece(b)[q] \in {"0", "1", "-"}
        BY <1>1, <1>5, <1>6
    <2>2. piece(b) \in IncSpecSeqs(n)
        BY <2>1, <1>5 DEF IncSpecSeqs
    <2>3. \A q \in 0 .. n - 1 : s[q] # "-" => piece(b)[q] = s[q]
        BY <1>4, <1>5
    <2>4. isSubset(piece(b), s)
        BY <2>3, <1>1, <1>5 DEF isSubset, isCompatible, specified
    <2>5. /\ b \in DOMAIN o /\ b \in DOMAIN piece(b) /\ o[b] # "-"
          /\ piece(b)[b] = flip(o[b]) /\ piece(b)[b] # "-" /\ piece(b)[b] # o[b]
        <3>1. b \in 0 .. n - 1 /\ ~ (b < b) /\ o[b] # "-"
            BY <1>4
        <3>2. piece(b)[b] = flip(o[b])
            BY <3>1, <1>5
        <3> QED BY <3>1, <3>2, <1>1, <1>5, <1>6
    <2>6. isDisjoint(piece(b), o)
        BY <2>5 DEF isDisjoint, specified
    <2>7. isDisjoint(intersect(s, o), piece(b))
        BY <2>6, IntersectFacts, SubsetDisjoint, Symmetry
    <2> QED BY <2>2, <2>4, <2>6, <2>7, Symmetry
<1>8. ASSUME NEW b \in open, NEW c \in open, b < c
      PROVE  isDisjoint(piece(b), piece(c))
    <2>1. b \in 0 .. n - 1 /\ ~ (b < b) /\ o[b] # "-"
        BY <1>4
    <2>2. piece(b)[b] = flip(o[b]) /\ piece(c)[b] = o[b]
        BY <2>1, <1>5, <1>8
    <2> QED BY <2>1, <2>2, <1>5, <1>6 DEF isDisjoint, specified
<1>9. ASSUME NEW e \in diff(s, o), NEW f \in diff(s, o), e # f PROVE isDisjoint(e, f)
    <2>1. PICK b \in open, c \in open : e = piece(b) /\ f = piece(c)
        BY <1>3
    <2>2. b < c \/ c < b
        BY <2>1, <1>6, <1>9
    <2> QED BY <2>1, <2>2, <1>8, Symmetry
<1>10. ASSUME NEW w \in Words(n), Matches(w, s), ~ Matches(w, o)
       PROVE  \E e \in diff(s, o) : Matches(w, e)
    <2> DEFINE Wrong == {b \in 0 .. n - 1 : o[b] # "-" /\ w[b] # o[b]}
    <2>1. Wrong # {} /\ Wrong \in SUBSET Nat
        BY <1>1, <1>10 DEF Matches, specified
    <2>2. PICK b \in Wrong : \A c \in Wrong : b <= c
        <3> HIDE DEF Wrong
        <3> QED BY <2>1, LeastNumber
    <2>3. b \in open
        BY <1>1, <1>2, <1>4, <1>10 DEF Matches, specified
    <2>4. w[b] = flip(o[b])
        BY <1>1 DEF Words, flip
    <2>5. ASSUME NEW q \in 0 .. n - 1, piece(b)[q] # "-" PROVE w[q] = piece(b)[q]
        <3>1. CASE q \in open /\ q < b
            <4>1. q \notin Wrong
                BY <2>2, <3>1
            <4> QED BY <3>1, <4>1, <1>4, <1>5
        <3>2. CASE q = b
            <4>1. ~ (q < b)
                BY <3>2
            <4> QED BY <3>2, <4>1, <2>4, <1>5
        <3>3. CASE ~ (q \in open /\ q < b) /\ q # b
            <4>1. piece(b)[q] = s[q]
                BY <3>3, <1>5
            <4> QED BY <4>1, <2>5, <1>1, <1>10 DEF Matches, specified
        <3> QED BY <3>1, <3>2, <3>3
    <2>6. Matches(w, piece(b))
        BY <2>5, <1>5 DEF Matches, specified
    <2> QED BY <2>3, <2>6, <1>3
<1> QED BY <1>3, <1>7, <1>9, <1>10

-----------------------------------------------------------------------------
(* The pieces of the inputs                                                *)

\* Sequences of which no two have a word in common.
Apart(D) == \A d, e \in D : d # e => isDisjoint(d, e)

\* Every word of a sequence in A lies in a part of that sequence in D.
Covered(A, D) ==
    \A b \in A, w \in Words(NIn) : Matches(w, b) => \E x \in D : Matches(w, x) /\ isSubset(x, b)

InputsOf(c) == UNION {Inputs(s) : s \in tcs[c]}

Cut(c) ==
    /\ disjInputs[c] \subseteq IncSpecSeqs(NIn)
    /\ Apart(disjInputs[c]) /\ Covered(InputsOf(c), disjInputs[c])

ClassSets == {tcs[c] : c \in 1 .. Len(tcs)}

FilledTable ==
    [s \in States(machine) |-> [a \in Alphabet |->
        IF a \in disjInputs[ClassOf(s)] /\ SplitTrans(s, a) # {}
        THEN CHOOSE t \in SplitTrans(s, a) : TRUE
        ELSE NoTrans]]

\* No input of the current class loses a word: it lies in a piece, or in a
\* remaining input, that is part of the input; the pieces do not overlap.
SplitInv ==
    /\ pc \in {"reach", "compact", "compare", "propagate"} =>
          processed = {} /\ curSet = {} /\ tcs = <<>> /\ disjInputs = <<>> /\ table = <<>>
    /\ pc \in {"classes", "collect", "split", "sort"} =>
          tcs \in Seq((SUBSET States(machine)) \ {{}})
    /\ pc = "classes" =>
          /\ curSet \subseteq States(machine) /\ processed = curSet \cup UNION ClassSets
          /\ disjInputs = <<>> /\ table = <<>>
    /\ pc \in {"collect", "split", "sort"} =>
          /\ UNION ClassSets = States(machine)
          /\ disjInputs \in Seq(SUBSET IncSpecSeqs(NIn)) /\ Len(disjInputs) <= Len(tcs)
          /\ \A c \in 1 .. Len(disjInputs) : Cut(c)
    /\ pc \in {"collect", "split"} => table = <<>>
    /\ pc = "split" =>
          /\ Len(disjInputs) < Len(tcs)
          /\ disj \subseteq IncSpecSeqs(NIn) /\ remaining \subseteq IncSpecSeqs(NIn)
          /\ Apart(disj) /\ Covered(ClassInputs, disj \cup remaining)
    /\ pc = "sort" => Len(disjInputs) = Len(tcs) /\ table = FilledTable

LEMMA CoveredGrows ==
    ASSUME NEW A, NEW D, Covered(A, D), NEW E, D \subseteq E
    PROVE  Covered(A, E)
BY DEF Covered

\* Replacing an element by parts that have all its words keeps all covered.
LEMMA CoveredByParts ==
    ASSUME NEW A, NEW D, Covered(A, D), NEW E,
           \A x \in D, w \in Words(NIn) : Matches(w, x) =>
               \E y \in E : Matches(w, y) /\ isSubset(y, x)
    PROVE  Covered(A, E)
<1> SUFFICES ASSUME NEW b \in A, NEW w \in Words(NIn), Matches(w, b)
             PROVE  \E y \in E : Matches(w, y) /\ isSubset(y, b)
    BY DEF Covered
<1>1. PICK x \in D : Matches(w, x) /\ isSubset(x, b)
    BY DEF Covered
<1>2. PICK y \in E : Matches(w, y) /\ isSubset(y, x)
    BY <1>1
<1> QED BY <1>1, <1>2, SubsetTransitive

Parts(D, d, cur) == (D \ {d}) \cup {intersect(d, cur)} \cup diff(d, cur)

\* An element is replaced by what it has in common with another sequence and
\* the pieces of the difference: the elements stay apart, and each word of the
\* element lies in one of the parts.
LEMMA ReplaceByParts ==
    ASSUME NEW D \in SUBSET IncSpecSeqs(NIn), Apart(D), NEW d \in D,
           NEW cur \in IncSpecSeqs(NIn), ~ isDisjoint(d, cur)
    PROVE  /\ Parts(D, d, cur) \subseteq IncSpecSeqs(NIn) /\ Apart(Parts(D, d, cur))
           /\ \A x \in D, w \in Words(NIn) : Matches(w, x) =>
                 \E y \in Parts(D, d, cur) : Matches(w, y) /\ isSubset(y, x)
           /\ \A w \in Words(NIn) : Matches(w, cur) /\ Matches(w, d) =>
                 \E y \in Parts(D, d, cur) : Matches(w, y) /\ isSubset(y, cur)
<1> DEFINE E == Parts(D, d, cur)
           i == intersect(d, cur)
           P == diff(d, cur)
<1>0. NIn \in Nat
    BY MachinesAssumption
<1>1. /\ i \in IncSpecSeqs(NIn) /\ isSubset(i, d) /\ isSubset(i, cur)
      /\ \A w : Matches(w, d) /\ Matches(w, cur) => Matches(w, i)
    BY <1>0, IntersectFacts
<1>2. /\ \A e \in P : e \in IncSpecSeqs(NIn) /\ isSubset(e, d) /\ isDisjoint(e, i)
      /\ Apart(P)
      /\ \A w \in Words(NIn) : Matches(w, d) /\ ~ Matches(w, cur) =>
            \E e \in P : Matches(w, e)
    BY <1>0, DiffFacts DEF Apart
<1>3. E = (D \ {d}) \cup {i} \cup P
    BY DEF Parts
<1> HIDE DEF i, P, E
<1>4. ASSUME NEW x \in E, NEW y \in E, x # y PROVE isDisjoint(x, y)
    <2>1. \A p \in {i} \cup P : isSubset(p, d)
        BY <1>1, <1>2
    <2>2. ASSUME NEW p \in {i} \cup P, NEW r \in D \ {d} PROVE isDisjoint(p, r)
        BY <2>1, <2>2, SubsetDisjoint DEF Apart
    <2>3. CASE x \in D \ {d} /\ y \in D \ {d}
        BY <1>4, <2>3 DEF Apart
    <2>4. CASE x \in {i} \cup P /\ y \in D \ {d}
        BY <2>2, <2>4
    <2>5. CASE y \in {i} \cup P /\ x \in D \ {d}
        BY <2>2, <2>5, Symmetry
    <2>6. CASE x \in {i} \cup P /\ y \in {i} \cup P
        BY <1>2, <1>4, <2>6, Symmetry DEF Apart
    <2> QED BY <1>3, <2>3, <2>4, <2>5, <2>6
<1>5. ASSUME NEW x \in D, NEW w \in Words(NIn), Matches(w, x)
      PROVE  \E y \in E : Matches(w, y) /\ isSubset(y, x)
    <2>1. CASE x # d
        BY <1>3, <1>5, <2>1, SubsetIsReflexive
    <2>2. CASE x = d /\ Matches(w, cur)
        BY <1>1, <1>3, <1>5, <2>2
    <2>3. CASE x = d /\ ~ Matches(w, cur)
        BY <1>2, <1>3, <1>5, <2>3
    <2> QED BY <2>1, <2>2, <2>3
<1>6. \A w \in Words(NIn) : Matches(w, cur) /\ Matches(w, d) =>
          \E y \in E : Matches(w, y) /\ isSubset(y, cur)
    BY <1>1, <1>3
<1>7. E \subseteq IncSpecSeqs(NIn) /\ Apart(E)
    BY <1>1, <1>2, <1>3, <1>4 DEF Apart
<1> QED BY <1>5, <1>6, <1>7 DEF E

\* One round of the loop over the queue.
LEMMA CutKeeps ==
    ASSUME NEW A, disj \in SUBSET IncSpecSeqs(NIn), remaining \in SUBSET IncSpecSeqs(NIn),
           Apart(disj), Covered(A, disj \cup remaining), NEW cur \in remaining,
           NEW D, NEW R,
           LET overlapping == {d \in disj : ~ isDisjoint(d, cur)}
               left        == remaining \ {cur}
           IN IF cur \in disj THEN D = disj /\ R = left
              ELSE IF overlapping = {} THEN D = disj \cup {cur} /\ R = left
              ELSE \E d \in overlapping :
                     /\ D = cut(cur, d).disj
                     /\ R = left \cup cut(cur, d).remaining
    PROVE  /\ D \subseteq IncSpecSeqs(NIn) /\ R \subseteq IncSpecSeqs(NIn)
           /\ Apart(D) /\ Covered(A, D \cup R)
<1>0. NIn \in Nat
    BY MachinesAssumption
<1> DEFINE left == remaining \ {cur}
<1>1. CASE cur \in disj
    <2>1. D = disj /\ R = left /\ D \cup R = disj \cup remaining
        BY <1>1
    <2> QED BY <2>1
<1>2. CASE cur \notin disj /\ \A d \in disj : isDisjoint(d, cur)
    <2>1. D = disj \cup {cur} /\ R = left /\ D \cup R = disj \cup remaining
        BY <1>2
    <2>2. Apart(D)
        BY <1>2, <2>1, Symmetry DEF Apart
    <2> QED BY <2>1, <2>2
<1>3. CASE cur \notin disj /\ \E d \in disj : ~ isDisjoint(d, cur)
    <2>1. PICK d \in disj : /\ ~ isDisjoint(d, cur)
                            /\ D = cut(cur, d).disj /\ R = left \cup cut(cur, d).remaining
        BY <1>3
    <2> DEFINE E == Parts(disj, d, cur)
    <2>2. /\ E \subseteq IncSpecSeqs(NIn) /\ Apart(E)
          /\ \A x \in disj, w \in Words(NIn) : Matches(w, x) =>
                \E y \in E : Matches(w, y) /\ isSubset(y, x)
          /\ \A w \in Words(NIn) : Matches(w, cur) /\ Matches(w, d) =>
                \E y \in E : Matches(w, y) /\ isSubset(y, cur)
        BY <2>1, ReplaceByParts
    <2>3. /\ \A e \in diff(cur, d) : e \in IncSpecSeqs(NIn) /\ isSubset(e, cur)
          /\ \A w \in Words(NIn) : Matches(w, cur) /\ ~ Matches(w, d) =>
                \E e \in diff(cur, d) : Matches(w, e)
        BY <1>0, <2>1, Symmetry, DiffFacts
    <2> HIDE DEF E
    <2>4. CASE isSubset(cur, d)
        <3>1. D = E /\ R = left
            BY <2>1, <2>4 DEF cut, E, Parts
        <3>2. \A w : Matches(w, cur) => Matches(w, d)
            BY <2>4, SubsetMatches
        <3>3. \A x \in disj \cup remaining, w \in Words(NIn) : Matches(w, x) =>
                  \E y \in D \cup R : Matches(w, y) /\ isSubset(y, x)
            BY <2>2, <3>1, <3>2, SubsetIsReflexive
        <3> QED BY <2>2, <3>1, <3>3, CoveredByParts
    <2>5. CASE ~ isSubset(cur, d) /\ isSubset(d, cur)
        <3>1. D = disj /\ R = left \cup diff(cur, d)
            BY <2>1, <2>5 DEF cut
        <3>2. \A x \in disj \cup remaining, w \in Words(NIn) : Matches(w, x) =>
                  \E y \in D \cup R : Matches(w, y) /\ isSubset(y, x)
            BY <2>3, <2>5, <3>1, SubsetIsReflexive
        <3> QED BY <2>3, <3>1, <3>2, CoveredByParts
    <2>6. CASE ~ isSubset(cur, d) /\ ~ isSubset(d, cur)
        <3>1. D = E /\ R = left \cup diff(cur, d)
            BY <2>1, <2>6 DEF cut, E, Parts
        <3>2. \A x \in disj \cup remaining, w \in Words(NIn) : Matches(w, x) =>
                  \E y \in D \cup R : Matches(w, y) /\ isSubset(y, x)
            BY <2>2, <2>3, <3>1, SubsetIsReflexive
        <3> QED BY <2>2, <2>3, <3>1, <3>2, CoveredByParts
    <2> QED BY <2>4, <2>5, <2>6
<1> QED BY <1>1, <1>2, <1>3

-----------------------------------------------------------------------------
(* The steps that cut the inputs                                           *)

\* The inputs of a state do not overlap.
LEMMA InputsFacts ==
    ASSUME RemoveInv, Settled, NEW s \in States(machine)
    PROVE  Inputs(s) \subseteq IncSpecSeqs(NIn) /\ Apart(Inputs(s))
<1>1. PICK n \in Nat \ {0} : IsMachine(machine, n)
    BY DEF RemoveInv, SettledInv
<1>2. /\ \A u \in machine[s] : u.in \in IncSpecSeqs(NIn)
      /\ \A t, u \in machine[s] : t # u => isDisjoint(t.in, u.in)
    BY <1>1 DEF IsMachine, Deterministic, States
<1> QED BY <1>2 DEF Inputs, Apart

\* The first state of a class is one of its states.
LEMMA FirstStateFacts ==
    ASSUME RemoveInv, Settled, eqClass \in (SUBSET States(machine)) \ {{}}
    PROVE  firstState \in eqClass
<1>1. States(machine) \subseteq Nat
    BY DEF RemoveInv, SettledInv, IsMachine, States
<1>2. \E s \in eqClass : \A r \in eqClass : s <= r
    BY <1>1, LeastNumber
<1> QED BY <1>2 DEF firstState

\* Different words do not overlap.
LEMMA WordsAreApart ==
    ASSUME NEW A \in SUBSET IncSpecSeqs(NIn), \A a \in A : specified(a) = DOMAIN a
    PROVE  Apart(A)
<1> SUFFICES ASSUME NEW d \in A, NEW e \in A, d # e PROVE isDisjoint(d, e)
    BY DEF Apart
<1>1. /\ DOMAIN d = 0 .. NIn - 1 /\ DOMAIN e = 0 .. NIn - 1
      /\ specified(d) = 0 .. NIn - 1 /\ specified(e) = 0 .. NIn - 1
      /\ d = [b \in 0 .. NIn - 1 |-> d[b]] /\ e = [b \in 0 .. NIn - 1 |-> e[b]]
    BY DEF IncSpecSeqs
<1>2. \E b \in 0 .. NIn - 1 : d[b] # e[b]
    BY <1>1
<1> QED BY <1>1, <1>2 DEF isDisjoint

LEMMA InitSplit == Init => SplitInv
<1> SUFFICES ASSUME Init PROVE SplitInv
    OBVIOUS
<1>1. /\ pc \in {"reach", "compare"} /\ processed = {} /\ curSet = {} /\ tcs = <<>>
      /\ disjInputs = <<>> /\ table = <<>>
    BY DEF Init, Parsed, SplitInit
<1> QED BY <1>1 DEF SplitInv

LEMMA EarlierKeepsSplit ==
    SplitInv /\ (RemoveNext \/ IncompatNext) /\ UNCHANGED splitVars => SplitInv'
<1> SUFFICES ASSUME SplitInv, RemoveNext \/ IncompatNext, UNCHANGED splitVars
             PROVE  SplitInv'
    OBVIOUS
<1>1. /\ pc \in {"reach", "compact", "compare", "propagate"}
      /\ pc' \in {"reach", "compact", "compare", "propagate", "classes"}
    <2>1. CASE RemoveNext
        BY <2>1 DEF RemoveNext, Visit, Visited, Keep, Fill, Remap
    <2>2. CASE IncompatNext
        BY <2>2 DEF IncompatNext, Compare, Propagate, Return, Compared
    <2> QED BY <2>1, <2>2
<1>2. /\ processed' = {} /\ curSet' = {} /\ tcs' = <<>>
      /\ disjInputs' = <<>> /\ table' = <<>>
    BY <1>1 DEF SplitInv, splitVars, classVars, cutVars
<1>3. ClassSets' = {}
    BY <1>2 DEF ClassSets
<1> QED BY <1>1, <1>2, <1>3 DEF SplitInv

LEMMA ClassesKeep == SplitInv /\ (StartClass \/ GrowClass \/ EndClass) => SplitInv'
<1> SUFFICES ASSUME SplitInv, StartClass \/ GrowClass \/ EndClass PROVE SplitInv'
    OBVIOUS
<1>1. /\ pc = "classes" /\ machine' = machine /\ disjInputs' = disjInputs /\ table' = table
      /\ tcs \in Seq((SUBSET States(machine)) \ {{}})
      /\ curSet \subseteq States(machine) /\ processed = curSet \cup UNION ClassSets
      /\ disjInputs = <<>> /\ table = <<>>
    BY DEF SplitInv, StartClass, GrowClass, EndClass, cutVars
<1>2. CASE StartClass \/ GrowClass
    <2>1. PICK new \in SUBSET States(machine) :
              /\ processed' = processed \cup new /\ curSet' = curSet \cup new
              /\ tcs' = tcs /\ pc' = pc
        <3>1. CASE StartClass
            <4>1. PICK s \in States(machine) : processed' = processed \cup {s} /\ curSet' = {s}
                BY <3>1 DEF StartClass
            <4>2. curSet = {} /\ tcs' = tcs /\ pc' = pc
                BY <3>1 DEF StartClass
            <4> QED BY <4>1, <4>2
        <3>2. CASE GrowClass
            <4>1. PICK c \in classList :
                      LET new == {i \in States(machine) \ processed : <<c, i>> \notin incomp}
                      IN processed' = processed \cup new /\ curSet' = curSet \cup new
                BY <3>2 DEF GrowClass
            <4>2. tcs' = tcs /\ pc' = pc
                BY <3>2 DEF GrowClass
            <4> QED BY <4>1, <4>2
        <3> QED BY <1>2, <3>1, <3>2
    <2>2. ClassSets' = ClassSets /\ States(machine)' = States(machine)
        BY <1>1, <2>1 DEF ClassSets
    <2> QED BY <1>1, <2>1, <2>2 DEF SplitInv
<1>3. CASE EndClass
    <2>1. /\ curSet # {} /\ tcs' = Append(tcs, curSet) /\ curSet' = {} /\ processed' = processed
          /\ pc' = IF processed = States(machine) THEN "collect" ELSE "classes"
        BY <1>3 DEF EndClass
    <2>2. /\ tcs' \in Seq((SUBSET States(machine)) \ {{}})
          /\ Len(tcs') = Len(tcs) + 1 /\ Len(tcs) \in Nat /\ tcs'[Len(tcs) + 1] = curSet
          /\ \A c \in 1 .. Len(tcs) : tcs'[c] = tcs[c]
        BY <1>1, <2>1
    <2>3. ClassSets' = ClassSets \cup {curSet}
        <3>1. \A c : c \in 1 .. Len(tcs) + 1 <=> c \in 1 .. Len(tcs) \/ c = Len(tcs) + 1
            BY <2>2
        <3> QED BY <2>2, <3>1 DEF ClassSets
    <2>4. UNION ClassSets' = processed
        BY <1>1, <2>3
    <2>5. States(machine)' = States(machine)
        BY <1>1
    <2>6. CASE processed = States(machine)
        <3>1. disjInputs' = <<>> /\ <<>> \in Seq(SUBSET IncSpecSeqs(NIn)) /\ Len(<<>>) = 0
              /\ Len(disjInputs') <= Len(tcs')
            BY <1>1, <2>2
        <3> QED BY <1>1, <2>1, <2>2, <2>4, <2>5, <2>6, <3>1 DEF SplitInv
    <2>7. CASE processed # States(machine)
        BY <1>1, <2>1, <2>2, <2>4, <2>5, <2>7 DEF SplitInv
    <2> QED BY <2>6, <2>7
<1> QED BY <1>2, <1>3

LEMMA CollectKeeps == RemoveInv /\ SplitInv /\ Collect => SplitInv'
<1> SUFFICES ASSUME RemoveInv, SplitInv, Collect PROVE SplitInv'
    OBVIOUS
<1>1. /\ pc = "collect" /\ pc' = "split" /\ Len(disjInputs) < Len(tcs)
      /\ machine' = machine /\ disjInputs' = disjInputs /\ table' = table /\ tcs' = tcs
    BY DEF Collect, classVars
<1>2. Settled /\ tcs \in Seq((SUBSET States(machine)) \ {{}})
      /\ disjInputs \in Seq(SUBSET IncSpecSeqs(NIn))
    BY <1>1 DEF SplitInv, Settled
<1>3. eqClass \in (SUBSET States(machine)) \ {{}}
    <2>1. Len(disjInputs) \in Nat /\ Len(tcs) \in Nat
        BY <1>2
    <2>2. Len(disjInputs) + 1 \in 1 .. Len(tcs)
        BY <2>1, <1>1
    <2> QED BY <1>2, <2>2 DEF eqClass
<1>4. ClassInputs \subseteq IncSpecSeqs(NIn) /\ firstState \in States(machine)
      /\ Inputs(firstState) \subseteq ClassInputs
    <2>1. \A s \in eqClass : Inputs(s) \subseteq IncSpecSeqs(NIn)
        BY <1>2, <1>3, InputsFacts
    <2>2. firstState \in eqClass
        BY <1>2, <1>3, FirstStateFacts
    <2> QED BY <1>3, <2>1, <2>2 DEF ClassInputs
<1>5. ClassInputs' = ClassInputs
    BY <1>1 DEF ClassInputs, Inputs, eqClass
<1>6. \A D : Covered(ClassInputs, D \cup ClassInputs)
    BY SubsetIsReflexive DEF Covered
<1>7. /\ disj' \subseteq IncSpecSeqs(NIn) /\ remaining' \subseteq IncSpecSeqs(NIn)
      /\ Apart(disj') /\ Covered(ClassInputs, disj' \cup remaining')
    <2>1. CASE \A a \in ClassInputs : specified(a) = DOMAIN a
        <3>1. disj' = ClassInputs /\ remaining' = {}
            BY <2>1 DEF Collect
        <3>2. disj' \cup remaining' = {} \cup ClassInputs
            BY <3>1
        <3> QED BY <1>4, <1>6, <2>1, <3>1, <3>2, WordsAreApart
    <2>2. CASE ~ \A a \in ClassInputs : specified(a) = DOMAIN a
        <3>1. disj' = Inputs(firstState) /\ remaining' = ClassInputs
            BY <2>2 DEF Collect
        <3> QED BY <1>2, <1>4, <1>6, <3>1, InputsFacts
    <2> QED BY <2>1, <2>2
<1>8. ClassSets' = ClassSets /\ States(machine)' = States(machine) /\ \A c : Cut(c)' <=> Cut(c)
    BY <1>1 DEF ClassSets, Cut, InputsOf, Inputs
<1> QED BY <1>1, <1>5, <1>7, <1>8 DEF SplitInv

LEMMA SplitKeeps == SplitInv /\ Split => SplitInv'
<1> SUFFICES ASSUME SplitInv, Split PROVE SplitInv'
    OBVIOUS
<1>1. /\ pc = "split" /\ pc' = pc
      /\ machine' = machine /\ disjInputs' = disjInputs /\ table' = table /\ tcs' = tcs
    BY DEF Split, classVars
<1>2. /\ disj \in SUBSET IncSpecSeqs(NIn) /\ remaining \in SUBSET IncSpecSeqs(NIn)
      /\ Apart(disj) /\ Covered(ClassInputs, disj \cup remaining)
    BY <1>1 DEF SplitInv
<1>3. /\ disj' \subseteq IncSpecSeqs(NIn) /\ remaining' \subseteq IncSpecSeqs(NIn)
      /\ Apart(disj') /\ Covered(ClassInputs, disj' \cup remaining')
    <2>1. PICK cur \in remaining :
              LET overlapping == {d \in disj : ~ isDisjoint(d, cur)}
                  left        == remaining \ {cur}
              IN IF cur \in disj THEN disj' = disj /\ remaining' = left
                 ELSE IF overlapping = {} THEN disj' = disj \cup {cur} /\ remaining' = left
                 ELSE \E d \in overlapping :
                        /\ disj' = cut(cur, d).disj
                        /\ remaining' = left \cup cut(cur, d).remaining
        BY DEF Split
    <2> QED BY <1>2, <2>1, CutKeeps
<1>4. ClassInputs' = ClassInputs
    BY <1>1 DEF ClassInputs, Inputs, eqClass
<1>5. ClassSets' = ClassSets /\ States(machine)' = States(machine) /\ \A c : Cut(c)' <=> Cut(c)
    BY <1>1 DEF ClassSets, Cut, InputsOf, Inputs
<1> QED BY <1>1, <1>3, <1>4, <1>5 DEF SplitInv

LEMMA EndSplitKeeps == SplitInv /\ EndSplit => SplitInv'
<1> SUFFICES ASSUME SplitInv, EndSplit PROVE SplitInv'
    OBVIOUS
<1>1. /\ pc = "split" /\ pc' = "collect" /\ remaining = {}
      /\ machine' = machine /\ table' = table /\ tcs' = tcs
      /\ disjInputs' = Append(disjInputs, disj)
    BY DEF EndSplit, classVars
<1>2. /\ disj \in SUBSET IncSpecSeqs(NIn) /\ Apart(disj) /\ Covered(ClassInputs, disj)
      /\ disjInputs \in Seq(SUBSET IncSpecSeqs(NIn)) /\ Len(disjInputs) < Len(tcs)
      /\ tcs \in Seq((SUBSET States(machine)) \ {{}})
      /\ \A c \in 1 .. Len(disjInputs) : Cut(c)
    <2>1. disj \cup remaining = disj
        BY <1>1
    <2> QED BY <1>1, <2>1 DEF SplitInv
<1>3. /\ disjInputs' \in Seq(SUBSET IncSpecSeqs(NIn)) /\ Len(disjInputs) \in Nat
      /\ Len(disjInputs') = Len(disjInputs) + 1 /\ Len(tcs) \in Nat
      /\ disjInputs'[Len(disjInputs) + 1] = disj
      /\ \A c \in 1 .. Len(disjInputs) : disjInputs'[c] = disjInputs[c]
    BY <1>1, <1>2
<1>4. \A c : InputsOf(c)' = InputsOf(c)
    BY <1>1 DEF InputsOf, Inputs
<1>5. \A c \in 1 .. Len(disjInputs') : Cut(c)'
    <2>1. \A c \in 1 .. Len(disjInputs) : Cut(c)'
        BY <1>2, <1>3, <1>4 DEF Cut
    <2>2. \A c : c = Len(disjInputs) + 1 => InputsOf(c) = ClassInputs
        BY DEF InputsOf, ClassInputs, eqClass
    <2>3. \A c : c = Len(disjInputs) + 1 => Cut(c)'
        BY <1>2, <1>3, <1>4, <2>2 DEF Cut
    <2>4. \A c \in 1 .. Len(disjInputs') : c \in 1 .. Len(disjInputs) \/ c = Len(disjInputs) + 1
        BY <1>3
    <2> QED BY <2>1, <2>3, <2>4
<1>6. ClassSets' = ClassSets /\ States(machine)' = States(machine) /\ Len(disjInputs') <= Len(tcs')
    BY <1>1, <1>2, <1>3 DEF ClassSets
<1> QED BY <1>1, <1>3, <1>5, <1>6 DEF SplitInv

LEMMA FillTableKeeps == SplitInv /\ FillTable => SplitInv'
<1> SUFFICES ASSUME SplitInv, FillTable PROVE SplitInv'
    OBVIOUS
<1>1. /\ pc = "collect" /\ pc' = "sort" /\ Len(disjInputs) = Len(tcs)
      /\ machine' = machine /\ tcs' = tcs /\ disjInputs' = disjInputs
      /\ table' = FilledTable
    BY DEF FillTable, FilledTable, classVars, cutVars
<1>2. FilledTable' = FilledTable
    BY <1>1 DEF FilledTable, Alphabet, ClassOf, SplitTrans
<1>3. ClassSets' = ClassSets /\ States(machine)' = States(machine) /\ \A c : Cut(c)' <=> Cut(c)
    BY <1>1 DEF ClassSets, Cut, InputsOf, Inputs
<1> QED BY <1>1, <1>2, <1>3 DEF SplitInv

LEMMA StutterKeepsSplit == SplitInv /\ UNCHANGED vars => SplitInv'
<1> SUFFICES ASSUME SplitInv, UNCHANGED vars PROVE SplitInv'
    OBVIOUS
<1>1. /\ pc' = pc /\ machine' = machine /\ tcs' = tcs /\ disjInputs' = disjInputs
      /\ table' = table /\ processed' = processed /\ curSet' = curSet
      /\ disj' = disj /\ remaining' = remaining
    BY DEF vars, sharedVars, splitVars, classVars, cutVars
<1>2. FilledTable' = FilledTable /\ ClassInputs' = ClassInputs
    BY <1>1 DEF FilledTable, Alphabet, ClassOf, SplitTrans, ClassInputs, Inputs, eqClass
<1>3. ClassSets' = ClassSets /\ States(machine)' = States(machine) /\ \A c : Cut(c)' <=> Cut(c)
    BY <1>1 DEF ClassSets, Cut, InputsOf, Inputs
<1> QED BY <1>1, <1>2, <1>3 DEF SplitInv

LEMMA SplitStep == RemoveInv /\ SplitInv /\ [Next]_vars => SplitInv'
<1> SUFFICES ASSUME RemoveInv, SplitInv, [Next]_vars PROVE SplitInv'
    OBVIOUS
<1>1. CASE (RemoveNext \/ IncompatNext) /\ UNCHANGED splitVars
    BY <1>1, EarlierKeepsSplit
<1>2. CASE SplitTransitionsNext
    BY <1>2, ClassesKeep, CollectKeeps, SplitKeeps, EndSplitKeeps, FillTableKeeps
       DEF SplitTransitionsNext
<1>3. CASE UNCHANGED vars
    BY <1>3, StutterKeepsSplit
<1> QED BY <1>1, <1>2, <1>3 DEF Next

LEMMA SplitInvariant == Spec => [](RemoveInv /\ SplitInv)
BY SplitStep, InitSplit, RemoveInvariant, PTL DEF Spec

\* In the table every word that a transition applies to has one piece, with
\* that transition in its entry, and the pieces of other words are empty.
LEMMA TableFacts == RemoveInv /\ SplitInv /\ pc = "sort" => TableCorrect
<1> SUFFICES ASSUME RemoveInv, SplitInv, pc = "sort",
                    NEW s \in States(machine), NEW w \in Words(NIn)
             PROVE  LET pieces == {a \in disjInputs[ClassOf(s)] : Matches(w, a)}
                        trans  == {t \in machine[s] : Matches(w, t.in)}
                    IN IF trans = {} THEN \A a \in pieces : table[s][a] = NoTrans
                       ELSE Cardinality(pieces) = 1 /\ \A a \in pieces : table[s][a] \in trans
    BY DEF TableCorrect
<1> DEFINE c == ClassOf(s)
           pieces == {a \in disjInputs[c] : Matches(w, a)}
           trans == {t \in machine[s] : Matches(w, t.in)}
<1>1. /\ UNION ClassSets = States(machine) /\ disjInputs \in Seq(SUBSET IncSpecSeqs(NIn))
      /\ Len(disjInputs) = Len(tcs) /\ \A k \in 1 .. Len(disjInputs) : Cut(k)
      /\ tcs \in Seq((SUBSET States(machine)) \ {{}}) /\ table = FilledTable
    BY DEF SplitInv
<1>2. c \in DOMAIN tcs /\ c \in DOMAIN disjInputs /\ s \in tcs[c] /\ Cut(c)
    <2>1. DOMAIN tcs = 1 .. Len(tcs) /\ DOMAIN disjInputs = 1 .. Len(disjInputs)
        BY <1>1
    <2>2. \E k \in DOMAIN tcs : s \in tcs[k]
        BY <1>1, <2>1 DEF ClassSets
    <2>3. c \in DOMAIN tcs /\ s \in tcs[c]
        BY <2>2 DEF ClassOf
    <2> QED BY <1>1, <2>1, <2>3
<1> HIDE DEF c
<1>3. /\ Apart(disjInputs[c]) /\ Covered(InputsOf(c), disjInputs[c])
      /\ Inputs(s) \subseteq InputsOf(c)
    BY <1>2 DEF Cut, InputsOf
<1>4. ASSUME NEW a \in disjInputs[c]
      PROVE  table[s][a] = IF SplitTrans(s, a) # {} THEN CHOOSE t \in SplitTrans(s, a) : TRUE
                           ELSE NoTrans
    <2>1. a \in Alphabet
        BY <1>1, <1>2 DEF Alphabet
    <2> QED BY <1>1, <1>4, <2>1 DEF FilledTable, c
<1>5. ASSUME NEW a \in pieces, NEW t \in SplitTrans(s, a) PROVE t \in trans
    <2>1. t \in machine[s] /\ (a = t.in \/ isSubset(a, t.in)) /\ Matches(w, a)
        BY <1>5 DEF SplitTrans
    <2> QED BY <2>1, SubsetMatches
<1>6. CASE trans = {}
    <2>1. \A a \in pieces : table[s][a] = NoTrans
        <3> HIDE DEF trans
        <3> QED BY <1>4, <1>5, <1>6
    <2> QED BY <1>6, <2>1 DEF c
<1>7. CASE trans # {}
    <2>1. PICK t \in machine[s] : Matches(w, t.in)
        BY <1>7
    <2>2. t.in \in InputsOf(c)
        BY <1>3, <2>1 DEF Inputs
    <2>3. PICK a \in disjInputs[c] : Matches(w, a) /\ isSubset(a, t.in)
        BY <1>3, <2>1, <2>2 DEF Covered
    <2>4. \A e \in disjInputs[c] : Matches(w, e) => e = a
        BY <1>3, <2>3, NoCommonWord DEF Apart
    <2>5. pieces = {a}
        BY <2>3, <2>4
    <2>6. Cardinality(pieces) = 1
        BY <2>5, FS_Singleton
    <2>7. t \in SplitTrans(s, a)
        <3>1. t.in \in disjInputs[c] => a = t.in
            BY <2>1, <2>4
        <3> QED BY <2>1, <2>3, <3>1 DEF SplitTrans, c
    <2>8. table[s][a] \in trans
        <3>1. table[s][a] \in SplitTrans(s, a)
            BY <1>4, <2>3, <2>7
        <3> QED BY <1>5, <2>5, <3>1
    <2> QED BY <1>7, <2>5, <2>6, <2>8 DEF c
<1> QED BY <1>6, <1>7

\* Cutting the inputs changes no transition: under every word each state
\* does after splitTransitions what it did before, by exactly one entry.
THEOREM TableExact == Spec => []TableCorrect
<1>1. RemoveInv /\ SplitInv => TableCorrect
    <2> SUFFICES ASSUME RemoveInv, SplitInv PROVE TableCorrect
        OBVIOUS
    <2>1. CASE pc = "sort"
        BY <2>1, TableFacts
    <2>2. CASE pc # "sort"
        <3>1. table = <<>>
            BY <2>2 DEF SplitInv, RemoveInv
        <3> QED BY <3>1 DEF TableCorrect
    <2> QED BY <2>1, <2>2
<1> QED BY <1>1, SplitInvariant, PTL

-----------------------------------------------------------------------------
(* getTransitivelyCompatibleStates                                         *)

\* The classes found so far share no state and hold, with a state, all that
\* are compatible with it; of the current class this holds for the states
\* that have left the worklist.
GroupInv ==
    /\ \A c, d \in 1 .. Len(tcs) : c # d => tcs[c] \cap tcs[d] = {}
    /\ \A c \in 1 .. Len(tcs) : \A s \in tcs[c], r \in States(machine) :
          <<s, r>> \notin incomp => r \in tcs[c]
    /\ classList \subseteq curSet
    /\ \A c \in 1 .. Len(tcs) : curSet \cap tcs[c] = {}
    /\ \A s \in curSet \ classList, r \in States(machine) : <<s, r>> \notin incomp => r \in curSet

\* Without a reset state the machine that was parsed is not changed.
KeptInv == given.reset = NoState => machine = given.trans /\ pc \notin {"reach", "compact"}

PrepInv == RemoveInv /\ IncompatInv /\ SplitInv /\ GroupInv /\ KeptInv

LEMMA InitPrep == Init => PrepInv
<1> SUFFICES ASSUME Init PROVE PrepInv
    OBVIOUS
<1>1. tcs = <<>> /\ curSet = {} /\ classList = {} /\ machine = given.trans
      /\ resetState = given.reset
      /\ pc = IF resetState = NoState THEN "compare" ELSE "reach"
    BY DEF Init, Parsed, SplitInit
<1>2. GroupInv
    BY <1>1 DEF GroupInv
<1>3. KeptInv
    BY <1>1 DEF KeptInv
<1> QED BY <1>2, <1>3, InitRemove, InitIncompat, InitSplit DEF PrepInv

LEMMA EarlierKeepsGroups ==
    PrepInv /\ (RemoveNext \/ IncompatNext) /\ UNCHANGED splitVars => GroupInv' /\ KeptInv'
<1> SUFFICES ASSUME PrepInv, RemoveNext \/ IncompatNext, UNCHANGED splitVars
             PROVE  GroupInv' /\ KeptInv'
    OBVIOUS
<1>1. pc \in {"reach", "compact", "compare", "propagate"}
    BY DEF RemoveNext, Visit, Visited, Keep, Fill, Remap, IncompatNext, Compare, Propagate,
           Return, Compared
<1>2. tcs = <<>> /\ curSet = {} /\ classList = {}
    BY <1>1 DEF PrepInv, SplitInv, GroupInv
<1>3. tcs' = <<>> /\ curSet' = {} /\ classList' = {}
    BY <1>2 DEF splitVars, classVars
<1>4. GroupInv'
    BY <1>3 DEF GroupInv
<1>5. KeptInv'
    <2>1. CASE RemoveNext
        <3>1. pc \in {"reach", "compact"} /\ given' = given
            BY <2>1 DEF RemoveNext, Visit, Visited, Keep, Fill, Remap
        <3> QED BY <3>1 DEF PrepInv, KeptInv
    <2>2. CASE IncompatNext
        <3>1. given' = given /\ machine' = machine /\ pc' \notin {"reach", "compact"}
            BY <2>2 DEF IncompatNext, Compare, Propagate, Return, Compared
        <3> QED BY <3>1 DEF PrepInv, KeptInv
    <2> QED BY <2>1, <2>2
<1> QED BY <1>4, <1>5

LEMMA SplitKeepsGroups ==
    PrepInv /\ SplitTransitionsNext => GroupInv' /\ KeptInv'
<1> SUFFICES ASSUME PrepInv, SplitTransitionsNext PROVE GroupInv' /\ KeptInv'
    OBVIOUS
<1>1. /\ given' = given /\ machine' = machine /\ incomp' = incomp
      /\ pc \in {"classes", "collect", "split"} /\ pc' \notin {"reach", "compact"}
    BY DEF SplitTransitionsNext, StartClass, GrowClass, EndClass, Collect, Split, EndSplit,
           FillTable
<1>2. Symmetric(incomp)
    BY <1>1 DEF PrepInv, IncompatInv, MatrixInv, Settled
<1>3. tcs \in Seq((SUBSET States(machine)) \ {{}}) /\ Len(tcs) \in Nat
    BY <1>1 DEF PrepInv, SplitInv
<1>4. KeptInv'
    BY <1>1 DEF PrepInv, KeptInv
<1>5. ASSUME pc = "classes"
      PROVE  processed = curSet \cup UNION ClassSets /\ curSet \subseteq States(machine)
    BY <1>5 DEF PrepInv, SplitInv
<1>6. CASE StartClass
    <2>1. PICK s \in States(machine) \ processed : curSet' = {s} /\ classList' = {s}
        BY <1>6 DEF StartClass
    <2>2. tcs' = tcs /\ \A c \in 1 .. Len(tcs) : s \notin tcs[c]
        BY <1>6, <1>5 DEF StartClass, ClassSets
    <2>3. curSet' \ classList' = {} /\ classList' \subseteq curSet'
          /\ \A c \in 1 .. Len(tcs) : curSet' \cap tcs[c] = {}
        BY <2>1, <2>2
    <2> QED BY <1>1, <1>4, <2>2, <2>3 DEF PrepInv, GroupInv
<1>7. CASE GrowClass
    <2>1. PICK c \in classList :
              LET new == {i \in States(machine) \ processed : <<c, i>> \notin incomp}
              IN curSet' = curSet \cup new /\ classList' = (classList \ {c}) \cup new
        BY <1>7 DEF GrowClass
    <2> DEFINE new == {i \in States(machine) \ processed : <<c, i>> \notin incomp}
    <2>2. tcs' = tcs /\ pc = "classes" /\ c \in curSet /\ classList \subseteq curSet
        BY <1>7 DEF GrowClass, PrepInv, GroupInv
    <2>3. \A k \in 1 .. Len(tcs) : new \cap tcs[k] = {} /\ curSet \cap tcs[k] = {}
        BY <2>2, <1>5 DEF ClassSets, PrepInv, GroupInv
    <2>4. ASSUME NEW r \in States(machine), <<c, r>> \notin incomp PROVE r \in curSet'
        <3>1. CASE r \notin processed
            BY <3>1, <2>1, <2>4
        <3>2. CASE r \in curSet
            BY <3>2, <2>1
        <3>3. CASE r \in UNION ClassSets
            <4>1. PICK k \in 1 .. Len(tcs) : r \in tcs[k]
                BY <3>3 DEF ClassSets
            <4>2. <<r, c>> \notin incomp /\ c \in States(machine)
                <5>1. <<r, c>> \in incomp => <<c, r>> \in incomp
                    BY <1>2 DEF Symmetric
                <5> QED BY <5>1, <2>4, <2>2, <1>5
            <4>3. c \in tcs[k]
                BY <4>1, <4>2 DEF PrepInv, GroupInv
            <4> QED BY <4>3, <2>2, <2>3
        <3> QED BY <3>1, <3>2, <3>3, <2>2, <1>5
    <2>5. ASSUME NEW s \in curSet' \ classList', NEW r \in States(machine), <<s, r>> \notin incomp
          PROVE  r \in curSet'
        <3>1. s = c \/ s \in curSet \ classList
            BY <2>1
        <3>2. s # c => r \in curSet
            BY <3>1, <2>5 DEF PrepInv, GroupInv
        <3> QED BY <3>1, <3>2, <2>1, <2>4, <2>5
    <2>6. /\ classList' \subseteq curSet'
          /\ \A k \in 1 .. Len(tcs) : curSet' \cap tcs[k] = {}
        <3>1. curSet' = curSet \cup new /\ classList' = (classList \ {c}) \cup new
            BY <2>1
        <3> HIDE DEF new
        <3> QED BY <3>1, <2>2, <2>3
    <2> QED BY <1>1, <1>4, <2>2, <2>5, <2>6 DEF PrepInv, GroupInv
<1>8. CASE EndClass
    <2>1. /\ pc = "classes" /\ classList = {} /\ classList' = {} /\ curSet' = {}
          /\ tcs' = Append(tcs, curSet)
        BY <1>8 DEF EndClass
    <2>2. /\ Len(tcs') = Len(tcs) + 1 /\ tcs'[Len(tcs) + 1] = curSet
          /\ \A c \in 1 .. Len(tcs) : tcs'[c] = tcs[c]
          /\ \A c \in 1 .. Len(tcs') : c \in 1 .. Len(tcs) \/ c = Len(tcs) + 1
        BY <1>3, <2>1
    <2>3. /\ \A c, d \in 1 .. Len(tcs) : c # d => tcs[c] \cap tcs[d] = {}
          /\ \A c \in 1 .. Len(tcs) : curSet \cap tcs[c] = {}
          /\ \A c \in 1 .. Len(tcs) : \A s \in tcs[c], r \in States(machine) :
                <<s, r>> \notin incomp => r \in tcs[c]
          /\ \A s \in curSet, r \in States(machine) : <<s, r>> \notin incomp => r \in curSet
        BY <2>1 DEF PrepInv, GroupInv
    <2>4. \A c, d \in 1 .. Len(tcs') : c # d => tcs'[c] \cap tcs'[d] = {}
        BY <2>2, <2>3
    <2>5. \A c \in 1 .. Len(tcs') : \A s \in tcs'[c], r \in States(machine) :
              <<s, r>> \notin incomp => r \in tcs'[c]
        BY <2>2, <2>3
    <2> QED BY <1>1, <1>4, <2>1, <2>4, <2>5 DEF GroupInv
<1>9. CASE Collect \/ Split \/ EndSplit \/ FillTable
    <2>1. tcs' = tcs /\ curSet' = curSet /\ classList' = classList
        BY <1>9 DEF Collect, Split, EndSplit, FillTable, classVars
    <2> QED BY <1>1, <1>4, <2>1 DEF PrepInv, GroupInv
<1> QED BY <1>6, <1>7, <1>8, <1>9 DEF SplitTransitionsNext

\* Every step of the preparation keeps all that was shown of it.
LEMMA PrepKeeps == PrepInv /\ [Next]_vars => PrepInv'
<1> SUFFICES ASSUME PrepInv, [Next]_vars PROVE PrepInv'
    OBVIOUS
<1> USE DEF PrepInv
<1>1. RemoveInv' /\ IncompatInv' /\ SplitInv'
    BY RemoveStep, IncompatStep, SplitStep
<1>2. GroupInv' /\ KeptInv'
    <2>1. CASE (RemoveNext \/ IncompatNext) /\ UNCHANGED splitVars
        BY <2>1, EarlierKeepsGroups
    <2>2. CASE SplitTransitionsNext
        BY <2>2, SplitKeepsGroups
    <2>3. CASE UNCHANGED vars
        BY <2>3 DEF vars, sharedVars, splitVars, classVars, GroupInv, KeptInv
    <2> QED BY <2>1, <2>2, <2>3 DEF Next
<1> QED BY <1>1, <1>2

-----------------------------------------------------------------------------
(* What the search starts with                                             *)

\* A state of the given machine under its new number.
Now(s) == IF given.reset = NoState THEN s ELSE stateRemapping[s]

\* The states of the given machine that matter.
Live == IF given.reset = NoState THEN Nodes ELSE Reachable

\* The machine is the given one as far as it can be reached.
MachineReady ==
    /\ given \in Machines
    /\ \E n \in Nat \ {0} : /\ DOMAIN machine = 0 .. n - 1
                            /\ \A s \in DOMAIN machine : machine[s] \subseteq Trans(NIn, NOut, n)
                            /\ Deterministic(machine)
    /\ Live \subseteq Nodes
    /\ \A s \in Live : /\ Now(s) \in States(machine)
                       /\ \A u \in given.trans[s] : u.to \in Live /\ u.out \in IncSpecSeqs(NOut)
                       /\ machine[Now(s)] = {[u EXCEPT !.to = Now(u.to)] : u \in given.trans[s]}
    /\ given.reset = NoState => Live = States(machine)
    /\ given.reset # NoState => given.reset \in Live /\ resetState = Now(given.reset)

\* The matrix is exact, and so symmetric; states with conflicting outputs are
\* marked.
MatrixReady ==
    /\ incomp = Distinguishable(machine) /\ incomp \subseteq Pairs /\ Symmetric(incomp)
    /\ Conflicts(machine) \subseteq incomp

\* Two states that may be merged.
Mergeable(s, r) == s = r \/ <<s, r>> \notin incomp

\* The entries of the table are transitions; every word that a transition
\* applies to has an entry; and states that may be merged have entries in
\* columns that do not overlap.
TableReady ==
    /\ Alphabet \subseteq IncSpecSeqs(NIn)
    /\ \A s \in States(machine), a \in Alphabet : table[s][a] # NoTrans =>
          table[s][a] \in machine[s] /\ isSubset(a, table[s][a].in)
    /\ \A s \in States(machine), w \in Words(NIn) : \A u \in machine[s] : Matches(w, u.in) =>
          \E a \in Alphabet : Matches(w, a) /\ table[s][a] = u
    /\ \A s, r \in States(machine), a, b \in Alphabet :
          Mergeable(s, r) /\ table[s][a] # NoTrans /\ table[r][b] # NoTrans /\ a # b =>
              isDisjoint(a, b)

Ready == MachineReady /\ MatrixReady /\ TableReady

\* A transition is no empty entry of the table.
LEMMA TransIsEntry ==
    ASSUME NEW n, NEW u \in Trans(NIn, NOut, n)
    PROVE  u # NoTrans
<1>1. "in" \in DOMAIN u
    BY DEF Trans
<1>2. "in" \notin DOMAIN NoTrans
    BY DEF NoTrans
<1> QED BY <1>1, <1>2

LEMMA MachineIsReady == RemoveInv /\ KeptInv /\ pc = "sort" => MachineReady
<1> SUFFICES ASSUME RemoveInv, KeptInv, pc = "sort" PROVE MachineReady
    OBVIOUS
<1>1. given \in Machines /\ SettledInv
    BY DEF RemoveInv, Settled
<1>2. PICK n \in Nat \ {0} : IsMachine(machine, n)
    BY <1>1 DEF SettledInv
<1>3. /\ \A s \in Nodes : given.trans[s] \subseteq Trans(NIn, NOut, NStates(given.trans))
      /\ \A s \in Nodes : \A u \in given.trans[s] : u.to \in Nodes
      /\ given.reset \in Nodes \cup {NoState}
      /\ NStates(given.trans) \in Nat \ {0} /\ Nodes = 0 .. NStates(given.trans) - 1
    BY <1>1, MachinesAssumption, GivenIsMachine DEF Nodes
<1>4. ASSUME NEW s \in Nodes, NEW u \in given.trans[s], NEW q
      PROVE  /\ u.out \in IncSpecSeqs(NOut) /\ u.in \in IncSpecSeqs(NIn)
             /\ [u EXCEPT !.to = q] = [in |-> u.in, to |-> q, out |-> u.out]
             /\ [u EXCEPT !.to = u.to] = u
    <2>1. u \in [in : IncSpecSeqs(NIn), to : 0 .. NStates(given.trans) - 1, out : IncSpecSeqs(NOut)]
        BY <1>3 DEF Trans
    <2> QED BY <2>1
<1>5. CASE given.reset = NoState
    <2>1. machine = given.trans /\ Live = Nodes /\ \A s : Now(s) = s
        BY <1>5 DEF KeptInv, Live, Now
    <2>2. ASSUME NEW s \in Nodes
          PROVE  machine[Now(s)] = {[u EXCEPT !.to = Now(u.to)] : u \in given.trans[s]}
        <3>1. \A u \in given.trans[s] : [u EXCEPT !.to = Now(u.to)] = u
            BY <1>4, <2>1
        <3> QED BY <3>1, <2>1
    <2>3. n = NStates(given.trans)
        BY <1>2, <2>1, StatesCount DEF IsMachine
    <2> QED BY <1>1, <1>2, <1>3, <1>4, <1>5, <2>1, <2>2, <2>3
        DEF MachineReady, IsMachine, States, Nodes
<1>6. CASE given.reset # NoState
    <2> DEFINE kept == Restrict(stateRemapping, Reachable)
    <2>1. IsRenaming(kept)
        BY <1>1, <1>6 DEF SettledInv, Renamed
    <2>2. /\ Reachable \subseteq Nodes /\ given.reset \in Reachable
          /\ SuccessorsOf(Reachable) \subseteq Reachable
        BY <1>1, <1>6, ReachableIsLeast
    <2>3. \A s \in Reachable : kept[s] = stateRemapping[s]
        BY DEF Restrict
    <2>4. /\ kept \in [Reachable -> DOMAIN machine]
          /\ \A q \in DOMAIN machine : \E s \in Reachable : kept[s] = q
        BY <2>1 DEF IsRenaming, Bijection, Injection, Surjection, IsInjective
    <2> HIDE DEF kept
    <2>5. Live = Reachable /\ \A s \in Reachable : Now(s) = kept[s]
        BY <1>6, <2>3 DEF Live, Now
    <2>6. \A s \in Reachable : \A u \in given.trans[s] : u.to \in Reachable
        BY <2>2 DEF SuccessorsOf
    <2>7. \A s \in Reachable :
              machine[Now(s)] = {[u EXCEPT !.to = Now(u.to)] : u \in given.trans[s]}
        BY <2>1, <2>5, <2>6 DEF IsRenaming
    <2>8. ASSUME NEW q \in DOMAIN machine PROVE machine[q] \subseteq Trans(NIn, NOut, n)
        <3>1. PICK s \in Reachable : kept[s] = q
            BY <2>4
        <3>2. machine[q] = {[u EXCEPT !.to = Now(u.to)] : u \in given.trans[s]}
            BY <3>1, <2>5, <2>7
        <3>3. ASSUME NEW u \in given.trans[s]
              PROVE  [u EXCEPT !.to = Now(u.to)] \in Trans(NIn, NOut, n)
            <4>1. s \in Nodes /\ Now(u.to) \in 0 .. n - 1
                BY <2>2, <2>4, <2>5, <2>6, <1>2 DEF IsMachine
            <4>2. /\ [u EXCEPT !.to = Now(u.to)] = [in |-> u.in, to |-> Now(u.to), out |-> u.out]
                  /\ u.out \in IncSpecSeqs(NOut) /\ u.in \in IncSpecSeqs(NIn)
                BY <4>1, <1>4
            <4> QED BY <4>1, <4>2 DEF Trans
        <3> QED BY <3>2, <3>3
    <2>9. /\ Live \subseteq Nodes /\ given.reset \in Live /\ resetState = Now(given.reset)
          /\ \A s \in Live : Now(s) \in States(machine)
        BY <2>1, <2>2, <2>4, <2>5 DEF IsRenaming, States
    <2>10. \A s \in Live : \A u \in given.trans[s] : u.to \in Live /\ u.out \in IncSpecSeqs(NOut)
        BY <2>2, <2>5, <2>6, <1>4
    <2> QED BY <1>1, <1>2, <1>6, <2>5, <2>7, <2>8, <2>9, <2>10 DEF MachineReady, IsMachine
<1> QED BY <1>5, <1>6

LEMMA MatrixIsReady == RemoveInv /\ IncompatInv /\ pc = "sort" => MatrixReady
<1> SUFFICES ASSUME RemoveInv, IncompatInv, pc = "sort" PROVE MatrixReady
    OBVIOUS
<1>1. incomp = Distinguishable(machine)
    BY MatrixComplete
<1>2. /\ Distinguishable(machine) \subseteq Pairs /\ Symmetric(Distinguishable(machine))
      /\ Propagated(Distinguishable(machine))
    BY MatrixFacts DEF Settled
<1> QED BY <1>1, <1>2 DEF MatrixReady, Propagated

LEMMA TableIsReady == PrepInv /\ pc = "sort" => TableReady
<1> SUFFICES ASSUME PrepInv, pc = "sort" PROVE TableReady
    OBVIOUS
<1> USE DEF PrepInv
<1>1. /\ UNION ClassSets = States(machine) /\ disjInputs \in Seq(SUBSET IncSpecSeqs(NIn))
      /\ Len(disjInputs) = Len(tcs) /\ \A k \in 1 .. Len(disjInputs) : Cut(k)
      /\ tcs \in Seq((SUBSET States(machine)) \ {{}}) /\ table = FilledTable
    BY DEF SplitInv
<1>2. DOMAIN tcs = 1 .. Len(tcs) /\ DOMAIN disjInputs = 1 .. Len(tcs)
    BY <1>1
<1>3. MachineReady /\ MatrixReady /\ TableCorrect
    BY MachineIsReady, MatrixIsReady, TableFacts
<1>4. ASSUME NEW s \in States(machine)
      PROVE  ClassOf(s) \in 1 .. Len(tcs) /\ s \in tcs[ClassOf(s)]
    <2>1. \E k \in DOMAIN tcs : s \in tcs[k]
        BY <1>1, <1>2 DEF ClassSets
    <2> QED BY <1>2, <2>1 DEF ClassOf
<1>5. ASSUME NEW s \in States(machine), NEW r \in States(machine), Mergeable(s, r)
      PROVE  ClassOf(s) = ClassOf(r)
    <2>1. CASE <<s, r>> \notin incomp
        <3>1. r \in tcs[ClassOf(s)]
            BY <1>4, <2>1 DEF GroupInv
        <3>2. r \in tcs[ClassOf(r)]
            BY <1>4
        <3> QED BY <3>1, <3>2, <1>4 DEF GroupInv
    <2> QED BY <1>5, <2>1 DEF Mergeable
<1>6. ASSUME NEW s \in States(machine), NEW a \in Alphabet, table[s][a] # NoTrans
      PROVE  /\ a \in disjInputs[ClassOf(s)]
             /\ table[s][a] \in machine[s] /\ isSubset(a, table[s][a].in)
    <2>1. table[s][a] = IF a \in disjInputs[ClassOf(s)] /\ SplitTrans(s, a) # {}
                        THEN CHOOSE t \in SplitTrans(s, a) : TRUE
                        ELSE NoTrans
        BY <1>1 DEF FilledTable
    <2>2. a \in disjInputs[ClassOf(s)] /\ table[s][a] \in SplitTrans(s, a)
        BY <2>1, <1>6
    <2>3. \A t \in SplitTrans(s, a) : t \in machine[s] /\ isSubset(a, t.in)
        BY SubsetIsReflexive DEF SplitTrans
    <2> QED BY <2>2, <2>3
<1>7. ASSUME NEW s \in States(machine), NEW w \in Words(NIn), NEW u \in machine[s],
             Matches(w, u.in)
      PROVE  \E a \in Alphabet : Matches(w, a) /\ table[s][a] = u
    <2> DEFINE pieces == {a \in disjInputs[ClassOf(s)] : Matches(w, a)}
               trans == {t \in machine[s] : Matches(w, t.in)}
    <2>1. u \in trans
        BY <1>7
    <2>2. Cardinality(pieces) = 1 /\ \A a \in pieces : table[s][a] \in trans
        <3>1. s \in DOMAIN table /\ DOMAIN <<>> = {}
            BY <1>1 DEF FilledTable
        <3> QED BY <2>1, <3>1, <1>3 DEF TableCorrect
    <2>3. \A t \in trans : t = u
        BY <1>3, <2>1, NoCommonWord DEF MachineReady, Deterministic, States
    <2>4. pieces # {}
        BY <2>2, FS_EmptySet
    <2>5. PICK a \in pieces : TRUE
        BY <2>4
    <2>6. table[s][a] = u
        BY <2>2, <2>3, <2>5
    <2>7. a \in Alphabet /\ Matches(w, a)
        BY <1>2, <1>4, <2>5 DEF Alphabet
    <2> QED BY <2>6, <2>7
<1>8. ASSUME NEW s \in States(machine), NEW r \in States(machine), Mergeable(s, r),
             NEW a \in Alphabet, NEW b \in Alphabet,
             table[s][a] # NoTrans, table[r][b] # NoTrans, a # b
      PROVE  isDisjoint(a, b)
    <2>1. ClassOf(s) = ClassOf(r) /\ a \in disjInputs[ClassOf(s)] /\ b \in disjInputs[ClassOf(s)]
        BY <1>5, <1>6, <1>8
    <2>2. Apart(disjInputs[ClassOf(s)])
        BY <1>1, <1>4 DEF Cut
    <2> QED BY <2>1, <2>2, <1>8 DEF Apart
<1>9. Alphabet \subseteq IncSpecSeqs(NIn)
    <2>1. \A c \in DOMAIN tcs : disjInputs[c] \subseteq IncSpecSeqs(NIn)
        BY <1>1, <1>2 DEF Cut
    <2> QED BY <2>1 DEF Alphabet
<1> QED BY <1>6, <1>7, <1>8, <1>9 DEF TableReady

LEMMA PreparedIsReady == PrepInv /\ pc = "sort" => Ready
BY MachineIsReady, MatrixIsReady, TableIsReady DEF PrepInv, Ready

\* The search and the machines at work leave alone what was prepared.
LEMMA ReadyStays == Ready /\ UNCHANGED prepared => Ready'
<1> SUFFICES ASSUME Ready, UNCHANGED prepared PROVE Ready'
    OBVIOUS
<1>1. /\ given' = given /\ machine' = machine /\ resetState' = resetState /\ incomp' = incomp
      /\ stateRemapping' = stateRemapping
      /\ tcs' = tcs /\ disjInputs' = disjInputs /\ table' = table
    BY DEF prepared, removeVars, splitVars, classVars, cutVars
<1>2. Reachable' = Reachable /\ Alphabet' = Alphabet
    BY <1>1 DEF Reachable, Alphabet
<1>3. MachineReady'
    BY <1>1, <1>2 DEF Ready, MachineReady, Now, Live, Nodes
<1>4. MatrixReady'
    BY <1>1 DEF Ready, MatrixReady, Pairs
<1>5. TableReady'
    BY <1>1, <1>2 DEF Ready, TableReady, Mergeable
<1> QED BY <1>3, <1>4, <1>5 DEF Ready

-----------------------------------------------------------------------------
(* The outputs of a class                                                  *)

\* What the fold over outputs that agree has computed for the set S of them:
\* it specifies what one of them specifies, and nothing else.
Joins(o, S) ==
    /\ o \in IncSpecSeqs(NOut)
    /\ \A p \in S : isSubset(o, p)
    /\ \A b \in specified(o) : \E p \in S : b \in specified(p) /\ p[b] = o[b]

LEMMA NothingJoined == Joins([b \in 0 .. NOut - 1 |-> "-"], {})
BY DEF Joins, IncSpecSeqs, specified

LEMMA JoinedWithOne ==
    ASSUME NEW O \in SUBSET IncSpecSeqs(NOut), \A o, p \in O : isCompatible(o, p),
           NEW x \in O, NEW S \in SUBSET O, NEW o, Joins(o, S)
    PROVE  Joins(intersect(x, o), S \cup {x})
<1> DEFINE i == intersect(x, o)
           N == 0 .. NOut - 1
<1>1. /\ DOMAIN x = N /\ DOMAIN o = N
      /\ \A b \in N : x[b] \in {"0", "1", "-"} /\ o[b] \in {"0", "1", "-"}
    BY DEF Joins, IncSpecSeqs
<1>2. ASSUME NEW b \in N
      PROVE  i[b] = IF x[b] = "-" /\ o[b] = "-" THEN "-"
                    ELSE IF "1" \in {x[b], o[b]} THEN "1" ELSE "0"
    BY <1>1 DEF intersect, specified
<1>3. DOMAIN i = N /\ i \in IncSpecSeqs(NOut)
    BY <1>1 DEF intersect, specified, IncSpecSeqs
<1>4. ASSUME NEW b \in N, x[b] # "-", o[b] # "-" PROVE x[b] = o[b]
    <2>1. PICK p \in S : b \in specified(p) /\ p[b] = o[b]
        BY <1>1, <1>4 DEF Joins, specified
    <2>2. isCompatible(x, p) /\ b \in specified(x)
        BY <1>1, <1>4 DEF specified
    <2> QED BY <2>1, <2>2 DEF isCompatible
<1> HIDE DEF i
<1>5. ASSUME NEW b \in N
      PROVE  /\ x[b] # "-" => i[b] = x[b]
             /\ o[b] # "-" => i[b] = o[b]
             /\ i[b] # "-" => x[b] = i[b] \/ (o[b] # "-" /\ o[b] = i[b])
    BY <1>1, <1>2, <1>4
<1>6. isSubset(i, x) /\ isSubset(i, o)
    BY <1>1, <1>3, <1>5 DEF isSubset, isCompatible, specified
<1>7. \A p \in S : isSubset(i, p)
    BY <1>6, SubsetTransitive DEF Joins
<1>8. ASSUME NEW b \in specified(i)
      PROVE  \E p \in S \cup {x} : b \in specified(p) /\ p[b] = i[b]
    <2>1. b \in N /\ i[b] # "-"
        BY <1>3 DEF specified
    <2>2. CASE x[b] = i[b]
        BY <2>1, <2>2, <1>1 DEF specified
    <2>3. CASE o[b] # "-" /\ o[b] = i[b]
        <3>1. b \in specified(o)
            BY <2>1, <2>3, <1>1 DEF specified
        <3> QED BY <3>1, <2>3 DEF Joins
    <2> QED BY <2>1, <2>2, <2>3, <1>5
<1> QED BY <1>3, <1>6, <1>7, <1>8 DEF Joins, i

LEMMA IntersectType ==
    ASSUME NEW x \in IncSpecSeqs(NOut), NEW o \in IncSpecSeqs(NOut)
    PROVE  intersect(x, o) \in IncSpecSeqs(NOut)
BY DEF intersect, specified, IncSpecSeqs

\* The fold over outputs that agree joins them all, in whatever order the
\* elements are chosen.
LEMMA FoldJoins ==
    ASSUME NEW O \in SUBSET IncSpecSeqs(NOut), IsFiniteSet(O),
           \A o, p \in O : isCompatible(o, p)
    PROVE  Joins(FoldSet(intersect, [b \in 0 .. NOut - 1 |-> "-"], O), O)
<1> DEFINE open == [b \in 0 .. NOut - 1 |-> "-"]
           V == IncSpecSeqs(NOut)
           D == SUBSET O
           one(S) == CHOOSE x \in S : TRUE
           start == [S \in D |-> open]
           rest == [S \in D |-> S \ {one(S)}]
           count == [S \in D |-> Cardinality(S)]
           G == [e \in D \X V \X V |-> IF e[1] = {} THEN open ELSE intersect(one(e[1]), e[2])]
           Equation(w) == w = [S \in SUBSET O |-> IF S = {} THEN open
                                ELSE LET x == CHOOSE x \in S : TRUE
                                     IN intersect(x, w[S \ {x}])]
           iter == CHOOSE w : Equation(w)
<1>1. open \in V
    BY DEF IncSpecSeqs
<1>2. \A S \in D : S # {} => one(S) \in S /\ one(S) \in V
    OBVIOUS
<1>3. \A S \in D : IsFiniteSet(S) /\ Cardinality(S) \in Nat
    BY FS_Subset, FS_CardinalityType
<1>4. G \in [D \X V \X V -> V]
    <2>1. ASSUME NEW S \in D, NEW o \in V, NEW p \in V
          PROVE  (IF S = {} THEN open ELSE intersect(one(S), o)) \in V
        BY <1>1, <1>2, IntersectType
    <2> HIDE DEF open, V, one
    <2> QED BY <2>1
<1>5. Ranked(D, {{}}, rest, rest, count)
    <2>1. ASSUME NEW S \in D, S # {}
          PROVE  S \ {one(S)} \in D /\ Cardinality(S \ {one(S)}) < Cardinality(S)
        <3>1. one(S) \in S
            BY <2>1
        <3> HIDE DEF one
        <3> QED BY <3>1, <1>3, FS_RemoveElement
    <2> HIDE DEF one
    <2> QED BY <2>1, <1>3 DEF Ranked
<1>6. start \in [D -> V]
    BY <1>1
<1>7. PICK f : Computes(f, D, V, {{}}, start, rest, rest, G)
    <2> HIDE DEF D, V, start, rest, count, G
    <2> QED BY <1>4, <1>5, <1>6, RecursionExists
<1>8. Equation(f)
    <2>1. f \in [D -> V] /\ \A S \in D : f[S] = IF S \in {{}} THEN start[S]
                                ELSE G[<<S, f[rest[S]], f[rest[S]]>>]
        BY <1>7 DEF Computes
    <2>2. ASSUME NEW S \in D
          PROVE  f[S] = IF S = {} THEN open ELSE intersect(one(S), f[S \ {one(S)}])
        <3>1. CASE S = {}
            BY <2>1, <3>1
        <3>2. CASE S # {}
            <4>1. rest[S] = S \ {one(S)} /\ rest[S] \in D
                OBVIOUS
            <4>2. f[rest[S]] \in V
                BY <2>1, <4>1
            <4>3. G[<<S, f[rest[S]], f[rest[S]]>>] = intersect(one(S), f[rest[S]])
                <5>1. <<S, f[rest[S]], f[rest[S]]>> \in D \X V \X V
                    BY <4>2
                <5> HIDE DEF one, open, rest, V
                <5> QED BY <3>2, <5>1
            <4> HIDE DEF G, rest, start, one
            <4> QED BY <2>1, <3>2, <4>1, <4>3
        <3> QED BY <3>1, <3>2
    <2> HIDE DEF open, V, rest, start, G
    <2> QED BY <2>1, <2>2
<1>9. Equation(iter)
    <2> HIDE DEF Equation
    <2> QED BY <1>8
<1>10. FoldSet(intersect, open, O) = iter[O]
    BY DEF FoldSet, MapThenFoldSet
<1>11. /\ iter[{}] = open
       /\ \A S \in D : S # {} => iter[S] = intersect(one(S), iter[S \ {one(S)}])
    BY <1>9
<1> HIDE DEF iter, open, Equation
<1> DEFINE bad == {S \in D : ~ Joins(iter[S], S)}
<1>12. bad = {}
    <2> SUFFICES ASSUME bad # {} PROVE FALSE
        OBVIOUS
    <2> DEFINE sizes == {Cardinality(S) : S \in bad}
    <2>1. sizes \in SUBSET Nat /\ sizes # {}
        BY <1>3
    <2>2. PICK m \in sizes : \A k \in sizes : m <= k
        BY <2>1, LeastNumber
    <2>3. PICK S \in bad : \A R \in bad : Cardinality(S) <= Cardinality(R)
        BY <2>2
    <2>4. S # {}
        BY <1>11, <2>3, NothingJoined DEF open
    <2>5. /\ one(S) \in S /\ S \ {one(S)} \in D /\ S = (S \ {one(S)}) \cup {one(S)}
          /\ Cardinality(S \ {one(S)}) < Cardinality(S)
        <3>1. one(S) \in S
            BY <2>4
        <3> HIDE DEF one
        <3> QED BY <3>1, <1>3, FS_RemoveElement
    <2>6. S \ {one(S)} \notin bad
        BY <2>3, <2>5, <1>3
    <2>7. Joins(iter[S \ {one(S)}], S \ {one(S)})
        BY <2>5, <2>6
    <2>8. Joins(intersect(one(S), iter[S \ {one(S)}]), (S \ {one(S)}) \cup {one(S)})
        <3> HIDE DEF one
        <3> QED BY <2>5, <2>7, JoinedWithOne
    <2> QED BY <2>3, <2>4, <2>5, <2>8, <1>11
<1> QED BY <1>10, <1>12 DEF open

-----------------------------------------------------------------------------
(* The new machine                                                         *)

\* What buildMachine makes of the classes.
Built ==
    [c \in Classes(nClasses) |->
        {[in |-> a, to |-> Min(Successors(c, a)), out |-> JointOutput(c, a)] :
            a \in {b \in Alphabet : OldTrans(c, b) # {} /\ Successors(c, b) # {}}}]

\* The solver has found classes.
Solved == nClasses \in Nat /\ model \in Models(nClasses)

LEMMA ModelFacts ==
    ASSUME NEW n \in Nat, NEW cls \in Models(n)
    PROVE  /\ \A s \in States(machine) : cls[s] # {} /\ cls[s] \subseteq Classes(n)
           /\ \A s \in States(machine) : \A c \in cls[s] : ~ Excluded(s, c)
           /\ \A p \in incomp : p[1] < p[2] => cls[p[1]] \cap cls[p[2]] = {}
           /\ \A a \in Alphabet : ClosedUnder(cls, n, Column(a))
<1>1. /\ cls \in [States(machine) -> (SUBSET Classes(n)) \ {{}}]
      /\ \A s \in States(machine) : \A c \in cls[s] : ~ Excluded(s, c)
      /\ \A p \in incomp : p[1] < p[2] => cls[p[1]] \cap cls[p[2]] = {}
      /\ \A steps \in Columns : ClosedUnder(cls, n, steps)
    BY DEF Models
<1>2. \A a \in Alphabet : Column(a) \in Columns
    BY DEF Columns
<1> QED BY <1>1, <1>2

\* States of one class may be merged.
LEMMA ClassMates ==
    ASSUME Ready, NEW n \in Nat, NEW cls \in Models(n),
           NEW s \in States(machine), NEW r \in States(machine), NEW c, c \in cls[s], c \in cls[r]
    PROVE  Mergeable(s, r)
<1> SUFFICES ASSUME s # r, <<s, r>> \in incomp PROVE FALSE
    BY DEF Mergeable
<1>1. s \in Nat /\ r \in Nat
    BY DEF Ready, MachineReady, States
<1>2. <<r, s>> \in incomp
    BY DEF Ready, MatrixReady, Symmetric
<1>3. \A p \in incomp : p[1] < p[2] => cls[p[1]] \cap cls[p[2]] = {}
    BY ModelFacts
<1>4. s < r => cls[s] \cap cls[r] = {}
    BY <1>3
<1>5. r < s => cls[r] \cap cls[s] = {}
    BY <1>2, <1>3
<1> QED BY <1>1, <1>4, <1>5

\* What the transitions of a class for one column have in common.
LEMMA OldTransFacts ==
    ASSUME Ready, Solved, NEW c \in Classes(nClasses), NEW a \in Alphabet,
           NEW u \in OldTrans(c, a)
    PROVE  \E s \in States(machine) :
              /\ c \in model[s] /\ table[s][a] # NoTrans /\ u = table[s][a]
              /\ u \in machine[s] /\ isSubset(a, u.in)
              /\ u.to \in States(machine) /\ u.out \in IncSpecSeqs(NOut)
<1>1. PICK s \in States(machine) : c \in model[s] /\ table[s][a] # NoTrans /\ u = table[s][a]
    BY DEF OldTrans, Leaving, newStates
<1>2. u \in machine[s] /\ isSubset(a, u.in)
    BY <1>1 DEF Ready, TableReady
<1>3. u.to \in States(machine) /\ u.out \in IncSpecSeqs(NOut)
    BY <1>1, <1>2 DEF Ready, MachineReady, Trans, States
<1> QED BY <1>1, <1>2, <1>3

\* The successors of a class lie together in some class: the clauses say so,
\* though each leaves out the classes that pairwise rules out.
LEMMA SuccessorExists ==
    ASSUME Ready, Solved, NEW c \in Classes(nClasses), NEW a \in Alphabet, OldTrans(c, a) # {}
    PROVE  Successors(c, a) # {}
<1> DEFINE leaving == {e \in Column(a) : ~ Excluded(e.from, c)}
           possible == {j \in Classes(nClasses) : \E e \in leaving : ~ Excluded(e.to, j)}
<1>1. ASSUME NEW u \in OldTrans(c, a)
      PROVE  \E e \in leaving : c \in model[e.from] /\ e.to = u.to
    <2>1. PICK s \in States(machine) : c \in model[s] /\ table[s][a] # NoTrans /\ u = table[s][a]
        BY OldTransFacts
    <2> DEFINE e == [from |-> s, to |-> table[s][a].to]
    <2>2. e \in Column(a) /\ e.from = s /\ e.to = u.to
        BY <2>1 DEF Column, Leaving
    <2>3. ~ Excluded(s, c)
        BY <2>1, ModelFacts DEF Solved
    <2> QED BY <2>1, <2>2, <2>3
<1>2. possible # {}
    <2>1. PICK u \in OldTrans(c, a) : TRUE
        OBVIOUS
    <2>2. PICK e \in leaving : e.to = u.to
        BY <1>1
    <2>3. u.to \in States(machine)
        BY OldTransFacts
    <2>4. PICK j \in model[u.to] : j \in Classes(nClasses) /\ ~ Excluded(u.to, j)
        BY <2>3, ModelFacts DEF Solved
    <2> QED BY <2>2, <2>4
<1>3. PICK j \in possible : \A e \in leaving : c \in model[e.from] => j \in model[e.to]
    <2>1. ClosedUnder(model, nClasses, Column(a))
        BY ModelFacts DEF Solved
    <2> QED BY <1>2, <2>1 DEF ClosedUnder
<1>4. ASSUME NEW u \in OldTrans(c, a) PROVE u.to \in newStates(j)
    <2>1. j \in model[u.to]
        BY <1>1, <1>3
    <2> QED BY <2>1, OldTransFacts DEF newStates
<1>5. j \in Successors(c, a)
    BY <1>3, <1>4 DEF Successors
<1> QED BY <1>5

\* All their successors lie in the class that buildMachine takes.
LEMMA SuccessorTaken ==
    ASSUME Ready, Solved, NEW c \in Classes(nClasses), NEW a \in Alphabet,
           NEW u \in OldTrans(c, a)
    PROVE  Min(Successors(c, a)) \in model[u.to]
<1>1. Successors(c, a) \in SUBSET Nat /\ Successors(c, a) # {}
    BY SuccessorExists DEF Successors, Classes, Solved
<1>2. \E x \in Successors(c, a) : \A y \in Successors(c, a) : x <= y
    BY <1>1, LeastNumber
<1>3. Min(Successors(c, a)) \in Successors(c, a)
    BY <1>2 DEF Min
<1> QED BY <1>3 DEF Successors, newStates

\* States of one class give no conflicting outputs for one column.
LEMMA OutputsAgree ==
    ASSUME Ready, Solved, NEW c \in Classes(nClasses), NEW a \in Alphabet,
           NEW t \in OldTrans(c, a), NEW u \in OldTrans(c, a)
    PROVE  isCompatible(t.out, u.out)
<1>1. PICK s \in States(machine) :
          /\ c \in model[s] /\ t = table[s][a] /\ t \in machine[s] /\ isSubset(a, t.in)
    BY OldTransFacts
<1>2. PICK r \in States(machine) :
          /\ c \in model[r] /\ u = table[r][a] /\ u \in machine[r] /\ isSubset(a, u.in)
    BY OldTransFacts
<1>3. Mergeable(s, r)
    BY <1>1, <1>2, ClassMates DEF Solved
<1>4. CASE s = r
    <2>1. t = u
        BY <1>1, <1>2, <1>4
    <2> QED BY <2>1 DEF isCompatible
<1>5. CASE <<s, r>> \notin incomp
    <2>1. <<s, r>> \notin Conflicts(machine)
        BY <1>5 DEF Ready, MatrixReady
    <2>2. ~ isDisjoint(t.in, u.in)
        BY <1>1, <1>2 DEF isSubset, isCompatible, isDisjoint, specified
    <2> QED BY <1>1, <1>2, <2>1, <2>2 DEF Conflicts
<1> QED BY <1>3, <1>4, <1>5 DEF Mergeable

LEMMA JointOutputFacts ==
    ASSUME Ready, Solved, NEW c \in Classes(nClasses), NEW a \in Alphabet,
           NEW u \in OldTrans(c, a)
    PROVE  isSubset(JointOutput(c, a), u.out)
<1> DEFINE O == {t.out : t \in OldTrans(c, a)}
           S == Leaving(newStates(c), a)
           outOf == [s \in S |-> table[s][a].out]
<1>1. O \in SUBSET IncSpecSeqs(NOut)
    BY OldTransFacts
<1>2. \A o, p \in O : isCompatible(o, p)
    BY OutputsAgree
<1>3. IsFiniteSet(O)
    <2>1. S \subseteq States(machine) /\ IsFiniteSet(States(machine))
        BY StatesCount DEF Leaving, newStates, Ready, MachineReady, States
    <2>2. IsFiniteSet(S)
        BY <2>1, FS_Subset
    <2>3. O = {table[s][a].out : s \in S}
        BY DEF OldTrans
    <2> HIDE DEF O, S
    <2>4. outOf \in [S -> O] /\ \A o \in O : \E s \in S : outOf[s] = o
        BY <2>3
    <2> HIDE DEF outOf
    <2>5. outOf \in Surjection(S, O)
        BY <2>4, Fun_IsSurj
    <2> QED BY <2>2, <2>5, FS_Surjection
<1>4. u.out \in O
    OBVIOUS
<1>5. JointOutput(c, a) = FoldSet(intersect, [b \in 0 .. NOut - 1 |-> "-"], O)
    BY DEF JointOutput
<1> HIDE DEF O
<1>6. Joins(JointOutput(c, a), O)
    BY <1>1, <1>2, <1>3, <1>5, FoldJoins
<1> QED BY <1>4, <1>6 DEF Joins

\* Wherever a state of class c has a transition the new machine has one from
\* c, and all that apply lead to a class of the successor, with the outputs
\* that the transition specifies.
LEMMA BuiltAnswers ==
    ASSUME Ready, Solved, newMachine = Built, NEW s \in States(machine), NEW c \in model[s],
           NEW w \in Words(NIn), NEW u \in machine[s], Matches(w, u.in)
    PROVE  /\ c \in DOMAIN newMachine
           /\ \E v \in newMachine[c] : Matches(w, v.in)
           /\ \A v \in newMachine[c] : Matches(w, v.in) =>
                 v.to \in model[u.to] /\ isSubset(v.out, u.out)
<1>1. c \in Classes(nClasses) /\ DOMAIN newMachine = Classes(nClasses)
    BY ModelFacts DEF Built, Solved
<1>2. PICK a \in Alphabet : Matches(w, a) /\ table[s][a] = u
    BY DEF Ready, TableReady
<1>3. u # NoTrans
    BY TransIsEntry DEF Ready, MachineReady, States
<1>4. u \in OldTrans(c, a)
    BY <1>2, <1>3 DEF OldTrans, Leaving, newStates
<1>5. newMachine[c] = {[in |-> b, to |-> Min(Successors(c, b)), out |-> JointOutput(c, b)] :
            b \in {b \in Alphabet : OldTrans(c, b) # {} /\ Successors(c, b) # {}}}
    BY <1>1 DEF Built
<1>6. \E v \in newMachine[c] : Matches(w, v.in)
    <2>1. Successors(c, a) # {}
        BY <1>1, <1>4, SuccessorExists
    <2> DEFINE v == [in |-> a, to |-> Min(Successors(c, a)), out |-> JointOutput(c, a)]
    <2>2. v \in newMachine[c]
        BY <1>4, <1>5, <2>1
    <2> QED BY <2>2, <1>2
<1>7. ASSUME NEW v \in newMachine[c], Matches(w, v.in)
      PROVE  v.to \in model[u.to] /\ isSubset(v.out, u.out)
    <2>1. PICK b \in Alphabet : /\ OldTrans(c, b) # {}
                                /\ v = [in |-> b, to |-> Min(Successors(c, b)), out |-> JointOutput(c, b)]
        BY <1>5
    <2>2. PICK x \in OldTrans(c, b) : TRUE
        BY <2>1
    <2>3. PICK r \in States(machine) : c \in model[r] /\ table[r][b] # NoTrans
        BY <1>1, OldTransFacts
    <2>4. Mergeable(s, r)
        BY <2>3, ClassMates DEF Solved
    <2>5. ~ isDisjoint(a, b)
        BY <1>2, <1>7, <2>1, NoCommonWord
    <2>6. a = b
        BY <1>2, <1>3, <2>3, <2>4, <2>5 DEF Ready, TableReady
    <2> QED BY <1>1, <1>4, <2>1, <2>6, SuccessorTaken, JointOutputFacts
<1> QED BY <1>1, <1>6, <1>7

-----------------------------------------------------------------------------
(* The lower bound                                                         *)

\* States that are marked with one another.
Pairwise ==
    /\ pairwise \in Seq(States(machine))
    /\ \A j, k \in DOMAIN pairwise : j # k => <<pairwise[j], pairwise[k]>> \in incomp

Covers(k) == kSubset(k, (SUBSET States(machine)) \ {{}})

NoCover(k) == \A C \in Covers(k) : ~ ClosedCover(machine, NIn, C)

\* No class of a closed cover holds a marked pair.
LEMMA CoverFacts ==
    ASSUME Ready, NEW k, NEW C \in Covers(k), ClosedCover(machine, NIn, C)
    PROVE  /\ C \subseteq (SUBSET States(machine)) \ {{}} /\ UNION C = States(machine)
           /\ Cardinality(C) = k /\ IsFiniteSet(C)
           /\ \A c \in C : \A s, r \in c : <<s, r>> \notin incomp
           /\ \A c \in C, w \in Words(NIn) : \E d \in C : Image(machine, c, w) \subseteq d
<1>1. /\ C \subseteq (SUBSET States(machine)) \ {{}} /\ Cardinality(C) = k
      /\ UNION C = States(machine)
      /\ \A p \in Distinguishable(machine) : \A c \in C : ~ ({p[1], p[2]} \subseteq c)
      /\ \A c \in C, w \in Words(NIn) : \E d \in C : Image(machine, c, w) \subseteq d
    BY DEF Covers, kSubset, ClosedCover
<1>2. IsFiniteSet(C)
    <2>1. IsFiniteSet(States(machine))
        BY StatesCount DEF Ready, MachineReady, States
    <2>2. IsFiniteSet(SUBSET States(machine))
        BY <2>1, FS_SUBSET
    <2> QED BY <1>1, <2>2, FS_Subset
<1>3. ASSUME NEW c \in C, NEW s \in c, NEW r \in c, <<s, r>> \in incomp PROVE FALSE
    <2>1. <<s, r>> \in Distinguishable(machine)
        BY <1>3 DEF Ready, MatrixReady
    <2>2. ~ ({<<s, r>>[1], <<s, r>>[2]} \subseteq c)
        BY <1>1, <2>1
    <2> QED BY <2>2
<1> QED BY <1>1, <1>2, <1>3

\* States that are marked with one another lie in different classes.
LEMMA ClassesApart ==
    ASSUME Ready, Pairwise, NEW k, NEW C \in Covers(k), ClosedCover(machine, NIn, C)
    PROVE  \E h \in Injection(1 .. Len(pairwise), C) :
              \A j \in 1 .. Len(pairwise) : pairwise[j] \in h[j]
<1> DEFINE L == 1 .. Len(pairwise)
           h == [j \in L |-> CHOOSE c \in C : pairwise[j] \in c]
<1>1. /\ UNION C = States(machine)
      /\ \A c \in C : \A s, r \in c : <<s, r>> \notin incomp
    BY CoverFacts
<1>2. DOMAIN pairwise = L /\ \A j \in L : pairwise[j] \in States(machine)
    BY DEF Pairwise
<1>3. ASSUME NEW j \in L PROVE h[j] \in C /\ pairwise[j] \in h[j]
    <2>1. \E c \in C : pairwise[j] \in c
        BY <1>1, <1>2
    <2> QED BY <2>1
<1> HIDE DEF h, L
<1>4. ASSUME NEW i \in L, NEW j \in L, h[i] = h[j] PROVE i = j
    <2>1. <<pairwise[i], pairwise[j]>> \notin incomp
        BY <1>1, <1>3, <1>4
    <2> QED BY <2>1, <1>2 DEF Pairwise
<1>5. h \in [L -> C]
    <2>1. DOMAIN h = L /\ h = [j \in L |-> h[j]]
        BY DEF h
    <2> QED BY <2>1, <1>3
<1>6. h \in Injection(L, C)
    BY <1>4, <1>5, Fun_IsInj
<1> QED BY <1>3, <1>6 DEF L

\* So there are at least as many classes as such states.
LEMMA LowerBound ==
    ASSUME Ready, Pairwise, NEW k, NEW C \in Covers(k), ClosedCover(machine, NIn, C)
    PROVE  Len(pairwise) <= k
<1>1. PICK h \in Injection(1 .. Len(pairwise), C) : TRUE
    BY ClassesApart
<1>2. IsFiniteSet(C) /\ Cardinality(C) = k
    BY CoverFacts
<1>3. Len(pairwise) \in Nat
    BY DEF Pairwise
<1>4. Cardinality(1 .. Len(pairwise)) = Len(pairwise)
    <2>1. Cardinality(1 .. Len(pairwise)) =
              IF 1 > Len(pairwise) THEN 0 ELSE Len(pairwise) - 1 + 1
        BY <1>3, FS_Interval
    <2> QED BY <1>3, <2>1
<1> QED BY <1>1, <1>2, <1>4, FS_Injection

\* The classes of a closed cover can be numbered so that the first ones hold
\* the states that are marked with one another.
LEMMA NumberClasses ==
    ASSUME Ready, Pairwise, NEW n \in Nat, Len(pairwise) <= n,
           NEW C \in Covers(n), ClosedCover(machine, NIn, C)
    PROVE  \E cl \in [Classes(n) -> C] :
              /\ \A c \in C : \E i \in Classes(n) : cl[i] = c
              /\ \A k \in DOMAIN pairwise : pairwise[k] \in cl[k - 1]
<1> DEFINE m == Len(pairwise)
<1>1. m \in Nat /\ DOMAIN pairwise = 1 .. m /\ m <= n
    BY DEF Pairwise
<1>2. PICK h \in Injection(1 .. m, C) : \A j \in 1 .. m : pairwise[j] \in h[j]
    BY ClassesApart
<1>3. IsFiniteSet(C) /\ Cardinality(C) = n
    BY CoverFacts
<1> HIDE DEF m
<1> DEFINE A == {h[j] : j \in 1 .. m}
           B == C \ A
<1>4. /\ h \in [1 .. m -> C]
      /\ \A i, j \in 1 .. m : h[i] = h[j] => i = j
    BY DEF Injection, IsInjective
<1>5. IsFiniteSet(A) /\ IsFiniteSet(B) /\ Cardinality(A) = m
    <2>1. A \subseteq C /\ B \subseteq C
        BY <1>4
    <2>2. h \in [1 .. m -> A] /\ \A i, j \in 1 .. m : h[i] = h[j] => i = j
        BY <1>4
    <2>3. \A a \in A : \E j \in 1 .. m : h[j] = a
        OBVIOUS
    <2> HIDE DEF A, B
    <2>4. h \in Injection(1 .. m, A) /\ h \in Surjection(1 .. m, A)
        BY <2>2, <2>3, Fun_IsInj, Fun_IsSurj
    <2>5. IsFiniteSet(1 .. m) /\ Cardinality(1 .. m) = m
        BY <1>1, FS_Interval
    <2>6. Cardinality(A) = Cardinality(1 .. m)
        BY <2>4, <2>5, FS_Surjection
    <2> QED BY <1>3, <2>1, <2>5, <2>6, FS_Subset
<1>6. Cardinality(B) = n - m
    <2>1. A \cup B = C /\ A \cap B = {}
        BY <1>4
    <2> HIDE DEF A, B
    <2>2. Cardinality(A \cup B) = Cardinality(A) + Cardinality(B) - Cardinality(A \cap B)
        BY <1>5, FS_Union
    <2>3. Cardinality({}) = 0 /\ Cardinality(B) \in Nat
        BY <1>5, FS_EmptySet, FS_CardinalityType
    <2>4. n = m + Cardinality(B) - 0
        BY <1>3, <1>5, <2>1, <2>2, <2>3
    <2> QED BY <1>1, <2>3, <2>4
<1>7. IsFiniteSet(m .. n - 1) /\ Cardinality(m .. n - 1) = n - m
    <2>1. m \in Int /\ n - 1 \in Int
        BY <1>1
    <2>2. /\ IsFiniteSet(m .. n - 1)
          /\ Cardinality(m .. n - 1) = IF m > n - 1 THEN 0 ELSE (n - 1) - m + 1
        BY <2>1, FS_Interval
    <2> QED BY <1>1, <2>2
<1>8. PICK g : g \in Bijection(m .. n - 1, B)
    <2> HIDE DEF B
    <2>1. ExistsBijection(m .. n - 1, B)
        BY <1>5, <1>6, <1>7, FS_SameCardinalityBij
    <2> QED BY <2>1 DEF ExistsBijection
<1>9. /\ g \in [m .. n - 1 -> B]
      /\ \A b \in B : \E i \in m .. n - 1 : g[i] = b
    BY <1>8 DEF Bijection, Surjection
<1> DEFINE cl == [i \in 0 .. n - 1 |-> IF i < m THEN h[i + 1] ELSE g[i]]
<1>10. ASSUME NEW i \in 0 .. n - 1 PROVE cl[i] \in C
    <2>1. CASE i < m
        <3>1. i + 1 \in 1 .. m
            BY <1>1, <2>1
        <3> QED BY <2>1, <3>1, <1>4
    <2>2. CASE ~ (i < m)
        <3>1. i \in m .. n - 1
            BY <1>1, <2>2
        <3> QED BY <2>2, <3>1, <1>9
    <2> QED BY <2>1, <2>2
<1>11. ASSUME NEW c \in C PROVE \E i \in 0 .. n - 1 : cl[i] = c
    <2>1. CASE c \in A
        <3>1. PICK j \in 1 .. m : h[j] = c
            BY <2>1
        <3>2. j - 1 \in 0 .. n - 1 /\ j - 1 < m /\ (j - 1) + 1 = j
            BY <1>1
        <3> QED BY <3>1, <3>2
    <2>2. CASE c \in B
        <3>1. PICK i \in m .. n - 1 : g[i] = c
            BY <2>2, <1>9
        <3>2. i \in 0 .. n - 1 /\ ~ (i < m)
            BY <1>1
        <3> QED BY <3>1, <3>2
    <2> QED BY <2>1, <2>2
<1>12. ASSUME NEW k \in DOMAIN pairwise PROVE pairwise[k] \in cl[k - 1]
    <2>1. k \in 1 .. m /\ k - 1 \in 0 .. n - 1 /\ k - 1 < m /\ (k - 1) + 1 = k
        BY <1>1
    <2> QED BY <2>1, <1>2
<1>13. cl \in [Classes(n) -> C]
    <2>1. cl = [i \in 0 .. n - 1 |-> cl[i]] /\ Classes(n) = 0 .. n - 1
        BY DEF Classes
    <2> HIDE DEF cl
    <2> QED BY <2>1, <1>10
<1> HIDE DEF cl
<1> QED BY <1>11, <1>12, <1>13 DEF Classes

\* Every column has a word, and so all transitions of a class for it lead to
\* the image of the class under that word.
LEMMA ColumnHasWord ==
    ASSUME Ready, NEW a \in Alphabet
    PROVE  \E w \in Words(NIn) : \A s \in States(machine) : table[s][a] # NoTrans =>
              table[s][a] \in machine[s] /\ Matches(w, table[s][a].in)
<1> DEFINE w == [b \in 0 .. NIn - 1 |-> IF a[b] = "-" THEN "0" ELSE a[b]]
<1>1. a \in [0 .. NIn - 1 -> {"0", "1", "-"}]
    BY DEF Ready, TableReady, IncSpecSeqs
<1>2. w \in Words(NIn) /\ Matches(w, a)
    BY <1>1 DEF Words, Matches, specified
<1>3. ASSUME NEW s \in States(machine), table[s][a] # NoTrans
      PROVE  table[s][a] \in machine[s] /\ Matches(w, table[s][a].in)
    <2>1. table[s][a] \in machine[s] /\ isSubset(a, table[s][a].in)
        BY <1>3 DEF Ready, TableReady
    <2> HIDE DEF w
    <2> QED BY <2>1, <1>2, SubsetMatches
<1> QED BY <1>2, <1>3

\* A closed cover satisfies all clauses: putting the first states into fixed
\* classes loses none, nor does leaving out the classes that this rules out.
LEMMA CoverIsModel ==
    ASSUME Ready, Pairwise, NEW n \in Nat, Len(pairwise) <= n,
           NEW C \in Covers(n), ClosedCover(machine, NIn, C)
    PROVE  Models(n) # {}
<1>1. PICK cl \in [Classes(n) -> C] :
              /\ \A c \in C : \E i \in Classes(n) : cl[i] = c
              /\ \A k \in DOMAIN pairwise : pairwise[k] \in cl[k - 1]
    BY NumberClasses
<1>2. /\ UNION C = States(machine)
      /\ \A c \in C : \A s, r \in c : <<s, r>> \notin incomp
      /\ \A c \in C, w \in Words(NIn) : \E d \in C : Image(machine, c, w) \subseteq d
    BY CoverFacts
<1> DEFINE cls == [s \in States(machine) |-> {c \in Classes(n) : s \in cl[c]}]
<1>3. \A s \in States(machine) : \A c \in cls[s] : c \in Classes(n) /\ s \in cl[c] /\ cl[c] \in C
    OBVIOUS
<1>4. ASSUME NEW i \in Classes(n), NEW s \in cl[i]
      PROVE  s \in States(machine) /\ i \in cls[s]
    BY <1>2
<1>5. ASSUME NEW s \in States(machine) PROVE cls[s] \in (SUBSET Classes(n)) \ {{}}
    <2>1. PICK c \in C : s \in c
        BY <1>2
    <2>2. PICK i \in Classes(n) : cl[i] = c
        BY <1>1
    <2> QED BY <2>1, <2>2
<1>6. cls \in [States(machine) -> (SUBSET Classes(n)) \ {{}}]
    BY <1>5
<1> HIDE DEF cls
<1>7. ASSUME NEW k \in DOMAIN pairwise PROVE k - 1 \in cls[pairwise[k]]
    <2>1. k - 1 \in Classes(n)
        BY DEF Pairwise, Classes
    <2> QED BY <2>1, <1>1, <1>4
<1>8. ASSUME NEW s \in States(machine), NEW c \in cls[s] PROVE ~ Excluded(s, c)
    <2> SUFFICES ASSUME c + 1 \in DOMAIN pairwise, <<s, pairwise[c + 1]>> \in incomp PROVE FALSE
        BY DEF Excluded
    <2>1. c \in Nat /\ s \in cl[c] /\ cl[c] \in C
        BY <1>3 DEF Classes
    <2>2. pairwise[c + 1] \in cl[(c + 1) - 1] /\ (c + 1) - 1 = c
        BY <1>1, <2>1
    <2> QED BY <1>2, <2>1, <2>2
<1>9. ASSUME NEW p \in incomp PROVE cls[p[1]] \cap cls[p[2]] = {}
    <2>1. p[1] \in States(machine) /\ p[2] \in States(machine) /\ p = <<p[1], p[2]>>
        BY DEF Ready, MatrixReady, Pairs
    <2>2. ASSUME NEW c \in cls[p[1]], c \in cls[p[2]] PROVE FALSE
        BY <1>2, <1>3, <2>1, <2>2
    <2> QED BY <2>2
<1>10. ASSUME NEW a \in Alphabet, NEW i \in Classes(n)
       PROVE  LET leaving  == {e \in Column(a) : ~ Excluded(e.from, i)}
                  possible == {j \in Classes(n) : \E e \in leaving : ~ Excluded(e.to, j)}
              IN possible = {} \/ \E j \in possible : \A e \in leaving :
                     i \in cls[e.from] => j \in cls[e.to]
    <2> DEFINE leaving  == {e \in Column(a) : ~ Excluded(e.from, i)}
               possible == {j \in Classes(n) : \E e \in leaving : ~ Excluded(e.to, j)}
    <2>1. PICK w \in Words(NIn) : \A s \in States(machine) : table[s][a] # NoTrans =>
              table[s][a] \in machine[s] /\ Matches(w, table[s][a].in)
        BY ColumnHasWord
    <2>2. PICK d \in C : Image(machine, cl[i], w) \subseteq d
        BY <1>2
    <2>3. PICK j \in Classes(n) : cl[j] = d
        BY <1>1
    <2>4. ASSUME NEW e \in leaving, i \in cls[e.from]
          PROVE  j \in cls[e.to] /\ j \in possible
        <3>1. PICK s \in States(machine) :
                  table[s][a] # NoTrans /\ e = [from |-> s, to |-> table[s][a].to]
            BY DEF Column, Leaving
        <3>2. s \in cl[i]
            BY <1>3, <2>4, <3>1
        <3>3. table[s][a] \in machine[s] /\ Matches(w, table[s][a].in)
            BY <2>1, <3>1
        <3>4. e.to \in Image(machine, cl[i], w)
            BY <3>1, <3>2, <3>3 DEF Image
        <3>5. e.to \in States(machine) /\ j \in cls[e.to]
            BY <2>2, <2>3, <3>4, <1>4
        <3>6. ~ Excluded(e.to, j)
            BY <3>5, <1>8
        <3> QED BY <3>5, <3>6, <2>4
    <2>5. possible = {} \/ \E k \in possible : \A e \in leaving :
              i \in cls[e.from] => k \in cls[e.to]
        <3> HIDE DEF leaving, possible
        <3>1. CASE \E e \in leaving : i \in cls[e.from]
            BY <2>4, <3>1
        <3>2. CASE ~ \E e \in leaving : i \in cls[e.from]
            BY <3>2
        <3> QED BY <3>1, <3>2
    <2> QED BY <2>5
<1>11. \A steps \in Columns : ClosedUnder(cls, n, steps)
    <2>1. ASSUME NEW a \in Alphabet PROVE ClosedUnder(cls, n, Column(a))
        BY <1>10 DEF ClosedUnder
    <2> QED BY <2>1 DEF Columns
<1>12. cls \in Models(n)
    BY <1>6, <1>7, <1>8, <1>9, <1>11 DEF Models
<1> QED BY <1>12

LEMMA NoModelNoCover ==
    ASSUME Ready, Pairwise, NEW n \in Nat, Len(pairwise) <= n, Models(n) = {}
    PROVE  NoCover(n)
BY CoverIsModel DEF NoCover

-----------------------------------------------------------------------------
(* The search and the machines at work                                     *)

Searching == pc \in {"pairwise", "bound", "solve", "build", "run"}

\* Until the classes are found no closed cover has fewer; then the new machine
\* is the one built from them, and its state is a class of the state of the
\* given machine.
SearchInv ==
    /\ pc = "pairwise" => states \in Seq(States(machine))
    /\ Pairwise
    /\ pc \in {"solve", "build"} =>
          /\ nClasses \in Nat /\ Len(pairwise) <= nClasses
          /\ \A k \in 0 .. nClasses - 1 : NoCover(k)
    /\ pc \in {"build", "run"} => Solved
    /\ pc = "run" => newMachine = Built /\ old \in Live /\ st \in model[Now(old)]
    /\ pc # "run" => old = NoState /\ out = <<>>

MeMinInv ==
    IF Searching THEN Ready /\ SearchInv
    ELSE PrepInv /\ pairwise = <<>> /\ old = NoState /\ out = <<>> /\ pc # "failed"

LEMMA InitMeMin == MeMinInit => MeMinInv
<1> SUFFICES ASSUME MeMinInit PROVE MeMinInv
    OBVIOUS
<1>1. PrepInv /\ pairwise = <<>> /\ old = NoState /\ out = <<>>
    BY InitPrep DEF MeMinInit, SearchInit
<1>2. pc \in {"compare", "reach"}
    BY DEF MeMinInit, Init, Parsed
<1> QED BY <1>1, <1>2 DEF MeMinInv, Searching

LEMMA PreparationStep == MeMinInv /\ Next /\ UNCHANGED searchVars => MeMinInv' /\ given' = given
<1> SUFFICES ASSUME MeMinInv, Next, UNCHANGED searchVars PROVE MeMinInv' /\ given' = given
    OBVIOUS
<1>1. /\ pc \in {"reach", "compact", "compare", "propagate", "classes", "collect", "split"}
      /\ pc' \in {"reach", "compact", "compare", "propagate", "classes", "collect", "split", "sort"}
      /\ given' = given
    <2>1. CASE RemoveNext
        BY <2>1 DEF RemoveNext, Visit, Visited, Keep, Fill, Remap
    <2>2. CASE IncompatNext
        BY <2>2 DEF IncompatNext, Compare, Propagate, Return, Compared
    <2>3. CASE SplitTransitionsNext
        BY <2>3 DEF SplitTransitionsNext, StartClass, GrowClass, EndClass, Collect, Split,
                    EndSplit, FillTable
    <2> QED BY <2>1, <2>2, <2>3 DEF Next
<1>2. PrepInv /\ pairwise = <<>> /\ old = NoState /\ out = <<>>
    BY <1>1 DEF MeMinInv, Searching
<1>3. PrepInv'
    BY <1>2, PrepKeeps
<1>4. pairwise' = <<>> /\ old' = NoState /\ out' = <<>>
    BY <1>2 DEF searchVars, runVars
<1> QED BY <1>1, <1>3, <1>4 DEF MeMinInv, Searching

\* What the clauses and the lower bound say does not change while the machine
\* and the matrix do not.
LEMMA CoversStay == UNCHANGED prepared => \A k : NoCover(k) <=> NoCover(k)'
BY DEF prepared, NoCover, Covers

LEMMA SortKeeps == MeMinInv /\ Sort => MeMinInv'
<1> SUFFICES ASSUME MeMinInv, Sort PROVE MeMinInv'
    OBVIOUS
<1>1. pc = "sort" /\ PrepInv /\ pairwise = <<>> /\ old = NoState /\ out = <<>>
    BY DEF Sort, MeMinInv, Searching
<1>2. UNCHANGED prepared /\ UNCHANGED <<pairwise, old, out>>
    BY DEF Sort, runVars
<1>3. Ready /\ Ready'
    BY <1>1, <1>2, PreparedIsReady, ReadyStays
<1>4. machine' = machine
    BY <1>2 DEF prepared
<1>5. nStates \in Nat
    BY <1>3, StatesCount DEF Ready, MachineReady, nStates, NStates
<1>6. pc' \in {"pairwise", "bound"} /\ (pc' = "pairwise" => states' \in Seq(States(machine)))
    <2>1. CASE noLowerBound
        BY <2>1 DEF Sort
    <2>2. CASE ~ noLowerBound
        <3>1. states' \in [1 .. nStates -> States(machine)] /\ pc' = "pairwise"
            BY <2>2 DEF Sort
        <3> QED BY <3>1, <1>5
    <2> QED BY <2>1, <2>2
<1>7. Pairwise'
    BY <1>1, <1>2 DEF Pairwise
<1>8. SearchInv'
    BY <1>1, <1>2, <1>4, <1>6, <1>7 DEF SearchInv
<1> QED BY <1>3, <1>6, <1>8 DEF MeMinInv, Searching

LEMMA TakeStateKeeps == MeMinInv /\ TakeState => MeMinInv'
<1> SUFFICES ASSUME MeMinInv, TakeState PROVE MeMinInv'
    OBVIOUS
<1>1. pc = "pairwise" /\ pc' = "pairwise" /\ states # <<>> /\ Ready /\ SearchInv
    BY DEF TakeState, MeMinInv, Searching
<1>2. UNCHANGED prepared /\ UNCHANGED <<old, out>>
    BY DEF TakeState, runVars
<1>3. Ready' /\ machine' = machine /\ incomp' = incomp
    BY <1>1, <1>2, ReadyStays DEF prepared
<1>4. /\ states \in Seq(States(machine)) /\ Pairwise
      /\ Head(states) \in States(machine) /\ states' \in Seq(States(machine))
    BY <1>1 DEF SearchInv, TakeState
<1>5. Pairwise'
    <2> DEFINE s == Head(states)
    <2>1. pairwise \in Seq(States(machine)) /\ Len(pairwise) \in Nat
          /\ DOMAIN pairwise = 1 .. Len(pairwise)
        BY <1>4 DEF Pairwise
    <2>2. CASE \E k \in DOMAIN pairwise : <<s, pairwise[k]>> \notin incomp
        BY <1>1, <1>3, <1>4, <2>2 DEF TakeState, Pairwise
    <2>3. CASE ~ \E k \in DOMAIN pairwise : <<s, pairwise[k]>> \notin incomp
        <3>1. pairwise' = Append(pairwise, s)
            BY <2>3 DEF TakeState
        <3>2. pairwise' \in Seq(States(machine)) /\ DOMAIN pairwise' = 1 .. Len(pairwise) + 1
              /\ pairwise'[Len(pairwise) + 1] = s
              /\ \A k \in 1 .. Len(pairwise) : pairwise'[k] = pairwise[k]
            BY <3>1, <2>1, <1>4
        <3>3. \A k \in 1 .. Len(pairwise) : <<s, pairwise[k]>> \in incomp /\ <<pairwise[k], s>> \in incomp
            BY <1>1, <2>1, <2>3 DEF Ready, MatrixReady, Symmetric
        <3>4. ASSUME NEW j \in DOMAIN pairwise', NEW k \in DOMAIN pairwise', j # k
              PROVE  <<pairwise'[j], pairwise'[k]>> \in incomp
            <4>1. (j \in 1 .. Len(pairwise) \/ j = Len(pairwise) + 1)
                  /\ (k \in 1 .. Len(pairwise) \/ k = Len(pairwise) + 1)
                BY <3>2, <2>1
            <4>2. CASE j \in 1 .. Len(pairwise) /\ k \in 1 .. Len(pairwise)
                <5>1. <<pairwise[j], pairwise[k]>> \in incomp
                    BY <4>2, <3>4, <2>1, <1>4 DEF Pairwise
                <5> QED BY <5>1, <4>2, <3>2
            <4>3. CASE j = Len(pairwise) + 1 /\ k \in 1 .. Len(pairwise)
                BY <4>3, <3>2, <3>3
            <4>4. CASE j \in 1 .. Len(pairwise) /\ k = Len(pairwise) + 1
                BY <4>4, <3>2, <3>3
            <4> QED BY <4>1, <4>2, <4>3, <4>4, <3>4
        <3> QED BY <3>2, <3>4, <1>3 DEF Pairwise
    <2> QED BY <2>2, <2>3
<1>6. SearchInv'
    BY <1>1, <1>2, <1>3, <1>4, <1>5 DEF SearchInv
<1> QED BY <1>1, <1>3, <1>6 DEF MeMinInv, Searching

LEMMA TakenKeeps == MeMinInv /\ Taken => MeMinInv'
<1> SUFFICES ASSUME MeMinInv, Taken PROVE MeMinInv'
    OBVIOUS
<1>1. pc = "pairwise" /\ pc' = "bound" /\ Ready /\ SearchInv
    BY DEF Taken, MeMinInv, Searching
<1>2. UNCHANGED prepared /\ UNCHANGED <<pairwise, old, out>>
    BY DEF Taken, runVars
<1>3. Ready' /\ machine' = machine /\ incomp' = incomp
    BY <1>1, <1>2, ReadyStays DEF prepared
<1>4. Pairwise'
    BY <1>1, <1>2, <1>3 DEF SearchInv, Pairwise
<1>5. SearchInv'
    BY <1>1, <1>2, <1>4 DEF SearchInv
<1> QED BY <1>1, <1>3, <1>5 DEF MeMinInv, Searching

LEMMA StartSearchKeeps == MeMinInv /\ StartSearch => MeMinInv'
<1> SUFFICES ASSUME MeMinInv, StartSearch PROVE MeMinInv'
    OBVIOUS
<1>1. pc = "bound" /\ pc' = "solve" /\ Ready /\ SearchInv /\ Pairwise
      /\ nClasses' = Len(pairwise)
    BY DEF StartSearch, MeMinInv, Searching, SearchInv
<1>2. UNCHANGED prepared /\ UNCHANGED <<old, out>>
    BY DEF StartSearch, runVars
<1>3. Ready' /\ machine' = machine /\ incomp' = incomp
    BY <1>1, <1>2, ReadyStays DEF prepared
<1>4. pairwise' = <<>> \/ pairwise' = pairwise
    BY DEF StartSearch
<1>5. Pairwise' /\ Len(pairwise') <= Len(pairwise) /\ Len(pairwise) \in Nat
    <2>1. CASE pairwise' = <<>>
        BY <2>1, <1>1 DEF Pairwise
    <2>2. CASE pairwise' = pairwise
        BY <2>2, <1>1, <1>3 DEF Pairwise
    <2> QED BY <1>4, <2>1, <2>2
<1>6. ASSUME NEW k \in 0 .. nClasses' - 1 PROVE NoCover(k)'
    <2>1. NoCover(k)
        <3>1. k < Len(pairwise) /\ k \in Nat
            BY <1>1, <1>5
        <3>2. ASSUME NEW C \in Covers(k), ClosedCover(machine, NIn, C) PROVE FALSE
            BY <1>1, <1>5, <3>1, <3>2, LowerBound
        <3> QED BY <3>2 DEF NoCover
    <2> QED BY <2>1, <1>2, CoversStay
<1>7. SearchInv'
    BY <1>1, <1>2, <1>5, <1>6 DEF SearchInv
<1> QED BY <1>1, <1>3, <1>7 DEF MeMinInv, Searching

\* The assignments stay the same while what was prepared, and the states in
\* fixed classes, do.
LEMMA ModelsStay ==
    UNCHANGED prepared /\ UNCHANGED pairwise => \A n : Models(n) = Models(n)'
<1> SUFFICES ASSUME UNCHANGED prepared, UNCHANGED pairwise PROVE \A n : Models(n) = Models(n)'
    OBVIOUS
<1>1. machine' = machine /\ incomp' = incomp /\ table' = table
      /\ tcs' = tcs /\ disjInputs' = disjInputs
    BY DEF prepared, splitVars, classVars, cutVars
<1>2. Alphabet' = Alphabet
    BY <1>1 DEF Alphabet
<1>3. Columns' = Columns
    BY <1>1, <1>2 DEF Columns, Column, Leaving
<1> QED BY <1>1, <1>3 DEF Models, ClosedUnder, Excluded

LEMMA SolvedWith == (\E n \in Nat : n = nClasses /\ model \in Models(n)) => Solved
BY DEF Solved

LEMMA SolvedStays ==
    UNCHANGED prepared /\ UNCHANGED <<pairwise, nClasses>> /\ nClasses \in Nat
        /\ model' \in Models(nClasses) => Solved'
<1> SUFFICES ASSUME UNCHANGED prepared, UNCHANGED <<pairwise, nClasses>>, nClasses \in Nat,
                    model' \in Models(nClasses)
             PROVE  Solved'
    OBVIOUS
<1>1. \A n : Models(n) = Models(n)'
    BY ModelsStay
<1>2. (\E n \in Nat : n = nClasses /\ model \in Models(n))'
    BY <1>1
<1>3. ((\E n \in Nat : n = nClasses /\ model \in Models(n)) => Solved)'
    BY SolvedWith, PTL
<1> QED BY <1>2, <1>3

LEMMA SolveKeeps == MeMinInv /\ Solve => MeMinInv'
<1> SUFFICES ASSUME MeMinInv, Solve PROVE MeMinInv'
    OBVIOUS
<1>1. pc = "solve" /\ Ready /\ SearchInv /\ Pairwise
      /\ nClasses \in Nat /\ Len(pairwise) <= nClasses /\ Len(pairwise) \in Nat
      /\ \A k \in 0 .. nClasses - 1 : NoCover(k)
    BY DEF Solve, MeMinInv, Searching, SearchInv, Pairwise
<1>2. UNCHANGED prepared /\ UNCHANGED <<pairwise, old, out>>
    BY DEF Solve, runVars
<1>3. Ready' /\ machine' = machine /\ incomp' = incomp
    BY <1>1, <1>2, ReadyStays DEF prepared
<1>4. Pairwise'
    BY <1>1, <1>2, <1>3 DEF Pairwise
<1>5. CASE Models(nClasses) = {}
    <2>1. nClasses' = nClasses + 1 /\ pc' = "solve"
        BY <1>1, <1>5 DEF Solve
    <2>2. NoCover(nClasses)
        BY <1>1, <1>5, NoModelNoCover
    <2>3. ASSUME NEW k \in 0 .. nClasses' - 1 PROVE NoCover(k)'
        <3>1. k \in 0 .. nClasses - 1 \/ k = nClasses
            BY <1>1, <2>1
        <3>2. NoCover(k)
            BY <3>1, <2>2, <1>1
        <3> QED BY <3>2, <1>2, CoversStay
    <2>4. SearchInv'
        BY <1>1, <1>2, <1>4, <2>1, <2>3 DEF SearchInv
    <2> QED BY <1>3, <2>1, <2>4 DEF MeMinInv, Searching
<1>6. CASE Models(nClasses) # {}
    <2>1. nClasses' = nClasses /\ pc' = "build" /\ model' \in Models(nClasses)
        BY <1>1, <1>6 DEF Solve
    <2>2. \A k \in 0 .. nClasses' - 1 : NoCover(k)'
        BY <1>1, <1>2, <2>1, CoversStay
    <2>3. Solved'
        BY <1>1, <1>2, <2>1, SolvedStays
    <2>4. SearchInv'
        BY <1>1, <1>2, <1>4, <2>1, <2>2, <2>3 DEF SearchInv
    <2> QED BY <1>3, <2>1, <2>4 DEF MeMinInv, Searching
<1> QED BY <1>5, <1>6

\* Every column for which a state of a class has a transition has successors
\* in some class, so buildMachine finds one.
LEMMA BuildMachineKeeps ==
    MeMinInv /\ BuildMachine => MeMinInv' /\ Given!Start
<1> SUFFICES ASSUME MeMinInv, BuildMachine PROVE MeMinInv' /\ Given!Start
    OBVIOUS
<1>1. pc = "build" /\ Ready /\ SearchInv /\ Pairwise /\ Solved /\ old = NoState /\ out = <<>>
    BY DEF BuildMachine, MeMinInv, Searching, SearchInv
<1>2. UNCHANGED prepared /\ UNCHANGED <<pairwise, nClasses, model, out>>
    BY DEF BuildMachine
<1>3. Ready' /\ machine' = machine /\ incomp' = incomp /\ given' = given
      /\ resetState' = resetState /\ table' = table /\ stateRemapping' = stateRemapping
      /\ tcs' = tcs /\ disjInputs' = disjInputs
    BY <1>1, <1>2, ReadyStays DEF prepared, splitVars, classVars, cutVars, removeVars
<1>4. pc' = "run"
    <2>1. ASSUME NEW c \in Classes(nClasses), NEW a \in Alphabet PROVE ~ NoSuccessor(c, a)
        BY <1>1, SuccessorExists DEF NoSuccessor
    <2> QED BY <2>1 DEF BuildMachine
<1>5. old' \in Live /\ st' \in model[Now(old')]
    <2>1. CASE given.reset = NoState
        BY <2>1, <1>1 DEF BuildMachine, Ready, MachineReady, Now
    <2>2. CASE given.reset # NoState
        BY <2>2, <1>1 DEF BuildMachine, Ready, MachineReady
    <2> QED BY <2>1, <2>2
<1>6. Live' = Live /\ Now(old)' = Now(old')
    BY <1>3 DEF Live, Now, Nodes, Reachable
<1>7. newMachine' = Built'
    <2>1. Alphabet' = Alphabet
        BY <1>3 DEF Alphabet
    <2>2. newMachine' = Built
        BY DEF BuildMachine, Built
    <2>3. Built' = Built
        BY <1>2, <1>3, <2>1 DEF Built, Successors, OldTrans, JointOutput, newStates, Leaving
    <2> QED BY <2>2, <2>3
<1>8. Solved'
    BY <1>1, <1>2, SolvedStays DEF Solved
<1>9. Pairwise'
    BY <1>1, <1>2, <1>3 DEF Pairwise
<1>10. SearchInv'
    BY <1>2, <1>4, <1>5, <1>6, <1>7, <1>8, <1>9 DEF SearchInv
<1>11. Given!Start
    <2>1. given.reset = NoState => States(machine) = States(given.trans)
        BY <1>1 DEF Ready, MachineReady, Live, Nodes, States
    <2>2. old' \in IF given.reset = NoState THEN States(machine) ELSE {given.reset}
        BY DEF BuildMachine
    <2> QED BY <1>1, <1>2, <1>3, <2>1, <2>2 DEF Given!Start, Given!States, States
<1> QED BY <1>3, <1>4, <1>10, <1>11 DEF MeMinInv, Searching

\* The new machine answers what the given one does.
LEMMA ClockKeeps == MeMinInv /\ Clock => MeMinInv' /\ Given!Answer
<1> SUFFICES ASSUME MeMinInv, Clock PROVE MeMinInv' /\ Given!Answer
    OBVIOUS
<1>1. pc = "run" /\ Ready /\ SearchInv /\ Pairwise /\ Solved /\ old # NoState
      /\ newMachine = Built /\ old \in Live /\ st \in model[Now(old)]
    BY DEF Clock, MeMinInv, Searching, SearchInv
<1>2. UNCHANGED prepared /\ UNCHANGED <<pairwise, nClasses, model, newMachine, pc>>
    BY DEF Clock
<1>3. Ready' /\ machine' = machine /\ incomp' = incomp /\ given' = given
      /\ resetState' = resetState /\ table' = table /\ stateRemapping' = stateRemapping
      /\ tcs' = tcs /\ disjInputs' = disjInputs
    BY <1>1, <1>2, ReadyStays DEF prepared, splitVars, classVars, cutVars, removeVars
<1> DEFINE new(w) == {u \in UNION {newMachine[c] : c \in {st} \cap DOMAIN newMachine} : Matches(w, u.in)}
<1>4. PICK w \in Words(NIn), t \in given.trans[old] :
          /\ Matches(w, t.in) /\ old' = t.to
          /\ IF new(w) = {} THEN st' = NoState /\ out' \in Words(NOut)
             ELSE \E u \in new(w) : st' = u.to /\ out' \in {o \in Words(NOut) : Matches(o, u.out)}
    BY DEF Clock
<1> DEFINE u == [t EXCEPT !.to = Now(t.to)]
<1>5. u.in = t.in /\ u.to = Now(t.to) /\ u.out = t.out
    <2>1. old \in DOMAIN given.trans /\ given \in Machines
        BY <1>1 DEF Ready, MachineReady, Nodes
    <2>2. t \in Trans(NIn, NOut, NStates(given.trans))
        BY <2>1, <1>4, MachinesAssumption
    <2> QED BY <2>2 DEF Trans
<1>6. u \in machine[Now(old)] /\ t.to \in Live /\ Now(old) \in States(machine)
    BY <1>1, <1>4 DEF Ready, MachineReady
<1>7. Matches(w, u.in)
    BY <1>4, <1>5
<1>8. /\ st \in DOMAIN newMachine
      /\ \E v \in newMachine[st] : Matches(w, v.in)
      /\ \A v \in newMachine[st] : Matches(w, v.in) =>
            v.to \in model[u.to] /\ isSubset(v.out, u.out)
    <2> HIDE DEF u
    <2> QED BY <1>1, <1>6, <1>7, BuiltAnswers
<1>9. new(w) = {v \in newMachine[st] : Matches(w, v.in)}
    <2>1. {st} \cap DOMAIN newMachine = {st}
        BY <1>8
    <2> QED BY <2>1
<1>10. PICK v \in newMachine[st] : /\ Matches(w, v.in) /\ st' = v.to
                                   /\ out' \in Words(NOut) /\ Matches(out', v.out)
    BY <1>4, <1>8, <1>9
<1>11. st' \in model[Now(t.to)] /\ isSubset(v.out, t.out)
    BY <1>5, <1>8, <1>10
<1>12. Matches(out', t.out)
    BY <1>10, <1>11, SubsetMatches
<1>13. old' \in Live' /\ st' \in model'[Now(old)']
    BY <1>2, <1>3, <1>4, <1>6, <1>11 DEF Live, Now, Nodes, Reachable
<1>14. newMachine' = Built'
    <2>1. Alphabet' = Alphabet
        BY <1>3 DEF Alphabet
    <2>2. Built' = Built
        BY <1>2, <1>3, <2>1 DEF Built, Successors, OldTrans, JointOutput, newStates, Leaving
    <2> QED BY <1>1, <1>2, <2>2
<1>15. Solved'
    BY <1>1, <1>2, SolvedStays DEF Solved
<1>16. Pairwise'
    BY <1>1, <1>2, <1>3 DEF Pairwise
<1>17. SearchInv'
    BY <1>1, <1>2, <1>13, <1>14, <1>15, <1>16 DEF SearchInv
<1>18. Given!Answer
    <2>1. /\ w \in Words(NIn) /\ t \in given.trans[old] /\ Matches(w, t.in) /\ old' = t.to
          /\ out' \in {o \in Words(NOut) : Matches(o, t.out)}
        BY <1>4, <1>10, <1>12
    <2>2. \A n : Given!Words(n) = Words(n)
        BY DEF Given!Words, Words
    <2>3. \A a, b : Given!Matches(a, b) <=> Matches(a, b)
        BY DEF Given!Matches, Matches, Given!specified, specified
    <2> QED BY <1>1, <1>3, <2>1, <2>2, <2>3 DEF Given!Answer
<1> QED BY <1>1, <1>2, <1>3, <1>17, <1>18 DEF MeMinInv, Searching

LEMMA RestKeeps == MeMinInv /\ UNCHANGED MeMinVars => MeMinInv'
<1> SUFFICES ASSUME MeMinInv, UNCHANGED MeMinVars PROVE MeMinInv'
    OBVIOUS
<1>1. /\ UNCHANGED vars /\ UNCHANGED prepared /\ pc' = pc
      /\ UNCHANGED <<states, pairwise, nClasses, model, newMachine, old, st, out>>
    BY DEF MeMinVars, searchVars, runVars, vars, prepared, sharedVars
<1>2. CASE ~ Searching
    <2>1. PrepInv'
        BY <1>1, <1>2, PrepKeeps DEF MeMinInv
    <2> QED BY <1>1, <1>2, <2>1 DEF MeMinInv, Searching
<1>3. CASE Searching
    <2>1. Ready /\ Ready' /\ SearchInv
        BY <1>1, <1>3, ReadyStays DEF MeMinInv
    <2>2. machine' = machine /\ incomp' = incomp /\ given' = given
          /\ resetState' = resetState /\ table' = table /\ stateRemapping' = stateRemapping
          /\ tcs' = tcs /\ disjInputs' = disjInputs
        BY <1>1 DEF prepared, splitVars, classVars, cutVars, removeVars
    <2>3. Solved => Solved'
        BY <1>1, SolvedStays DEF Solved
    <2>4. \A k : NoCover(k) <=> NoCover(k)'
        BY <1>1, CoversStay
    <2>5. Built' = Built
        <3>1. Alphabet' = Alphabet
            BY <2>2 DEF Alphabet
        <3> QED BY <1>1, <2>2, <3>1 DEF Built, Successors, OldTrans, JointOutput, newStates, Leaving
    <2>6. Live' = Live /\ Now(old)' = Now(old)
        BY <1>1, <2>2 DEF Live, Now, Nodes, Reachable
    <2>7. Pairwise'
        BY <1>1, <2>1, <2>2 DEF SearchInv, Pairwise
    <2>8. SearchInv'
        BY <1>1, <2>1, <2>2, <2>3, <2>4, <2>5, <2>6, <2>7 DEF SearchInv
    <2> QED BY <1>1, <1>3, <2>1, <2>8 DEF MeMinInv, Searching
<1> QED BY <1>2, <1>3

\* One step of the command: the invariant is kept, and the given machine and
\* its answers take a step or stay.
LEMMA MeMinStep ==
    MeMinInv /\ [MeMinNext]_MeMinVars => MeMinInv' /\ [Given!Next]_<<given, old, out>>
<1> SUFFICES ASSUME MeMinInv, [MeMinNext]_MeMinVars
             PROVE  MeMinInv' /\ [Given!Next]_<<given, old, out>>
    OBVIOUS
<1>1. CASE Next /\ UNCHANGED searchVars
    BY <1>1, PreparationStep DEF searchVars, runVars
<1>2. CASE Sort
    BY <1>2, SortKeeps DEF Sort, prepared, runVars
<1>3. CASE TakeState
    BY <1>3, TakeStateKeeps DEF TakeState, prepared, runVars
<1>4. CASE Taken
    BY <1>4, TakenKeeps DEF Taken, prepared, runVars
<1>5. CASE StartSearch
    BY <1>5, StartSearchKeeps DEF StartSearch, prepared, runVars
<1>6. CASE Solve
    BY <1>6, SolveKeeps DEF Solve, prepared, runVars
<1>7. CASE BuildMachine
    BY <1>7, BuildMachineKeeps DEF Given!Next
<1>8. CASE Clock
    BY <1>8, ClockKeeps DEF Given!Next
<1>9. CASE UNCHANGED MeMinVars
    BY <1>9, RestKeeps DEF MeMinVars, vars, sharedVars, searchVars, runVars
<1> QED BY <1>1, <1>2, <1>3, <1>4, <1>5, <1>6, <1>7, <1>8, <1>9 DEF MeMinNext, Search

LEMMA MeMinInvariance == MeMin => []MeMinInv
<1>1. MeMinInit => MeMinInv
    BY InitMeMin
<1>2. MeMinInv /\ [MeMinNext]_MeMinVars => MeMinInv'
    BY MeMinStep
<1> QED BY <1>1, <1>2, PTL DEF MeMin

\* memin does not leave with "No successor class found", and the new machine
\* has a transition wherever one of the merged states has one: for every
\* machine and whatever the options, although the clauses leave out the
\* classes that the pairwise incompatible states rule out.
THEOREM SuccessorsTaken == MeMin => []SuccessorsFound
<1>1. MeMinInv => SuccessorsFound
    <2> SUFFICES ASSUME MeMinInv PROVE SuccessorsFound
        OBVIOUS
    <2>1. pc # "failed"
        BY DEF MeMinInv, Searching
    <2>2. ASSUME pc = "run", NEW c \in Classes(nClasses), NEW s \in States(machine), c \in model[s],
                 NEW a \in Alphabet, table[s][a] # NoTrans
          PROVE  a \in {u.in : u \in newMachine[c]}
        <3>1. Ready /\ Solved /\ newMachine = Built
            BY <2>2 DEF MeMinInv, Searching, SearchInv
        <3>2. OldTrans(c, a) # {}
            BY <2>2 DEF OldTrans, Leaving, newStates
        <3>3. Successors(c, a) # {}
            BY <3>1, <3>2, SuccessorExists
        <3> DEFINE v == [in |-> a, to |-> Min(Successors(c, a)), out |-> JointOutput(c, a)]
        <3>4. v \in newMachine[c]
            BY <3>1, <3>2, <3>3 DEF Built
        <3> QED BY <3>4
    <2> QED BY <2>1, <2>2 DEF SuccessorsFound
<1> QED BY <1>1, MeMinInvariance, PTL

\* No closed cover of the machine has fewer classes than memin finds: the
\* pairwise incompatible states are a lower bound, and a closed cover with as
\* many classes would have been an assignment that satisfies the clauses.
THEOREM FewestClasses == MeMin => []Smallest
<1>1. MeMinInv => Smallest
    <2> SUFFICES ASSUME MeMinInv, pc = "build" PROVE Smallest
        BY DEF Smallest
    <2>1. nClasses \in Nat /\ \A k \in 0 .. nClasses - 1 : NoCover(k)
        BY DEF MeMinInv, Searching, SearchInv
    <2>2. \A k \in 1 .. nClasses - 1 : NoCover(k)
        BY <2>1
    <2> QED BY <2>2 DEF Smallest, NoCover, Covers
<1> QED BY <1>1, MeMinInvariance, PTL

\* memin implements GivenMachine: from the reset state on the new machine
\* answers every word for which the given one has a transition, with every
\* output bit that it specifies.
THEOREM MeMinImplementsGiven == MeMin => ImplementsGiven
<1>1. MeMinInit => Given!Init
    BY DEF MeMinInit, Init, Parsed, SearchInit, Given!Init
<1>2. MeMinInv /\ [MeMinNext]_MeMinVars => [Given!Next]_<<given, old, out>>
    BY MeMinStep
<1> QED BY <1>1, <1>2, MeMinInvariance, PTL DEF MeMin, ImplementsGiven, Given!Spec
=============================================================================

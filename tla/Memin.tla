------------------------------- MODULE Memin -------------------------------
(***************************************************************************)
(* The command memin from the parsed machine to the new one                *)
(* (memin/minimizer.cpp, DIMACSWriter.cpp, MachineBuilder.cpp): after the  *)
(* preparation pairwise incompatible states give a lower bound, a SAT      *)
(* solver looks for that many classes of states that form a closed cover,  *)
(* for one class more if there are none, and the classes become the states *)
(* of the new machine, which is then run next to the given one.            *)
(***************************************************************************)
EXTENDS Preparation, FiniteSetsExt

VARIABLES noPartial, noLowerBound,   \* options -np and -nl
          states,                    \* the order in which states are tried
          pairwise,                  \* pairwiseIncStates
          nClasses,
          model,                     \* the classes of every state
          newMachine,
          old, st, out               \* the given and the new machine at work

options     == <<noPartial, noLowerBound>>
prepared    == <<given, machine, resetState, incomp, removeVars, incompVars, splitVars>>
runVars     == <<old, st, out>>
searchVars  == <<options, states, pairwise, nClasses, model, newMachine, runVars>>

nIncomp(s) == Cardinality({r \in States(machine) : <<s, r>> \in incomp})

SearchInit ==
    /\ noPartial \in BOOLEAN /\ noLowerBound \in BOOLEAN
    /\ states = <<>> /\ pairwise = <<>>
    /\ nClasses = 0 /\ model = <<>> /\ newMachine = <<>>
    /\ old = NoState /\ st = NoState /\ out = <<>>

-----------------------------------------------------------------------------
(* findPairwiseIncStates                                                   *)

\* States with more incompatible ones come first; std::sort may order the
\* others as it likes.  With -nl the step is skipped.
Sort ==
    /\ pc = "sort"
    /\ IF noLowerBound THEN states' = <<>> /\ pc' = "bound"
       ELSE /\ states' \in {f \in [1 .. nStates -> States(machine)] :
                  /\ \A a, b \in 1 .. nStates : f[a] = f[b] => a = b
                  /\ \A a, b \in 1 .. nStates : a < b => nIncomp(f[a]) >= nIncomp(f[b])}
            /\ pc' = "pairwise"
    /\ UNCHANGED <<prepared, options, pairwise, nClasses, model, newMachine, runVars>>

\* Mutant: a state need only be incompatible with the latest one.
TakeStateLatest ==
    /\ pc = "pairwise" /\ states # <<>>
    /\ pairwise' = IF pairwise # <<>> /\ <<Head(states), pairwise[Len(pairwise)]>> \notin incomp
                   THEN pairwise ELSE Append(pairwise, Head(states))
    /\ states' = Tail(states)
    /\ UNCHANGED <<prepared, options, nClasses, model, newMachine, runVars, pc>>

\* A state that is incompatible with all taken before is taken.
TakeState ==
    /\ pc = "pairwise" /\ states # <<>>
    /\ pairwise' = IF \E k \in DOMAIN pairwise : <<Head(states), pairwise[k]>> \notin incomp
                   THEN pairwise ELSE Append(pairwise, Head(states))
    /\ states' = Tail(states)
    /\ UNCHANGED <<prepared, options, nClasses, model, newMachine, runVars, pc>>

Taken ==
    /\ pc = "pairwise" /\ states = <<>>
    /\ pc' = "bound"
    /\ UNCHANGED <<prepared, options, states, pairwise, nClasses, model, newMachine, runVars>>

-----------------------------------------------------------------------------
(* buildCNF                                                                *)

Classes(n) == 0 .. n - 1

\* State s cannot be in class c, which the state pairwise[c + 1] is put in.
Excluded(s, c) == c + 1 \in DOMAIN pairwise /\ <<s, pairwise[c + 1]>> \in incomp

\* The states with a transition for a, and where it leads: inputs with the
\* same column give the same clauses (computeReducedInputAlphabet).
Leaving(S, a) == {s \in S : table[s][a] # NoTrans}

Column(a) == {[from |-> s, to |-> table[s][a].to] : s \in Leaving(States(machine), a)}

Columns == {Column(a) : a \in Alphabet}

\* Mutant: a successor class is asked for every successor, not for all.
ClosedUnderEach(cls, n, steps) ==
    \A i \in Classes(n) : \A e \in steps : \E j \in Classes(n) :
        i \in cls[e.from] => j \in cls[e.to]

\* The closure constraints of a column: one class j (the auxiliary literal)
\* takes the successors of all states in class i.
ClosedUnder(cls, n, steps) ==
    \A i \in Classes(n) :
        LET leaving  == {e \in steps : ~ Excluded(e.from, i)}
            possible == {j \in Classes(n) : \E e \in leaving : ~ Excluded(e.to, j)}
        IN possible = {} \/ \E j \in possible : \A e \in leaving :
               i \in cls[e.from] => j \in cls[e.to]

\* The assignments of states to n classes that satisfy all clauses.
Models(n) ==
    {cls \in [States(machine) -> (SUBSET Classes(n)) \ {{}}] :
        /\ \A k \in DOMAIN pairwise : k - 1 \in cls[pairwise[k]]
        /\ \A s \in States(machine) : \A c \in cls[s] : ~ Excluded(s, c)
        /\ \A p \in incomp : p[1] < p[2] => cls[p[1]] \cap cls[p[2]] = {}
        /\ \A steps \in Columns : ClosedUnder(cls, n, steps)}

\* The loop starts at the number of pairwise incompatible states.
StartSearch ==
    /\ pc = "bound"
    /\ nClasses' = Len(pairwise)
    /\ pairwise' = IF noPartial THEN <<>> ELSE pairwise
    /\ pc' = "solve"
    /\ UNCHANGED <<prepared, options, states, model, newMachine, runVars>>

\* Mutant: the number of classes is not raised.
SolveStuck ==
    /\ pc = "solve"
    /\ IF Models(nClasses) = {}
       THEN UNCHANGED <<nClasses, model, pc>>
       ELSE model' \in Models(nClasses) /\ pc' = "build" /\ UNCHANGED nClasses
    /\ UNCHANGED <<prepared, options, states, pairwise, newMachine, runVars>>

\* The solver returns some assignment, or there is none and one more class
\* is tried.
Solve ==
    /\ pc = "solve"
    /\ IF Models(nClasses) = {}
       THEN nClasses' = nClasses + 1 /\ UNCHANGED <<model, pc>>
       ELSE model' \in Models(nClasses) /\ pc' = "build" /\ UNCHANGED nClasses
    /\ UNCHANGED <<prepared, options, states, pairwise, newMachine, runVars>>

-----------------------------------------------------------------------------
(* buildMachine                                                            *)

newStates(c) == {s \in States(machine) : c \in model[s]}

\* What the states of class c do for the input a, and the classes that hold
\* all their successors.
OldTrans(c, a)   == {table[s][a] : s \in Leaving(newStates(c), a)}
Successors(c, a) == {d \in Classes(nClasses) : {t.to : t \in OldTrans(c, a)} \subseteq newStates(d)}

\* Mutant: the output of one of the states is taken for all.
JointOutputFirst(c, a) == (CHOOSE t \in OldTrans(c, a) : TRUE).out

\* Outputs are specified where one of the states specifies them.
JointOutput(c, a) ==
    FoldSet(intersect, [b \in 0 .. NOut - 1 |-> "-"], {t.out : t \in OldTrans(c, a)})

\* "No successor class found": noticed if the last class holds a successor.
NoSuccessor(c, a) ==
    /\ OldTrans(c, a) # {} /\ Successors(c, a) = {}
    /\ \E t \in OldTrans(c, a) : nClasses - 1 \in model[t.to]

\* The new machine, in its reset state or, if any state may be that, in a
\* class of any state.
BuildMachine ==
    /\ pc = "build"
    /\ newMachine' = [c \in Classes(nClasses) |->
          {[in |-> a, to |-> Min(Successors(c, a)), out |-> JointOutput(c, a)] :
              a \in {b \in Alphabet : OldTrans(c, b) # {} /\ Successors(c, b) # {}}}]
    /\ old' \in IF given.reset = NoState THEN States(machine) ELSE {given.reset}
    /\ st' \in model[IF given.reset = NoState THEN old' ELSE resetState]
    /\ pc' = IF \E c \in Classes(nClasses), a \in Alphabet : NoSuccessor(c, a) THEN "failed" ELSE "run"
    /\ UNCHANGED <<prepared, options, states, pairwise, nClasses, model, out>>

-----------------------------------------------------------------------------

\* One step of the given and the new machine, for an input that the given
\* one specifies.  Output bits that are open, and all that follows if the new
\* machine has no transition, can be anything.
Clock ==
    /\ pc = "run" /\ old # NoState
    /\ \E w \in Words(NIn) : \E t \in {t \in given.trans[old] : Matches(w, t.in)} :
          LET new == {u \in UNION {newMachine[c] : c \in {st} \cap DOMAIN newMachine} : Matches(w, u.in)}
          IN /\ old' = t.to
             /\ IF new = {} THEN st' = NoState /\ out' \in Words(NOut)
                ELSE \E u \in new : st' = u.to /\ out' \in {o \in Words(NOut) : Matches(o, u.out)}
    /\ UNCHANGED <<prepared, options, states, pairwise, nClasses, model, newMachine, pc>>

Search == Sort \/ TakeState \/ Taken \/ StartSearch \/ Solve \/ BuildMachine

MeMinVars == <<vars, searchVars>>

MeMinInit == Init /\ SearchInit

MeMinNext ==
    \/ Next /\ UNCHANGED searchVars
    \/ Search
    \/ Clock

\* The command runs on; nothing makes the machine at work take a step.
MeMin == MeMinInit /\ [][MeMinNext]_MeMinVars /\ WF_MeMinVars(Next /\ UNCHANGED searchVars) /\ WF_MeMinVars(Search)

-----------------------------------------------------------------------------
(* Properties                                                              *)

\* Every class has a class for its successors: the program does not leave
\* with "No successor class found", and the new machine has a transition
\* wherever one of the merged states has one.
SuccessorsFound ==
    /\ pc # "failed"
    /\ pc = "run" => \A c \in Classes(nClasses), s \in States(machine) : c \in model[s] =>
          {a \in Alphabet : table[s][a] # NoTrans} \subseteq {u.in : u \in newMachine[c]}

\* Whatever the options, no closed cover has fewer classes: the lower bound
\* is one, and adding states to fixed classes loses no solution.
Smallest ==
    pc = "build" => \A k \in 1 .. nClasses - 1 : \A C \in kSubset(k, (SUBSET States(machine)) \ {{}}) :
        ~ ClosedCover(machine, NIn, C)

\* From the reset state on the new machine answers every word for which the
\* given one has a transition, with every output bit that it specifies.
Given == INSTANCE GivenMachine WITH state <- old

ImplementsGiven == Given!Spec

\* As many classes as states are enough, so the search ends.
SearchEnds == <>(pc = "run")
=============================================================================

-------------------------- MODULE SplitTransitions --------------------------
(***************************************************************************)
(* getTransitivelyCompatibleStates, getDisjointInputSet and                *)
(* splitTransitions of memin/minimizer.cpp.  States that may come to lie   *)
(* in one class get transitions for the same inputs, no two of which       *)
(* overlap: the inputs of the transitions are cut into pieces until none   *)
(* overlaps another, and every transition is replaced by one per piece.    *)
(***************************************************************************)
EXTENDS MeMinState, Sequences

VARIABLES processed, curSet, classList,   \* the search for the current class
          tcs,                            \* the classes found
          disj, remaining,                \* disjointInputs, remainingInputs
          disjInputs,                     \* the inputs of every class
          table         \* nextStatesMap and outputsMap: state -> input -> transition

classVars == <<processed, curSet, classList, tcs>>
cutVars   == <<disj, remaining, disjInputs>>
splitVars == <<classVars, cutVars, table>>

SplitInit ==
    /\ processed = {} /\ curSet = {} /\ classList = {} /\ tcs = <<>>
    /\ disj = {} /\ remaining = {} /\ disjInputs = <<>>
    /\ table = <<>>

-----------------------------------------------------------------------------
(* getTransitivelyCompatibleStates                                         *)

\* The first state that is in no class starts one.
StartClass ==
    /\ pc = "classes" /\ curSet = {} /\ processed # States(machine)
    /\ \E s \in States(machine) \ processed :
          /\ \A r \in States(machine) \ processed : s <= r
          /\ processed' = processed \cup {s}
          /\ curSet' = {s} /\ classList' = {s}
    /\ UNCHANGED <<given, machine, resetState, incomp, tcs, cutVars, table, pc>>

\* A state of the worklist adds the states compatible with it.
GrowClass ==
    /\ pc = "classes" /\ classList # {}
    /\ \E c \in classList :
          LET new == {i \in States(machine) \ processed : <<c, i>> \notin incomp}
          IN /\ processed' = processed \cup new
             /\ curSet' = curSet \cup new
             /\ classList' = (classList \ {c}) \cup new
    /\ UNCHANGED <<given, machine, resetState, incomp, tcs, cutVars, table, pc>>

EndClass ==
    /\ pc = "classes" /\ curSet # {} /\ classList = {}
    /\ tcs' = Append(tcs, curSet)
    /\ curSet' = {}
    /\ pc' = IF processed = States(machine) THEN "collect" ELSE "classes"
    /\ UNCHANGED <<given, machine, resetState, incomp, processed, classList, cutVars, table>>

-----------------------------------------------------------------------------
(* getDisjointInputSet, for one class after the other                      *)

eqClass == tcs[Len(disjInputs) + 1]

Inputs(s)   == {t.in : t \in machine[s]}
ClassInputs == UNION {Inputs(s) : s \in eqClass}
firstState  == CHOOSE s \in eqClass : \A r \in eqClass : s <= r

\* The inputs of the first state, which do not overlap, and those left; if
\* all are words there is nothing to cut.
Collect ==
    /\ pc = "collect" /\ Len(disjInputs) < Len(tcs)
    /\ IF \A a \in ClassInputs : specified(a) = DOMAIN a
       THEN disj' = ClassInputs /\ remaining' = {}
       ELSE disj' = Inputs(firstState) /\ remaining' = ClassInputs
    /\ pc' = "split"
    /\ UNCHANGED <<given, machine, resetState, incomp, classVars, disjInputs, table>>

\* What becomes of an input and a disjoint input that overlap.
cut(cur, d) ==
    IF isSubset(cur, d)
    THEN [disj |-> (disj \ {d}) \cup {intersect(d, cur)} \cup diff(d, cur), remaining |-> {}]
    ELSE IF isSubset(d, cur)
    THEN [disj |-> disj, remaining |-> diff(cur, d)]
    ELSE [disj |-> (disj \ {d}) \cup {intersect(d, cur)} \cup diff(d, cur),
          remaining |-> diff(cur, d)]

\* Mutant: an input is put back as it is.
SplitNext ==
    /\ pc = "split" /\ remaining # {}
    /\ \E cur \in remaining :
          LET overlapping == {d \in disj : ~ isDisjoint(d, cur)}
          IN IF cur \in disj THEN disj' = disj /\ remaining' = remaining \ {cur}
             ELSE IF overlapping = {} THEN disj' = disj \cup {cur} /\ remaining' = remaining
             ELSE \E d \in overlapping :
                    /\ disj' = cut(cur, d).disj
                    /\ remaining' = remaining \cup cut(cur, d).remaining
    /\ UNCHANGED <<given, machine, resetState, incomp, classVars, disjInputs, table, pc>>

\* One round of the loop over the queue.  The order of the queue, which
\* follows the file, and of the hash set are left open.
Split ==
    /\ pc = "split" /\ remaining # {}
    /\ \E cur \in remaining :
          LET overlapping == {d \in disj : ~ isDisjoint(d, cur)}
              left        == remaining \ {cur}
          IN IF cur \in disj THEN disj' = disj /\ remaining' = left
             ELSE IF overlapping = {} THEN disj' = disj \cup {cur} /\ remaining' = left
             ELSE \E d \in overlapping :
                    /\ disj' = cut(cur, d).disj
                    /\ remaining' = left \cup cut(cur, d).remaining
    /\ UNCHANGED <<given, machine, resetState, incomp, classVars, disjInputs, table, pc>>

EndSplit ==
    /\ pc = "split" /\ remaining = {}
    /\ disjInputs' = Append(disjInputs, disj)
    /\ pc' = "collect"
    /\ UNCHANGED <<given, machine, resetState, incomp, classVars, disj, remaining, table>>

-----------------------------------------------------------------------------
(* splitTransitions                                                        *)

NoTrans == [to |-> "none"]

ClassOf(s) == CHOOSE c \in DOMAIN tcs : s \in tcs[c]

\* Mutant: only inputs that were not cut are looked up.
SplitTransExact(s, a) == {t \in machine[s] : t.in \in disjInputs[ClassOf(s)] /\ a = t.in}

\* The transitions of s that fill the entry of the piece a.
SplitTrans(s, a) ==
    {t \in machine[s] : IF t.in \in disjInputs[ClassOf(s)] THEN a = t.in ELSE isSubset(a, t.in)}

\* The pieces of all classes are the inputs of the new machine.
Alphabet == UNION {disjInputs[c] : c \in DOMAIN tcs}

FillTable ==
    /\ pc = "collect" /\ Len(disjInputs) = Len(tcs)
    /\ table' = [s \in States(machine) |-> [a \in Alphabet |->
                   IF a \in disjInputs[ClassOf(s)] /\ SplitTrans(s, a) # {}
                   THEN CHOOSE t \in SplitTrans(s, a) : TRUE
                   ELSE NoTrans]]
    /\ pc' = "sort"
    /\ UNCHANGED <<given, machine, resetState, incomp, classVars, cutVars>>

SplitTransitionsNext ==
    StartClass \/ GrowClass \/ EndClass \/ Collect \/ Split \/ EndSplit \/ FillTable

-----------------------------------------------------------------------------
(* Properties                                                              *)

\* In the end every word a transition applies to has one piece, whose entry
\* is that transition; the entries of all other pieces are empty.
TableCorrect ==
    table # <<>> => \A s \in States(machine), w \in Words(NIn) :
        LET pieces == {a \in disjInputs[ClassOf(s)] : Matches(w, a)}
            trans  == {t \in machine[s] : Matches(w, t.in)}
        IN IF trans = {} THEN \A a \in pieces : table[s][a] = NoTrans
           ELSE Cardinality(pieces) = 1 /\ \A a \in pieces : table[s][a] \in trans

=============================================================================

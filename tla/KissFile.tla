------------------------------ MODULE KissFile ------------------------------
(***************************************************************************)
(* Machines as KISS files: parseKISSFile (memin/KISSParser.cpp), which     *)
(* numbers the states in the order in which their names appear, and        *)
(* writeKISSFile (memin/MachineBuilder.cpp), which gives them new names.   *)
(* A file is the sequence of its rows, with the line that names the reset  *)
(* state among them if there is one.                                       *)
(***************************************************************************)
EXTENDS Machine, SequencesExt

CONSTANTS NIn, NOut,
          StateNames,    \* the names of states in the files, and
          Star,          \* "*", which stands for all states in front of a row
          Files

Rows   == [in : IncSpecSeqs(NIn), from : StateNames, to : StateNames, out : IncSpecSeqs(NOut)]
Resets == [reset : StateNames]

IsReset(l) == DOMAIN l = {"reset"}

ASSUME FilesAssumption ==
    /\ NIn \in Nat /\ NOut \in Nat
    /\ \A f \in Files :
          /\ f \in Seq(Rows \cup Resets)
          /\ \A j, k \in DOMAIN f : IsReset(f[j]) /\ IsReset(f[k]) => j = k

VARIABLES file,
          firstStateReset,     \* unset by the option -r of memin
          line,                \* the number of lines read
          states, stateToInt,
          resetState,          \* a set: empty while the code has -1
          undefinedFrom,       \* undefinedFromStates
          pc

parseVars == <<line, states, stateToInt, resetState, undefinedFrom>>

ParseInit ==
    /\ line = 0 /\ states = <<>> /\ stateToInt = <<>>
    /\ resetState = {} /\ undefinedFrom = <<>>

\* The numbers with the name s entered, in the order of names: the next free
\* number is the size of the vector of states.
Number(table, name) ==
    IF name \in DOMAIN table THEN table
    ELSE [s \in DOMAIN table \cup {name} |->
             IF s = name THEN Cardinality(DOMAIN table) ELSE table[s]]

Grown(n) == [s \in 0 .. n - 1 |-> IF s \in DOMAIN states THEN states[s] ELSE {}]

\* The line ".r"; it may come before the state has any row.
ParseReset ==
    /\ pc = "parse" /\ line < Len(file) /\ IsReset(file[line + 1])
    /\ LET name == file[line + 1].reset
       IN /\ stateToInt' = Number(stateToInt, name)
          /\ states' = Grown(Cardinality(DOMAIN stateToInt'))
          /\ resetState' = {stateToInt'[name]}
    /\ line' = line + 1
    /\ UNCHANGED <<file, firstStateReset, undefinedFrom, pc>>

\* A state that is not known gets the next number, the one a row leads to as
\* well; the first one, unless it is "*", may become the reset state.  A row
\* for all states is kept for the end.
ParseRow ==
    /\ pc = "parse" /\ line < Len(file) /\ ~ IsReset(file[line + 1])
    /\ LET row   == file[line + 1]
           known == IF row.from = Star THEN stateToInt ELSE Number(stateToInt, row.from)
           all   == Number(known, row.to)
           grown == Grown(Cardinality(DOMAIN all))
           trans == [in |-> row.in, to |-> all[row.to], out |-> row.out]
           new   == {all[s] : s \in (DOMAIN all \ DOMAIN stateToInt) \ {Star}}
       IN /\ stateToInt' = all
          /\ resetState' = IF resetState = {} /\ firstStateReset /\ new # {}
                           THEN {Min(new)} ELSE resetState
          /\ IF row.from = Star
             THEN states' = grown /\ undefinedFrom' = Append(undefinedFrom, trans)
             ELSE /\ states' = [grown EXCEPT ![known[row.from]] = @ \cup {trans}]
                  /\ UNCHANGED undefinedFrom
    /\ line' = line + 1
    /\ UNCHANGED <<file, firstStateReset, pc>>

\* Mutant: the rows for all states miss the last state.
ParseEndShort ==
    /\ pc = "parse" /\ line = Len(file)
    /\ states' = [s \in DOMAIN states |->
          IF s = NStates(states) - 1 THEN states[s] ELSE states[s] \cup ToSet(undefinedFrom)]
    /\ pc' = "parsed"
    /\ UNCHANGED <<file, firstStateReset, line, stateToInt, resetState, undefinedFrom>>

\* At the end of the file the rows for all states are appended to each.
ParseEnd ==
    /\ pc = "parse" /\ line = Len(file)
    /\ states' = [s \in DOMAIN states |-> states[s] \cup ToSet(undefinedFrom)]
    /\ pc' = "parsed"
    /\ UNCHANGED <<file, firstStateReset, line, stateToInt, resetState, undefinedFrom>>

Parse == ParseReset \/ ParseRow \/ ParseEnd

-----------------------------------------------------------------------------

\* What writeKISSFile writes: the reset state if there is one, then the rows
\* state by state; which input comes first is up to a hash table.  The name of
\* a state is the letter S and its number.
StateName(s) == <<"S", s>>

WrittenRows ==
    UNION {{[in |-> t.in, from |-> StateName(s), to |-> StateName(t.to), out |-> t.out] : t \in states[s]} :
              s \in DOMAIN states}

WrittenReset ==
    IF resetState = {} THEN <<>> ELSE <<[reset |-> StateName(Min(resetState))]>>

Written ==
    {WrittenReset \o rows :
        rows \in {q \in [1 .. Cardinality(WrittenRows) -> WrittenRows] :
                     /\ ToSet(q) = WrittenRows
                     /\ \A j, k \in DOMAIN q : j < k => q[j].from[2] <= q[k].from[2]}}

-----------------------------------------------------------------------------
(* Properties                                                              *)

\* What a file says: the transitions of a state are its rows and those of
\* "*", wherever they stand.
RowsOf(f)     == {l \in ToSet(f) : ~ IsReset(l)}
ResetNames(f) == {l.reset : l \in {r \in ToSet(f) : IsReset(r)}}
Names(f)      == ({r.from : r \in RowsOf(f)} \ {Star}) \cup {r.to : r \in RowsOf(f)} \cup ResetNames(f)

\* What parseKISSFile returns is the machine of the file, its states numbered
\* without gaps, and the reset state is the one that is named, wherever the
\* line stands; without one it is the first state or, with -r, none.
ParsedAsWritten ==
    pc = "parsed" =>
        /\ stateToInt \in Bijection(Names(file), 0 .. Cardinality(Names(file)) - 1)
        /\ DOMAIN states = 0 .. Cardinality(Names(file)) - 1
        /\ \A s \in Names(file) : states[stateToInt[s]] =
              {[in |-> r.in, to |-> stateToInt[r.to], out |-> r.out] :
                  r \in {q \in RowsOf(file) : q.from \in {s, Star}}}
        /\ LET numbers == {stateToInt[s] : s \in Names(file) \ {Star}}
           IN resetState = IF ResetNames(file) # {} THEN {stateToInt[s] : s \in ResetNames(file)}
                           ELSE IF firstStateReset /\ numbers # {} THEN {Min(numbers)} ELSE {}
=============================================================================

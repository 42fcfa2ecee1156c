----------------------------- MODULE KissToBlif -----------------------------
(***************************************************************************)
(* kiss_to_blif (misc/kissToBlif.cpp, natEnc.cpp, oneHotEnc.cpp): a KISS   *)
(* file becomes a sequential circuit, whose latches hold the code of the   *)
(* state.  The file is one that was given or one that memin has written    *)
(* after reading it; the circuit is run next to the machine of the given   *)
(* file.                                                                   *)
(***************************************************************************)
EXTENDS KissFile

CONSTANT NoState          \* stands for no state

\* The machine of a file has at most one transition for a word.
ASSUME KissToBlifAssumption ==
    /\ NoState \notin StateNames
    /\ \A f \in Files : \A r, q \in RowsOf(f) :
          r # q /\ (r.from = q.from \/ Star \in {r.from, q.from}) => isDisjoint(r.in, q.in)

VARIABLES enc, dcVal,       \* the options: natural codes, value of open outputs
          kiss,             \* the file that is encoded
          read,             \* the number of its lines read
          state_list,       \* the names of the states, in the order of their codes
          circuit,          \* initial code and covers of all nets
          latches, out,     \* the circuit at work
          old               \* the state of the machine of the given file

encVars == <<enc, dcVal, kiss, read, state_list, circuit>>
runVars == <<latches, out, old>>
vars    == <<file, firstStateReset, parseVars, encVars, runVars, pc>>

Init ==
    /\ file \in Files /\ firstStateReset \in BOOLEAN /\ ParseInit
    /\ enc \in BOOLEAN /\ dcVal \in BOOLEAN
    /\ kiss = <<>> /\ read = 0 /\ state_list = <<>> /\ circuit = <<>>
    /\ latches = <<>> /\ out = <<>> /\ old = NoState
    /\ pc = "parse"

\* Both encoders want a reset state in the header and no rows for all states,
\* natEnc also a row of the reset state or one that leads to it.
Encodable(f) ==
    /\ f # <<>> /\ IsReset(f[1])
    /\ \A r \in RowsOf(f) : r.from # Star
    /\ enc => \E r \in RowsOf(f) : f[1].reset \in {r.from, r.to}

Choose ==
    /\ pc = "parsed"
    /\ kiss' \in {f \in {file} \cup Written : Encodable(f)}
    /\ pc' = "read"
    /\ UNCHANGED <<file, firstStateReset, parseVars, enc, dcVal, read, state_list, circuit, runVars>>

Added(list, name) == IF name \in ToSet(list) THEN list ELSE Append(list, name)

\* The natural encoding numbers the states of the rows, one-hot encoding the
\* reset state before them.
ReadLine ==
    /\ pc = "read" /\ read < Len(kiss)
    /\ LET l == kiss[read + 1]
       IN state_list' = IF ~ IsReset(l) THEN Added(Added(state_list, l.from), l.to)
                        ELSE IF enc THEN state_list ELSE Added(state_list, l.reset)
    /\ read' = read + 1
    /\ UNCHANGED <<file, firstStateReset, parseVars, enc, dcVal, kiss, circuit, runVars, pc>>

-----------------------------------------------------------------------------

\* n, halved k times.
Halved(n) == LET half[k \in Nat] == IF k = 0 THEN n ELSE half[k - 1] \div 2 IN half

\* Mutant: the halving stops at 1.
bnumShort == Min({b \in 0 .. Len(state_list) : Halved(Len(state_list) - 1)[b] <= 1})

\* The number of halvings until the largest number is 0, at least one.
bnum == Min({b \in 1 .. Len(state_list) : Halved(Len(state_list) - 1)[b] = 0})

\* The header counts the states: the one-hot code has a latch for each.
nLatches == IF enc THEN bnum ELSE NStates(states)

toBinary(n) == [b \in 0 .. bnum - 1 |-> Halved(n)[bnum - 1 - b] % 2]
oneHot(n)   == [b \in 0 .. nLatches - 1 |-> IF b = n THEN 1 ELSE 0]

Code(name) ==
    LET n == CHOOSE k \in 0 .. Len(state_list) - 1 : state_list[k + 1] = name
    IN IF enc THEN toBinary(n) ELSE oneHot(n)

\* The rows of an output net and of a bit of the next state: those where it
\* is 1.  A net without rows is 0.
OutputRows(k) == {r \in RowsOf(kiss) : r.out[k] = "1" \/ (r.out[k] = "-" /\ dcVal)}
NextRows(b)   == {r \in RowsOf(kiss) : Code(r.to)[b] = 1}

Cover(rows) == {[in |-> r.in, code |-> Code(r.from)] : r \in rows}

Encode ==
    /\ pc = "read" /\ read = Len(kiss)
    /\ circuit' = [reset |-> Code(kiss[1].reset),
                   next  |-> [b \in 0 .. nLatches - 1 |-> Cover(NextRows(b))],
                   out   |-> [k \in 0 .. NOut - 1 |-> Cover(OutputRows(k))]]
    /\ pc' = "encoded"
    /\ UNCHANGED <<file, firstStateReset, parseVars, enc, dcVal, kiss, read, state_list, runVars>>

-----------------------------------------------------------------------------
(* The circuit at work                                                     *)

PowerUp ==
    /\ pc = "encoded" /\ old = NoState
    /\ latches' = circuit.reset
    /\ \E s \in Names(file) : stateToInt[s] \in resetState /\ old' = s
    /\ UNCHANGED <<file, firstStateReset, parseVars, encVars, out, pc>>

Value(cover, w) == \E c \in cover : Matches(w, c.in) /\ c.code = latches

Clock ==
    /\ pc = "encoded" /\ old # NoState
    /\ \E w \in Words(NIn) : \E r \in {q \in RowsOf(file) : q.from \in {old, Star} /\ Matches(w, q.in)} :
          /\ old' = r.to
          /\ latches' = [b \in DOMAIN circuit.next |-> IF Value(circuit.next[b], w) THEN 1 ELSE 0]
          /\ out' = [k \in 0 .. NOut - 1 |-> IF Value(circuit.out[k], w) THEN "1" ELSE "0"]
    /\ UNCHANGED <<file, firstStateReset, parseVars, encVars, pc>>

Next ==
    \/ Parse /\ UNCHANGED <<encVars, runVars>>
    \/ Choose \/ ReadLine \/ Encode \/ PowerUp \/ Clock

Spec == Init /\ [][Next]_vars

-----------------------------------------------------------------------------
(* Properties                                                              *)

\* The circuit answers every word that the machine of the given file has a
\* transition for, whichever file was encoded, under either encoding.
MachineOf(f) ==
    [trans |-> [s \in Names(f) |->
                  {[in |-> r.in, to |-> r.to, out |-> r.out] : r \in {q \in RowsOf(f) : q.from \in {s, Star}}}],
     reset |-> IF ResetNames(f) = {} THEN NoState ELSE CHOOSE s \in ResetNames(f) : TRUE]

Given == INSTANCE GivenMachine WITH
    given <- MachineOf(file), state <- old, Machines <- {MachineOf(f) : f \in Files}

ImplementsGiven == Given!Spec

=============================================================================

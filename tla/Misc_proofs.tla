---------------------------- MODULE Misc_proofs ----------------------------
(***************************************************************************)
(* The commands of misc/, timeFold/timeCas.cpp and timeMux4/perm.cpp.  The *)
(* first part is about KissToBlif: what parseKISSFile returns is the       *)
(* machine of the file, and the circuit that kiss_to_blif builds of a file *)
(* shows what that machine specifies.  The second part is about Commands:  *)
(* what the circuits show that the commands of a session make.  The two    *)
(* specifications share no state and no theorem is about both.             *)
(***************************************************************************)
EXTENDS KissToBlif, Commands, NumberLemmas

-----------------------------------------------------------------------------
(* KissFile: numbers of states                                             *)

\* Names have the numbers from 0 on.
IsNumbering(table) ==
    LET n == Cardinality(DOMAIN table)
    IN /\ IsFiniteSet(DOMAIN table)
       /\ table \in [DOMAIN table -> 0 .. n - 1]
       /\ \A a, b \in DOMAIN table : table[a] = table[b] => a = b
       /\ \A k \in 0 .. n - 1 : \E a \in DOMAIN table : table[a] = k

LEMMA EmptyNumbering == IsNumbering(<<>>) /\ DOMAIN <<>> = {} /\ Cardinality(DOMAIN <<>>) = 0
<1>1. DOMAIN <<>> = {}
    OBVIOUS
<1>2. <<>> \in [{} -> 0 .. 0 - 1]
    OBVIOUS
<1> QED BY <1>1, <1>2, FS_EmptySet DEF IsNumbering

\* A new name gets the next number, the others keep theirs.
LEMMA NumberKeeps ==
    ASSUME NEW table, IsNumbering(table), NEW name
    PROVE  /\ IsNumbering(Number(table, name))
           /\ DOMAIN Number(table, name) = DOMAIN table \cup {name}
           /\ \A a \in DOMAIN table : Number(table, name)[a] = table[a]
           /\ name \notin DOMAIN table => Number(table, name)[name] = Cardinality(DOMAIN table)
<1> DEFINE more == Number(table, name)
           n == Cardinality(DOMAIN table)
<1>0. n \in Nat
    BY FS_CardinalityType DEF IsNumbering
<1>1. CASE name \in DOMAIN table
    <2>1. more = table /\ DOMAIN table = DOMAIN table \cup {name}
        BY <1>1 DEF Number
    <2> QED BY <1>1, <2>1
<1>2. CASE name \notin DOMAIN table
    <2>1. /\ DOMAIN more = DOMAIN table \cup {name}
          /\ \A a \in DOMAIN table : more[a] = table[a]
          /\ more[name] = n
          /\ more = [a \in DOMAIN more |-> more[a]]
        BY <1>2 DEF Number
    <2> HIDE DEF more
    <2>2. IsFiniteSet(DOMAIN more) /\ Cardinality(DOMAIN more) = n + 1
        BY <1>2, <2>1, FS_AddElement DEF IsNumbering
    <2>3. \A a \in DOMAIN table : table[a] \in 0 .. n - 1
        BY DEF IsNumbering
    <2>4. \A a \in DOMAIN more : more[a] \in 0 .. n
        BY <1>0, <2>1, <2>3
    <2>5. \A a, b \in DOMAIN more : more[a] = more[b] => a = b
        BY <1>0, <2>1, <2>3 DEF IsNumbering
    <2>6. \A k \in 0 .. n : \E a \in DOMAIN more : more[a] = k
        <3> TAKE k \in 0 .. n
        <3>1. CASE k = n
            BY <2>1, <3>1
        <3>2. CASE k # n
            <4>1. k \in 0 .. n - 1
                BY <1>0, <3>2
            <4>2. PICK a \in DOMAIN table : table[a] = k
                BY <4>1 DEF IsNumbering
            <4> QED BY <2>1, <4>2
        <3> QED BY <3>1, <3>2
    <2>7. IsNumbering(more)
        <3>1. Cardinality(DOMAIN more) - 1 = n
            BY <1>0, <2>2
        <3>2. more \in [DOMAIN more -> 0 .. n]
            BY <2>1, <2>4
        <3> QED BY <2>2, <2>5, <2>6, <3>1, <3>2 DEF IsNumbering
    <2> QED BY <1>2, <2>1, <2>7 DEF more
<1> QED BY <1>1, <1>2

LEMMA NumberingIsBijection ==
    ASSUME NEW table, IsNumbering(table)
    PROVE  table \in Bijection(DOMAIN table, 0 .. Cardinality(DOMAIN table) - 1)
BY DEF IsNumbering, Bijection, Injection, Surjection, IsInjective

-----------------------------------------------------------------------------
(* KissFile: the lines that were read                                      *)

\* What the first lines say grows line by line.
LEMMA PrefixGrows ==
    ASSUME NEW S, NEW f \in Seq(S), NEW i \in 0 .. Len(f)
    PROVE  /\ SubSeq(f, 1, i) \in Seq(S) /\ Len(SubSeq(f, 1, i)) = i
           /\ \A k \in 1 .. i : SubSeq(f, 1, i)[k] = f[k]
           /\ i = Len(f) => SubSeq(f, 1, i) = f
           /\ i < Len(f) =>
                 /\ f[i + 1] \in S
                 /\ ToSet(SubSeq(f, 1, i + 1)) = ToSet(SubSeq(f, 1, i)) \cup {f[i + 1]}
           /\ i = 0 => ToSet(SubSeq(f, 1, i)) = {}
<1> DEFINE seen == SubSeq(f, 1, i)
<1>1. Len(f) \in Nat /\ i \in Nat /\ DOMAIN f = 1 .. Len(f)
    OBVIOUS
<1>2. /\ seen \in Seq(S) /\ Len(seen) = i /\ DOMAIN seen = 1 .. i
      /\ \A k \in 1 .. i : seen[k] = f[k]
    BY <1>1
<1>3. i = Len(f) => seen = f
    BY <1>1
<1>4. ToSet(seen) = {f[k] : k \in 1 .. i}
    <2> HIDE DEF seen
    <2> QED BY <1>2 DEF ToSet
<1>5. ASSUME i < Len(f)
      PROVE  f[i + 1] \in S /\ ToSet(SubSeq(f, 1, i + 1)) = ToSet(seen) \cup {f[i + 1]}
    <2> DEFINE more == SubSeq(f, 1, i + 1)
    <2>1. DOMAIN more = 1 .. i + 1 /\ \A k \in 1 .. i + 1 : more[k] = f[k]
        BY <1>1, <1>5
    <2>2. f[i + 1] \in S
        BY <1>1, <1>5
    <2>3. 1 .. i + 1 = 1 .. i \cup {i + 1}
        BY <1>1
    <2> HIDE DEF more
    <2>4. ToSet(more) = {f[k] : k \in 1 .. i + 1}
        BY <2>1 DEF ToSet
    <2>5. {f[k] : k \in 1 .. i + 1} = {f[k] : k \in 1 .. i} \cup {f[i + 1]}
        BY <2>3
    <2> QED BY <1>4, <2>2, <2>4, <2>5 DEF more
<1>6. i = 0 => ToSet(seen) = {}
    BY <1>4
<1> QED BY <1>2, <1>3, <1>5, <1>6

Seen == SubSeq(file, 1, line)

LEMMA NextSeen ==
    ASSUME file \in Files, line \in 0 .. Len(file)
    PROVE  /\ file \in Seq(Rows \cup Resets)
           /\ Seen \in Seq(Rows \cup Resets) /\ Len(Seen) = line
           /\ line = Len(file) => Seen = file
           /\ line < Len(file) =>
                 /\ file[line + 1] \in Rows \cup Resets
                 /\ ToSet(SubSeq(file, 1, line + 1)) = ToSet(Seen) \cup {file[line + 1]}
           /\ line = 0 => ToSet(Seen) = {}
<1>1. file \in Seq(Rows \cup Resets)
    BY FilesAssumption
<1> QED BY <1>1, PrefixGrows DEF Seen

LEMMA KindOfLine ==
    /\ \A r \in Rows : ~ IsReset(r) /\ r = [in |-> r.in, from |-> r.from, to |-> r.to, out |-> r.out]
    /\ \A r \in Resets : IsReset(r) /\ r = [reset |-> r.reset]
BY DEF Rows, Resets, IsReset

\* What one more line adds to what a file says.
LEMMA LineAdds ==
    ASSUME NEW f, NEW g, NEW l, ToSet(g) = ToSet(f) \cup {l}
    PROVE  /\ IsReset(l) => /\ RowsOf(g) = RowsOf(f)
                            /\ ResetNames(g) = ResetNames(f) \cup {l.reset}
                            /\ Names(g) = Names(f) \cup {l.reset}
           /\ ~ IsReset(l) => /\ RowsOf(g) = RowsOf(f) \cup {l}
                              /\ ResetNames(g) = ResetNames(f)
                              /\ Names(g) = Names(f) \cup ({l.from} \ {Star}) \cup {l.to}
<1>1. ASSUME IsReset(l)
      PROVE  RowsOf(g) = RowsOf(f) /\ ResetNames(g) = ResetNames(f) \cup {l.reset}
    BY <1>1 DEF RowsOf, ResetNames
<1>2. ASSUME ~ IsReset(l)
      PROVE  RowsOf(g) = RowsOf(f) \cup {l} /\ ResetNames(g) = ResetNames(f)
    BY <1>2 DEF RowsOf, ResetNames
<1>3. IsReset(l) => Names(g) = Names(f) \cup {l.reset}
    BY <1>1 DEF Names
<1>4. ~ IsReset(l) => Names(g) = Names(f) \cup ({l.from} \ {Star}) \cup {l.to}
    BY <1>2 DEF Names
<1> QED BY <1>1, <1>2, <1>3, <1>4

\* A row adds its states, a reset line its state; what names the states of the
\* lines read is known.
LEMMA NamesOfRows ==
    ASSUME NEW f
    PROVE  /\ \A r \in RowsOf(f) : r.to \in Names(f) /\ (r.from # Star => r.from \in Names(f))
           /\ ResetNames(f) \subseteq Names(f)
BY DEF Names

LEMMA OneReset ==
    ASSUME file \in Files, line \in 0 .. Len(file), line < Len(file), IsReset(file[line + 1])
    PROVE  ResetNames(Seen) = {}
<1>1. file \in Seq(Rows \cup Resets) /\ Len(Seen) = line /\ Seen \in Seq(Rows \cup Resets)
    BY NextSeen
<1>2. SUFFICES ASSUME NEW k \in 1 .. line, IsReset(file[k]) PROVE FALSE
    <2>1. \A k \in 1 .. line : Seen[k] = file[k]
        BY <1>1 DEF Seen
    <2>2. DOMAIN Seen = 1 .. line
        BY <1>1
    <2> QED BY <2>1, <2>2 DEF ResetNames, ToSet
<1>3. k \in DOMAIN file /\ line + 1 \in DOMAIN file /\ k # line + 1
    BY <1>1
<1> QED BY <1>2, <1>3, FilesAssumption

LEMMA AppendToSet ==
    ASSUME NEW S, NEW q \in Seq(S), ToSet(q) = S, NEW x
    PROVE  Append(q, x) \in Seq(S \cup {x}) /\ ToSet(Append(q, x)) = S \cup {x}
<1>1. q \in Seq(S \cup {x}) /\ Len(q) \in Nat /\ DOMAIN q = 1 .. Len(q)
    OBVIOUS
<1>2. /\ Append(q, x) \in Seq(S \cup {x}) /\ DOMAIN Append(q, x) = 1 .. Len(q) + 1
      /\ \A k \in 1 .. Len(q) : Append(q, x)[k] = q[k]
      /\ Append(q, x)[Len(q) + 1] = x
    BY <1>1
<1>3. 1 .. Len(q) + 1 = 1 .. Len(q) \cup {Len(q) + 1}
    BY <1>1
<1> QED BY <1>1, <1>2, <1>3 DEF ToSet

LEMMA MinIs ==
    ASSUME NEW S \in SUBSET Nat, S # {}
    PROVE  Min(S) \in S /\ \A x \in S : Min(S) <= x
BY LeastNumber DEF Min

LEMMA MinUnique ==
    ASSUME NEW S \in SUBSET Nat, NEW x \in S, \A y \in S : x <= y
    PROVE  Min(S) = x
<1>1. Min(S) \in S /\ Min(S) <= x
    BY MinIs
<1>2. x \in Nat /\ Min(S) \in Nat /\ x <= Min(S)
    BY <1>1
<1> QED BY <1>1, <1>2

-----------------------------------------------------------------------------
(* KissFile: what the parser knows of the lines read                       *)

\* Rows as transitions between numbers.
Entries(table, rows) == {[in |-> r.in, to |-> table[r.to], out |-> r.out] : r \in rows}

OwnRows(f, s) == {r \in RowsOf(f) : r.from = s /\ s # Star}
StarRows(f)   == {r \in RowsOf(f) : r.from = Star}

Numbers(table, f) == {table[s] : s \in Names(f) \ {Star}}

\* The reset state of a file.
ResetOf(first, table, f) ==
    IF ResetNames(f) # {} THEN {table[s] : s \in ResetNames(f)}
    ELSE IF first /\ Numbers(table, f) # {} THEN {Min(Numbers(table, f))} ELSE {}

Numbered(table, f) == IsNumbering(table) /\ DOMAIN table = Names(f)

\* While the file is read: the rows for all states are still apart.
PartRead(f, first, table, vector, apart, reset) ==
    /\ Numbered(table, f)
    /\ DOMAIN vector = 0 .. Cardinality(Names(f)) - 1
    /\ \A s \in Names(f) : vector[table[s]] = Entries(table, OwnRows(f, s))
    /\ apart \in Seq(Entries(table, StarRows(f)))
    /\ ToSet(apart) = Entries(table, StarRows(f))
    /\ reset = ResetOf(first, table, f)

Reading == PartRead(Seen, firstStateReset, stateToInt, states, undefinedFrom, resetState)

\* The file is read.
FullyRead(f, first, table, vector, reset) ==
    /\ Numbered(table, f)
    /\ DOMAIN vector = 0 .. Cardinality(Names(f)) - 1
    /\ \A s \in Names(f) : vector[table[s]] = Entries(table, {r \in RowsOf(f) : r.from \in {s, Star}})
    /\ reset = ResetOf(first, table, f)

AllRead == FullyRead(file, firstStateReset, stateToInt, states, resetState)

ParseInv ==
    /\ file \in Files /\ firstStateReset \in BOOLEAN /\ line \in 0 .. Len(file)
    /\ pc = "parse" => Reading
    /\ pc # "parse" => AllRead

LEMMA EntriesSame ==
    ASSUME NEW f, NEW table, NEW more, \A a \in Names(f) : more[a] = table[a],
           NEW rows \in SUBSET RowsOf(f)
    PROVE  Entries(more, rows) = Entries(table, rows)
<1>1. \A r \in rows : r.to \in Names(f)
    BY NamesOfRows
<1> QED BY <1>1 DEF Entries

\* A new name has a number that no other has had.
LEMMA NewNumbers ==
    ASSUME NEW table, IsNumbering(table), NEW more, IsNumbering(more),
           DOMAIN table \subseteq DOMAIN more, \A a \in DOMAIN table : more[a] = table[a]
    PROVE  /\ Cardinality(DOMAIN table) \in Nat
           /\ \A a \in DOMAIN table : more[a] \in 0 .. Cardinality(DOMAIN table) - 1
           /\ \A a \in DOMAIN more \ DOMAIN table :
                 /\ more[a] \in 0 .. Cardinality(DOMAIN more) - 1
                 /\ more[a] >= Cardinality(DOMAIN table)
           /\ Cardinality(DOMAIN table) <= Cardinality(DOMAIN more)
           /\ Cardinality(DOMAIN more) \in Nat
<1> DEFINE n == Cardinality(DOMAIN table)
<1>1. n \in Nat /\ Cardinality(DOMAIN more) \in Nat /\ n <= Cardinality(DOMAIN more)
    BY FS_CardinalityType, FS_Subset DEF IsNumbering
<1>2. \A a \in DOMAIN table : more[a] \in 0 .. n - 1
    BY DEF IsNumbering
<1>3. ASSUME NEW a \in DOMAIN more \ DOMAIN table
      PROVE  more[a] \in 0 .. Cardinality(DOMAIN more) - 1 /\ more[a] >= n
    <2>1. more[a] \in 0 .. Cardinality(DOMAIN more) - 1
        BY DEF IsNumbering
    <2>2. ASSUME more[a] < n PROVE FALSE
        <3>1. more[a] \in 0 .. n - 1
            BY <1>1, <2>1, <2>2
        <3>2. PICK b \in DOMAIN table : table[b] = more[a]
            BY <3>1 DEF IsNumbering
        <3>3. b = a
            BY <3>2 DEF IsNumbering
        <3> QED BY <3>3
    <2> QED BY <1>1, <2>1, <2>2
<1> QED BY <1>1, <1>2, <1>3

\* When names are added, the vector grows by empty states.
LEMMA GrownIs ==
    ASSUME Reading, NEW more, IsNumbering(more), Names(Seen) \subseteq DOMAIN more,
           \A a \in Names(Seen) : more[a] = stateToInt[a],
           NEW grown, grown = Grown(Cardinality(DOMAIN more))
    PROVE  /\ DOMAIN grown = 0 .. Cardinality(DOMAIN more) - 1
           /\ \A s \in DOMAIN more :
                 grown[more[s]] = Entries(more, OwnRows(Seen, s))
<1> USE DEF Reading, PartRead, Numbered
<1>1. DOMAIN grown = 0 .. Cardinality(DOMAIN more) - 1
    BY DEF Grown
<1>2. ASSUME NEW s \in DOMAIN more PROVE grown[more[s]] = Entries(more, OwnRows(Seen, s))
    <2>1. more[s] \in 0 .. Cardinality(DOMAIN more) - 1
        BY DEF IsNumbering
    <2>2. grown[more[s]] = IF more[s] \in DOMAIN states THEN states[more[s]] ELSE {}
        BY <2>1 DEF Grown
    <2>3. Entries(more, OwnRows(Seen, s)) = Entries(stateToInt, OwnRows(Seen, s))
        BY EntriesSame DEF OwnRows
    <2>4. CASE s \in Names(Seen)
        <3>1. more[s] \in DOMAIN states
            BY <2>4, NewNumbers
        <3> QED BY <2>2, <2>3, <2>4, <3>1
    <2>5. CASE s \notin Names(Seen)
        <3>1. more[s] \notin DOMAIN states
            BY <2>1, <2>5, NewNumbers
        <3>2. OwnRows(Seen, s) = {}
            BY <2>5, NamesOfRows DEF OwnRows
        <3> QED BY <2>2, <3>1, <3>2 DEF Entries
    <2> QED BY <2>4, <2>5
<1> QED BY <1>1, <1>2

LEMMA InitParse == Init => ParseInv
<1> SUFFICES ASSUME Init PROVE ParseInv
    OBVIOUS
<1>1. file \in Files /\ line = 0 /\ states = <<>> /\ stateToInt = <<>> /\ undefinedFrom = <<>>
      /\ resetState = {} /\ pc = "parse" /\ firstStateReset \in BOOLEAN
    BY DEF Init, ParseInit
<1>2. line \in 0 .. Len(file) /\ ToSet(Seen) = {}
    BY <1>1, FilesAssumption, NextSeen
<1>3. RowsOf(Seen) = {} /\ ResetNames(Seen) = {} /\ Names(Seen) = {}
    BY <1>2 DEF RowsOf, ResetNames, Names
<1>4. Numbered(stateToInt, Seen) /\ Cardinality(Names(Seen)) = 0
    BY <1>1, <1>3, EmptyNumbering DEF Numbered
<1>5. DOMAIN states = 0 .. 0 - 1
    BY <1>1
<1>6. undefinedFrom \in Seq(Entries(stateToInt, StarRows(Seen))) /\ ToSet(undefinedFrom) = {}
    BY <1>1 DEF ToSet
<1>7. Entries(stateToInt, StarRows(Seen)) = {}
    BY <1>3 DEF Entries, StarRows
<1>8. resetState = ResetOf(firstStateReset, stateToInt, Seen)
    BY <1>1, <1>3 DEF ResetOf, Numbers
<1>9. Reading
    BY <1>3, <1>4, <1>5, <1>6, <1>7, <1>8 DEF Reading, PartRead
<1> QED BY <1>1, <1>2, <1>9 DEF ParseInv

LEMMA ParseResetKeeps == ParseInv /\ ParseReset => ParseInv'
<1> SUFFICES ASSUME ParseInv, ParseReset PROVE ParseInv'
    OBVIOUS
<1> DEFINE l == file[line + 1]
           name == l.reset
<1>0. /\ file \in Files /\ firstStateReset \in BOOLEAN /\ line \in 0 .. Len(file) /\ Reading
      /\ pc = "parse" /\ pc' = "parse" /\ line < Len(file) /\ IsReset(l) /\ line' = line + 1
      /\ stateToInt' = Number(stateToInt, name)
      /\ states' = Grown(Cardinality(DOMAIN stateToInt'))
      /\ resetState' = {stateToInt'[name]}
      /\ UNCHANGED <<file, firstStateReset, undefinedFrom>>
    BY DEF ParseInv, ParseReset
<1> HIDE DEF l
<1>1. ToSet(Seen') = ToSet(Seen) \cup {l} /\ line + 1 \in 0 .. Len(file)
    BY <1>0, NextSeen DEF Seen, l
<1>2. /\ RowsOf(Seen') = RowsOf(Seen)
      /\ ResetNames(Seen') = ResetNames(Seen) \cup {name}
      /\ Names(Seen') = Names(Seen) \cup {name}
    BY <1>0, <1>1, LineAdds
<1>3. /\ IsNumbering(stateToInt') /\ DOMAIN stateToInt' = Names(Seen')
      /\ \A a \in Names(Seen) : stateToInt'[a] = stateToInt[a]
    <2>1. IsNumbering(stateToInt) /\ DOMAIN stateToInt = Names(Seen)
        BY <1>0 DEF Reading, PartRead, Numbered
    <2>2. /\ IsNumbering(Number(stateToInt, name))
          /\ DOMAIN Number(stateToInt, name) = DOMAIN stateToInt \cup {name}
          /\ \A a \in DOMAIN stateToInt : Number(stateToInt, name)[a] = stateToInt[a]
        BY <2>1, NumberKeeps
    <2>3. stateToInt' = Number(stateToInt, name)
        BY <1>0
    <2> QED BY <1>2, <2>1, <2>2, <2>3
<1>4. Numbered(stateToInt', Seen')
    BY <1>3 DEF Numbered
<1>5. /\ DOMAIN states' = 0 .. Cardinality(Names(Seen')) - 1
      /\ \A s \in Names(Seen') : states'[stateToInt'[s]] = Entries(stateToInt', OwnRows(Seen, s))
    <2>1. /\ Reading /\ IsNumbering(stateToInt') /\ Names(Seen) \subseteq DOMAIN stateToInt'
          /\ \A a \in Names(Seen) : stateToInt'[a] = stateToInt[a]
          /\ states' = Grown(Cardinality(DOMAIN stateToInt'))
        BY <1>0, <1>2, <1>3
    <2>2. /\ DOMAIN states' = 0 .. Cardinality(DOMAIN stateToInt') - 1
          /\ \A s \in DOMAIN stateToInt' : states'[stateToInt'[s]] = Entries(stateToInt', OwnRows(Seen, s))
        BY <2>1, GrownIs
    <2> QED BY <1>2, <1>3, <2>2
<1>6. \A s : OwnRows(Seen', s) = OwnRows(Seen, s)
    BY <1>2 DEF OwnRows
<1>7. Entries(stateToInt', StarRows(Seen')) = Entries(stateToInt, StarRows(Seen))
    BY <1>2, <1>3, EntriesSame DEF StarRows
<1>8. resetState' = ResetOf(firstStateReset', stateToInt', Seen')
    <2>1. ResetNames(Seen') = {name}
        BY <1>0, <1>2, OneReset DEF l
    <2>2. ResetNames(Seen') # {} /\ {stateToInt'[s] : s \in ResetNames(Seen')} = {stateToInt'[name]}
        BY <2>1
    <2> QED BY <1>0, <2>2 DEF ResetOf
<1>9. Reading'
    <2>1. /\ undefinedFrom' \in Seq(Entries(stateToInt', StarRows(Seen')))
          /\ ToSet(undefinedFrom') = Entries(stateToInt', StarRows(Seen'))
        BY <1>0, <1>7 DEF Reading, PartRead
    <2> QED BY <1>4, <1>5, <1>6, <1>8, <2>1 DEF Reading, PartRead
<1> QED BY <1>0, <1>1, <1>9 DEF ParseInv

\* The numbers of the states that a row has added.
Fresh(table, more) == {more[s] : s \in (DOMAIN more \ DOMAIN table) \ {Star}}

\* The reset state after a row.
LEMMA RowResets ==
    ASSUME NEW f, NEW g, ResetNames(g) = ResetNames(f), Names(f) \subseteq Names(g),
           NEW table, Numbered(table, f), NEW more, Numbered(more, g),
           \A a \in Names(f) : more[a] = table[a],
           NEW first \in BOOLEAN
    PROVE  ResetOf(first, more, g) =
              IF ResetOf(first, table, f) = {} /\ first /\ Fresh(table, more) # {}
              THEN {Min(Fresh(table, more))} ELSE ResetOf(first, table, f)
<1> DEFINE new == Fresh(table, more)
           r   == ResetOf(first, table, f)
<1>0. /\ IsNumbering(table) /\ DOMAIN table = Names(f)
      /\ IsNumbering(more) /\ DOMAIN more = Names(g)
      /\ new = {more[s] : s \in (Names(g) \ Names(f)) \ {Star}}
      /\ r = ResetOf(first, table, f)
    BY DEF Numbered, Fresh
<1> SUFFICES ResetOf(first, more, g) = IF r = {} /\ first /\ new # {} THEN {Min(new)} ELSE r
    OBVIOUS
<1> HIDE DEF new, r
<1>1. CASE ResetNames(f) # {}
    <2>1. {more[s] : s \in ResetNames(f)} = {table[s] : s \in ResetNames(f)}
        BY NamesOfRows
    <2>2. r = {table[s] : s \in ResetNames(f)} /\ r # {}
        BY <1>0, <1>1 DEF ResetOf
    <2> QED BY <1>1, <2>1, <2>2 DEF ResetOf
<1>2. CASE ResetNames(f) = {}
    <2>1. Numbers(more, g) = Numbers(table, f) \cup new
        BY <1>0 DEF Numbers
    <2>2. Numbers(more, g) \in SUBSET Nat /\ Numbers(table, f) \in SUBSET Nat /\ new \in SUBSET Nat
        BY <1>0 DEF Numbers, IsNumbering
    <2>3. \A a \in Numbers(table, f), b \in new : a <= b
        <3> TAKE a \in Numbers(table, f), b \in new
        <3>1. a < Cardinality(DOMAIN table) /\ a \in Nat /\ Cardinality(DOMAIN table) \in Nat
            BY <1>0, FS_CardinalityType DEF Numbers, IsNumbering
        <3>2. PICK s \in DOMAIN more \ DOMAIN table : b = more[s]
            BY <1>0
        <3>3. b >= Cardinality(DOMAIN table)
            BY <1>0, <3>2, NewNumbers
        <3>4. b \in Nat
            BY <2>2
        <3> QED BY <3>1, <3>3, <3>4
    <2>4. CASE first /\ Numbers(table, f) # {}
        <3> DEFINE m == Min(Numbers(table, f))
        <3>1. m \in Numbers(table, f) /\ \A x \in Numbers(table, f) : m <= x
            BY <2>2, <2>4, MinIs
        <3> HIDE DEF m
        <3>2. m \in Numbers(more, g) /\ \A x \in Numbers(more, g) : m <= x
            BY <2>1, <2>3, <3>1
        <3>3. Min(Numbers(more, g)) = m
            BY <2>2, <3>2, MinUnique
        <3>4. r = {m}
            BY <1>0, <1>2, <2>4 DEF ResetOf, m
        <3>5. ResetOf(first, more, g) = {m}
            BY <1>2, <2>4, <3>2, <3>3 DEF ResetOf
        <3> QED BY <3>4, <3>5
    <2>5. CASE ~ (first /\ Numbers(table, f) # {})
        <3>1. r = {}
            BY <1>0, <1>2, <2>5 DEF ResetOf
        <3>2. first => Numbers(more, g) = new
            BY <2>1, <2>5
        <3> QED BY <1>2, <3>1, <3>2 DEF ResetOf
    <2> QED BY <2>4, <2>5
<1> QED BY <1>1, <1>2

LEMMA ParseRowKeeps == ParseInv /\ ParseRow => ParseInv'
<1> SUFFICES ASSUME ParseInv, ParseRow PROVE ParseInv'
    OBVIOUS
<1> DEFINE l     == file[line + 1]
           known == IF l.from = Star THEN stateToInt ELSE Number(stateToInt, l.from)
           all   == Number(known, l.to)
           grown == Grown(Cardinality(DOMAIN all))
           trans == [in |-> l.in, to |-> all[l.to], out |-> l.out]
           new   == {all[s] : s \in (DOMAIN all \ DOMAIN stateToInt) \ {Star}}
<1>0. /\ file \in Files /\ firstStateReset \in BOOLEAN /\ line \in 0 .. Len(file) /\ Reading
      /\ pc = "parse" /\ pc' = "parse" /\ line < Len(file) /\ ~ IsReset(l) /\ line' = line + 1
      /\ UNCHANGED <<file, firstStateReset>>
    BY DEF ParseInv, ParseRow
<1>1. /\ stateToInt' = all
      /\ resetState' = IF resetState = {} /\ firstStateReset /\ new # {}
                       THEN {Min(new)} ELSE resetState
      /\ IF l.from = Star
         THEN states' = grown /\ undefinedFrom' = Append(undefinedFrom, trans)
         ELSE /\ states' = [grown EXCEPT ![known[l.from]] = @ \cup {trans}]
              /\ UNCHANGED undefinedFrom
    BY DEF ParseRow
<1> HIDE DEF l, known, all, grown, trans, new
<1>2. ToSet(Seen') = ToSet(Seen) \cup {l} /\ line + 1 \in 0 .. Len(file)
    BY <1>0, NextSeen DEF Seen, l
<1>3. /\ RowsOf(Seen') = RowsOf(Seen) \cup {l}
      /\ ResetNames(Seen') = ResetNames(Seen)
      /\ Names(Seen') = Names(Seen) \cup ({l.from} \ {Star}) \cup {l.to}
    BY <1>0, <1>2, LineAdds
<1>4. IsNumbering(stateToInt) /\ DOMAIN stateToInt = Names(Seen)
    BY <1>0 DEF Reading, PartRead, Numbered
<1>5. /\ IsNumbering(known) /\ DOMAIN known = Names(Seen) \cup ({l.from} \ {Star})
      /\ \A a \in Names(Seen) : known[a] = stateToInt[a]
    <2>1. CASE l.from = Star
        BY <1>4, <2>1 DEF known
    <2>2. CASE l.from # Star
        <3>1. known = Number(stateToInt, l.from)
            BY <2>2 DEF known
        <3>2. /\ IsNumbering(Number(stateToInt, l.from))
              /\ DOMAIN Number(stateToInt, l.from) = DOMAIN stateToInt \cup {l.from}
              /\ \A a \in DOMAIN stateToInt : Number(stateToInt, l.from)[a] = stateToInt[a]
            BY <1>4, NumberKeeps
        <3> QED BY <1>4, <2>2, <3>1, <3>2
    <2> QED BY <2>1, <2>2
<1>6. /\ IsNumbering(all) /\ DOMAIN all = Names(Seen')
      /\ \A a \in DOMAIN known : all[a] = known[a]
    <2>1. /\ IsNumbering(Number(known, l.to))
          /\ DOMAIN Number(known, l.to) = DOMAIN known \cup {l.to}
          /\ \A a \in DOMAIN known : Number(known, l.to)[a] = known[a]
        <3>1. IsNumbering(known)
            BY <1>5
        <3> QED BY <3>1, NumberKeeps
    <2> QED BY <1>3, <1>5, <2>1 DEF all
<1>7. \A a \in Names(Seen) : all[a] = stateToInt[a]
    BY <1>5, <1>6
<1>8. Numbered(all, Seen')
    BY <1>6 DEF Numbered
<1>9. /\ DOMAIN grown = 0 .. Cardinality(Names(Seen')) - 1
      /\ \A s \in Names(Seen') : grown[all[s]] = Entries(all, OwnRows(Seen, s))
    <2>1. /\ IsNumbering(all) /\ Names(Seen) \subseteq DOMAIN all
          /\ \A a \in Names(Seen) : all[a] = stateToInt[a]
        BY <1>3, <1>6, <1>7
    <2>2. grown = Grown(Cardinality(DOMAIN all))
        BY DEF grown
    <2>3. /\ DOMAIN grown = 0 .. Cardinality(DOMAIN all) - 1
          /\ \A s \in DOMAIN all : grown[all[s]] = Entries(all, OwnRows(Seen, s))
        BY <1>0, <2>1, <2>2, GrownIs
    <2> QED BY <1>6, <2>3
<1>10. resetState' = ResetOf(firstStateReset, all, Seen')
    <2>1. resetState = ResetOf(firstStateReset, stateToInt, Seen) /\ Numbered(stateToInt, Seen)
        BY <1>0 DEF Reading, PartRead
    <2>2. new = Fresh(stateToInt, all)
        BY DEF new, Fresh
    <2>3. Names(Seen) \subseteq Names(Seen')
        BY <1>3
    <2>4. ResetOf(firstStateReset, all, Seen') =
              IF ResetOf(firstStateReset, stateToInt, Seen) = {} /\ firstStateReset /\ Fresh(stateToInt, all) # {}
              THEN {Min(Fresh(stateToInt, all))} ELSE ResetOf(firstStateReset, stateToInt, Seen)
        BY <1>0, <1>3, <1>7, <1>8, <2>1, <2>3, RowResets
    <2> QED BY <1>1, <2>1, <2>2, <2>4
<1>11. ASSUME NEW rows \in SUBSET RowsOf(Seen)
       PROVE  /\ Entries(all, rows) = Entries(stateToInt, rows)
              /\ Entries(all, rows \cup {l}) = Entries(stateToInt, rows) \cup {trans}
    <2>1. Entries(all, rows) = Entries(stateToInt, rows)
        BY <1>7, EntriesSame
    <2>2. Entries(all, rows \cup {l}) = Entries(all, rows) \cup {trans}
        BY DEF Entries, trans
    <2> QED BY <2>1, <2>2
<1>12. /\ DOMAIN states' = 0 .. Cardinality(Names(Seen')) - 1
       /\ \A s \in Names(Seen') : states'[all[s]] = Entries(all, OwnRows(Seen', s))
    <2>1. CASE l.from = Star
        <3>1. \A s : OwnRows(Seen', s) = OwnRows(Seen, s)
            BY <1>3, <2>1 DEF OwnRows
        <3>2. states' = grown
            BY <1>1, <2>1
        <3> QED BY <1>9, <3>1, <3>2
    <2>2. CASE l.from # Star
        <3>1. states' = [grown EXCEPT ![known[l.from]] = @ \cup {trans}]
            BY <1>1, <2>2
        <3>2. l.from \in DOMAIN known /\ l.from \in Names(Seen') /\ all[l.from] = known[l.from]
            BY <1>3, <1>5, <1>6, <2>2
        <3>3. \A s \in Names(Seen') : all[s] \in DOMAIN grown
            BY <1>6, <1>9 DEF IsNumbering
        <3>4. DOMAIN states' = DOMAIN grown
            BY <3>1
        <3>5. ASSUME NEW s \in Names(Seen') PROVE states'[all[s]] = Entries(all, OwnRows(Seen', s))
            <4>1. CASE s = l.from
                <5>1. states'[all[s]] = grown[all[s]] \cup {trans}
                    BY <3>1, <3>2, <3>3, <4>1
                <5>2. OwnRows(Seen', s) = OwnRows(Seen, s) \cup {l}
                    BY <1>3, <2>2, <4>1 DEF OwnRows
                <5>3. OwnRows(Seen, s) \in SUBSET RowsOf(Seen)
                    BY DEF OwnRows
                <5> QED BY <1>9, <1>11, <5>1, <5>2, <5>3
            <4>2. CASE s # l.from
                <5>1. all[s] # all[l.from]
                    BY <1>6, <3>2, <4>2 DEF IsNumbering
                <5>2. states'[all[s]] = grown[all[s]]
                    BY <3>1, <3>2, <3>3, <5>1
                <5>3. OwnRows(Seen', s) = OwnRows(Seen, s)
                    BY <1>3, <4>2 DEF OwnRows
                <5> QED BY <1>9, <5>2, <5>3
            <4> QED BY <4>1, <4>2
        <3> QED BY <1>9, <3>4, <3>5
    <2> QED BY <2>1, <2>2
<1>13. /\ undefinedFrom' \in Seq(Entries(all, StarRows(Seen')))
       /\ ToSet(undefinedFrom') = Entries(all, StarRows(Seen'))
    <2>0. StarRows(Seen) \in SUBSET RowsOf(Seen)
        BY DEF StarRows
    <2>1. /\ undefinedFrom \in Seq(Entries(stateToInt, StarRows(Seen)))
          /\ ToSet(undefinedFrom) = Entries(stateToInt, StarRows(Seen))
        BY <1>0 DEF Reading, PartRead
    <2>2. CASE l.from = Star
        <3>1. undefinedFrom' = Append(undefinedFrom, trans)
            BY <1>1, <2>2
        <3>2. StarRows(Seen') = StarRows(Seen) \cup {l}
            BY <1>3, <2>2 DEF StarRows
        <3>3. Entries(all, StarRows(Seen')) = Entries(stateToInt, StarRows(Seen)) \cup {trans}
            BY <1>11, <2>0, <3>2
        <3>4. /\ Append(undefinedFrom, trans) \in Seq(Entries(stateToInt, StarRows(Seen)) \cup {trans})
              /\ ToSet(Append(undefinedFrom, trans)) = Entries(stateToInt, StarRows(Seen)) \cup {trans}
            BY <2>1, AppendToSet
        <3> QED BY <3>1, <3>3, <3>4
    <2>3. CASE l.from # Star
        <3>1. undefinedFrom' = undefinedFrom
            BY <1>1, <2>3
        <3>2. StarRows(Seen') = StarRows(Seen)
            BY <1>3, <2>3 DEF StarRows
        <3> QED BY <1>11, <2>0, <2>1, <3>1, <3>2
    <2> QED BY <2>2, <2>3
<1>14. Reading'
    BY <1>0, <1>1, <1>8, <1>10, <1>12, <1>13 DEF Reading, PartRead
<1> QED BY <1>0, <1>2, <1>14 DEF ParseInv

LEMMA ParseEndKeeps == ParseInv /\ ParseEnd => ParseInv'
<1> SUFFICES ASSUME ParseInv, ParseEnd PROVE ParseInv'
    OBVIOUS
<1>0. /\ file \in Files /\ firstStateReset \in BOOLEAN /\ line \in 0 .. Len(file) /\ Reading
      /\ pc' = "parsed" /\ line = Len(file)
      /\ states' = [s \in DOMAIN states |-> states[s] \cup ToSet(undefinedFrom)]
      /\ UNCHANGED <<file, firstStateReset, line, stateToInt, resetState, undefinedFrom>>
    BY DEF ParseInv, ParseEnd
<1>1. Seen = file
    BY <1>0, NextSeen
<1>2. Numbered(stateToInt, file)
    BY <1>0, <1>1 DEF Reading, PartRead
<1>3. DOMAIN states = 0 .. Cardinality(Names(file)) - 1 /\ DOMAIN states' = DOMAIN states
    BY <1>0, <1>1 DEF Reading, PartRead
<1>4. ASSUME NEW s \in Names(file)
      PROVE  states'[stateToInt[s]] = Entries(stateToInt, {r \in RowsOf(file) : r.from \in {s, Star}})
    <2>1. stateToInt[s] \in DOMAIN states
        BY <1>2, <1>3 DEF Numbered, IsNumbering
    <2>2. /\ states[stateToInt[s]] = Entries(stateToInt, OwnRows(file, s))
          /\ ToSet(undefinedFrom) = Entries(stateToInt, StarRows(file))
        BY <1>0, <1>1 DEF Reading, PartRead
    <2>3. {r \in RowsOf(file) : r.from \in {s, Star}} = OwnRows(file, s) \cup StarRows(file)
        BY DEF OwnRows, StarRows
    <2>4. Entries(stateToInt, OwnRows(file, s) \cup StarRows(file))
              = Entries(stateToInt, OwnRows(file, s)) \cup Entries(stateToInt, StarRows(file))
        BY DEF Entries
    <2>5. states'[stateToInt[s]] = states[stateToInt[s]] \cup ToSet(undefinedFrom)
        BY <1>0, <2>1
    <2> QED BY <2>2, <2>3, <2>4, <2>5
<1>5. resetState = ResetOf(firstStateReset, stateToInt, file)
    BY <1>0, <1>1 DEF Reading, PartRead
<1>6. AllRead'
    BY <1>0, <1>2, <1>3, <1>4, <1>5 DEF AllRead, FullyRead
<1> QED BY <1>0, <1>6 DEF ParseInv


LEMMA InvNext == ParseInv /\ [Next]_vars => ParseInv'
<1> SUFFICES ASSUME ParseInv, [Next]_vars PROVE ParseInv'
    OBVIOUS
<1>1. CASE ParseReset
    BY <1>1, ParseResetKeeps
<1>2. CASE ParseRow
    BY <1>2, ParseRowKeeps
<1>3. CASE ParseEnd
    BY <1>3, ParseEndKeeps
<1>4. CASE Choose \/ ReadLine \/ Encode \/ PowerUp \/ Clock \/ UNCHANGED vars
    <2>1. UNCHANGED <<file, firstStateReset, parseVars>> /\ (pc' = pc \/ (pc # "parse" /\ pc' # "parse"))
        BY <1>4 DEF Choose, ReadLine, Encode, PowerUp, Clock, vars
    <2>2. Seen' = Seen
        BY <2>1 DEF Seen, parseVars
    <2> QED BY <2>1, <2>2 DEF ParseInv, Reading, AllRead, parseVars
<1> QED BY <1>1, <1>2, <1>3, <1>4 DEF Next, Parse

\* For every file, the states of the parsed machine have the rows of the file,
\* those of "*" included, and its reset state is the one the file names or the
\* first one (parseKISSFile).
THEOREM ParsedRight == Spec => []ParsedAsWritten
<1>1. ParseInv => ParsedAsWritten
    <2> SUFFICES ASSUME ParseInv, pc = "parsed" PROVE ParsedAsWritten
        BY DEF ParsedAsWritten
    <2>1. FullyRead(file, firstStateReset, stateToInt, states, resetState)
        BY DEF ParseInv, AllRead
    <2>2. stateToInt \in Bijection(Names(file), 0 .. Cardinality(Names(file)) - 1)
        BY <2>1, NumberingIsBijection DEF FullyRead, Numbered
    <2> QED BY <2>1, <2>2 DEF ParsedAsWritten, FullyRead, Entries, ResetOf, Numbers
<1> QED BY <1>1, InitParse, InvNext, PTL DEF Spec

-----------------------------------------------------------------------------
(* KissToBlif: the codes of states                                         *)

\* The halves of n are defined, and are what the recursion says.
LEMMA HalvedIs ==
    ASSUME NEW n \in Nat
    PROVE  /\ Halved(n)[0] = n
           /\ \A k \in Nat : Halved(n)[k] \in Nat /\ Halved(n)[k + 1] = Halved(n)[k] \div 2
<1> DEFINE Equation(h) == h = [k \in Nat |-> IF k = 0 THEN n ELSE h[k - 1] \div 2]
           half == CHOOSE h : Equation(h)
           bases == [k \in Nat |-> n]
           prev  == [k \in Nat |-> IF k = 0 THEN 0 ELSE k - 1]
           rank  == [k \in Nat |-> k]
           G     == [p \in Nat \X Nat \X Nat |-> p[2] \div 2]
<1>1. PICK h : Computes(h, Nat, Nat, {0}, bases, prev, prev, G)
    <2>1. bases \in [Nat -> Nat]
        OBVIOUS
    <2>2. G \in [Nat \X Nat \X Nat -> Nat]
        <3>1. \A a \in Nat : a \div 2 \in Nat
            OBVIOUS
        <3> QED BY <3>1
    <2>3. Ranked(Nat, {0}, prev, prev, rank)
        BY DEF Ranked
    <2> HIDE DEF bases, prev, rank, G
    <2> QED BY <2>1, <2>2, <2>3, RecursionExists
<1>2. h \in [Nat -> Nat] /\ \A k \in Nat : h[k] = IF k = 0 THEN n ELSE h[k - 1] \div 2
    <2>1. h \in [Nat -> Nat]
        BY <1>1 DEF Computes
    <2>2. ASSUME NEW k \in Nat PROVE h[k] = IF k = 0 THEN n ELSE h[k - 1] \div 2
        <3>1. h[k] = IF k \in {0} THEN bases[k] ELSE G[<<k, h[prev[k]], h[prev[k]]>>]
            BY <1>1 DEF Computes
        <3>2. prev[k] \in Nat /\ h[prev[k]] \in Nat
            BY <2>1
        <3>3. G[<<k, h[prev[k]], h[prev[k]]>>] = h[prev[k]] \div 2
            BY <3>2
        <3> QED BY <3>1, <3>3
    <2> QED BY <2>1, <2>2
<1>3. Equation(h)
    BY <1>2
<1>4. Equation(half)
    BY <1>3, Zenon
<1>5. Halved(n) = half
    BY Zenon DEF Halved
<1> HIDE DEF half
<1>6. \A k \in Nat : half[k] = IF k = 0 THEN n ELSE half[k - 1] \div 2
    BY <1>4
<1>7. ASSUME NEW m \in Nat PROVE half[m] \in Nat
    <2> DEFINE Bad == {k \in 0 .. m : half[k] \notin Nat}
    <2>1. 0 \notin Bad
        BY <1>6
    <2>2. ASSUME NEW k \in 1 .. m, k - 1 \notin Bad PROVE k \notin Bad
        <3>1. k \in Nat /\ k # 0 /\ k - 1 \in 0 .. m
            OBVIOUS
        <3>2. half[k - 1] \in Nat
            BY <2>2, <3>1
        <3>3. half[k] = half[k - 1] \div 2
            BY <1>6, <3>1
        <3> QED BY <3>2, <3>3
    <2>3. Bad = {}
        <3>1. Bad \in SUBSET (0 .. m)
            OBVIOUS
        <3> HIDE DEF Bad
        <3> QED BY <2>1, <2>2, <3>1, FirstFailure
    <2>4. m \in 0 .. m
        OBVIOUS
    <2> QED BY <2>3, <2>4
<1>8. ASSUME NEW k \in Nat PROVE half[k + 1] = half[k] \div 2
    <2>1. k + 1 \in Nat /\ k + 1 # 0 /\ (k + 1) - 1 = k
        OBVIOUS
    <2> QED BY <1>6, <2>1
<1> QED BY <1>5, <1>6, <1>7, <1>8

\* After n halvings n is 0.
LEMMA HalvingEnds ==
    ASSUME NEW n \in Nat
    PROVE  \A m \in Nat : n <= m => Halved(n)[m] = 0
<1> DEFINE Ends(k) == Halved(n)[k] = 0 \/ Halved(n)[k] + k <= n
<1> SUFFICES ASSUME NEW m \in Nat, n <= m PROVE Halved(n)[m] = 0
    OBVIOUS
<1> DEFINE Bad == {k \in 0 .. m : ~ Ends(k)}
<1>1. 0 \notin Bad
    BY HalvedIs
<1>2. ASSUME NEW k \in 1 .. m, k - 1 \notin Bad PROVE k \notin Bad
    <2>1. k - 1 \in Nat /\ k - 1 \in 0 .. m /\ (k - 1) + 1 = k
        OBVIOUS
    <2>2. PICK a \in Nat : a = Halved(n)[k - 1] /\ Halved(n)[k] = a \div 2
        BY <2>1, HalvedIs
    <2>3. a = 0 \/ a + (k - 1) <= n
        BY <1>2, <2>1, <2>2
    <2>4. a = 0 => a \div 2 = 0
        OBVIOUS
    <2>5. a # 0 => a \div 2 \in Nat /\ a \div 2 + 1 <= a
        OBVIOUS
    <2> QED BY <2>2, <2>3, <2>4, <2>5
<1>3. Bad = {}
    <2>1. Bad \in SUBSET (0 .. m)
        OBVIOUS
    <2> HIDE DEF Bad
    <2> QED BY <1>1, <1>2, <2>1, FirstFailure
<1>4. m \in 0 .. m
    OBVIOUS
<1>5. Ends(m) /\ Halved(n)[m] \in Nat
    BY <1>3, <1>4, HalvedIs
<1> QED BY <1>5

\* A smaller number has smaller halves.
LEMMA HalvedMonotone ==
    ASSUME NEW n \in Nat, NEW a \in Nat, a <= n
    PROVE  \A m \in Nat : Halved(a)[m] <= Halved(n)[m]
<1> SUFFICES ASSUME NEW m \in Nat PROVE Halved(a)[m] <= Halved(n)[m]
    OBVIOUS
<1> DEFINE Bad == {k \in 0 .. m : ~ (Halved(a)[k] <= Halved(n)[k])}
<1>1. 0 \notin Bad
    BY HalvedIs
<1>2. ASSUME NEW k \in 1 .. m, k - 1 \notin Bad PROVE k \notin Bad
    <2>1. k - 1 \in Nat /\ k - 1 \in 0 .. m /\ (k - 1) + 1 = k
        OBVIOUS
    <2>2. PICK x \in Nat, y \in Nat :
              /\ x = Halved(a)[k - 1] /\ Halved(a)[k] = x \div 2
              /\ y = Halved(n)[k - 1] /\ Halved(n)[k] = y \div 2
        BY <2>1, HalvedIs
    <2>3. x <= y
        BY <1>2, <2>1, <2>2
    <2>4. x \div 2 <= y \div 2
        BY <2>3
    <2> QED BY <2>2, <2>4
<1>3. Bad = {}
    <2>1. Bad \in SUBSET (0 .. m)
        OBVIOUS
    <2> HIDE DEF Bad
    <2> QED BY <1>1, <1>2, <2>1, FirstFailure
<1>4. m \in 0 .. m
    OBVIOUS
<1> QED BY <1>3, <1>4

\* Numbers that vanish after b halvings are told apart by b bits.
LEMMA BitsDiffer ==
    ASSUME NEW b \in Nat, NEW n \in Nat, NEW m \in Nat, Halved(n)[b] = 0, Halved(m)[b] = 0,
           \A k \in 0 .. b - 1 : Halved(n)[k] % 2 = Halved(m)[k] % 2
    PROVE  n = m
<1> DEFINE Bad == {d \in 0 .. b : Halved(n)[b - d] # Halved(m)[b - d]}
<1>1. 0 \notin Bad
    OBVIOUS
<1>2. ASSUME NEW d \in 1 .. b, d - 1 \notin Bad PROVE d \notin Bad
    <2> DEFINE k == b - d
    <2>1. k \in Nat /\ k \in 0 .. b - 1 /\ b - (d - 1) = k + 1 /\ d - 1 \in 0 .. b
        OBVIOUS
    <2> HIDE DEF k
    <2>2. /\ Halved(n)[k] \in Nat /\ Halved(n)[k + 1] = Halved(n)[k] \div 2
          /\ Halved(m)[k] \in Nat /\ Halved(m)[k + 1] = Halved(m)[k] \div 2
        BY <2>1, HalvedIs
    <2>3. PICK x \in Nat, y \in Nat :
              /\ x = Halved(n)[k] /\ Halved(n)[k + 1] = x \div 2
              /\ y = Halved(m)[k] /\ Halved(m)[k + 1] = y \div 2
        BY <2>2
    <2>4. x \div 2 = y \div 2
        BY <1>2, <2>1, <2>3
    <2>5. x % 2 = y % 2
        BY <2>1, <2>3
    <2>6. x = y
        BY <2>4, <2>5
    <2> QED BY <2>3, <2>6 DEF k
<1>3. Bad = {}
    <2>1. Bad \in SUBSET (0 .. b)
        OBVIOUS
    <2> HIDE DEF Bad
    <2> QED BY <1>1, <1>2, <2>1, FirstFailure
<1>4. b \in 0 .. b /\ b - b = 0
    OBVIOUS
<1>5. Halved(n)[0] = Halved(m)[0]
    BY <1>3, <1>4
<1> QED BY <1>5, HalvedIs

-----------------------------------------------------------------------------
(* KissToBlif: the list of states                                          *)

\* The list has every member of S once.
Lists(list, S) ==
    /\ list \in Seq(S) /\ ToSet(list) = S
    /\ \A j, k \in 1 .. Len(list) : list[j] = list[k] => j = k

LEMMA EmptyLists == Lists(<<>>, {})
BY DEF Lists, ToSet

LEMMA AddedLists ==
    ASSUME NEW list, NEW S, Lists(list, S), NEW name
    PROVE  Lists(Added(list, name), S \cup {name})
<1>1. /\ list \in Seq(S) /\ ToSet(list) = S /\ Len(list) \in Nat
      /\ \A j, k \in 1 .. Len(list) : list[j] = list[k] => j = k
    BY DEF Lists
<1>2. CASE name \in ToSet(list)
    <2>1. S \cup {name} = S /\ Added(list, name) = list
        BY <1>1, <1>2 DEF Added
    <2> QED BY <2>1
<1>3. CASE name \notin ToSet(list)
    <2> DEFINE more == Append(list, name)
    <2>1. more \in Seq(S \cup {name}) /\ ToSet(more) = S \cup {name}
        BY <1>1, AppendToSet
    <2>2. /\ Len(more) = Len(list) + 1
          /\ \A j \in 1 .. Len(list) : more[j] = list[j] /\ list[j] \in S
          /\ more[Len(list) + 1] = name
        BY <1>1
    <2>3. name \notin S
        BY <1>1, <1>3
    <2> HIDE DEF more
    <2>4. ASSUME NEW j \in 1 .. Len(more), NEW k \in 1 .. Len(more), more[j] = more[k]
          PROVE  j = k
        <3>1. (j \in 1 .. Len(list) \/ j = Len(list) + 1) /\ (k \in 1 .. Len(list) \/ k = Len(list) + 1)
            BY <1>1, <2>2
        <3> QED BY <1>1, <2>2, <2>3, <2>4, <3>1
    <2>5. Added(list, name) = more
        BY <1>3 DEF Added, more
    <2> QED BY <2>1, <2>4, <2>5 DEF Lists
<1> QED BY <1>2, <1>3

\* The place of a name in the list.
PlaceIn(list, name) == CHOOSE k \in 0 .. Len(list) - 1 : list[k + 1] = name

LEMMA PlaceIs ==
    ASSUME NEW list, NEW S, Lists(list, S), NEW name \in S
    PROVE  PlaceIn(list, name) \in 0 .. Len(list) - 1 /\ list[PlaceIn(list, name) + 1] = name
<1>1. list \in Seq(S) /\ Len(list) \in Nat /\ DOMAIN list = 1 .. Len(list) /\ name \in ToSet(list)
    BY DEF Lists
<1>2. PICK j \in 1 .. Len(list) : list[j] = name
    BY <1>1 DEF ToSet
<1>3. j - 1 \in 0 .. Len(list) - 1 /\ list[(j - 1) + 1] = name
    BY <1>1, <1>2
<1> QED BY <1>3 DEF PlaceIn

-----------------------------------------------------------------------------
(* KissToBlif: codes, for given options, list of states and number of      *)
(* states in the header                                                    *)

BitsOf(list)      == Min({b \in 1 .. Len(list) : Halved(Len(list) - 1)[b] = 0})
Width(e, list, m) == IF e THEN BitsOf(list) ELSE m

CodeOf(e, list, m, name) ==
    LET n == PlaceIn(list, name)
    IN IF e THEN [b \in 0 .. BitsOf(list) - 1 |-> Halved(n)[BitsOf(list) - 1 - b] % 2]
       ELSE [b \in 0 .. m - 1 |-> IF b = n THEN 1 ELSE 0]

LEMMA CodeIs ==
    /\ nLatches = Width(enc, state_list, NStates(states))
    /\ \A name : Code(name) = CodeOf(enc, state_list, NStates(states), name)
BY DEF Code, CodeOf, PlaceIn, toBinary, oneHot, bnum, BitsOf, nLatches, Width

\* bnum bits are enough for every number.
LEMMA BitsEnough ==
    ASSUME NEW list, Len(list) \in Nat \ {0}
    PROVE  /\ BitsOf(list) \in 1 .. Len(list)
           /\ \A n \in 0 .. Len(list) - 1 : Halved(n)[BitsOf(list)] = 0
<1> DEFINE l    == Len(list)
           last == l - 1
           S    == {b \in 1 .. l : Halved(last)[b] = 0}
<1>1. l \in Nat \ {0} /\ last \in Nat /\ last <= l /\ l \in 1 .. l
    OBVIOUS
<1>2. Halved(last)[l] = 0
    BY <1>1, HalvingEnds
<1>3. S \in SUBSET Nat /\ S # {}
    BY <1>1, <1>2
<1>4. BitsOf(list) \in S
    <2> HIDE DEF S
    <2>1. Min(S) \in S
        BY <1>3, MinIs
    <2> QED BY <2>1 DEF BitsOf, S
<1>5. BitsOf(list) \in 1 .. l /\ Halved(last)[BitsOf(list)] = 0
    BY <1>4
<1> HIDE DEF l, last, S
<1>6. ASSUME NEW n \in 0 .. last PROVE Halved(n)[BitsOf(list)] = 0
    <2>1. n \in Nat /\ n <= last /\ BitsOf(list) \in Nat
        BY <1>1, <1>5
    <2>2. Halved(n)[BitsOf(list)] <= Halved(last)[BitsOf(list)]
        BY <1>1, <2>1, HalvedMonotone
    <2>3. Halved(n)[BitsOf(list)] \in Nat
        BY <2>1, HalvedIs
    <2> QED BY <1>5, <2>2, <2>3
<1> QED BY <1>5, <1>6 DEF l, last

\* Different states have different codes, of the width of the circuit.
LEMMA CodesDiffer ==
    ASSUME NEW list, NEW S, Lists(list, S), NEW e \in BOOLEAN, NEW m \in Nat, ~ e => Len(list) <= m,
           NEW a \in S
    PROVE  /\ CodeOf(e, list, m, a) \in [0 .. Width(e, list, m) - 1 -> {0, 1}]
           /\ \A c \in S : CodeOf(e, list, m, a) = CodeOf(e, list, m, c) => a = c
<1>1. Len(list) \in Nat /\ PlaceIn(list, a) \in 0 .. Len(list) - 1 /\ list[PlaceIn(list, a) + 1] = a
    BY PlaceIs DEF Lists
<1> DEFINE n == PlaceIn(list, a)
           w == BitsOf(list)
<1>2. Len(list) \in Nat \ {0} /\ n \in Nat
    BY <1>1
<1>3. w \in Nat \ {0} /\ \A k \in 0 .. Len(list) - 1 : Halved(k)[w] = 0
    BY <1>2, BitsEnough
<1>4. CodeOf(e, list, m, a) \in [0 .. Width(e, list, m) - 1 -> {0, 1}]
    <2>1. CASE e
        <3> HIDE DEF n, w
        <3>1. ASSUME NEW b \in 0 .. w - 1 PROVE Halved(n)[w - 1 - b] % 2 \in {0, 1}
            <4>1. w - 1 - b \in Nat
                BY <1>3
            <4>2. PICK x \in Nat : x = Halved(n)[w - 1 - b]
                BY <1>2, <4>1, HalvedIs
            <4> QED BY <4>2
        <3>2. [b \in 0 .. w - 1 |-> Halved(n)[w - 1 - b] % 2] \in [0 .. w - 1 -> {0, 1}]
            BY <3>1
        <3> QED BY <2>1, <3>2 DEF CodeOf, Width, n, w
    <2>2. CASE ~ e
        BY <2>2 DEF CodeOf, Width
    <2> QED BY <2>1, <2>2
<1>5. ASSUME NEW c \in S, CodeOf(e, list, m, a) = CodeOf(e, list, m, c) PROVE a = c
    <2> DEFINE p == PlaceIn(list, c)
    <2>1. p \in 0 .. Len(list) - 1 /\ list[p + 1] = c
        BY PlaceIs
    <2> HIDE DEF n, p, w
    <2>2. CASE e
        <3>1. [b \in 0 .. w - 1 |-> Halved(n)[w - 1 - b] % 2] = [b \in 0 .. w - 1 |-> Halved(p)[w - 1 - b] % 2]
            BY <1>5, <2>2 DEF CodeOf, n, p, w
        <3>2. ASSUME NEW k \in 0 .. w - 1 PROVE Halved(n)[k] % 2 = Halved(p)[k] % 2
            <4> DEFINE b == w - 1 - k
            <4>1. b \in 0 .. w - 1 /\ w - 1 - b = k
                BY <1>3
            <4> HIDE DEF b
            <4>2. [d \in 0 .. w - 1 |-> Halved(n)[w - 1 - d] % 2][b] = Halved(n)[w - 1 - b] % 2
                BY <4>1
            <4>3. [d \in 0 .. w - 1 |-> Halved(p)[w - 1 - d] % 2][b] = Halved(p)[w - 1 - b] % 2
                BY <4>1
            <4> QED BY <3>1, <4>1, <4>2, <4>3
        <3>3. Halved(n)[w] = 0 /\ Halved(p)[w] = 0 /\ n \in Nat /\ p \in Nat /\ w \in Nat
            BY <1>1, <1>3, <2>1 DEF n
        <3>4. n = p
            BY <3>2, <3>3, BitsDiffer
        <3> QED BY <1>1, <2>1, <3>4 DEF n
    <2>3. CASE ~ e
        <3>1. [b \in 0 .. m - 1 |-> IF b = n THEN 1 ELSE 0] = [b \in 0 .. m - 1 |-> IF b = p THEN 1 ELSE 0]
            BY <1>5, <2>3 DEF CodeOf, n, p
        <3>2. n \in 0 .. m - 1
            BY <1>1, <2>3 DEF n
        <3>3. n = p
            BY <3>1, <3>2
        <3> QED BY <1>1, <2>1, <3>3 DEF n
    <2> QED BY <2>2, <2>3
<1> QED BY <1>4, <1>5

\* What Encode builds.
CoverOf(e, list, m, rows) == {[in |-> r.in, code |-> CodeOf(e, list, m, r.from)] : r \in rows}

NextRowsOf(e, list, m, k, b) == {r \in RowsOf(k) : CodeOf(e, list, m, r.to)[b] = 1}
OutputRowsOf(dc, k, j) == {r \in RowsOf(k) : r.out[j] = "1" \/ (r.out[j] = "-" /\ dc)}

BuiltOf(e, dc, k, list, m) ==
    [reset |-> CodeOf(e, list, m, k[1].reset),
     next  |-> [b \in 0 .. Width(e, list, m) - 1 |-> CoverOf(e, list, m, NextRowsOf(e, list, m, k, b))],
     out   |-> [j \in 0 .. NOut - 1 |-> CoverOf(e, list, m, OutputRowsOf(dc, k, j))]]

LEMMA EncodeBuilds ==
    ASSUME Encode
    PROVE  circuit' = BuiltOf(enc, dcVal, kiss, state_list, NStates(states))
<1>1. /\ nLatches = Width(enc, state_list, NStates(states))
      /\ \A name : Code(name) = CodeOf(enc, state_list, NStates(states), name)
    BY CodeIs
<1>2. \A rows : Cover(rows) = CoverOf(enc, state_list, NStates(states), rows)
    BY <1>1 DEF Cover, CoverOf
<1>3. \A b : NextRows(b) = NextRowsOf(enc, state_list, NStates(states), kiss, b)
    BY <1>1 DEF NextRows, NextRowsOf
<1>4. \A j : OutputRows(j) = OutputRowsOf(dcVal, kiss, j)
    BY DEF OutputRows, OutputRowsOf
<1> QED BY <1>1, <1>2, <1>3, <1>4 DEF Encode, BuiltOf

-----------------------------------------------------------------------------
(* KissToBlif: the file that is encoded                                    *)

\* The name that state s of file f has in file k.
Named(k, f, table, s) == IF k = f THEN s ELSE StateName(table[s])

Renamed(k, f, table, s, r) ==
    [in |-> r.in, from |-> Named(k, f, table, s), to |-> Named(k, f, table, r.to), out |-> r.out]

\* A state with a row that applies to it.
Applies(f) == {p \in Names(f) \X RowsOf(f) : p[2].from \in {p[1], Star}}

\* File k describes the machine of file f.
SameMachine(k, f, table, reset) ==
    /\ k \in Seq(ToSet(k)) /\ k # <<>> /\ IsReset(k[1])
    /\ \A s, t \in Names(f) : Named(k, f, table, s) = Named(k, f, table, t) => s = t
    /\ RowsOf(k) = {Renamed(k, f, table, p[1], p[2]) : p \in Applies(f)}
    /\ \A x \in ResetNames(k) : \E s \in Names(f) : x = Named(k, f, table, s)
    /\ \A s \in Names(f) : table[s] \in reset => Named(k, f, table, s) = k[1].reset

\* The names that the first pass of an encoder lists.
Shown(e, k) ==
    {r.from : r \in RowsOf(k)} \cup {r.to : r \in RowsOf(k)} \cup (IF e THEN {} ELSE ResetNames(k))

LEMMA NamesAreNames ==
    ASSUME NEW f \in Files
    PROVE  /\ \A r \in RowsOf(f) : r \in Rows
           /\ Names(f) \subseteq StateNames
           /\ \A l \in ToSet(f) : IsReset(l) => l = [reset |-> l.reset]
           /\ \A x, y \in ResetNames(f) : x = y
<1>1. f \in Seq(Rows \cup Resets) /\ DOMAIN f = 1 .. Len(f)
    BY FilesAssumption
<1>2. \A l \in ToSet(f) : l \in Rows \cup Resets
    BY <1>1 DEF ToSet
<1>3. \A r \in RowsOf(f) : r \in Rows
    BY <1>2, KindOfLine DEF RowsOf
<1>4. \A l \in ToSet(f) : IsReset(l) => l = [reset |-> l.reset] /\ l.reset \in StateNames
    BY <1>2, KindOfLine DEF Resets
<1>5. Names(f) \subseteq StateNames
    <2>1. \A r \in RowsOf(f) : r.from \in StateNames /\ r.to \in StateNames
        BY <1>3 DEF Rows
    <2>2. ResetNames(f) \subseteq StateNames
        BY <1>4 DEF ResetNames
    <2> QED BY <2>1, <2>2 DEF Names
<1>6. ASSUME NEW x \in ResetNames(f), NEW y \in ResetNames(f) PROVE x = y
    <2>1. PICK i \in DOMAIN f, j \in DOMAIN f : /\ IsReset(f[i]) /\ x = f[i].reset
                                                /\ IsReset(f[j]) /\ y = f[j].reset
        BY DEF ResetNames, ToSet
    <2>2. i = j
        BY <2>1, FilesAssumption
    <2> QED BY <2>1, <2>2
<1> QED BY <1>3, <1>4, <1>5, <1>6

\* The reset state is one state of the file.
LEMMA OneResetState ==
    ASSUME NEW f \in Files, NEW first, NEW table, NEW vector, NEW reset, FullyRead(f, first, table, vector, reset)
    PROVE  /\ \A s, t \in Names(f) : table[s] = table[t] => s = t
           /\ reset # {} => \E s \in Names(f) : reset = {table[s]}
           /\ \A x \in ResetNames(f) : x \in Names(f) /\ reset = {table[x]}
<1>1. IsNumbering(table) /\ DOMAIN table = Names(f) /\ reset = ResetOf(first, table, f)
    BY DEF FullyRead, Numbered
<1>2. \A s, t \in Names(f) : table[s] = table[t] => s = t
    BY <1>1 DEF IsNumbering
<1>3. ASSUME NEW x \in ResetNames(f) PROVE x \in Names(f) /\ reset = {table[x]}
    <2>1. ResetNames(f) = {x}
        BY <1>3, NamesAreNames
    <2>2. {table[s] : s \in ResetNames(f)} = {table[x]}
        BY <2>1
    <2> QED BY <1>1, <1>3, <2>1, <2>2, NamesOfRows DEF ResetOf
<1>4. ASSUME reset # {} PROVE \E s \in Names(f) : reset = {table[s]}
    <2>1. CASE ResetNames(f) # {}
        BY <1>3, <2>1
    <2>2. CASE ResetNames(f) = {}
        <3>1. reset = {Min(Numbers(table, f))} /\ Numbers(table, f) # {}
            BY <1>1, <1>4, <2>2 DEF ResetOf
        <3>2. Numbers(table, f) \in SUBSET Nat
            BY <1>1 DEF Numbers, IsNumbering
        <3>3. Min(Numbers(table, f)) \in Numbers(table, f)
            BY <3>1, <3>2, MinIs
        <3>4. PICK s \in Names(f) : Min(Numbers(table, f)) = table[s]
            BY <3>3 DEF Numbers
        <3> QED BY <3>1, <3>4
    <2> QED BY <2>1, <2>2
<1> QED BY <1>2, <1>3, <1>4

LEMMA ListIsFinite ==
    ASSUME NEW S, NEW q \in Seq(S)
    PROVE  IsFiniteSet(ToSet(q))
<1>1. Len(q) \in Nat /\ DOMAIN q = 1 .. Len(q) /\ IsFiniteSet(1 .. Len(q))
    BY FS_Interval
<1>2. q \in Surjection(1 .. Len(q), ToSet(q))
    BY <1>1 DEF Surjection, ToSet
<1> QED BY <1>1, <1>2, FS_Surjection

\* The rows that are written are those of the file, under the new names.
LEMMA WrittenRowsAre ==
    ASSUME file \in Files, AllRead, NEW k, k # file
    PROVE  /\ WrittenRows = {Renamed(k, file, stateToInt, p[1], p[2]) : p \in Applies(file)}
           /\ Cardinality(WrittenRows) \in Nat
           /\ \A r \in WrittenRows : ~ IsReset(r)
<1>1. /\ IsNumbering(stateToInt) /\ DOMAIN stateToInt = Names(file)
      /\ DOMAIN states = 0 .. Cardinality(Names(file)) - 1
      /\ \A s \in Names(file) : states[stateToInt[s]] =
            Entries(stateToInt, {r \in RowsOf(file) : r.from \in {s, Star}})
    BY DEF AllRead, FullyRead, Numbered
<1> DEFINE New(p) == Renamed(k, file, stateToInt, p[1], p[2])
           Line(n, t) == [in |-> t.in, from |-> StateName(n), to |-> StateName(t.to), out |-> t.out]
<1>2. ASSUME NEW p \in Applies(file)
      PROVE  /\ p[1] \in Names(file) /\ p[2] \in RowsOf(file) /\ p[2].from \in {p[1], Star}
             /\ New(p) = Line(stateToInt[p[1]], [in |-> p[2].in, to |-> stateToInt[p[2].to], out |-> p[2].out])
    BY DEF Applies, Renamed, Named
<1>3. ASSUME NEW l \in WrittenRows PROVE \E p \in Applies(file) : l = New(p)
    <2>0. PICK n \in DOMAIN states : \E t \in states[n] : l = Line(n, t)
        BY DEF WrittenRows
    <2>1. PICK t \in states[n] : l = Line(n, t)
        BY <2>0
    <2>2. PICK s \in Names(file) : stateToInt[s] = n
        BY <1>1 DEF IsNumbering
    <2>3. PICK r \in RowsOf(file) : /\ r.from \in {s, Star}
                                    /\ t = [in |-> r.in, to |-> stateToInt[r.to], out |-> r.out]
        BY <1>1, <2>1, <2>2 DEF Entries
    <2>4. <<s, r>> \in Applies(file)
        BY <2>3 DEF Applies
    <2>5. New(<<s, r>>) = l
        BY <1>2, <2>1, <2>2, <2>3, <2>4
    <2> QED BY <2>4, <2>5
<1>4. ASSUME NEW p \in Applies(file) PROVE New(p) \in WrittenRows
    <2> DEFINE n == stateToInt[p[1]]
               t == [in |-> p[2].in, to |-> stateToInt[p[2].to], out |-> p[2].out]
    <2>1. n \in DOMAIN states
        BY <1>1, <1>2 DEF IsNumbering
    <2>2. t \in states[n]
        BY <1>1, <1>2 DEF Entries
    <2>3. New(p) = Line(n, t)
        BY <1>2
    <2> HIDE DEF n, t, New
    <2> QED BY <2>1, <2>2, <2>3 DEF WrittenRows
<1>5. WrittenRows = {New(p) : p \in Applies(file)}
    <2> HIDE DEF New
    <2> QED BY <1>3, <1>4
<1>6. IsFiniteSet(Applies(file))
    <2>1. file \in Seq(Rows \cup Resets)
        BY FilesAssumption
    <2>2. IsFiniteSet(RowsOf(file))
        <3>1. IsFiniteSet(ToSet(file)) /\ RowsOf(file) \in SUBSET ToSet(file)
            BY <2>1, ListIsFinite DEF RowsOf
        <3> QED BY <3>1, FS_Subset
    <2>3. IsFiniteSet(Names(file) \X RowsOf(file))
        BY <1>1, <2>2, FS_Product DEF IsNumbering
    <2>4. Applies(file) \in SUBSET (Names(file) \X RowsOf(file))
        BY DEF Applies
    <2> QED BY <2>3, <2>4, FS_Subset
<1>7. Cardinality(WrittenRows) \in Nat
    <2> DEFINE g == [p \in Applies(file) |-> New(p)]
    <2>1. g \in Surjection(Applies(file), WrittenRows)
        <3> HIDE DEF New
        <3>1. g \in [Applies(file) -> WrittenRows]
            BY <1>4
        <3>2. \A l \in WrittenRows : \E p \in Applies(file) : g[p] = l
            BY <1>3
        <3> HIDE DEF g
        <3> QED BY <3>1, <3>2 DEF Surjection
    <2> HIDE DEF g
    <2> QED BY <1>6, <2>1, FS_Surjection, FS_CardinalityType
<1>8. \A l \in WrittenRows : ~ IsReset(l)
    <2>1. \A p : DOMAIN New(p) = {"in", "from", "to", "out"}
        BY DEF Renamed
    <2> HIDE DEF New
    <2> QED BY <1>3, <2>1 DEF IsReset
<1> QED BY <1>5, <1>7, <1>8

LEMMA NoLines ==
    ASSUME NEW S, NEW q \in Seq(S), Len(q) = 0
    PROVE  q = <<>>
OBVIOUS

\* A file that was written describes the machine that was read.
LEMMA WrittenIsSame ==
    ASSUME file \in Files, AllRead, NEW k \in Written, k # file, Encodable(k)
    PROVE  SameMachine(k, file, stateToInt, resetState)
<1>1. /\ WrittenRows = {Renamed(k, file, stateToInt, p[1], p[2]) : p \in Applies(file)}
      /\ Cardinality(WrittenRows) \in Nat
      /\ \A r \in WrittenRows : ~ IsReset(r)
    BY WrittenRowsAre
<1>2. PICK rows \in [1 .. Cardinality(WrittenRows) -> WrittenRows] :
          k = WrittenReset \o rows /\ ToSet(rows) = WrittenRows
    BY DEF Written
<1>3. rows \in Seq(WrittenRows) /\ Len(rows) \in Nat /\ DOMAIN rows = 1 .. Len(rows)
    <2>1. PICK n \in Nat : n = Cardinality(WrittenRows)
        BY <1>1
    <2>2. rows \in [1 .. n -> WrittenRows]
        BY <2>1
    <2>3. rows \in Seq(WrittenRows)
        BY <2>2
    <2> QED BY <2>3
<1>4. k # <<>> /\ IsReset(k[1])
    BY DEF Encodable
<1>5. resetState # {}
    <2> SUFFICES ASSUME resetState = {} PROVE FALSE
        OBVIOUS
    <2>1. WrittenReset = <<>>
        BY DEF WrittenReset
    <2>2. k = rows
        BY <1>2, <1>3, <2>1
    <2>3. Len(rows) >= 1
        <3>1. rows # <<>>
            BY <1>4, <2>2
        <3>2. Len(rows) # 0
            BY <1>3, <3>1, NoLines
        <3> QED BY <1>3, <3>2
    <2>4. rows[1] \in WrittenRows
        <3>1. 1 \in DOMAIN rows
            BY <1>3, <2>3
        <3> QED BY <1>2, <3>1 DEF ToSet
    <2> QED BY <1>1, <1>4, <2>2, <2>4
<1>6. /\ \A s, t \in Names(file) : stateToInt[s] = stateToInt[t] => s = t
      /\ \E s \in Names(file) : resetState = {stateToInt[s]}
    BY <1>5, OneResetState DEF AllRead
<1>7. PICK first \in Names(file) : resetState = {stateToInt[first]}
    BY <1>6
<1> DEFINE head == [reset |-> StateName(stateToInt[first])]
<1>8. WrittenReset = <<head>>
    <2>1. stateToInt[first] \in Nat
        BY <1>7 DEF AllRead, FullyRead, Numbered, IsNumbering
    <2>2. Min({stateToInt[first]}) = stateToInt[first]
        BY <2>1, MinUnique
    <2> QED BY <1>7, <2>2 DEF WrittenReset
<1>9. IsReset(head) /\ head.reset = StateName(stateToInt[first])
    BY DEF IsReset
<1> HIDE DEF head
<1>10. /\ k \in Seq(WrittenRows \cup {head}) /\ Len(k) = Len(rows) + 1
       /\ k[1] = head /\ \A j \in 1 .. Len(rows) : k[j + 1] = rows[j]
    BY <1>2, <1>3, <1>8
<1>11. ToSet(k) = WrittenRows \cup {head}
    <2>1. DOMAIN k = 1 .. Len(rows) + 1
        BY <1>3, <1>10
    <2>2. \A l \in ToSet(k) : l \in WrittenRows \cup {head}
        BY <1>3, <1>10, <2>1 DEF ToSet
    <2>3. head \in ToSet(k)
        BY <1>3, <1>10, <2>1 DEF ToSet
    <2>4. ASSUME NEW l \in WrittenRows PROVE l \in ToSet(k)
        <3>1. PICK j \in 1 .. Len(rows) : l = rows[j]
            BY <1>2, <1>3 DEF ToSet
        <3>2. j + 1 \in DOMAIN k /\ k[j + 1] = l
            BY <1>3, <1>10, <2>1, <3>1
        <3> QED BY <3>2 DEF ToSet
    <2> QED BY <2>2, <2>3, <2>4
<1>12. RowsOf(k) = WrittenRows /\ ResetNames(k) = {head.reset}
    <2>1. RowsOf(k) = WrittenRows
        BY <1>1, <1>9, <1>11 DEF RowsOf
    <2>2. {l \in ToSet(k) : IsReset(l)} = {head}
        BY <1>1, <1>9, <1>11
    <2> QED BY <2>1, <2>2 DEF ResetNames
<1>13. \A s : Named(k, file, stateToInt, s) = StateName(stateToInt[s])
    BY DEF Named
<1>14. \A s, t \in Names(file) : Named(k, file, stateToInt, s) = Named(k, file, stateToInt, t) => s = t
    <2>1. \A a, b : StateName(a) = StateName(b) => a = b
        BY DEF StateName
    <2> QED BY <1>6, <1>13, <2>1
<1>15. \A s \in Names(file) : stateToInt[s] \in resetState => Named(k, file, stateToInt, s) = k[1].reset
    BY <1>6, <1>7, <1>9, <1>10, <1>13
<1>16. \A x \in ResetNames(k) : \E s \in Names(file) : x = Named(k, file, stateToInt, s)
    BY <1>7, <1>9, <1>12, <1>13
<1>17. k \in Seq(ToSet(k))
    BY <1>10, <1>11
<1> QED BY <1>1, <1>4, <1>12, <1>14, <1>15, <1>16, <1>17 DEF SameMachine

\* The given file describes its own machine.
LEMMA FileIsSame ==
    ASSUME file \in Files, AllRead, Encodable(file)
    PROVE  SameMachine(file, file, stateToInt, resetState)
<1> DEFINE Name(s) == Named(file, file, stateToInt, s)
<1>1. \A s : Name(s) = s
    BY DEF Named
<1>2. file # <<>> /\ IsReset(file[1]) /\ \A r \in RowsOf(file) : r.from # Star
    BY DEF Encodable
<1>3. file \in Seq(Rows \cup Resets)
    BY FilesAssumption
<1>4. \A r \in RowsOf(file) : r = [in |-> r.in, from |-> r.from, to |-> r.to, out |-> r.out]
    BY NamesAreNames, KindOfLine
<1>5. RowsOf(file) = {Renamed(file, file, stateToInt, p[1], p[2]) : p \in Applies(file)}
    <2>1. ASSUME NEW p \in Applies(file) PROVE Renamed(file, file, stateToInt, p[1], p[2]) = p[2] /\ p[2] \in RowsOf(file)
        <3>1. p[2] \in RowsOf(file) /\ p[2].from = p[1]
            BY <1>2 DEF Applies
        <3> QED BY <1>4, <3>1 DEF Renamed, Named
    <2>2. ASSUME NEW r \in RowsOf(file) PROVE <<r.from, r>> \in Applies(file)
        BY <1>2, NamesOfRows DEF Applies
    <2>3. ASSUME NEW r \in RowsOf(file) PROVE \E p \in Applies(file) : r = Renamed(file, file, stateToInt, p[1], p[2])
        <3>1. <<r.from, r>>[2] = r
            OBVIOUS
        <3> QED BY <2>1, <2>2, <3>1
    <2> HIDE DEF Name
    <2> QED BY <2>1, <2>3
<1>6. file[1].reset \in ResetNames(file)
    <2>1. file[1] \in ToSet(file)
        BY <1>2, <1>3 DEF ToSet
    <2> QED BY <1>2, <2>1 DEF ResetNames
<1>7. /\ \A s, t \in Names(file) : stateToInt[s] = stateToInt[t] => s = t
      /\ file[1].reset \in Names(file) /\ resetState = {stateToInt[file[1].reset]}
    BY <1>6, OneResetState DEF AllRead
<1>8. \A s \in Names(file) : stateToInt[s] \in resetState => Name(s) = file[1].reset
    BY <1>1, <1>7
<1>9. \A x \in ResetNames(file) : \E s \in Names(file) : x = Name(s)
    BY <1>1, NamesOfRows
<1>10. file \in Seq(ToSet(file))
    BY <1>3 DEF ToSet
<1> HIDE DEF Name
<1>11. \A s, t \in Names(file) : Name(s) = Name(t) => s = t
    BY <1>1
<1> QED BY <1>2, <1>5, <1>8, <1>9, <1>10, <1>11 DEF SameMachine, Name

-----------------------------------------------------------------------------
(* KissToBlif: the list of a file                                          *)

\* One more line adds its names to those that are listed.
LEMMA ShownGrows ==
    ASSUME NEW e \in BOOLEAN, NEW k, NEW g, NEW l, ToSet(g) = ToSet(k) \cup {l}
    PROVE  /\ ~ IsReset(l) => Shown(e, g) = (Shown(e, k) \cup {l.from}) \cup {l.to}
           /\ IsReset(l) /\ e => Shown(e, g) = Shown(e, k)
           /\ IsReset(l) /\ ~ e => Shown(e, g) = Shown(e, k) \cup {l.reset}
<1>1. ASSUME ~ IsReset(l) PROVE RowsOf(g) = RowsOf(k) \cup {l} /\ ResetNames(g) = ResetNames(k)
    BY <1>1, LineAdds
<1>2. ASSUME IsReset(l) PROVE RowsOf(g) = RowsOf(k) /\ ResetNames(g) = ResetNames(k) \cup {l.reset}
    BY <1>2, LineAdds
<1>3. ~ IsReset(l) => Shown(e, g) = (Shown(e, k) \cup {l.from}) \cup {l.to}
    BY <1>1 DEF Shown
<1>4. IsReset(l) /\ e => Shown(e, g) = Shown(e, k)
    BY <1>2 DEF Shown
<1>5. IsReset(l) /\ ~ e => Shown(e, g) = Shown(e, k) \cup {l.reset}
    BY <1>2 DEF Shown
<1> QED BY <1>3, <1>4, <1>5

\* Only states of the machine are listed.
LEMMA ShownAreNamed ==
    ASSUME NEW k, NEW f, NEW table, NEW reset, SameMachine(k, f, table, reset), NEW e \in BOOLEAN
    PROVE  \A x \in Shown(e, k) : \E s \in Names(f) : x = Named(k, f, table, s)
<1>1. ASSUME NEW r \in RowsOf(k)
      PROVE  \E s, t \in Names(f) : r.from = Named(k, f, table, s) /\ r.to = Named(k, f, table, t)
    <2>1. PICK p \in Applies(f) : r = Renamed(k, f, table, p[1], p[2])
        BY DEF SameMachine
    <2>2. p[1] \in Names(f) /\ p[2].to \in Names(f)
        BY NamesOfRows DEF Applies
    <2>3. r.from = Named(k, f, table, p[1]) /\ r.to = Named(k, f, table, p[2].to)
        BY <2>1 DEF Renamed
    <2> QED BY <2>2, <2>3
<1>2. \A x \in ResetNames(k) : \E s \in Names(f) : x = Named(k, f, table, s)
    BY DEF SameMachine
<1> QED BY <1>1, <1>2 DEF Shown

\* So the list is not longer than the number of states.
LEMMA ListFits ==
    ASSUME NEW k, NEW f, NEW table, NEW reset, SameMachine(k, f, table, reset), NEW e \in BOOLEAN,
           NEW list, Lists(list, Shown(e, k)), IsFiniteSet(Names(f))
    PROVE  Len(list) \in Nat /\ Len(list) <= Cardinality(Names(f))
<1>1. /\ Len(list) \in Nat /\ \A j \in 1 .. Len(list) : list[j] \in Shown(e, k)
      /\ \A i, j \in 1 .. Len(list) : list[i] = list[j] => i = j
    BY DEF Lists
<1> DEFINE Has(j, s) == list[j] = Named(k, f, table, s)
           state == [j \in 1 .. Len(list) |-> CHOOSE s \in Names(f) : Has(j, s)]
<1>2. \A j \in 1 .. Len(list) : \E s \in Names(f) : Has(j, s)
    BY <1>1, ShownAreNamed
<1>3. ASSUME NEW j \in 1 .. Len(list) PROVE state[j] \in Names(f) /\ Has(j, state[j])
    <2> HIDE DEF Has
    <2> QED BY <1>2
<1> HIDE DEF state
<1>4. state \in Injection(1 .. Len(list), Names(f))
    <2>1. state \in [1 .. Len(list) -> Names(f)]
        BY <1>3 DEF state
    <2>2. \A i, j \in 1 .. Len(list) : state[i] = state[j] => i = j
        BY <1>1, <1>3
    <2> QED BY <2>1, <2>2 DEF Injection, IsInjective
<1>5. Cardinality(1 .. Len(list)) <= Cardinality(Names(f))
    BY <1>4, FS_Injection
<1>6. Cardinality(1 .. Len(list)) = Len(list)
    <2>1. PICK n \in Nat : n = Len(list)
        BY <1>1
    <2>2. Cardinality(1 .. n) = n
        BY FS_Interval
    <2> QED BY <2>1, <2>2
<1> QED BY <1>1, <1>5, <1>6

-----------------------------------------------------------------------------
(* KissToBlif: what a net shows                                            *)

\* No other row applies.
LEMMA OneRow ==
    ASSUME NEW f \in Files, NEW s, NEW r \in RowsOf(f), NEW q \in RowsOf(f),
           r.from \in {s, Star}, q.from \in {s, Star}, NEW w, Matches(w, r.in), Matches(w, q.in)
    PROVE  r = q
<1>1. r # q => isDisjoint(r.in, q.in)
    BY KissToBlifAssumption
<1>2. ~ isDisjoint(r.in, q.in)
    BY DEF isDisjoint, Matches
<1> QED BY <1>1, <1>2

\* When the latches hold the code of a state, a net is 1 if and only if the row of that
\* state for the word is in its cover.
LEMMA NetShows ==
    ASSUME file \in Files, SameMachine(kiss, file, stateToInt, resetState), enc \in BOOLEAN,
           NEW m \in Nat, Lists(state_list, Shown(enc, kiss)), ~ enc => Len(state_list) <= m,
           NEW s \in Names(file), Named(kiss, file, stateToInt, s) \in Shown(enc, kiss),
           NEW r \in RowsOf(file), r.from \in {s, Star}, NEW w, Matches(w, r.in)
    PROVE  /\ Renamed(kiss, file, stateToInt, s, r) \in RowsOf(kiss)
           /\ \A rows \in SUBSET RowsOf(kiss) :
                 (\E c \in CoverOf(enc, state_list, m, rows) :
                      Matches(w, c.in) /\ c.code = CodeOf(enc, state_list, m, Named(kiss, file, stateToInt, s)))
                 <=> Renamed(kiss, file, stateToInt, s, r) \in rows
<1> DEFINE R == Renamed(kiss, file, stateToInt, s, r)
           x == Named(kiss, file, stateToInt, s)
<1>1. R \in RowsOf(kiss)
    <2>1. <<s, r>> \in Applies(file)
        BY DEF Applies
    <2>2. R = Renamed(kiss, file, stateToInt, <<s, r>>[1], <<s, r>>[2])
        OBVIOUS
    <2> HIDE DEF R
    <2> QED BY <2>1, <2>2 DEF SameMachine
<1>2. R.in = r.in /\ R.from = x
    BY DEF Renamed
<1> HIDE DEF R, x
<1>3. ASSUME NEW rows \in SUBSET RowsOf(kiss), R \in rows
      PROVE  \E c \in CoverOf(enc, state_list, m, rows) : Matches(w, c.in) /\ c.code = CodeOf(enc, state_list, m, x)
    <2> DEFINE c == [in |-> R.in, code |-> CodeOf(enc, state_list, m, R.from)]
    <2>1. c \in CoverOf(enc, state_list, m, rows)
        BY <1>3 DEF CoverOf
    <2>2. Matches(w, c.in) /\ c.code = CodeOf(enc, state_list, m, x)
        BY <1>2
    <2> HIDE DEF c
    <2> QED BY <2>1, <2>2
<1>4. ASSUME NEW rows \in SUBSET RowsOf(kiss), NEW c \in CoverOf(enc, state_list, m, rows),
             Matches(w, c.in), c.code = CodeOf(enc, state_list, m, x)
      PROVE  R \in rows
    <2>1. PICK q \in rows : c = [in |-> q.in, code |-> CodeOf(enc, state_list, m, q.from)]
        BY DEF CoverOf
    <2>2. q \in RowsOf(kiss) /\ Matches(w, q.in) /\ CodeOf(enc, state_list, m, q.from) = CodeOf(enc, state_list, m, x)
        BY <1>4, <2>1
    <2>3. q.from \in Shown(enc, kiss) /\ x \in Shown(enc, kiss)
        BY <2>2 DEF Shown, x
    <2>4. q.from = x
        BY <2>2, <2>3, CodesDiffer
    <2>5. PICK p \in Applies(file) : q = Renamed(kiss, file, stateToInt, p[1], p[2])
        BY <2>2 DEF SameMachine
    <2>6. p[1] \in Names(file) /\ p[2] \in RowsOf(file) /\ p[2].from \in {p[1], Star}
        BY DEF Applies
    <2>7. q.from = Named(kiss, file, stateToInt, p[1]) /\ q.in = p[2].in
        BY <2>5 DEF Renamed
    <2>8. p[1] = s
        BY <2>4, <2>6, <2>7 DEF SameMachine, x
    <2>9. p[2] = r
        <3>1. p[2] \in RowsOf(file) /\ p[2].from \in {s, Star} /\ Matches(w, p[2].in)
            BY <2>2, <2>6, <2>7, <2>8
        <3>2. PICK v \in RowsOf(file) : v = p[2]
            BY <3>1
        <3>3. v.from \in {s, Star} /\ Matches(w, v.in)
            BY <3>1, <3>2
        <3>4. r = v
            BY <3>3, OneRow
        <3> QED BY <3>2, <3>4
    <2> QED BY <2>5, <2>8, <2>9 DEF R
<1> QED BY <1>1, <1>3, <1>4 DEF R, x

-----------------------------------------------------------------------------
(* KissToBlif: the circuit implements the machine                          *)

\* Once a file is chosen, it describes the machine of the given one; the
\* states of the lines read are listed; the circuit is built from the list;
\* and at work it holds the code of the state of the machine.
EncodeInv ==
    /\ pc \in {"parse", "parsed", "read", "encoded"} /\ enc \in BOOLEAN
    /\ pc # "encoded" => old = NoState
    /\ pc \in {"parse", "parsed"} => read = 0 /\ state_list = <<>>
    /\ pc \in {"read", "encoded"} =>
          /\ SameMachine(kiss, file, stateToInt, resetState)
          /\ kiss[1].reset \in Shown(enc, kiss)
    /\ pc = "read" =>
          /\ read \in 0 .. Len(kiss)
          /\ Lists(state_list, Shown(enc, SubSeq(kiss, 1, read)))
    /\ pc = "encoded" =>
          /\ Lists(state_list, Shown(enc, kiss))
          /\ circuit = BuiltOf(enc, dcVal, kiss, state_list, NStates(states))
    /\ old # NoState =>
          /\ old \in Names(file) /\ Named(kiss, file, stateToInt, old) \in Shown(enc, kiss)
          /\ latches = CodeOf(enc, state_list, NStates(states), Named(kiss, file, stateToInt, old))

LEMMA InitEncode == Init => EncodeInv
BY DEF Init, EncodeInv

LEMMA ParseEncode == EncodeInv /\ Parse /\ UNCHANGED <<encVars, runVars>> => EncodeInv'
BY DEF EncodeInv, Parse, ParseReset, ParseRow, ParseEnd, encVars, runVars

LEMMA ChooseEncode == ParseInv /\ EncodeInv /\ Choose => EncodeInv'
<1> SUFFICES ASSUME ParseInv, EncodeInv, Choose PROVE EncodeInv'
    OBVIOUS
<1>0. /\ pc = "parsed" /\ pc' = "read" /\ file \in Files /\ AllRead
      /\ kiss' \in {file} \cup Written /\ Encodable(kiss') /\ enc \in BOOLEAN
      /\ UNCHANGED <<file, stateToInt, resetState, states, enc, dcVal, read, state_list, circuit, latches, old>>
      /\ old = NoState /\ read = 0 /\ state_list = <<>>
    BY DEF ParseInv, EncodeInv, Choose, parseVars, runVars
<1>1. SameMachine(kiss', file, stateToInt, resetState)
    <2>1. CASE kiss' = file
        BY <1>0, <2>1, FileIsSame
    <2>2. CASE kiss' # file
        BY <1>0, <2>2, WrittenIsSame
    <2> QED BY <2>1, <2>2
<1>2. kiss' \in Seq(ToSet(kiss')) /\ kiss' # <<>> /\ IsReset(kiss'[1]) /\ Len(kiss') \in Nat
    BY <1>1 DEF SameMachine
<1>3. kiss'[1].reset \in Shown(enc, kiss')
    <2>1. CASE enc
        <3>1. \E r \in RowsOf(kiss') : kiss'[1].reset \in {r.from, r.to}
            BY <1>0, <2>1 DEF Encodable
        <3> QED BY <3>1 DEF Shown
    <2>2. CASE ~ enc
        <3>1. Len(kiss') # 0
            BY <1>2, NoLines
        <3>2. kiss'[1] \in ToSet(kiss')
            BY <1>2, <3>1 DEF ToSet
        <3> QED BY <1>2, <2>2, <3>2 DEF Shown, ResetNames
    <2> QED BY <1>0, <2>1, <2>2
<1>4. ToSet(SubSeq(kiss', 1, 0)) = {}
    BY <1>2, PrefixGrows
<1>5. Shown(enc, SubSeq(kiss', 1, 0)) = {}
    BY <1>4 DEF Shown, RowsOf, ResetNames
<1>6. Lists(state_list', Shown(enc', SubSeq(kiss', 1, read')))
    BY <1>0, <1>5, EmptyLists
<1> QED BY <1>0, <1>1, <1>2, <1>3, <1>6 DEF EncodeInv

LEMMA ReadLineEncode == EncodeInv /\ ReadLine => EncodeInv'
<1> SUFFICES ASSUME EncodeInv, ReadLine PROVE EncodeInv'
    OBVIOUS
<1> DEFINE l    == kiss[read + 1]
           seen == SubSeq(kiss, 1, read)
           more == SubSeq(kiss, 1, read + 1)
<1>0. /\ pc = "read" /\ pc' = "read" /\ enc \in BOOLEAN /\ old = NoState
      /\ SameMachine(kiss, file, stateToInt, resetState) /\ kiss[1].reset \in Shown(enc, kiss)
      /\ read \in 0 .. Len(kiss) /\ read < Len(kiss) /\ read' = read + 1
      /\ Lists(state_list, Shown(enc, seen))
      /\ state_list' = IF ~ IsReset(l) THEN Added(Added(state_list, l.from), l.to)
                       ELSE IF enc THEN state_list ELSE Added(state_list, l.reset)
      /\ UNCHANGED <<file, stateToInt, resetState, states, enc, dcVal, kiss, circuit, latches, old>>
    BY DEF EncodeInv, ReadLine, parseVars, runVars
<1>1. kiss \in Seq(ToSet(kiss)) /\ Len(kiss) \in Nat
    BY <1>0 DEF SameMachine
<1>2. ToSet(more) = ToSet(seen) \cup {l} /\ read + 1 \in 0 .. Len(kiss)
    BY <1>0, <1>1, PrefixGrows
<1> HIDE DEF l, seen, more
<1>3. Lists(state_list', Shown(enc, more))
    <2>1. CASE ~ IsReset(l)
        <3>1. Shown(enc, more) = (Shown(enc, seen) \cup {l.from}) \cup {l.to}
            BY <1>0, <1>2, <2>1, ShownGrows
        <3>2. Lists(Added(state_list, l.from), Shown(enc, seen) \cup {l.from})
            BY <1>0, AddedLists
        <3>3. Lists(Added(Added(state_list, l.from), l.to), (Shown(enc, seen) \cup {l.from}) \cup {l.to})
            BY <3>2, AddedLists
        <3>4. state_list' = Added(Added(state_list, l.from), l.to)
            BY <1>0, <2>1
        <3> QED BY <3>1, <3>3, <3>4
    <2>2. CASE IsReset(l) /\ enc
        BY <1>0, <1>2, <2>2, ShownGrows
    <2>3. CASE IsReset(l) /\ ~ enc
        <3>1. Shown(enc, more) = Shown(enc, seen) \cup {l.reset}
            BY <1>0, <1>2, <2>3, ShownGrows, SMTT(40)
        <3>2. Lists(Added(state_list, l.reset), Shown(enc, seen) \cup {l.reset})
            BY <1>0, AddedLists
        <3> QED BY <1>0, <2>3, <3>1, <3>2
    <2> QED BY <2>1, <2>2, <2>3
<1> QED BY <1>0, <1>2, <1>3 DEF EncodeInv, more

LEMMA EncodeEncode == EncodeInv /\ Encode => EncodeInv'
<1> SUFFICES ASSUME EncodeInv, Encode PROVE EncodeInv'
    OBVIOUS
<1>0. /\ pc = "read" /\ pc' = "encoded" /\ enc \in BOOLEAN /\ old = NoState /\ read = Len(kiss)
      /\ SameMachine(kiss, file, stateToInt, resetState) /\ kiss[1].reset \in Shown(enc, kiss)
      /\ Lists(state_list, Shown(enc, SubSeq(kiss, 1, read)))
      /\ UNCHANGED <<file, stateToInt, resetState, states, enc, dcVal, kiss, state_list, latches, old>>
    BY DEF EncodeInv, Encode, parseVars, runVars
<1>1. SubSeq(kiss, 1, read) = kiss
    BY <1>0, PrefixGrows DEF SameMachine
<1>2. NStates(states)' = NStates(states)
    BY <1>0 DEF NStates
<1>3. circuit' = BuiltOf(enc', dcVal', kiss', state_list', NStates(states)')
    BY <1>0, <1>2, EncodeBuilds
<1> QED BY <1>0, <1>1, <1>3 DEF EncodeInv, NStates

LEMMA PowerUpEncode == ParseInv /\ EncodeInv /\ PowerUp => EncodeInv' /\ Given!Start
<1> SUFFICES ASSUME ParseInv, EncodeInv, PowerUp PROVE EncodeInv' /\ Given!Start
    OBVIOUS
<1>0. /\ pc = "encoded" /\ pc' = "encoded" /\ enc \in BOOLEAN /\ old = NoState /\ file \in Files /\ AllRead
      /\ SameMachine(kiss, file, stateToInt, resetState) /\ kiss[1].reset \in Shown(enc, kiss)
      /\ Lists(state_list, Shown(enc, kiss))
      /\ circuit = BuiltOf(enc, dcVal, kiss, state_list, NStates(states))
      /\ latches' = circuit.reset
      /\ UNCHANGED <<file, stateToInt, resetState, states, enc, dcVal, kiss, state_list, circuit, out>>
    BY DEF ParseInv, EncodeInv, PowerUp, parseVars, encVars
<1>1. PICK s \in Names(file) : stateToInt[s] \in resetState /\ old' = s
    BY DEF PowerUp
<1>2. Named(kiss, file, stateToInt, s) = kiss[1].reset
    BY <1>0, <1>1 DEF SameMachine
<1>3. latches' = CodeOf(enc, state_list, NStates(states), Named(kiss, file, stateToInt, s))
    BY <1>0, <1>2 DEF BuiltOf
<1>4. EncodeInv'
    BY <1>0, <1>1, <1>2, <1>3 DEF EncodeInv, NStates
<1>5. s \in IF MachineOf(file).reset = NoState THEN Names(file) ELSE {MachineOf(file).reset}
    <2>1. CASE ResetNames(file) = {}
        BY <1>1, <2>1 DEF MachineOf
    <2>2. CASE ResetNames(file) # {}
        <3>1. PICK x \in ResetNames(file) : x = MachineOf(file).reset
            BY <2>2 DEF MachineOf
        <3>2. /\ x \in Names(file) /\ resetState = {stateToInt[x]}
              /\ \A a, b \in Names(file) : stateToInt[a] = stateToInt[b] => a = b
            BY <1>0, OneResetState DEF AllRead
        <3>3. s = x
            BY <1>1, <3>2
        <3> QED BY <1>1, <3>1, <3>3
    <2> QED BY <2>1, <2>2
<1>6. DOMAIN MachineOf(file).trans = Names(file)
    BY DEF MachineOf
<1>7. MachineOf(file)' = MachineOf(file)
    BY <1>0 DEF MachineOf, Names, ResetNames, RowsOf
<1>8. Given!Start
    BY <1>0, <1>1, <1>5, <1>6, <1>7 DEF Given!Start, Given!States
<1> QED BY <1>4, <1>8

LEMMA ClockEncode == ParseInv /\ EncodeInv /\ Clock => EncodeInv' /\ Given!Answer
<1> SUFFICES ASSUME ParseInv, EncodeInv, Clock PROVE EncodeInv' /\ Given!Answer
    OBVIOUS
<1> DEFINE m       == NStates(states)
           code(x) == CodeOf(enc, state_list, m, x)
           name(s) == Named(kiss, file, stateToInt, s)
<1>0. /\ pc = "encoded" /\ pc' = "encoded" /\ enc \in BOOLEAN /\ old # NoState /\ file \in Files /\ AllRead
      /\ SameMachine(kiss, file, stateToInt, resetState) /\ kiss[1].reset \in Shown(enc, kiss)
      /\ Lists(state_list, Shown(enc, kiss))
      /\ circuit = BuiltOf(enc, dcVal, kiss, state_list, m)
      /\ old \in Names(file) /\ name(old) \in Shown(enc, kiss) /\ latches = code(name(old))
      /\ UNCHANGED <<file, stateToInt, resetState, states, enc, dcVal, kiss, state_list, circuit>>
    BY DEF ParseInv, EncodeInv, Clock, parseVars, encVars
<1>1. PICK w \in Words(NIn), r \in RowsOf(file) :
          /\ r.from \in {old, Star} /\ Matches(w, r.in)
          /\ old' = r.to
          /\ latches' = [b \in DOMAIN circuit.next |-> IF Value(circuit.next[b], w) THEN 1 ELSE 0]
          /\ out' = [j \in 0 .. NOut - 1 |-> IF Value(circuit.out[j], w) THEN "1" ELSE "0"]
    BY DEF Clock
<1>2. m \in Nat /\ (~ enc => Len(state_list) <= m)
    <2>1. IsFiniteSet(Names(file)) /\ DOMAIN states = 0 .. Cardinality(Names(file)) - 1
        BY <1>0 DEF AllRead, FullyRead, Numbered, IsNumbering
    <2>2. PICK n \in Nat : n = Cardinality(Names(file))
        BY <2>1, FS_CardinalityType
    <2>3. Cardinality(0 .. n - 1) = n
        BY FS_Interval
    <2>4. m = n
        BY <2>1, <2>2, <2>3 DEF NStates
    <2>5. Len(state_list) <= n
        BY <1>0, <2>1, <2>2, ListFits
    <2> QED BY <2>4, <2>5
<1> DEFINE R == Renamed(kiss, file, stateToInt, old, r)
<1>3. /\ R \in RowsOf(kiss)
      /\ \A rows \in SUBSET RowsOf(kiss) : Value(CoverOf(enc, state_list, m, rows), w) <=> R \in rows
    <2> HIDE DEF m
    <2>1. /\ R \in RowsOf(kiss)
          /\ \A rows \in SUBSET RowsOf(kiss) :
                (\E c \in CoverOf(enc, state_list, m, rows) : Matches(w, c.in) /\ c.code = code(name(old)))
                <=> R \in rows
        <3>1. /\ file \in Files /\ enc \in BOOLEAN /\ SameMachine(kiss, file, stateToInt, resetState)
              /\ Lists(state_list, Shown(enc, kiss)) /\ m \in Nat /\ (~ enc => Len(state_list) <= m)
              /\ old \in Names(file) /\ Named(kiss, file, stateToInt, old) \in Shown(enc, kiss)
              /\ r \in RowsOf(file) /\ r.from \in {old, Star} /\ Matches(w, r.in)
            BY <1>0, <1>1, <1>2
        <3>2. /\ Renamed(kiss, file, stateToInt, old, r) \in RowsOf(kiss)
              /\ \A rows \in SUBSET RowsOf(kiss) :
                    (\E c \in CoverOf(enc, state_list, m, rows) :
                         Matches(w, c.in) /\ c.code = CodeOf(enc, state_list, m, Named(kiss, file, stateToInt, old)))
                    <=> Renamed(kiss, file, stateToInt, old, r) \in rows
            <4> HIDE DEF R, name, code
            <4> QED BY <3>1, NetShows
        <3> QED BY <3>2
    <2> HIDE DEF R, name, code
    <2> QED BY <1>0, <2>1 DEF Value
<1>4. R.to = name(r.to) /\ R.out = r.out
    BY DEF Renamed
<1>5. name(r.to) \in Shown(enc, kiss) /\ r.to \in Names(file)
    BY <1>3, <1>4, NamesOfRows DEF Shown
<1> HIDE DEF R, m, name
<1>6. latches' = code(name(r.to))
    <2> DEFINE n == Width(enc, state_list, m)
    <2>1. /\ circuit.next = [b \in 0 .. n - 1 |->
                 CoverOf(enc, state_list, m, NextRowsOf(enc, state_list, m, kiss, b))]
        BY <1>0 DEF BuiltOf
    <2>2. code(name(r.to)) \in [0 .. n - 1 -> {0, 1}]
        BY <1>0, <1>2, <1>5, CodesDiffer
    <2> HIDE DEF code, n
    <2>3. ASSUME NEW b \in 0 .. n - 1
          PROVE  (IF Value(circuit.next[b], w) THEN 1 ELSE 0) = code(name(r.to))[b]
        <3>1. circuit.next[b] = CoverOf(enc, state_list, m, NextRowsOf(enc, state_list, m, kiss, b))
            BY <2>1
        <3>2. NextRowsOf(enc, state_list, m, kiss, b) \in SUBSET RowsOf(kiss)
            BY DEF NextRowsOf
        <3>3. R \in NextRowsOf(enc, state_list, m, kiss, b) <=> code(name(r.to))[b] = 1
            BY <1>3, <1>4 DEF NextRowsOf, code
        <3>4. Value(circuit.next[b], w) <=> code(name(r.to))[b] = 1
            BY <1>3, <3>1, <3>2, <3>3
        <3> QED BY <2>2, <3>4
    <2>4. DOMAIN circuit.next = 0 .. n - 1
        BY <2>1
    <2>5. latches' = [b \in 0 .. n - 1 |-> code(name(r.to))[b]]
        BY <1>1, <2>3, <2>4
    <2> QED BY <2>2, <2>5
<1>7. EncodeInv'
    <2>1. /\ old' \in Names(file) /\ Named(kiss, file, stateToInt, old') \in Shown(enc, kiss)
          /\ latches' = CodeOf(enc, state_list, NStates(states), Named(kiss, file, stateToInt, old'))
        BY <1>1, <1>5, <1>6 DEF name, m
    <2>2. circuit = BuiltOf(enc, dcVal, kiss, state_list, NStates(states))
        BY <1>0 DEF m
    <2> HIDE DEF code
    <2> QED BY <1>0, <2>1, <2>2 DEF EncodeInv, NStates
<1>8. out' \in Words(NOut) /\ Matches(out', r.out)
    <2>1. r.out \in IncSpecSeqs(NOut)
        BY <1>0, NamesAreNames DEF Rows
    <2>2. ASSUME NEW j \in 0 .. NOut - 1
          PROVE  /\ out'[j] \in {"0", "1"}
                 /\ r.out[j] = "1" => out'[j] = "1"
                 /\ r.out[j] = "0" => out'[j] = "0"
        <3>1. circuit.out[j] = CoverOf(enc, state_list, m, OutputRowsOf(dcVal, kiss, j))
            BY <1>0 DEF BuiltOf
        <3>2. OutputRowsOf(dcVal, kiss, j) \in SUBSET RowsOf(kiss)
            BY DEF OutputRowsOf
        <3>3. R \in OutputRowsOf(dcVal, kiss, j) <=> (r.out[j] = "1" \/ (r.out[j] = "-" /\ dcVal))
            BY <1>3, <1>4 DEF OutputRowsOf
        <3>4. Value(circuit.out[j], w) <=> (r.out[j] = "1" \/ (r.out[j] = "-" /\ dcVal))
            BY <1>3, <3>1, <3>2, <3>3
        <3>5. out'[j] = IF Value(circuit.out[j], w) THEN "1" ELSE "0"
            BY <1>1
        <3> QED BY <3>4, <3>5
    <2>3. out' = [j \in 0 .. NOut - 1 |-> out'[j]]
        BY <1>1
    <2>4. out' \in Words(NOut)
        BY <2>2, <2>3 DEF Words
    <2>5. Matches(out', r.out)
        BY <2>1, <2>2 DEF Matches, specified, IncSpecSeqs
    <2> QED BY <2>4, <2>5
<1>9. Given!Answer
    <2> DEFINE t == [in |-> r.in, to |-> r.to, out |-> r.out]
    <2>1. t \in MachineOf(file).trans[old]
        BY <1>0, <1>1 DEF MachineOf
    <2>2. t.in = r.in /\ t.to = r.to /\ t.out = r.out
        OBVIOUS
    <2>3. MachineOf(file)' = MachineOf(file)
        BY <1>0 DEF MachineOf, Names, ResetNames, RowsOf
    <2>4. \A n : Given!Words(n) = Words(n)
        BY DEF Given!Words, Words
    <2>5. \A a, b : Given!Matches(a, b) <=> Matches(a, b)
        BY DEF Given!Matches, Matches, Given!specified, specified
    <2> HIDE DEF t
    <2> QED BY <1>0, <1>1, <1>8, <2>1, <2>2, <2>3, <2>4, <2>5 DEF Given!Answer
<1> QED BY <1>7, <1>9

LEMMA NextEncode ==
    ParseInv /\ EncodeInv /\ [Next]_vars => EncodeInv' /\ [Given!Next]_<<MachineOf(file), old, out>>
<1> SUFFICES ASSUME ParseInv, EncodeInv, [Next]_vars
             PROVE  EncodeInv' /\ [Given!Next]_<<MachineOf(file), old, out>>
    OBVIOUS
<1>1. ASSUME UNCHANGED <<file, old, out>> PROVE UNCHANGED <<MachineOf(file), old, out>>
    BY <1>1 DEF MachineOf, Names, ResetNames, RowsOf
<1>2. CASE Parse /\ UNCHANGED <<encVars, runVars>>
    <2>1. UNCHANGED <<file, old, out>>
        BY <1>2 DEF Parse, ParseReset, ParseRow, ParseEnd, runVars
    <2> QED BY <1>1, <1>2, <2>1, ParseEncode
<1>3. CASE Choose
    BY <1>1, <1>3, ChooseEncode DEF Choose, runVars
<1>4. CASE ReadLine
    BY <1>1, <1>4, ReadLineEncode DEF ReadLine, runVars
<1>5. CASE Encode
    BY <1>1, <1>5, EncodeEncode DEF Encode, runVars
<1>6. CASE PowerUp
    BY <1>6, PowerUpEncode DEF Given!Next
<1>7. CASE Clock
    BY <1>7, ClockEncode DEF Given!Next
<1>8. CASE UNCHANGED vars
    <2>1. UNCHANGED <<file, old, out>>
        BY <1>8 DEF vars, runVars
    <2>2. EncodeInv'
        BY <1>8 DEF vars, parseVars, encVars, runVars, EncodeInv, NStates
    <2> QED BY <1>1, <2>1, <2>2
<1> QED BY <1>2, <1>3, <1>4, <1>5, <1>6, <1>7, <1>8 DEF Next

\* The circuit of kiss_to_blif, under either encoding and whether or not the
\* file went through parseKISSFile and writeKISSFile before, shows for ever
\* what the machine of the given file specifies (natEnc, oneHotEnc).
THEOREM CircuitImplementsGiven == Spec => ImplementsGiven
<1>1. Init => Given!Init
    BY DEF Init, Given!Init
<1>2. ParseInv /\ EncodeInv /\ [Next]_vars => [Given!Next]_<<MachineOf(file), old, out>>
    BY NextEncode
<1>3. Spec => [](ParseInv /\ EncodeInv)
    BY InitParse, InitEncode, InvNext, NextEncode, PTL DEF Spec
<1> QED BY <1>1, <1>2, <1>3, PTL DEF Spec, ImplementsGiven, Given!Spec

-----------------------------------------------------------------------------
(* Circuits                                                                *)

LEMMA TableIs ==
    ASSUME NEW f
    PROVE  Table(f) = f
BY DEF Table

LEMMA NumOf ==
    ASSUME NEW n \in Nat, NEW f, DOMAIN f = 0 .. n - 1
    PROVE  Num(f) = n /\ IsFiniteSet(DOMAIN f)
BY FS_Interval DEF Num

\* The numbers of inputs and outputs of a circuit.
LEMMA CircuitNumbers ==
    ASSUME NEW N, IsCircuit(N)
    PROVE  /\ N.pi \in Nat /\ PoNum(N) \in Nat /\ LatNum(N) \in Nat
           /\ CiNum(N) \in Nat /\ CiNum(N) = N.pi + LatNum(N)
           /\ CoNum(N) \in Nat /\ CoNum(N) = PoNum(N) + LatNum(N)
           /\ DOMAIN N.po = 0 .. PoNum(N) - 1 /\ DOMAIN N.init = 0 .. LatNum(N) - 1
<1>1. N.pi \in Nat /\ Num(N.po) \in Nat /\ Num(N.init) \in Nat
    BY FS_CardinalityType DEF IsCircuit, Num
<1>2. DOMAIN N.po = 0 .. PoNum(N) - 1 /\ DOMAIN N.init = 0 .. LatNum(N) - 1
    BY DEF IsCircuit, Funcs, Ins
<1> QED BY <1>1, <1>2 DEF CiNum, CoNum, PoNum, LatNum

LEMMA MadeCircuit ==
    ASSUME NEW pi \in Nat, NEW l \in Nat, NEW p \in Nat, NEW N, N.pi = pi,
           N.init \in Ins(l), N.po \in Funcs(p, pi + l), N.next \in Funcs(l, pi + l)
    PROVE  IsCircuit(N) /\ LatNum(N) = l /\ PoNum(N) = p /\ CiNum(N) = pi + l
<1>1. DOMAIN N.init = 0 .. l - 1 /\ DOMAIN N.po = 0 .. p - 1
    BY DEF Ins, Funcs
<1>2. LatNum(N) = l /\ PoNum(N) = p /\ IsFiniteSet(DOMAIN N.init) /\ IsFiniteSet(DOMAIN N.po)
    BY <1>1, NumOf DEF LatNum, PoNum
<1>3. CiNum(N) = pi + l
    BY <1>2 DEF CiNum
<1> QED BY <1>2, <1>3 DEF IsCircuit

LEMMA NoFuncs == <<>> \in Ins(0) /\ \A n : <<>> \in Funcs(0, n)
BY DEF Ins, Funcs

LEMMA CombCircuit ==
    ASSUME NEW pi \in Nat, NEW p \in Nat, NEW po \in Funcs(p, pi)
    PROVE  /\ IsCircuit(Comb(pi, po)) /\ LatNum(Comb(pi, po)) = 0 /\ PoNum(Comb(pi, po)) = p
           /\ CiNum(Comb(pi, po)) = pi /\ Comb(pi, po).pi = pi /\ Comb(pi, po).po = po
<1> DEFINE N == Comb(pi, po)
<1>1. N.pi = pi /\ N.po = po /\ N.init = <<>> /\ N.next = <<>>
    BY DEF Comb
<1>2. pi + 0 = pi
    OBVIOUS
<1> HIDE DEF N
<1>3. IsCircuit(N) /\ LatNum(N) = 0 /\ PoNum(N) = p /\ CiNum(N) = pi + 0
    BY <1>1, <1>2, NoFuncs, MadeCircuit
<1> QED BY <1>1, <1>2, <1>3 DEF N

LEMMA NullCircuit == IsCircuit(NULL)
<1>1. NULL = Comb(0, <<>>)
    BY DEF NULL, Comb
<1> QED BY <1>1, NoFuncs, CombCircuit

LEMMA CoType ==
    ASSUME NEW N, IsCircuit(N)
    PROVE  Co(N) \in Funcs(CoNum(N), CiNum(N))
<1> DEFINE F == [Ins(CiNum(N)) -> BOOLEAN]
<1>1. N.po \in [0 .. PoNum(N) - 1 -> F] /\ N.next \in [0 .. LatNum(N) - 1 -> F]
    BY DEF IsCircuit, Funcs
<1> HIDE DEF F
<1>2. ASSUME NEW k \in 0 .. CoNum(N) - 1
      PROVE  (IF k < PoNum(N) THEN N.po[k] ELSE N.next[k - PoNum(N)]) \in F
    <2>1. PICK p \in Nat, l \in Nat : p = PoNum(N) /\ l = LatNum(N) /\ CoNum(N) = p + l
        BY CircuitNumbers
    <2>2. CASE k < p
        BY <1>1, <2>1, <2>2
    <2>3. CASE ~ (k < p)
        <3>1. k - p \in 0 .. l - 1
            BY <2>1, <2>3
        <3> QED BY <1>1, <2>1, <2>3, <3>1
    <2> QED BY <2>2, <2>3
<1> QED BY <1>2 DEF Co, Funcs, F

-----------------------------------------------------------------------------
(* Commands that keep the functions of a circuit                           *)

LEMMA ConeCircuit ==
    ASSUME NEW N, IsCircuit(N), NEW start \in Nat, NEW end \in Nat, aigConeAsserts(N, start, end)
    PROVE  IsCircuit(aigCone(N, start, end))
<1> DEFINE po(p) == [k \in 0 .. p - 1 |-> N.po[start + k]]
<1>1. PICK p \in Nat : p = end - start /\ start + p <= PoNum(N)
    BY CircuitNumbers DEF aigConeAsserts
<1>2. po(p) \in Funcs(p, CiNum(N))
    <2> DEFINE F == [Ins(CiNum(N)) -> BOOLEAN]
    <2>1. N.po \in [0 .. PoNum(N) - 1 -> F]
        BY DEF IsCircuit, Funcs
    <2>2. PoNum(N) \in Nat
        BY CircuitNumbers
    <2> HIDE DEF F
    <2>3. po(p) \in [0 .. p - 1 -> F]
        BY <1>1, <2>1, <2>2
    <2> QED BY <2>3 DEF Funcs, F
<1>3. aigCone(N, start, end) = Comb(CiNum(N), po(p))
    BY <1>1 DEF aigCone
<1> HIDE DEF po
<1> QED BY <1>2, <1>3, CombCircuit, CircuitNumbers

LEMMA ToCombCircuit ==
    ASSUME NEW N, IsCircuit(N), NEW mult \in Nat \ {0}
    PROVE  IsCircuit(aigToComb(N, mult)) /\ aigToComb(N, mult).pi % mult = 0 /\ LatNum(aigToComb(N, mult)) = 0
           /\ aigToComb(N, mult).pi >= CiNum(N) /\ PoNum(aigToComb(N, mult)) = CoNum(N)
<1> DEFINE n  == CiNum(N) % mult
           pi == CiNum(N) + (IF n = 0 THEN 0 ELSE mult - n)
           Old(v) == [c \in 0 .. CiNum(N) - 1 |-> v[c]]
           po == [k \in DOMAIN Co(N) |-> [v \in Ins(pi) |-> Co(N)[k][Old(v)]]]
<1>1. CiNum(N) \in Nat /\ CoNum(N) \in Nat
    BY CircuitNumbers
<1>2. pi \in Nat /\ pi >= CiNum(N) /\ pi % mult = 0
    <2> HIDE DEF pi, n
    <2>1. PICK x \in Nat : x = CiNum(N)
        BY <1>1
    <2>2. n \in 0 .. mult - 1 /\ x = (x \div mult) * mult + n /\ x \div mult \in Nat
        BY <2>1 DEF n
    <2>3. CASE n = 0
        <3>1. pi = x
            BY <2>1, <2>3 DEF pi
        <3> QED BY <2>1, <2>3, <3>1 DEF n
    <2>4. CASE n # 0
        <3>1. pi = x + (mult - n)
            BY <2>1, <2>4 DEF pi
        <3>2. pi = (x \div mult + 1) * mult + 0
            BY <3>1, <2>2
        <3>3. 0 \in 0 .. mult - 1 /\ x \div mult + 1 \in Nat
            BY <2>2
        <3>4. pi % mult = 0
            BY <3>2, <3>3, ItemOfFrame
        <3> QED BY <2>1, <2>2, <3>1, <3>4
    <2> QED BY <2>3, <2>4
<1>3. aigToComb(N, mult) = Comb(pi, po)
    BY DEF aigToComb
<1> HIDE DEF pi, n
<1>4. \A v \in Ins(pi) : Old(v) \in Ins(CiNum(N))
    BY <1>1, <1>2 DEF Ins
<1> HIDE DEF Old
<1>5. Co(N) \in [0 .. CoNum(N) - 1 -> [Ins(CiNum(N)) -> BOOLEAN]]
    BY CoType DEF Funcs
<1>6. po \in Funcs(CoNum(N), pi)
    BY <1>4, <1>5 DEF Funcs
<1> HIDE DEF po
<1> QED BY <1>1, <1>2, <1>3, <1>6, CombCircuit

\* The place of every input, when perm permutes them.
LEMMA PlaceOf ==
    ASSUME NEW n \in Nat, NEW perm \in Bijection(0 .. n - 1, 0 .. n - 1), NEW c \in 0 .. n - 1
    PROVE  /\ (CHOOSE i \in 0 .. n - 1 : perm[i] = c) \in 0 .. n - 1
           /\ perm[CHOOSE i \in 0 .. n - 1 : perm[i] = c] = c
           /\ \A i \in 0 .. n - 1 : perm[i] = c => (CHOOSE j \in 0 .. n - 1 : perm[j] = c) = i
<1>1. \E i \in 0 .. n - 1 : perm[i] = c
    BY DEF Bijection, Surjection
<1>2. \A i, j \in 0 .. n - 1 : perm[i] = perm[j] => i = j
    BY DEF Bijection, Injection, IsInjective
<1> QED BY <1>1, <1>2

\* The inputs v, each where perm has put it.
Back(n, perm, v) == [c \in 0 .. n - 1 |-> v[CHOOSE i \in 0 .. n - 1 : perm[i] = c]]

LEMMA PermCiShows ==
    ASSUME NEW N, IsCircuit(N), NEW perm \in Bijection(0 .. CiNum(N) - 1, 0 .. CiNum(N) - 1)
    PROVE  /\ IsCircuit(aigPermCi(N, perm)) /\ LatNum(aigPermCi(N, perm)) = 0
           /\ PoNum(aigPermCi(N, perm)) = CoNum(N) /\ CiNum(aigPermCi(N, perm)) = CiNum(N)
           /\ \A v \in Ins(CiNum(N)), k \in 0 .. CoNum(N) - 1 :
                 aigPermCi(N, perm).po[k][v] = Co(N)[k][Back(CiNum(N), perm, v)]
<1> DEFINE n == CiNum(N)
           Place == [c \in 0 .. n - 1 |-> CHOOSE i \in 0 .. n - 1 : perm[i] = c]
           po == [k \in DOMAIN Co(N) |-> [v \in Ins(n) |-> Co(N)[k][[c \in DOMAIN v |-> v[Place[c]]]]]]
<1>1. n \in Nat /\ CoNum(N) \in Nat
    BY CircuitNumbers
<1>2. aigPermCi(N, perm) = Comb(n, po)
    <2> DEFINE Body(pl) == Comb(n, [k \in DOMAIN Co(N) |-> [v \in Ins(n) |-> Co(N)[k][[c \in DOMAIN v |-> v[pl[c]]]]]])
    <2>1. aigPermCi(N, perm) = Body(Table(Place))
        BY Zenon DEF aigPermCi
    <2>2. Table(Place) = Place
        BY TableIs
    <2>3. Body(Place) = Comb(n, po)
        OBVIOUS
    <2> HIDE DEF Body, Place, po
    <2> QED BY <2>1, <2>2, <2>3
<1>3. \A v \in Ins(n) : [c \in DOMAIN v |-> v[Place[c]]] = Back(n, perm, v)
    BY DEF Ins, Back
<1>4. \A v \in Ins(n) : Back(n, perm, v) \in Ins(n)
    BY <1>1, PlaceOf DEF Ins, Back
<1>5. Co(N) \in [0 .. CoNum(N) - 1 -> [Ins(n) -> BOOLEAN]]
    BY CoType DEF Funcs
<1> HIDE DEF Place, n
<1>6. /\ DOMAIN po = 0 .. CoNum(N) - 1
      /\ \A k \in 0 .. CoNum(N) - 1 : po[k] = [v \in Ins(n) |-> Co(N)[k][Back(n, perm, v)]]
    BY <1>3, <1>5
<1>7. po \in Funcs(CoNum(N), n)
    BY <1>4, <1>5, <1>6 DEF Funcs
<1>8. \A v \in Ins(n), k \in 0 .. CoNum(N) - 1 : po[k][v] = Co(N)[k][Back(n, perm, v)]
    BY <1>6
<1> HIDE DEF po
<1>9. /\ IsCircuit(Comb(n, po)) /\ LatNum(Comb(n, po)) = 0 /\ PoNum(Comb(n, po)) = CoNum(N)
      /\ CiNum(Comb(n, po)) = n /\ Comb(n, po).po = po
    BY <1>1, <1>7, CombCircuit
<1> QED BY <1>2, <1>8, <1>9 DEF n

LEMMA PermCoCircuit ==
    ASSUME NEW N, IsCircuit(N), NEW perm \in Bijection(DOMAIN N.po, DOMAIN N.po)
    PROVE  IsCircuit(aigPermCo(N, perm))
<1> DEFINE P == aigPermCo(N, perm)
<1>1. P.pi = N.pi /\ P.init = N.init /\ P.next = N.next /\ P.po = [i \in DOMAIN N.po |-> N.po[perm[i]]]
    BY DEF aigPermCo, IsCircuit
<1>2. perm \in [0 .. PoNum(N) - 1 -> 0 .. PoNum(N) - 1] /\ DOMAIN N.po = 0 .. PoNum(N) - 1
    BY CircuitNumbers DEF Bijection, Injection
<1>3. P.po \in Funcs(PoNum(N), CiNum(N))
    BY <1>1, <1>2 DEF IsCircuit, Funcs
<1> HIDE DEF P
<1>4. IsCircuit(P)
    BY <1>1, <1>3, CircuitNumbers, MadeCircuit DEF IsCircuit
<1> QED BY <1>4 DEF P

-----------------------------------------------------------------------------
(* Frames                                                                  *)

\* The Cis of frame t, when the latches are l.
CisAt(N, t, v, l) == [c \in 0 .. CiNum(N) - 1 |-> IF c < N.pi THEN v[t * N.pi + c] ELSE l[c - N.pi]]

\* The latches after the Cis u.
After(N, u) == [l \in DOMAIN N.init |-> N.next[l][u]]

LEMMA CisAtType ==
    ASSUME NEW N, IsCircuit(N), NEW T \in Nat, NEW t \in 0 .. T - 1, NEW v \in Ins(T * N.pi),
           NEW l \in Ins(LatNum(N))
    PROVE  CisAt(N, t, v, l) \in Ins(CiNum(N))
<1>1. PICK p \in Nat, m \in Nat : p = N.pi /\ m = LatNum(N) /\ CiNum(N) = p + m
    BY CircuitNumbers
<1>2. ASSUME NEW c \in 0 .. CiNum(N) - 1
      PROVE  (IF c < N.pi THEN v[t * N.pi + c] ELSE l[c - N.pi]) \in BOOLEAN
    <2>1. CASE c < p
        <3>1. c \in 0 .. p - 1
            BY <1>1, <2>1
        <3>2. t * p + c \in 0 .. T * p - 1
            BY <3>1, ItemInRange
        <3> QED BY <1>1, <2>1, <3>2 DEF Ins
    <2>2. CASE ~ (c < p)
        <3>1. c - p \in 0 .. m - 1
            BY <1>1, <2>2
        <3> QED BY <1>1, <2>2, <3>1 DEF Ins
    <2> QED BY <1>1, <2>1, <2>2
<1> QED BY <1>2 DEF CisAt, Ins

LEMMA AfterType ==
    ASSUME NEW N, IsCircuit(N), NEW u \in Ins(CiNum(N))
    PROVE  After(N, u) \in Ins(LatNum(N))
<1>1. N.next \in [0 .. LatNum(N) - 1 -> [Ins(CiNum(N)) -> BOOLEAN]]
    BY DEF IsCircuit, Funcs
<1>2. DOMAIN N.init = 0 .. LatNum(N) - 1
    BY CircuitNumbers
<1>3. [l \in 0 .. LatNum(N) - 1 |-> N.next[l][u]] \in [0 .. LatNum(N) - 1 -> BOOLEAN]
    BY <1>1
<1> QED BY <1>2, <1>3 DEF After, Ins

\* run is what the Cis of T frames are under the inputs v.
IsRun(N, T, v, run) ==
    /\ run \in [0 .. T - 1 -> Ins(CiNum(N))]
    /\ run[0] = CisAt(N, 0, v, N.init)
    /\ \A t \in 1 .. T - 1 : run[t] = CisAt(N, t, v, After(N, run[t - 1]))

LEMMA RunExists ==
    ASSUME NEW N, IsCircuit(N), NEW T \in Nat \ {0}, NEW v \in Ins(T * N.pi)
    PROVE  \E run : IsRun(N, T, v, run)
<1> DEFINE V == Ins(CiNum(N))
           base == CisAt(N, 0, v, N.init)
           G == [t \in 1 .. T - 1 |-> [u \in V |-> CisAt(N, t, v, After(N, u))]]
<1>1. 0 \in 0 .. T - 1 /\ N.init \in Ins(LatNum(N)) /\ \A t \in 1 .. T - 1 : t \in 0 .. T - 1
    BY DEF IsCircuit
<1>2. base \in V
    BY <1>1, CisAtType
<1>3. \A t \in 1 .. T - 1, u \in V : CisAt(N, t, v, After(N, u)) \in V
    BY <1>1, AfterType, CisAtType
<1> HIDE DEF V, base
<1>4. \A t \in 1 .. T - 1, u \in V : G[t][u] \in V /\ G[t][u] = CisAt(N, t, v, After(N, u))
    BY <1>3
<1> HIDE DEF G
<1>5. PICK f \in [0 .. T - 1 -> V] : f[0] = base /\ \A k \in 1 .. T - 1 : f[k] = G[k][f[k - 1]]
    <2>1. PICK n \in Nat : n = T - 1
        OBVIOUS
    <2>2. StepsIn(G, n, V)
        BY <1>4, <2>1 DEF StepsIn
    <2>3. \E f : CountedBy(f, V, n, base, G)
        BY <1>2, <2>2, CountedExists
    <2> QED BY <2>1, <2>3 DEF CountedBy
<1>6. \A k \in 1 .. T - 1 : f[k] = CisAt(N, k, v, After(N, f[k - 1]))
    <2>1. \A k \in 1 .. T - 1 : k \in 0 .. T - 1 /\ k - 1 \in 0 .. T - 1
        OBVIOUS
    <2> QED BY <1>4, <1>5, <2>1
<1> QED BY <1>5, <1>6 DEF IsRun, V, base

LEMMA RunUnique ==
    ASSUME NEW N, NEW T \in Nat \ {0}, NEW v, NEW f, IsRun(N, T, v, f), NEW g, DOMAIN g = 0 .. T - 1,
           g[0] = CisAt(N, 0, v, N.init), \A t \in 1 .. T - 1 : g[t] = CisAt(N, t, v, After(N, g[t - 1]))
    PROVE  \A t \in 0 .. T - 1 : g[t] = f[t]
<1> DEFINE Bad == {t \in 0 .. T - 1 : g[t] # f[t]}
<1>1. 0 \notin Bad /\ \A k \in 1 .. T - 1 : k - 1 \notin Bad => k \notin Bad
    <2>1. 0 \notin Bad
        BY DEF IsRun
    <2>2. ASSUME NEW k \in 1 .. T - 1, k - 1 \notin Bad PROVE k \notin Bad
        <3>1. g[k - 1] = f[k - 1]
            BY <2>2
        <3> QED BY <3>1 DEF IsRun
    <2> QED BY <2>1, <2>2
<1>2. Bad = {}
    <2>1. Bad \in SUBSET (0 .. T - 1) /\ T - 1 \in Nat
        OBVIOUS
    <2> HIDE DEF Bad
    <2> QED BY <1>1, <2>1, FirstFailure
<1> QED BY <1>2

\* The expanded circuit shows in every frame what the circuit shows there.
LEMMA FramesShow ==
    ASSUME NEW N, IsCircuit(N), NEW T \in Nat \ {0}
    PROVE  /\ IsCircuit(Frames(N, T)) /\ LatNum(Frames(N, T)) = 0
           /\ PoNum(Frames(N, T)) = T * PoNum(N) /\ CiNum(Frames(N, T)) = T * N.pi
           /\ \A run : \A v \in Ins(T * N.pi) : IsRun(N, T, v, run) =>
                 \A t \in 0 .. T - 1, k \in 0 .. PoNum(N) - 1 :
                     Frames(N, T).po[t * PoNum(N) + k][v] = N.po[k][run[t]]
<1> DEFINE n == T * N.pi
           P == T * PoNum(N)
           Cis(v, t, l) == Table([c \in 0 .. CiNum(N) - 1 |-> IF c < N.pi THEN v[t * N.pi + c] ELSE l[c - N.pi]])
           Equation(v, g) == g = [t \in 0 .. T - 1 |->
                                     IF t = 0 THEN Cis(v, 0, N.init)
                                     ELSE LET u == g[t - 1] IN Cis(v, t, Table([l \in DOMAIN N.init |-> N.next[l][u]]))]
           z(v) == CHOOSE g : Equation(v, g)
           RunCos(v) == Table([j \in 0 .. P - 1 |-> N.po[j % PoNum(N)][z(v)[j \div PoNum(N)]]])
           runs == Table([v \in Ins(n) |-> RunCos(v)])
           po == [j \in 0 .. P - 1 |-> [v \in Ins(n) |-> runs[v][j]]]
<1>1. Frames(N, T) = Comb(n, po)
    BY Zenon DEF Frames
<1>2. n \in Nat /\ P \in Nat /\ PoNum(N) \in Nat
    BY CircuitNumbers
<1>3. \A v, t, l : Cis(v, t, l) = CisAt(N, t, v, l)
    BY TableIs DEF CisAt
<1>4. \A u : Table([l \in DOMAIN N.init |-> N.next[l][u]]) = After(N, u)
    BY TableIs DEF After
<1> HIDE DEF Cis
<1>5. ASSUME NEW v, NEW g
      PROVE  Equation(v, g) <=> g = [t \in 0 .. T - 1 |->
                 IF t = 0 THEN CisAt(N, 0, v, N.init) ELSE CisAt(N, t, v, After(N, g[t - 1]))]
    BY <1>3, <1>4
<1> HIDE DEF Equation
<1>6. ASSUME NEW v \in Ins(n) PROVE IsRun(N, T, v, z(v))
    <2> DEFINE Body(g) == [t \in 0 .. T - 1 |->
                   IF t = 0 THEN CisAt(N, 0, v, N.init) ELSE CisAt(N, t, v, After(N, g[t - 1]))]
    <2>1. PICK f : IsRun(N, T, v, f)
        BY RunExists
    <2>2. Equation(v, f)
        <3>1. \A t \in 0 .. T - 1 :
                  f[t] = IF t = 0 THEN CisAt(N, 0, v, N.init) ELSE CisAt(N, t, v, After(N, f[t - 1]))
            <4>1. \A t \in 0 .. T - 1 : t = 0 \/ t \in 1 .. T - 1
                OBVIOUS
            <4> QED BY <2>1, <4>1 DEF IsRun
        <3>2. f = Body(f)
            <4>1. f = [t \in 0 .. T - 1 |-> f[t]]
                BY <2>1 DEF IsRun
            <4> QED BY <3>1, <4>1
        <3> QED BY <1>5, <3>2
    <2>3. Equation(v, z(v))
        BY <2>2, Zenon
    <2> HIDE DEF z
    <2>4. z(v) = Body(z(v))
        BY <1>5, <2>3
    <2>5. /\ DOMAIN z(v) = 0 .. T - 1 /\ z(v)[0] = CisAt(N, 0, v, N.init)
          /\ \A t \in 1 .. T - 1 : z(v)[t] = CisAt(N, t, v, After(N, z(v)[t - 1]))
        <3>1. \A t \in 0 .. T - 1 : z(v)[t] =
                  IF t = 0 THEN CisAt(N, 0, v, N.init) ELSE CisAt(N, t, v, After(N, z(v)[t - 1]))
            BY <2>4
        <3>2. DOMAIN z(v) = 0 .. T - 1
            BY <2>4
        <3>3. 0 \in 0 .. T - 1 /\ \A t \in 1 .. T - 1 : t \in 0 .. T - 1 /\ t # 0
            OBVIOUS
        <3> QED BY <3>1, <3>2, <3>3
    <2>6. \A t \in 0 .. T - 1 : z(v)[t] = f[t]
        BY <2>1, <2>5, RunUnique
    <2>7. z(v) = f
        <3>1. z(v) = [t \in 0 .. T - 1 |-> z(v)[t]]
            BY <2>4
        <3>2. f = [t \in 0 .. T - 1 |-> f[t]]
            BY <2>1 DEF IsRun
        <3> QED BY <2>6, <3>1, <3>2
    <2> QED BY <2>1, <2>7
<1> HIDE DEF z, n, P
<1>7. ASSUME NEW v \in Ins(n), NEW j \in 0 .. P - 1
      PROVE  po[j][v] = N.po[j % PoNum(N)][z(v)[j \div PoNum(N)]]
    <2>1. runs[v] = RunCos(v)
        <3> DEFINE g == [x \in Ins(n) |-> RunCos(x)]
        <3>1. runs = g
            BY TableIs
        <3> HIDE DEF RunCos, runs
        <3>2. g[v] = RunCos(v)
            OBVIOUS
        <3> QED BY <3>1, <3>2
    <2>2. RunCos(v)[j] = N.po[j % PoNum(N)][z(v)[j \div PoNum(N)]]
        <3> DEFINE h == [x \in 0 .. P - 1 |-> N.po[x % PoNum(N)][z(v)[x \div PoNum(N)]]]
        <3>1. RunCos(v) = h
            BY TableIs
        <3> HIDE DEF RunCos
        <3> QED BY <3>1
    <2> HIDE DEF runs, RunCos
    <2> QED BY <2>1, <2>2
<1>8. po \in Funcs(P, n)
    <2>1. ASSUME NEW v \in Ins(n), NEW j \in 0 .. P - 1 PROVE po[j][v] \in BOOLEAN
        <3>1. j % PoNum(N) \in 0 .. PoNum(N) - 1 /\ j \div PoNum(N) \in 0 .. T - 1
            BY <1>2, FrameAndItem DEF P
        <3>2. z(v)[j \div PoNum(N)] \in Ins(CiNum(N))
            BY <1>6, <3>1 DEF IsRun
        <3>3. N.po[j % PoNum(N)] \in [Ins(CiNum(N)) -> BOOLEAN]
            BY <3>1 DEF IsCircuit, Funcs
        <3> QED BY <1>7, <3>2, <3>3
    <2> HIDE DEF runs
    <2> QED BY <2>1 DEF Funcs
<1>9. ASSUME NEW v \in Ins(n), NEW run, IsRun(N, T, v, run), NEW t \in 0 .. T - 1, NEW k \in 0 .. PoNum(N) - 1
      PROVE  po[t * PoNum(N) + k][v] = N.po[k][run[t]]
    <2>1. /\ t * PoNum(N) + k \in 0 .. P - 1
          /\ (t * PoNum(N) + k) \div PoNum(N) = t /\ (t * PoNum(N) + k) % PoNum(N) = k
        <3>1. PICK p \in Nat : p = PoNum(N)
            BY <1>2
        <3>2. t * p + k \in 0 .. T * p - 1
            BY <3>1, ItemInRange
        <3>3. t \in Nat /\ k \in 0 .. p - 1
            BY <3>1
        <3>4. (t * p + k) \div p = t /\ (t * p + k) % p = k
            BY <3>3, ItemOfFrame, Zenon
        <3> QED BY <3>1, <3>2, <3>4 DEF P
    <2>2. z(v)[t] = run[t]
        <3>1. IsRun(N, T, v, z(v))
            BY <1>6
        <3> HIDE DEF po
        <3>2. PICK g : g = z(v)
            OBVIOUS
        <3>3. DOMAIN g = 0 .. T - 1 /\ g[0] = CisAt(N, 0, v, N.init)
              /\ \A x \in 1 .. T - 1 : g[x] = CisAt(N, x, v, After(N, g[x - 1]))
            BY <3>1, <3>2 DEF IsRun
        <3>4. g[t] = run[t]
            BY <1>9, <3>3, RunUnique
        <3> QED BY <3>2, <3>4
    <2> HIDE DEF po
    <2> QED BY <1>7, <2>1, <2>2
<1> HIDE DEF po
<1>10. /\ IsCircuit(Comb(n, po)) /\ LatNum(Comb(n, po)) = 0 /\ PoNum(Comb(n, po)) = P
       /\ CiNum(Comb(n, po)) = n /\ Comb(n, po).po = po
    BY <1>2, <1>8, CombCircuit
<1> QED BY <1>1, <1>9, <1>10 DEF n, P

-----------------------------------------------------------------------------
(* Merged circuits                                                         *)

\* The Cis of X, when its inputs are the first of pi and its latches are
\* numbered from first.
Shared(X, pi, first, u) ==
    [c \in 0 .. CiNum(X) - 1 |-> IF c < X.pi THEN u[c] ELSE u[pi + first + c - X.pi]]

\* X is the part of A with the latches from first and the outputs from out.
SitsIn(A, X, first, from) ==
    /\ IsCircuit(A) /\ IsCircuit(X) /\ X.pi <= A.pi
    /\ first \in Nat /\ first + LatNum(X) <= LatNum(A)
    /\ from \in Nat /\ from + PoNum(X) <= PoNum(A)
    /\ \A l \in 0 .. LatNum(X) - 1 : A.init[first + l] = X.init[l]
    /\ \A u \in Ins(CiNum(A)) :
          /\ \A k \in 0 .. PoNum(X) - 1 : A.po[from + k][u] = X.po[k][Shared(X, A.pi, first, u)]
          /\ \A l \in 0 .. LatNum(X) - 1 : A.next[first + l][u] = X.next[l][Shared(X, A.pi, first, u)]

LEMMA SharedType ==
    ASSUME NEW A, NEW X, IsCircuit(A), IsCircuit(X), X.pi <= A.pi,
           NEW first \in Nat, first + LatNum(X) <= LatNum(A), NEW u \in Ins(CiNum(A))
    PROVE  Shared(X, A.pi, first, u) \in Ins(CiNum(X))
<1>1. PICK p \in Nat, m \in Nat, q \in Nat, n \in Nat :
          /\ p = X.pi /\ m = LatNum(X) /\ CiNum(X) = p + m
          /\ q = A.pi /\ n = LatNum(A) /\ CiNum(A) = q + n
    BY CircuitNumbers
<1>2. p <= q /\ first + m <= n
    BY <1>1
<1>3. u \in [0 .. (q + n) - 1 -> BOOLEAN]
    BY <1>1 DEF Ins
<1>4. \A c \in 0 .. (p + m) - 1 : (IF c < p THEN u[c] ELSE u[q + first + c - p]) \in BOOLEAN
    <2>1. \A c \in 0 .. (p + m) - 1 : c < p => c \in 0 .. (q + n) - 1
        BY <1>2
    <2>2. \A c \in 0 .. (p + m) - 1 : ~ (c < p) => q + first + c - p \in 0 .. (q + n) - 1
        BY <1>2
    <2> QED BY <1>3, <2>1, <2>2
<1>5. [c \in 0 .. (p + m) - 1 |-> IF c < p THEN u[c] ELSE u[q + first + c - p]] \in [0 .. (p + m) - 1 -> BOOLEAN]
    BY <1>4
<1> QED BY <1>1, <1>5 DEF Shared, Ins

LEMMA CisOfIs == \A X, pi, first, u : CisOf(X, pi, first, u) = Shared(X, pi, first, u)
BY TableIs DEF CisOf, Shared

\* What Both of aigMerge makes of m functions f and n functions g.
BothOf(M, N, pi, m, n, f, g) ==
    Table([k \in 0 .. m + n - 1 |-> Table([u \in Ins(pi + (LatNum(M) + LatNum(N))) |->
        IF k < m THEN f[k][CisOf(M, pi, 0, u)] ELSE g[k - m][CisOf(N, pi, LatNum(M), u)]])])

BothRight(B, M, N, pi, m, n, f, g) ==
    /\ B \in Funcs(m + n, pi + (LatNum(M) + LatNum(N)))
    /\ \A u \in Ins(pi + (LatNum(M) + LatNum(N))) :
          /\ \A k \in 0 .. m - 1 : B[k][u] = f[k][Shared(M, pi, 0, u)]
          /\ \A k \in 0 .. n - 1 : B[m + k][u] = g[k][Shared(N, pi, LatNum(M), u)]

LEMMA BothShows ==
    ASSUME NEW M, NEW N, IsCircuit(M), IsCircuit(N), NEW pi \in Nat, M.pi <= pi, N.pi <= pi,
           NEW m \in Nat, NEW n \in Nat, NEW f \in Funcs(m, CiNum(M)), NEW g \in Funcs(n, CiNum(N))
    PROVE  BothRight(BothOf(M, N, pi, m, n, f, g), M, N, pi, m, n, f, g)
<1> DEFINE I == Ins(pi + (LatNum(M) + LatNum(N)))
           CoValue(k, u) == IF k < m THEN f[k][Shared(M, pi, 0, u)] ELSE g[k - m][Shared(N, pi, LatNum(M), u)]
           B == [k \in 0 .. m + n - 1 |-> [u \in I |-> CoValue(k, u)]]
<1>1. BothOf(M, N, pi, m, n, f, g) = B
    <2> DEFINE Row(k) == [u \in I |-> IF k < m THEN f[k][CisOf(M, pi, 0, u)] ELSE g[k - m][CisOf(N, pi, LatNum(M), u)]]
    <2>1. BothOf(M, N, pi, m, n, f, g) = [k \in 0 .. m + n - 1 |-> Table(Row(k))]
        BY TableIs DEF BothOf
    <2>2. \A k : Row(k) = [u \in I |-> CoValue(k, u)]
        BY CisOfIs
    <2> HIDE DEF Row, I, CoValue
    <2>3. \A k : Table(Row(k)) = [u \in I |-> CoValue(k, u)]
        BY <2>2, TableIs
    <2> QED BY <2>1, <2>3
<1>2. \A u \in I : Shared(M, pi, 0, u) \in Ins(CiNum(M)) /\ Shared(N, pi, LatNum(M), u) \in Ins(CiNum(N))
    <2>1. PICK p \in Nat, a \in Nat, q \in Nat, b \in Nat :
              /\ p = M.pi /\ a = LatNum(M) /\ CiNum(M) = p + a
              /\ q = N.pi /\ b = LatNum(N) /\ CiNum(N) = q + b
        BY CircuitNumbers
    <2>2. ASSUME NEW u \in [0 .. (pi + (a + b)) - 1 -> BOOLEAN]
          PROVE  /\ [c \in 0 .. (p + a) - 1 |-> IF c < p THEN u[c] ELSE u[pi + 0 + c - p]]
                        \in [0 .. (p + a) - 1 -> BOOLEAN]
                 /\ [c \in 0 .. (q + b) - 1 |-> IF c < q THEN u[c] ELSE u[pi + a + c - q]]
                        \in [0 .. (q + b) - 1 -> BOOLEAN]
        <3>0. p <= pi /\ q <= pi
            BY <2>1
        <3>1. \A c \in 0 .. (p + a) - 1 :
                  /\ c < p => c \in 0 .. (pi + (a + b)) - 1
                  /\ ~ (c < p) => pi + 0 + c - p \in 0 .. (pi + (a + b)) - 1
            BY <3>0
        <3>2. \A c \in 0 .. (q + b) - 1 :
                  /\ c < q => c \in 0 .. (pi + (a + b)) - 1
                  /\ ~ (c < q) => pi + a + c - q \in 0 .. (pi + (a + b)) - 1
            BY <3>0
        <3>3. \A c \in 0 .. (p + a) - 1 : (IF c < p THEN u[c] ELSE u[pi + 0 + c - p]) \in BOOLEAN
            BY <3>1
        <3>4. \A c \in 0 .. (q + b) - 1 : (IF c < q THEN u[c] ELSE u[pi + a + c - q]) \in BOOLEAN
            BY <3>2
        <3> QED BY <3>3, <3>4
    <2> SUFFICES ASSUME NEW u \in I
                 PROVE  Shared(M, pi, 0, u) \in Ins(CiNum(M)) /\ Shared(N, pi, LatNum(M), u) \in Ins(CiNum(N))
        OBVIOUS
    <2>3. u \in [0 .. (pi + (a + b)) - 1 -> BOOLEAN]
        BY <2>1 DEF Ins
    <2>4. /\ Shared(M, pi, 0, u) = [c \in 0 .. (p + a) - 1 |-> IF c < p THEN u[c] ELSE u[pi + 0 + c - p]]
          /\ Shared(N, pi, LatNum(M), u) = [c \in 0 .. (q + b) - 1 |-> IF c < q THEN u[c] ELSE u[pi + a + c - q]]
        BY <2>1 DEF Shared
    <2>5. Shared(M, pi, 0, u) \in [0 .. (p + a) - 1 -> BOOLEAN] /\ Shared(N, pi, LatNum(M), u) \in [0 .. (q + b) - 1 -> BOOLEAN]
        BY <2>2, <2>3, <2>4, Zenon
    <2> QED BY <2>1, <2>5 DEF Ins
<1> HIDE DEF I
<1>3. \A k \in 0 .. m + n - 1 : \A u \in I : CoValue(k, u) \in BOOLEAN
    <2>1. f \in [0 .. m - 1 -> [Ins(CiNum(M)) -> BOOLEAN]] /\ g \in [0 .. n - 1 -> [Ins(CiNum(N)) -> BOOLEAN]]
        BY DEF Funcs
    <2>2. ASSUME NEW k \in 0 .. m + n - 1, NEW u \in I PROVE CoValue(k, u) \in BOOLEAN
        <3>1. CASE k < m
            <4>1. k \in 0 .. m - 1 /\ CoValue(k, u) = f[k][Shared(M, pi, 0, u)]
                BY <3>1
            <4> HIDE DEF CoValue
            <4> QED BY <1>2, <2>1, <4>1
        <3>2. CASE ~ (k < m)
            <4>1. k - m \in 0 .. n - 1 /\ CoValue(k, u) = g[k - m][Shared(N, pi, LatNum(M), u)]
                BY <3>2
            <4> HIDE DEF CoValue
            <4> QED BY <1>2, <2>1, <4>1
        <3> QED BY <3>1, <3>2
    <2> QED BY <2>2
<1>4. \A k \in 0 .. m - 1 : k \in 0 .. m + n - 1 /\ \A u : CoValue(k, u) = f[k][Shared(M, pi, 0, u)]
    OBVIOUS
<1>5. \A k \in 0 .. n - 1 : m + k \in 0 .. m + n - 1 /\ \A u : CoValue(m + k, u) = g[k][Shared(N, pi, LatNum(M), u)]
    <2>1. \A k \in 0 .. n - 1 : m + k \in 0 .. m + n - 1 /\ ~ (m + k < m) /\ (m + k) - m = k
        OBVIOUS
    <2> QED BY <2>1
<1> HIDE DEF CoValue
<1>6. B \in [0 .. (m + n) - 1 -> [I -> BOOLEAN]]
    BY <1>3
<1>7. \A k \in 0 .. m + n - 1, u \in I : B[k][u] = CoValue(k, u)
    OBVIOUS
<1> HIDE DEF B
<1> QED BY <1>1, <1>4, <1>5, <1>6, <1>7 DEF Funcs, I, BothRight

\* aigMerge sets the two circuits side by side.
LEMMA MergeContains ==
    ASSUME NEW M, NEW N, IsCircuit(M), IsCircuit(N)
    PROVE  /\ IsCircuit(aigMerge(M, N))
           /\ SitsIn(aigMerge(M, N), M, 0, 0)
           /\ SitsIn(aigMerge(M, N), N, LatNum(M), PoNum(M))
<1> DEFINE A   == aigMerge(M, N)
           pi  == IF M.pi > N.pi THEN M.pi ELSE N.pi
           lat == LatNum(M) + LatNum(N)
<1>1. /\ A.pi = pi
      /\ A.init = [l \in 0 .. lat - 1 |-> IF l < LatNum(M) THEN M.init[l] ELSE N.init[l - LatNum(M)]]
      /\ A.po = BothOf(M, N, pi, PoNum(M), PoNum(N), M.po, N.po)
      /\ A.next = BothOf(M, N, pi, LatNum(M), LatNum(N), M.next, N.next)
    BY DEF aigMerge, BothOf
<1>2. PICK p \in Nat, a \in Nat, s \in Nat, q \in Nat, b \in Nat, t \in Nat :
          /\ p = M.pi /\ a = LatNum(M) /\ s = PoNum(M)
          /\ q = N.pi /\ b = LatNum(N) /\ t = PoNum(N)
    BY CircuitNumbers
<1>3. pi \in Nat /\ M.pi <= pi /\ N.pi <= pi
    BY <1>2
<1>4. /\ M.po \in Funcs(PoNum(M), CiNum(M)) /\ M.next \in Funcs(LatNum(M), CiNum(M))
      /\ N.po \in Funcs(PoNum(N), CiNum(N)) /\ N.next \in Funcs(LatNum(N), CiNum(N))
      /\ PoNum(M) \in Nat /\ PoNum(N) \in Nat /\ LatNum(M) \in Nat /\ LatNum(N) \in Nat
    BY CircuitNumbers DEF IsCircuit
<1> HIDE DEF A, pi
<1>5. /\ A.po \in Funcs(s + t, pi + lat)
      /\ \A u \in Ins(pi + lat) :
            /\ \A k \in 0 .. s - 1 : A.po[k][u] = M.po[k][Shared(M, pi, 0, u)]
            /\ \A k \in 0 .. t - 1 : A.po[s + k][u] = N.po[k][Shared(N, pi, a, u)]
    <2> DEFINE B == BothOf(M, N, pi, PoNum(M), PoNum(N), M.po, N.po)
    <2>1. BothRight(B, M, N, pi, PoNum(M), PoNum(N), M.po, N.po)
        BY <1>3, <1>4, BothShows
    <2>2. A.po = B
        BY <1>1
    <2> HIDE DEF B
    <2> QED BY <1>2, <2>1, <2>2 DEF BothRight
<1>6. /\ A.next \in Funcs(a + b, pi + lat)
      /\ \A u \in Ins(pi + lat) :
            /\ \A k \in 0 .. a - 1 : A.next[k][u] = M.next[k][Shared(M, pi, 0, u)]
            /\ \A k \in 0 .. b - 1 : A.next[a + k][u] = N.next[k][Shared(N, pi, a, u)]
    <2> DEFINE B == BothOf(M, N, pi, LatNum(M), LatNum(N), M.next, N.next)
    <2>1. BothRight(B, M, N, pi, LatNum(M), LatNum(N), M.next, N.next)
        BY <1>3, <1>4, BothShows
    <2>2. A.next = B
        BY <1>1
    <2> HIDE DEF B
    <2> QED BY <1>2, <2>1, <2>2 DEF BothRight
<1>7. /\ A.init \in Ins(a + b)
      /\ \A l \in 0 .. a - 1 : A.init[l] = M.init[l]
      /\ \A l \in 0 .. b - 1 : A.init[a + l] = N.init[l]
    <2>1. A.init = [l \in 0 .. (a + b) - 1 |-> IF l < a THEN M.init[l] ELSE N.init[l - a]]
        BY <1>1, <1>2
    <2>2. M.init \in [0 .. a - 1 -> BOOLEAN] /\ N.init \in [0 .. b - 1 -> BOOLEAN]
        BY <1>2 DEF IsCircuit, Ins
    <2>3. \A l \in 0 .. (a + b) - 1 : (l < a => l \in 0 .. a - 1) /\ (~ (l < a) => l - a \in 0 .. b - 1)
        OBVIOUS
    <2>4. A.init \in [0 .. (a + b) - 1 -> BOOLEAN]
        BY <2>1, <2>2, <2>3
    <2>5. \A l \in 0 .. a - 1 : A.init[l] = M.init[l]
        BY <2>1
    <2>6. \A l \in 0 .. b - 1 : a + l \in 0 .. (a + b) - 1 /\ ~ (a + l < a) /\ (a + l) - a = l
        OBVIOUS
    <2>7. \A l \in 0 .. b - 1 : A.init[a + l] = N.init[l]
        BY <2>1, <2>6
    <2> QED BY <2>4, <2>5, <2>7 DEF Ins
<1>8. lat = a + b
    BY <1>2
<1> HIDE DEF lat
<1>9. IsCircuit(A) /\ LatNum(A) = a + b /\ PoNum(A) = s + t /\ CiNum(A) = pi + (a + b)
    <2>1. a + b \in Nat /\ s + t \in Nat
        OBVIOUS
    <2> QED BY <1>1, <1>3, <1>5, <1>6, <1>7, <1>8, <2>1, MadeCircuit
<1>10. SitsIn(A, M, 0, 0)
    <2>1. \A k : k \in Nat => 0 + k = k
        OBVIOUS
    <2>2. \A l \in 0 .. LatNum(M) - 1 : A.init[0 + l] = M.init[l]
        BY <1>2, <1>7, <2>1
    <2>3. \A u \in Ins(CiNum(A)) :
              /\ \A k \in 0 .. PoNum(M) - 1 : A.po[0 + k][u] = M.po[k][Shared(M, A.pi, 0, u)]
              /\ \A l \in 0 .. LatNum(M) - 1 : A.next[0 + l][u] = M.next[l][Shared(M, A.pi, 0, u)]
        <3>1. \A u \in Ins(CiNum(A)) :
                  /\ \A k \in 0 .. PoNum(M) - 1 : A.po[k][u] = M.po[k][Shared(M, A.pi, 0, u)]
                  /\ \A l \in 0 .. LatNum(M) - 1 : A.next[l][u] = M.next[l][Shared(M, A.pi, 0, u)]
            BY <1>1, <1>2, <1>5, <1>6, <1>8, <1>9
        <3>2. \A x : \A k \in 0 .. x - 1 : 0 + k = k
            OBVIOUS
        <3> QED BY <3>1, <3>2
    <2>4. M.pi <= A.pi /\ 0 + LatNum(M) <= LatNum(A) /\ 0 + PoNum(M) <= PoNum(A)
        <3>1. M.pi <= A.pi
            BY <1>1, <1>2, <1>3
        <3>2. 0 + a <= a + b /\ 0 + s <= s + t
            OBVIOUS
        <3> QED BY <1>2, <1>9, <3>1, <3>2
    <2> QED BY <1>9, <2>2, <2>3, <2>4 DEF SitsIn
<1>11. SitsIn(A, N, LatNum(M), PoNum(M))
    <2>1. \A u \in Ins(CiNum(A)) :
              /\ \A k \in 0 .. PoNum(N) - 1 : A.po[PoNum(M) + k][u] = N.po[k][Shared(N, A.pi, LatNum(M), u)]
              /\ \A l \in 0 .. LatNum(N) - 1 : A.next[LatNum(M) + l][u] = N.next[l][Shared(N, A.pi, LatNum(M), u)]
        BY <1>1, <1>2, <1>5, <1>6, <1>8, <1>9
    <2>2. /\ N.pi <= A.pi /\ LatNum(M) + LatNum(N) <= LatNum(A) /\ PoNum(M) + PoNum(N) <= PoNum(A)
          /\ LatNum(M) \in Nat /\ PoNum(M) \in Nat
        BY <1>1, <1>2, <1>3, <1>9
    <2>3. \A l \in 0 .. LatNum(N) - 1 : A.init[LatNum(M) + l] = N.init[l]
        BY <1>2, <1>7
    <2> QED BY <1>9, <2>1, <2>2, <2>3 DEF SitsIn
<1> QED BY <1>9, <1>10, <1>11 DEF A

\* The inputs of X in T frames of a circuit with pi inputs per frame.
AloneIn(X, T, pi, v) == [c \in 0 .. T * X.pi - 1 |-> v[(c \div X.pi) * pi + (c % X.pi)]]

LEMMA AloneType ==
    ASSUME NEW A, NEW X, IsCircuit(A), IsCircuit(X), X.pi <= A.pi, NEW T \in Nat, NEW v \in Ins(T * A.pi)
    PROVE  /\ AloneIn(X, T, A.pi, v) \in Ins(T * X.pi)
           /\ \A t \in 0 .. T - 1, c \in 0 .. X.pi - 1 :
                 AloneIn(X, T, A.pi, v)[t * X.pi + c] = v[t * A.pi + c]
<1>1. PICK p \in Nat, q \in Nat : p = X.pi /\ q = A.pi /\ p <= q
    BY CircuitNumbers
<1> DEFINE w == [c \in 0 .. T * p - 1 |-> v[(c \div p) * q + (c % p)]]
<1>2. AloneIn(X, T, A.pi, v) = w
    BY <1>1 DEF AloneIn
<1>3. v \in [0 .. T * q - 1 -> BOOLEAN]
    BY <1>1 DEF Ins
<1>4. ASSUME NEW c \in 0 .. T * p - 1 PROVE v[(c \div p) * q + (c % p)] \in BOOLEAN
    <2>1. c \div p \in 0 .. T - 1 /\ c % p \in 0 .. p - 1
        BY FrameAndItem
    <2>2. PICK t \in 0 .. T - 1, d \in 0 .. q - 1 : t = c \div p /\ d = c % p
        BY <1>1, <2>1
    <2>3. t * q + d \in 0 .. T * q - 1
        BY ItemInRange
    <2> QED BY <1>3, <2>2, <2>3
<1>5. ASSUME NEW t \in 0 .. T - 1, NEW c \in 0 .. p - 1 PROVE w[t * p + c] = v[t * q + c]
    <2>1. t * p + c \in 0 .. T * p - 1
        BY ItemInRange
    <2>2. t \in Nat
        OBVIOUS
    <2>3. (t * p + c) \div p = t /\ (t * p + c) % p = c
        BY <2>2, ItemOfFrame, Zenon
    <2> QED BY <2>1, <2>3
<1>6. w \in Ins(T * p)
    BY <1>4 DEF Ins
<1> HIDE DEF w
<1> QED BY <1>1, <1>2, <1>5, <1>6

\* A part of a circuit goes through the states it goes through alone.
LEMMA PartRuns ==
    ASSUME NEW A, NEW X, NEW first, NEW from, SitsIn(A, X, first, from), NEW T \in Nat \ {0},
           NEW v \in Ins(T * A.pi), NEW all, IsRun(A, T, v, all),
           NEW own, IsRun(X, T, AloneIn(X, T, A.pi, v), own), NEW t \in 0 .. T - 1
    PROVE  own[t] = Shared(X, A.pi, first, all[t])
<1> DEFINE w == AloneIn(X, T, A.pi, v)
           g == [x \in 0 .. T - 1 |-> Shared(X, A.pi, first, all[x])]
<1>0. IsCircuit(A) /\ IsCircuit(X) /\ X.pi <= A.pi
    BY DEF SitsIn
<1>1. PICK p \in Nat, m \in Nat, q \in Nat, n \in Nat :
          /\ p = X.pi /\ m = LatNum(X) /\ CiNum(X) = p + m
          /\ q = A.pi /\ n = LatNum(A) /\ CiNum(A) = q + n
    BY <1>0, CircuitNumbers
<1>2. first \in Nat /\ p <= q /\ first + m <= n
    BY <1>1 DEF SitsIn
<1>3. ASSUME NEW x \in 0 .. T - 1, NEW l, NEW k, \A i \in 0 .. m - 1 : l[first + i] = k[i]
      PROVE  Shared(X, A.pi, first, CisAt(A, x, v, l)) = CisAt(X, x, w, k)
    <2> DEFINE u == [c \in 0 .. (q + n) - 1 |-> IF c < q THEN v[x * q + c] ELSE l[c - q]]
    <2>1. CisAt(A, x, v, l) = u
        BY <1>1 DEF CisAt
    <2>2. \A c \in 0 .. p - 1 : c \in 0 .. (q + n) - 1 /\ c < q
        BY <1>2
    <2>3. \A c \in 0 .. p - 1 : u[c] = v[x * q + c]
        BY <2>2
    <2>4. \A c \in 0 .. p - 1 : w[x * p + c] = v[x * q + c]
        BY <1>0, <1>1, AloneType
    <2>5. ASSUME NEW c \in 0 .. (p + m) - 1, ~ (c < p) PROVE u[q + first + c - p] = k[c - p]
        <3>1. c - p \in 0 .. m - 1 /\ q + first + c - p \in 0 .. (q + n) - 1 /\ ~ (q + first + c - p < q)
              /\ (q + first + c - p) - q = first + (c - p)
            BY <1>2, <2>5
        <3>2. u[q + first + c - p] = l[first + (c - p)]
            BY <3>1
        <3> QED BY <1>3, <3>1, <3>2
    <2> HIDE DEF u, w
    <2>6. ASSUME NEW c \in 0 .. (p + m) - 1
          PROVE  (IF c < p THEN u[c] ELSE u[q + first + c - p]) = (IF c < p THEN w[x * p + c] ELSE k[c - p])
        <3>1. CASE c < p
            <4>1. c \in 0 .. p - 1
                BY <3>1
            <4> QED BY <2>3, <2>4, <3>1, <4>1
        <3>2. CASE ~ (c < p)
            BY <2>5, <3>2
        <3> QED BY <3>1, <3>2
    <2>7. [c \in 0 .. (p + m) - 1 |-> IF c < p THEN u[c] ELSE u[q + first + c - p]]
            = [c \in 0 .. (p + m) - 1 |-> IF c < p THEN w[x * p + c] ELSE k[c - p]]
        BY <2>6
    <2>8. Shared(X, A.pi, first, u) = [c \in 0 .. (p + m) - 1 |-> IF c < p THEN u[c] ELSE u[q + first + c - p]]
        BY <1>1 DEF Shared
    <2>9. CisAt(X, x, w, k) = [c \in 0 .. (p + m) - 1 |-> IF c < p THEN w[x * p + c] ELSE k[c - p]]
        BY <1>1 DEF CisAt
    <2> QED BY <2>1, <2>7, <2>8, <2>9
<1>4. g[0] = CisAt(X, 0, w, X.init)
    <2>1. all[0] = CisAt(A, 0, v, A.init)
        BY DEF IsRun
    <2>2. \A i \in 0 .. m - 1 : A.init[first + i] = X.init[i]
        BY <1>1 DEF SitsIn
    <2>3. 0 \in 0 .. T - 1
        OBVIOUS
    <2> QED BY <1>3, <2>1, <2>2, <2>3
<1>5. ASSUME NEW x \in 1 .. T - 1 PROVE g[x] = CisAt(X, x, w, After(X, g[x - 1]))
    <2>1. x \in 0 .. T - 1 /\ x - 1 \in 0 .. T - 1
        OBVIOUS
    <2>2. all[x] = CisAt(A, x, v, After(A, all[x - 1])) /\ all[x - 1] \in Ins(CiNum(A))
        BY <2>1 DEF IsRun
    <2>3. g[x - 1] = Shared(X, A.pi, first, all[x - 1]) /\ g[x] = Shared(X, A.pi, first, all[x])
        BY <2>1
    <2> HIDE DEF g
    <2>4. ASSUME NEW i \in 0 .. m - 1 PROVE After(A, all[x - 1])[first + i] = After(X, g[x - 1])[i]
        <3>1. A.next[first + i][all[x - 1]] = X.next[i][g[x - 1]]
            BY <1>1, <2>2, <2>3 DEF SitsIn
        <3>2. first + i \in DOMAIN A.init /\ i \in DOMAIN X.init
            <4>1. DOMAIN A.init = 0 .. n - 1 /\ DOMAIN X.init = 0 .. m - 1
                BY <1>0, <1>1, CircuitNumbers
            <4> QED BY <1>2, <4>1
        <3> QED BY <3>1, <3>2 DEF After
    <2> QED BY <1>3, <2>1, <2>2, <2>3, <2>4
<1>6. \A x \in 0 .. T - 1 : g[x] = own[x]
    <2>1. DOMAIN g = 0 .. T - 1
        OBVIOUS
    <2> HIDE DEF g, w
    <2>2. PICK W, h : W = w /\ h = g
        OBVIOUS
    <2>3. IsRun(X, T, W, own)
        BY <2>2 DEF w
    <2>4. /\ DOMAIN h = 0 .. T - 1 /\ h[0] = CisAt(X, 0, W, X.init)
          /\ \A x \in 1 .. T - 1 : h[x] = CisAt(X, x, W, After(X, h[x - 1]))
        BY <1>4, <1>5, <2>1, <2>2
    <2>5. \A x \in 0 .. T - 1 : h[x] = own[x]
        BY <2>3, <2>4, RunUnique, SMTT(40)
    <2> QED BY <2>2, <2>5
<1> QED BY <1>6

\* In T frames, a part of a circuit shows what it shows alone.
LEMMA PartShows ==
    ASSUME NEW A, NEW X, NEW first, NEW from, SitsIn(A, X, first, from), NEW T \in Nat \ {0},
           NEW v \in Ins(T * A.pi), NEW t \in 0 .. T - 1, NEW k \in 0 .. PoNum(X) - 1
    PROVE  Frames(A, T).po[t * PoNum(A) + (from + k)][v]
             = Frames(X, T).po[t * PoNum(X) + k][AloneIn(X, T, A.pi, v)]
<1> DEFINE w == AloneIn(X, T, A.pi, v)
<1>1. IsCircuit(A) /\ IsCircuit(X) /\ X.pi <= A.pi
    BY DEF SitsIn
<1>2. w \in Ins(T * X.pi)
    BY <1>1, AloneType
<1>3. PICK all : IsRun(A, T, v, all)
    BY <1>1, RunExists
<1>4. PICK own : IsRun(X, T, w, own)
    BY <1>1, <1>2, RunExists
<1>5. own[t] = Shared(X, A.pi, first, all[t])
    BY <1>3, <1>4, PartRuns
<1>6. from + k \in 0 .. PoNum(A) - 1
    <2>1. from \in Nat /\ from + PoNum(X) <= PoNum(A) /\ PoNum(X) \in Nat /\ PoNum(A) \in Nat
        BY <1>1, CircuitNumbers DEF SitsIn
    <2> QED BY <2>1
<1>7. Frames(A, T).po[t * PoNum(A) + (from + k)][v] = A.po[from + k][all[t]]
    <2>1. PICK j \in 0 .. PoNum(A) - 1 : j = from + k
        BY <1>6
    <2>2. Frames(A, T).po[t * PoNum(A) + j][v] = A.po[j][all[t]]
        BY <1>1, <1>3, FramesShow
    <2> QED BY <2>1, <2>2
<1> HIDE DEF w
<1>8. Frames(X, T).po[t * PoNum(X) + k][w] = X.po[k][own[t]]
    BY <1>1, <1>2, <1>4, FramesShow
<1>9. all[t] \in Ins(CiNum(A))
    BY <1>3 DEF IsRun
<1>10. A.po[from + k][all[t]] = X.po[k][Shared(X, A.pi, first, all[t])]
    BY <1>9 DEF SitsIn
<1> QED BY <1>5, <1>7, <1>8, <1>10 DEF w

\* Merged circuits do not disturb each other.
LEMMA MergeApart ==
    ASSUME pNtk = aigMerge(before, done.arg[1]), IsCircuit(before), IsCircuit(done.arg[1])
    PROVE  MergedApart
<1> DEFINE T == IF 2 * pNtk.pi <= MaxCi THEN 2 ELSE 1
           N == done.arg[1]
           Alone(X, v) == Table([c \in 0 .. T * X.pi - 1 |-> v[(c \div X.pi) * pNtk.pi + (c % X.pi)]])
           Same(X, first) ==
              \A v \in Ins(T * pNtk.pi) : \A t \in 0 .. T - 1, k \in DOMAIN X.po :
                  Frames(pNtk, T).po[t * PoNum(pNtk) + first + k][v]
                    = Frames(X, T).po[t * PoNum(X) + k][Alone(X, v)]
<1>1. Same(before, 0) /\ Same(N, PoNum(before)) => MergedApart
    BY DEF MergedApart
<1>2. T \in Nat \ {0}
    OBVIOUS
<1>3. \A X, v : Alone(X, v) = AloneIn(X, T, pNtk.pi, v)
    BY TableIs DEF AloneIn
<1>4. SitsIn(pNtk, before, 0, 0) /\ SitsIn(pNtk, N, LatNum(before), PoNum(before))
    BY MergeContains
<1> HIDE DEF T, N, Alone
<1>5. ASSUME NEW X, NEW latch, NEW first, SitsIn(pNtk, X, latch, first) PROVE Same(X, first)
    <2>1. ASSUME NEW v \in Ins(T * pNtk.pi), NEW t \in 0 .. T - 1, NEW k \in DOMAIN X.po
          PROVE  Frames(pNtk, T).po[t * PoNum(pNtk) + first + k][v] = Frames(X, T).po[t * PoNum(X) + k][Alone(X, v)]
        <3>1. k \in 0 .. PoNum(X) - 1 /\ PoNum(pNtk) \in Nat /\ first \in Nat
            BY <1>5, CircuitNumbers DEF SitsIn
        <3>2. Frames(pNtk, T).po[t * PoNum(pNtk) + (first + k)][v]
                = Frames(X, T).po[t * PoNum(X) + k][AloneIn(X, T, pNtk.pi, v)]
            BY <1>2, <1>5, <3>1, PartShows
        <3>3. t * PoNum(pNtk) + first + k = t * PoNum(pNtk) + (first + k)
            <4>1. PICK m \in Nat : m = t * PoNum(pNtk)
                BY <3>1, <1>2
            <4> QED BY <3>1, <4>1
        <3> QED BY <1>3, <3>2, <3>3
    <2> QED BY <2>1
<1> QED BY <1>1, <1>4, <1>5

-----------------------------------------------------------------------------
(* The voter                                                               *)

\* The inputs before t that are 1.
OnesBefore(v, t) == Cardinality({j \in 0 .. t - 1 : v[j]})

LEMMA OneMore ==
    ASSUME NEW v, NEW t \in Nat, v[t] \in BOOLEAN
    PROVE  /\ OnesBefore(v, t) \in Nat
           /\ OnesBefore(v, t + 1) = IF v[t] THEN OnesBefore(v, t) + 1 ELSE OnesBefore(v, t)
<1> DEFINE S(x) == {j \in 0 .. x - 1 : v[j]}
<1>1. IsFiniteSet(S(t))
    <2>1. IsFiniteSet(0 .. t - 1)
        BY FS_Interval
    <2> QED BY <2>1, FS_Subset
<1>2. CASE v[t]
    <2>1. S(t + 1) = S(t) \cup {t} /\ t \notin S(t)
        BY <1>2
    <2> HIDE DEF S
    <2>2. Cardinality(S(t + 1)) = Cardinality(S(t)) + 1
        BY <1>1, <2>1, FS_AddElement
    <2> QED BY <1>1, <1>2, <2>2, FS_CardinalityType DEF OnesBefore, S
<1>3. CASE ~ v[t]
    <2>1. S(t + 1) = S(t)
        BY <1>3
    <2> HIDE DEF S
    <2> QED BY <1>1, <1>3, <2>1, FS_CardinalityType DEF OnesBefore, S
<1> QED BY <1>2, <1>3

LEMMA NoneBefore == \A v : OnesBefore(v, 0) = 0
<1>1. \A v : {j \in 0 .. 0 - 1 : v[j]} = {}
    OBVIOUS
<1> QED BY <1>1, FS_EmptySet DEF OnesBefore

\* As many latches as ones decide the vote.
LEMMA EnoughOnes ==
    ASSUME NEW n \in Nat \ {0}, NEW tieVal \in BOOLEAN, NEW ones \in 0 .. n
    PROVE  /\ VoterLatches(n, tieVal) \in Nat \ {0}
           /\ ones >= VoterLatches(n, tieVal) <=> (2 * ones > n \/ (2 * ones = n /\ tieVal))
<1>1. PICK h \in Nat, r \in {0, 1} : h = n \div 2 /\ r = n % 2 /\ n = 2 * h + r
    OBVIOUS
<1>2. VoterLatches(n, tieVal) = h + (IF r = 1 THEN 1 ELSE IF tieVal THEN 0 ELSE 1)
    BY <1>1 DEF VoterLatches
<1>3. CASE r = 1
    BY <1>1, <1>2, <1>3
<1>4. CASE r = 0 /\ tieVal
    <2>1. VoterLatches(n, tieVal) = h /\ h # 0
        <3>1. (IF r = 1 THEN 1 ELSE IF tieVal THEN 0 ELSE 1) = 0
            <4>1. r # 1
                BY <1>4
            <4> QED BY <1>4, <4>1, Zenon
        <3>2. r = 0 /\ VoterLatches(n, tieVal) = h + 0
            BY <1>2, <1>4, <3>1
        <3> QED BY <1>1, <3>2
    <2>2. ones >= h <=> (2 * ones > n \/ 2 * ones = n)
        BY <1>1, <1>4
    <2> QED BY <1>4, <2>1, <2>2
<1>5. CASE r = 0 /\ ~ tieVal
    <2>1. VoterLatches(n, tieVal) = h + 1
        BY <1>1, <1>2, <1>5
    <2>2. ones >= h + 1 <=> 2 * ones > n
        BY <1>1, <1>5
    <2> QED BY <1>5, <2>1, <2>2
<1> QED BY <1>3, <1>4, <1>5

\* Next value of latch l of the voter.
LatIn(l, u) == u[1 + l] \/ (u[0] /\ (l = 0 \/ u[l]))

LEMMA VoterSeq ==
    ASSUME NEW n, NEW tieVal, NEW m \in Nat \ {0}, m = VoterLatches(n, tieVal),
           NEW S, S = aigGenVoterN_seq(n, tieVal)
    PROVE  /\ IsCircuit(S) /\ S.pi = 1 /\ LatNum(S) = m /\ PoNum(S) = 1 /\ CiNum(S) = 1 + m
           /\ S.init = [l \in 0 .. m - 1 |-> FALSE]
           /\ \A u \in Ins(1 + m) :
                 /\ S.po[0][u] = LatIn(m - 1, u)
                 /\ \A l \in 0 .. m - 1 : S.next[l][u] = LatIn(l, u)
<1>1. /\ S.pi = 1 /\ S.init = [l \in 0 .. m - 1 |-> FALSE]
      /\ S.po = [k \in {0} |-> [u \in Ins(1 + m) |-> LatIn(m - 1, u)]]
      /\ S.next = [l \in 0 .. m - 1 |-> [u \in Ins(1 + m) |-> LatIn(l, u)]]
    BY DEF aigGenVoterN_seq, LatIn
<1>2. \A l \in 0 .. m - 1 : \A u \in Ins(1 + m) : LatIn(l, u) \in BOOLEAN
    BY DEF LatIn
<1>3. S.next \in Funcs(m, 1 + m)
    BY <1>1, <1>2 DEF Funcs
<1>4. S.po \in Funcs(1, 1 + m)
    <2>1. m - 1 \in 0 .. m - 1 /\ 0 .. 1 - 1 = {0}
        OBVIOUS
    <2> QED BY <1>1, <1>2, <2>1 DEF Funcs
<1>5. S.init \in Ins(m)
    BY <1>1 DEF Ins
<1>6. m \in Nat /\ 1 \in Nat
    OBVIOUS
<1>7. IsCircuit(S) /\ LatNum(S) = m /\ PoNum(S) = 1 /\ CiNum(S) = 1 + m
    <2>1. PICK pi \in Nat, p \in Nat : pi = 1 /\ p = 1
        BY <1>6
    <2>2. S.pi = pi /\ S.init \in Ins(m) /\ S.po \in Funcs(p, pi + m) /\ S.next \in Funcs(m, pi + m)
        BY <1>1, <1>3, <1>4, <1>5, <2>1
    <2>3. IsCircuit(S) /\ LatNum(S) = m /\ PoNum(S) = p /\ CiNum(S) = pi + m
        BY <2>2, MadeCircuit
    <2> QED BY <2>1, <2>3
<1>8. \A u \in Ins(1 + m) :
          /\ S.po[0][u] = LatIn(m - 1, u)
          /\ \A l \in 0 .. m - 1 : S.next[l][u] = LatIn(l, u)
    BY <1>1
<1> QED BY <1>1, <1>7, <1>8

\* Latch l is 1 once more than l ones were read.
LEMMA VoterRuns ==
    ASSUME NEW n \in Nat \ {0}, NEW tieVal, NEW m \in Nat \ {0}, m = VoterLatches(n, tieVal),
           NEW S, S = aigGenVoterN_seq(n, tieVal),
           NEW v \in Ins(n), NEW run, IsRun(S, n, v, run), NEW t \in 0 .. n - 1
    PROVE  /\ run[t] \in Ins(1 + m) /\ run[t][0] = v[t]
           /\ \A l \in 0 .. m - 1 : run[t][1 + l] <=> OnesBefore(v, t) > l
<1>1. /\ IsCircuit(S) /\ S.pi = 1 /\ LatNum(S) = m /\ CiNum(S) = 1 + m
      /\ S.init = [l \in 0 .. m - 1 |-> FALSE]
      /\ \A u \in Ins(1 + m), l \in 0 .. m - 1 : S.next[l][u] = LatIn(l, u)
    BY VoterSeq
<1>2. \A x \in 0 .. n - 1 : run[x] \in Ins(1 + m)
    BY <1>1 DEF IsRun
<1>3. ASSUME NEW x \in 0 .. n - 1, NEW k
      PROVE  /\ CisAt(S, x, v, k)[0] = v[x]
             /\ \A l \in 0 .. m - 1 : CisAt(S, x, v, k)[1 + l] = k[l]
    <2>1. CisAt(S, x, v, k) = [c \in 0 .. (1 + m) - 1 |-> IF c < 1 THEN v[x * 1 + c] ELSE k[c - 1]]
        BY <1>1 DEF CisAt
    <2>2. 0 \in 0 .. (1 + m) - 1 /\ x * 1 + 0 = x
        OBVIOUS
    <2>3. \A l \in 0 .. m - 1 : 1 + l \in 0 .. (1 + m) - 1 /\ ~ (1 + l < 1) /\ (1 + l) - 1 = l
        OBVIOUS
    <2> QED BY <2>1, <2>2, <2>3
<1>4. ASSUME NEW x \in 0 .. n - 1 PROVE run[x][0] = v[x]
    <2>1. CASE x = 0
        BY <1>3, <2>1 DEF IsRun
    <2>2. CASE x # 0
        <3>1. x \in 1 .. n - 1
            BY <2>2
        <3> QED BY <1>3, <3>1 DEF IsRun
    <2> QED BY <2>1, <2>2
<1> DEFINE Good(x) == \A l \in 0 .. m - 1 : run[x][1 + l] <=> OnesBefore(v, x) > l
           Bad == {x \in 0 .. n - 1 : ~ Good(x)}
<1>5. 0 \notin Bad
    <2>1. 0 \in 0 .. n - 1 /\ run[0] = CisAt(S, 0, v, S.init)
        BY DEF IsRun
    <2>2. \A l \in 0 .. m - 1 : run[0][1 + l] = FALSE
        BY <1>1, <1>3, <2>1
    <2>3. \A l \in 0 .. m - 1 : ~ (0 > l)
        OBVIOUS
    <2> QED BY <2>2, <2>3, NoneBefore
<1>6. ASSUME NEW x \in 1 .. n - 1, x - 1 \notin Bad PROVE x \notin Bad
    <2>1. x \in 0 .. n - 1 /\ x - 1 \in 0 .. n - 1 /\ x - 1 \in Nat /\ (x - 1) + 1 = x
        OBVIOUS
    <2>2. PICK u : u = run[x - 1]
        OBVIOUS
    <2>3. Good(x - 1)
        BY <1>6, <2>1
    <2>4. u \in Ins(1 + m) /\ u[0] = v[x - 1] /\ \A l \in 0 .. m - 1 : u[1 + l] <=> OnesBefore(v, x - 1) > l
        BY <1>2, <1>4, <2>1, <2>2, <2>3
    <2> HIDE DEF Good
    <2>5. v[x - 1] \in BOOLEAN
        BY <2>1 DEF Ins
    <2>6. PICK a \in Nat : a = OnesBefore(v, x - 1) /\ OnesBefore(v, x) = IF v[x - 1] THEN a + 1 ELSE a
        BY <2>1, <2>5, OneMore
    <2>7. run[x] = CisAt(S, x, v, After(S, u))
        BY <2>2 DEF IsRun
    <2>8. ASSUME NEW l \in 0 .. m - 1 PROVE run[x][1 + l] <=> OnesBefore(v, x) > l
        <3>1. run[x][1 + l] = After(S, u)[l]
            BY <1>3, <2>1, <2>7
        <3>2. After(S, u)[l] = LatIn(l, u)
            <4>1. l \in DOMAIN S.init
                BY <1>1
            <4>2. After(S, u)[l] = S.next[l][u]
                BY <4>1 DEF After
            <4> QED BY <1>1, <2>4, <4>2
        <3>3. CASE l = 0
            <4>1. LatIn(l, u) <=> (a > 0 \/ v[x - 1])
                BY <2>4, <2>6, <3>3 DEF LatIn
            <4> QED BY <2>6, <3>1, <3>2, <3>3, <4>1
        <3>4. CASE l # 0
            <4>1. l - 1 \in 0 .. m - 1 /\ 1 + (l - 1) = l
                BY <3>4
            <4>2. u[l] <=> a > l - 1
                BY <2>4, <2>6, <4>1
            <4>3. LatIn(l, u) <=> (a > l \/ (v[x - 1] /\ a > l - 1))
                BY <2>4, <2>6, <3>4, <4>2 DEF LatIn
            <4> QED BY <2>6, <3>1, <3>2, <4>3
        <3> QED BY <3>3, <3>4
    <2> QED BY <2>8 DEF Good
<1>7. Bad = {}
    <2>1. PICK d \in Nat : d = n - 1
        OBVIOUS
    <2>2. Bad \in SUBSET (0 .. d)
        BY <2>1
    <2>3. \A k \in 1 .. d : k - 1 \notin Bad => k \notin Bad
        BY <1>6, <2>1
    <2> HIDE DEF Bad
    <2> QED BY <1>5, <2>2, <2>3, FirstFailure
<1>8. Good(t)
    BY <1>7
<1> QED BY <1>2, <1>4, <1>8

\* What build_voter makes is 1 when the vote says so.
LEMMA VoterVotes ==
    ASSUME NEW n \in Nat \ {0}, NEW tieVal \in BOOLEAN
    PROVE  /\ IsCircuit(aigBuildVoter(n, tieVal))
           /\ \A v \in Ins(n) :
                 aigBuildVoter(n, tieVal).po[0][v] <=>
                     (2 * OnesBefore(v, n) > n \/ (2 * OnesBefore(v, n) = n /\ tieVal))
<1>0. PICK S, m : S = aigGenVoterN_seq(n, tieVal) /\ m = VoterLatches(n, tieVal)
    OBVIOUS
<1> DEFINE exp == Frames(S, n)
<1>1. m \in Nat \ {0}
    <2>1. 0 \in 0 .. n
        OBVIOUS
    <2> QED BY <1>0, <2>1, EnoughOnes
<1>2. /\ IsCircuit(S) /\ S.pi = 1 /\ LatNum(S) = m /\ PoNum(S) = 1 /\ CiNum(S) = 1 + m
      /\ \A u \in Ins(1 + m) : S.po[0][u] = LatIn(m - 1, u)
    <2>1. S = aigGenVoterN_seq(n, tieVal) /\ m = VoterLatches(n, tieVal) /\ m \in Nat \ {0}
        BY <1>0, <1>1
    <2>2. /\ IsCircuit(S) /\ S.pi = 1 /\ LatNum(S) = m /\ PoNum(S) = 1 /\ CiNum(S) = 1 + m
          /\ S.init = [l \in 0 .. m - 1 |-> FALSE]
          /\ \A u \in Ins(1 + m) :
                 /\ S.po[0][u] = LatIn(m - 1, u)
                 /\ \A l \in 0 .. m - 1 : S.next[l][u] = LatIn(l, u)
        BY <2>1, VoterSeq
    <2> QED BY <2>2
<1>3. IsCircuit(exp) /\ PoNum(exp) = n
    <2>1. IsCircuit(exp) /\ PoNum(exp) = n * PoNum(S)
        BY <1>2, FramesShow
    <2> QED BY <1>2, <2>1
<1>4. aigBuildVoter(n, tieVal) = aigCone(exp, n - 1, n)
    BY <1>0, <1>3 DEF aigBuildVoter
<1>5. IsCircuit(aigCone(exp, n - 1, n))
    <2>1. n - 1 \in Nat /\ n \in Nat /\ aigConeAsserts(exp, n - 1, n)
        BY <1>3 DEF aigConeAsserts
    <2> QED BY <1>3, <2>1, ConeCircuit
<1>6. ASSUME NEW v \in Ins(n)
      PROVE  aigBuildVoter(n, tieVal).po[0][v] <=>
                 (2 * OnesBefore(v, n) > n \/ (2 * OnesBefore(v, n) = n /\ tieVal))
    <2>1. aigCone(exp, n - 1, n).po[0] = exp.po[n - 1]
        <3>1. 0 \in 0 .. n - (n - 1) - 1 /\ (n - 1) + 0 = n - 1
            OBVIOUS
        <3> HIDE DEF exp
        <3> QED BY <3>1 DEF aigCone, Comb
    <2>2. n * S.pi = n
        BY <1>2
    <2>3. PICK run : IsRun(S, n, v, run)
        BY <1>2, <2>2, RunExists
    <2>4. exp.po[n - 1][v] = S.po[0][run[n - 1]]
        <3>1. n - 1 \in 0 .. n - 1 /\ 0 \in 0 .. PoNum(S) - 1 /\ (n - 1) * PoNum(S) + 0 = n - 1
            BY <1>2
        <3>2. Frames(S, n).po[(n - 1) * PoNum(S) + 0][v] = S.po[0][run[n - 1]]
            <4>1. n - 1 \in 0 .. n - 1 /\ 0 \in 0 .. PoNum(S) - 1
                BY <3>1
            <4>2. v \in Ins(n * S.pi) /\ IsCircuit(S)
                BY <1>2, <2>2
            <4> HIDE DEF exp
            <4> QED BY <2>3, <4>1, <4>2, FramesShow
        <3> QED BY <3>1, <3>2
    <2>5. /\ run[n - 1] \in Ins(1 + m) /\ run[n - 1][0] = v[n - 1]
          /\ \A l \in 0 .. m - 1 : run[n - 1][1 + l] <=> OnesBefore(v, n - 1) > l
        <3>1. n - 1 \in 0 .. n - 1
            OBVIOUS
        <3> QED BY <1>0, <1>1, <2>3, <3>1, VoterRuns
    <2>6. v[n - 1] \in BOOLEAN /\ n - 1 \in Nat /\ (n - 1) + 1 = n
        BY DEF Ins
    <2>7. PICK a \in Nat : a = OnesBefore(v, n - 1) /\ OnesBefore(v, n) = IF v[n - 1] THEN a + 1 ELSE a
        BY <2>6, OneMore
    <2>8. LatIn(m - 1, run[n - 1]) <=> OnesBefore(v, n) >= m
        <3>1. PICK u : u = run[n - 1]
            OBVIOUS
        <3>2. u[1 + (m - 1)] <=> a > m - 1
            BY <1>1, <2>5, <2>7, <3>1
        <3>3. CASE m = 1
            <4>1. LatIn(m - 1, u) <=> (a > 0 \/ v[n - 1])
                BY <2>5, <3>1, <3>2, <3>3 DEF LatIn
            <4> QED BY <2>7, <3>1, <3>3, <4>1
        <3>4. CASE m # 1
            <4>1. m - 2 \in 0 .. m - 1 /\ 1 + (m - 2) = m - 1
                BY <1>1, <3>4
            <4>2. u[m - 1] <=> a > m - 2
                BY <2>5, <2>7, <3>1, <4>1
            <4>3. LatIn(m - 1, u) <=> (a > m - 1 \/ (v[n - 1] /\ a > m - 2))
                BY <1>1, <2>5, <3>1, <3>2, <3>4, <4>2 DEF LatIn
            <4> QED BY <1>1, <2>7, <3>1, <4>3
        <3> QED BY <3>3, <3>4
    <2>9. OnesBefore(v, n) \in 0 .. n
        <3>1. IsFiniteSet(0 .. n - 1) /\ Cardinality(0 .. n - 1) = n
            BY FS_Interval
        <3>2. {j \in 0 .. n - 1 : v[j]} \subseteq 0 .. n - 1
            OBVIOUS
        <3>3. OnesBefore(v, n) <= n /\ OnesBefore(v, n) \in Nat
            BY <3>1, <3>2, FS_Subset, FS_CardinalityType DEF OnesBefore
        <3> QED BY <3>3
    <2>10. OnesBefore(v, n) >= m <=> (2 * OnesBefore(v, n) > n \/ (2 * OnesBefore(v, n) = n /\ tieVal))
        BY <1>0, <2>9, EnoughOnes
    <2> QED BY <1>2, <1>4, <2>1, <2>4, <2>5, <2>8, <2>10
<1> QED BY <1>4, <1>5, <1>6

-----------------------------------------------------------------------------
(* The other circuits made from nothing                                    *)

LEMMA DummyCircuit ==
    ASSUME NEW n \in Nat
    PROVE  IsCircuit(aigConstructDummyNtk(n))
<1> DEFINE po == [k \in 0 .. n - 1 |-> [v \in Ins(n) |-> v[k]]]
<1>1. po \in Funcs(n, n)
    BY DEF Funcs, Ins
<1>2. aigConstructDummyNtk(n) = Comb(n, po)
    BY DEF aigConstructDummyNtk
<1> HIDE DEF po
<1> QED BY <1>1, <1>2, CombCircuit

LEMMA ParityCircuit ==
    ASSUME NEW n \in Nat
    PROVE  IsCircuit(aigBuildParity(n))
<1> DEFINE Equation(v, x) == x = [j \in 0 .. n |-> IF j = 0 THEN FALSE ELSE v[j - 1] # x[j - 1]]
           Xor(v) == (CHOOSE x : Equation(v, x))[n]
           po == [k \in {0} |-> [v \in Ins(n) |-> Xor(v)]]
<1>1. aigBuildParity(n) = Comb(n, po)
    BY Zenon DEF aigBuildParity
<1>2. ASSUME NEW v \in Ins(n) PROVE Xor(v) \in BOOLEAN
    <2> DEFINE G == [k \in 1 .. n |-> [u \in BOOLEAN |-> v[k - 1] # u]]
    <2>1. StepsIn(G, n, BOOLEAN)
        BY DEF StepsIn
    <2>2. PICK f : CountedBy(f, BOOLEAN, n, FALSE, G)
        <3> HIDE DEF G
        <3> QED BY <2>1, CountedExists
    <2>3. f = [j \in 0 .. n |-> IF j = 0 THEN FALSE ELSE v[j - 1] # f[j - 1]]
        <3>1. f \in [0 .. n -> BOOLEAN] /\ f[0] = FALSE /\ \A k \in 1 .. n : f[k] = G[k][f[k - 1]]
            BY <2>2 DEF CountedBy
        <3>2. \A k \in 1 .. n : k - 1 \in 0 .. n
            OBVIOUS
        <3>3. \A k \in 1 .. n : f[k] = (v[k - 1] # f[k - 1])
            BY <3>1, <3>2
        <3>4. \A j \in 0 .. n : j = 0 \/ (j # 0 /\ j \in 1 .. n)
            OBVIOUS
        <3>5. \A j \in 0 .. n : f[j] = IF j = 0 THEN FALSE ELSE v[j - 1] # f[j - 1]
            <4> HIDE DEF G
            <4> QED BY <3>1, <3>3, <3>4
        <3> HIDE DEF G
        <3> QED BY <3>1, <3>5
    <2>4. Equation(v, CHOOSE x : Equation(v, x))
        BY <2>3, Zenon
    <2> HIDE DEF Xor
    <2>5. PICK x : x = (CHOOSE y : Equation(v, y))
        OBVIOUS
    <2>6. x = [j \in 0 .. n |-> IF j = 0 THEN FALSE ELSE v[j - 1] # x[j - 1]] /\ Xor(v) = x[n]
        BY <2>4, <2>5 DEF Xor
    <2>7. n \in 0 .. n
        OBVIOUS
    <2>8. x[n] = IF n = 0 THEN FALSE ELSE v[n - 1] # x[n - 1]
        BY <2>6, <2>7
    <2> HIDE DEF Equation
    <2>9. x[n] \in BOOLEAN
        BY <2>8
    <2> QED BY <2>6, <2>9
<1> HIDE DEF Xor
<1>3. po \in Funcs(1, n)
    <2>1. 0 .. 1 - 1 = {0}
        OBVIOUS
    <2> QED BY <1>2, <2>1 DEF Funcs
<1> HIDE DEF po
<1> QED BY <1>1, <1>3, CombCircuit

-----------------------------------------------------------------------------
(* Resets                                                                  *)

\* Input i of frame f, for the copy that starts in frame t.
LEMMA CopyPlace ==
    ASSUME NEW T \in Nat \ {0}, NEW nPi \in Nat, NEW t \in 0 .. T - 1, NEW c \in 0 .. (T - t) * nPi - 1
    PROVE  /\ c \div nPi \in 0 .. T - t - 1 /\ c % nPi \in 0 .. nPi - 1 /\ c = (c \div nPi) * nPi + (c % nPi)
           /\ t * (nPi + 1) + c + c \div nPi = (t + c \div nPi) * (nPi + 1) + (c % nPi)
           /\ t * (nPi + 1) + c + c \div nPi \in 0 .. (1 + nPi) * T - 1
<1>1. PICK m \in Nat : m = T - t
    OBVIOUS
<1>2. PICK f \in 0 .. m - 1, i \in 0 .. nPi - 1 : f = c \div nPi /\ i = c % nPi /\ c = f * nPi + i
    <2>1. c \in 0 .. m * nPi - 1
        BY <1>1
    <2>2. /\ c \div nPi \in 0 .. m - 1 /\ c % nPi \in 0 .. nPi - 1 /\ c = (c \div nPi) * nPi + (c % nPi)
        BY <2>1, FrameAndItem, Zenon
    <2> QED BY <2>2
<1>3. t * (nPi + 1) + c + f = (t + f) * (nPi + 1) + i
    <2>1. (t + f) * (nPi + 1) = t * (nPi + 1) + (f * nPi + f)
        BY <1>1
    <2>2. t * (nPi + 1) \in Nat /\ f * nPi \in Nat
        BY <1>1
    <2> QED BY <1>2, <2>1, <2>2
<1>4. (t + f) * (nPi + 1) + i \in 0 .. T * (nPi + 1) - 1
    <2>1. t + f \in 0 .. T - 1 /\ i \in 0 .. (nPi + 1) - 1 /\ nPi + 1 \in Nat
        BY <1>1
    <2> QED BY <2>1, ItemInRange
<1>5. T * (nPi + 1) = (1 + nPi) * T
    OBVIOUS
<1> QED BY <1>1, <1>2, <1>3, <1>4, <1>5

\* copy tells where the inputs of every copy come from.
IsCopy(copy, T, nPi) ==
    /\ copy \in [0 .. T - 1 -> [0 .. T * nPi - 1 -> 0 .. (1 + nPi) * T - 1]]
    /\ \A t \in 0 .. T - 1 : \A c \in 0 .. (T - t) * nPi - 1 :
          copy[t][c] = (t + c \div nPi) * (nPi + 1) + (c % nPi)

LEMMA CopyShows ==
    ASSUME NEW T \in Nat \ {0}, NEW nPi \in Nat
    PROVE  IsCopy(pCopy(T, nPi), T, nPi)
<1> DEFINE D == 0 .. T * nPi - 1
           V == [D -> 0 .. (1 + nPi) * T - 1]
           Row(t, prev) == [c \in D |-> IF c < (T - t) * nPi THEN t * (nPi + 1) + c + c \div nPi ELSE prev[c]]
           Equation(x) == x = [t \in 0 .. T - 1 |->
               LET prev == IF t = 0 THEN <<>> ELSE x[t - 1]
               IN Table([c \in D |-> IF c < (T - t) * nPi THEN t * (nPi + 1) + c + c \div nPi ELSE prev[c]])]
<1>1. pCopy(T, nPi) = CHOOSE x : Equation(x)
    <2>1. pCopy(T, nPi) = Table(CHOOSE x : Equation(x))
        BY Zenon DEF pCopy
    <2> QED BY <2>1, TableIs
<1>2. ASSUME NEW x PROVE Equation(x) <=> x = [t \in 0 .. T - 1 |-> Row(t, IF t = 0 THEN <<>> ELSE x[t - 1])]
    BY TableIs
<1>3. \A t \in 0 .. T - 1 : \A c \in D : c < (T - t) * nPi =>
          c \in 0 .. (T - t) * nPi - 1 /\ t * (nPi + 1) + c + c \div nPi \in 0 .. (1 + nPi) * T - 1
    <2>1. ASSUME NEW t \in 0 .. T - 1, NEW c \in D, c < (T - t) * nPi
          PROVE  c \in 0 .. (T - t) * nPi - 1
        <3>1. (T - t) * nPi \in Nat
            <4>1. T - t \in Nat
                OBVIOUS
            <4> QED BY <4>1
        <3> QED BY <2>1, <3>1
    <2> QED BY <2>1, CopyPlace
<1>4. \A c \in D : c < (T - 0) * nPi
    OBVIOUS
<1>5. \A t \in 1 .. T - 1 : t \in 0 .. T - 1 /\ t - 1 \in 0 .. T - 1 /\ t # 0
    OBVIOUS
<1>6. 0 \in 0 .. T - 1 /\ \A t \in 0 .. T - 1 : t = 0 \/ t \in 1 .. T - 1
    OBVIOUS
<1>7. \A t \in 0 .. T - 1, u \in V : Row(t, u) \in V
    <2> DEFINE W == 0 .. (1 + nPi) * T - 1
    <2>1. \A t \in 0 .. T - 1 : \A c \in D : c < (T - t) * nPi => t * (nPi + 1) + c + c \div nPi \in W
        BY <1>3
    <2> HIDE DEF W, D
    <2> SUFFICES ASSUME NEW t \in 0 .. T - 1, NEW u \in [D -> W] PROVE Row(t, u) \in [D -> W]
        BY DEF W
    <2>2. ASSUME NEW c \in D
          PROVE  (IF c < (T - t) * nPi THEN t * (nPi + 1) + c + c \div nPi ELSE u[c]) \in W
        BY <2>1
    <2> QED BY <2>2
<1>8. Row(0, <<>>) \in V
    <2> DEFINE W == 0 .. (1 + nPi) * T - 1
    <2>1. \A c \in D : 0 * (nPi + 1) + c + c \div nPi \in W
        BY <1>3, <1>4, <1>6
    <2>2. Row(0, <<>>) = [c \in D |-> 0 * (nPi + 1) + c + c \div nPi]
        BY <1>4
    <2> HIDE DEF W, D, Row
    <2>3. [c \in D |-> 0 * (nPi + 1) + c + c \div nPi] \in [D -> W]
        BY <2>1
    <2> QED BY <2>2, <2>3 DEF W
<1> HIDE DEF Row, V
<1>9. \E x : Equation(x)
    <2> DEFINE G == [k \in 1 .. T - 1 |-> [u \in V |-> Row(k, u)]]
               base == Row(0, <<>>)
    <2>1. PICK n \in Nat : n = T - 1
        OBVIOUS
    <2>2. StepsIn(G, n, V)
        BY <1>5, <1>7, <2>1 DEF StepsIn
    <2>3. base \in V
        BY <1>8
    <2> HIDE DEF base
    <2>4. PICK x : CountedBy(x, V, n, base, G)
        <3> HIDE DEF G
        <3> QED BY <2>2, <2>3, CountedExists
    <2>5. x \in [0 .. T - 1 -> V] /\ x[0] = base /\ \A k \in 1 .. T - 1 : x[k] = G[k][x[k - 1]]
        BY <2>1, <2>4 DEF CountedBy
    <2>6. \A k \in 1 .. T - 1 : x[k] = Row(k, x[k - 1])
        BY <1>5, <2>5
    <2>7. \A t \in 0 .. T - 1 : x[t] = Row(t, IF t = 0 THEN <<>> ELSE x[t - 1])
        <3> HIDE DEF G
        <3> QED BY <1>5, <1>6, <2>5, <2>6 DEF base
    <2>8. x = [t \in 0 .. T - 1 |-> Row(t, IF t = 0 THEN <<>> ELSE x[t - 1])]
        <3>1. x = [t \in 0 .. T - 1 |-> x[t]]
            BY <2>5
        <3> HIDE DEF G
        <3> QED BY <2>7, <3>1
    <2> QED BY <1>2, <2>8
<1>10. PICK x : x = pCopy(T, nPi) /\ Equation(x)
    <2>1. Equation(CHOOSE x : Equation(x))
        BY <1>9, Zenon
    <2> HIDE DEF Equation
    <2> QED BY <1>1, <2>1
<1> HIDE DEF Equation
<1>11. x = [t \in 0 .. T - 1 |-> Row(t, IF t = 0 THEN <<>> ELSE x[t - 1])]
    BY <1>2, <1>10
<1>12. DOMAIN x = 0 .. T - 1 /\ x[0] = Row(0, <<>>) /\ \A t \in 1 .. T - 1 : x[t] = Row(t, x[t - 1])
    BY <1>5, <1>6, <1>11
<1>13. \A t \in 0 .. T - 1 : x[t] \in V
    <2> DEFINE Bad == {t \in 0 .. T - 1 : x[t] \notin V}
    <2>1. 0 \notin Bad
        BY <1>8, <1>12
    <2>2. \A t \in 1 .. T - 1 : t - 1 \notin Bad => t \notin Bad
        BY <1>5, <1>7, <1>12
    <2>3. PICK n \in Nat : n = T - 1
        OBVIOUS
    <2>4. Bad = {}
        <3>1. Bad \in SUBSET (0 .. n)
            BY <2>3
        <3> HIDE DEF Bad
        <3> QED BY <2>1, <2>2, <2>3, <3>1, FirstFailure
    <2> QED BY <2>4
<1>14. x \in [0 .. T - 1 -> V]
    <2>1. x = [t \in 0 .. T - 1 |-> x[t]]
        BY <1>11
    <2> QED BY <1>13, <2>1
<1>15. ASSUME NEW t \in 0 .. T - 1, NEW c \in 0 .. (T - t) * nPi - 1
       PROVE  x[t][c] = (t + c \div nPi) * (nPi + 1) + (c % nPi)
    <2>1. PICK prev : x[t] = Row(t, prev)
        BY <1>6, <1>12
    <2>2. c \in D /\ c < (T - t) * nPi
        <3>1. (T - t) * nPi <= T * nPi /\ (T - t) * nPi \in Nat /\ T * nPi \in Nat
            <4>1. T - t \in Nat /\ T - t <= T /\ T \in Nat
                OBVIOUS
            <4> QED BY <4>1, MulMonotone
        <3> QED BY <3>1
    <2>3. x[t][c] = t * (nPi + 1) + c + c \div nPi
        <3> HIDE DEF D
        <3> QED BY <2>1, <2>2 DEF Row
    <2>4. t * (nPi + 1) + c + c \div nPi = (t + c \div nPi) * (nPi + 1) + (c % nPi)
        BY CopyPlace
    <2> QED BY <2>3, <2>4
<1> QED BY <1>10, <1>14, <1>15 DEF IsCopy, V

\* off[i] is the length of the first i of n sequences, one after the other.
Offsets(off, seqs, n) ==
    /\ off \in [0 .. n -> Nat] /\ off[0] = 0
    /\ \A i \in 1 .. n : off[i] = off[i - 1] + Len(seqs[i])

\* s holds the first n of the sequences.
Holds(s, V, off, seqs, n) ==
    /\ s \in Seq(V) /\ Len(s) = off[n]
    /\ \A i \in 1 .. n : /\ off[i] <= off[n]
                         /\ \A r \in 1 .. Len(seqs[i]) : s[off[i - 1] + r] = seqs[i][r]

LEMMA Joined ==
    ASSUME NEW V, NEW s \in Seq(V), NEW q \in Seq(V)
    PROVE  /\ s \o q \in Seq(V) /\ Len(s \o q) = Len(s) + Len(q) /\ Len(s) \in Nat /\ Len(q) \in Nat
           /\ \A x \in 1 .. Len(s) : (s \o q)[x] = s[x]
           /\ \A r \in 1 .. Len(q) : (s \o q)[Len(s) + r] = q[r]
<1>1. s \o q \in Seq(V) /\ Len(s \o q) = Len(s) + Len(q) /\ Len(s) \in Nat /\ Len(q) \in Nat
    OBVIOUS
<1>2. \A x \in 1 .. Len(s) : (s \o q)[x] = s[x]
    OBVIOUS
<1>3. ASSUME NEW r \in 1 .. Len(q) PROVE (s \o q)[Len(s) + r] = q[r]
    OBVIOUS
<1> QED BY <1>1, <1>2, <1>3

LEMMA HoldsMore ==
    ASSUME NEW V, NEW n \in Nat \ {0}, NEW seqs \in [1 .. n -> Seq(V)], NEW off, Offsets(off, seqs, n),
           NEW m \in 1 .. n - 1, NEW s, Holds(s, V, off, seqs, m)
    PROVE  Holds(s \o seqs[m + 1], V, off, seqs, m + 1)
<1>1. PICK q \in Seq(V) : q = seqs[m + 1]
    <2>1. m + 1 \in 1 .. n
        OBVIOUS
    <2> QED BY <2>1
<1>2. m + 1 \in 1 .. n /\ (m + 1) - 1 = m
    OBVIOUS
<1>3. off[m + 1] = off[m] + Len(q) /\ off[m] \in Nat
    BY <1>1, <1>2 DEF Offsets
<1>4. s \in Seq(V) /\ Len(s) = off[m]
    BY DEF Holds
<1>5. s \o q \in Seq(V) /\ Len(s \o q) = off[m + 1]
    <2>1. s \o q \in Seq(V) /\ Len(s \o q) = Len(s) + Len(q)
        BY <1>4, Joined
    <2> QED BY <1>3, <1>4, <2>1
<1>6. \A x \in 1 .. off[m] : (s \o q)[x] = s[x]
    BY <1>4, Joined
<1>7. \A r \in 1 .. Len(q) : (s \o q)[off[m] + r] = q[r]
    <2>1. \A r \in 1 .. Len(q) : (s \o q)[Len(s) + r] = q[r]
        BY <1>1, <1>4, Joined
    <2> QED BY <1>4, <2>1
<1>8. ASSUME NEW i \in 1 .. m + 1
      PROVE  /\ off[i] <= off[m + 1]
             /\ \A r \in 1 .. Len(seqs[i]) : (s \o q)[off[i - 1] + r] = seqs[i][r]
    <2>1. CASE i = m + 1
        <3>1. seqs[i] = q /\ off[i - 1] = off[m] /\ off[i] = off[m + 1]
            BY <1>1, <1>2, <2>1
        <3>2. off[m + 1] <= off[m + 1]
            <4>1. Len(q) \in Nat
                BY <1>1
            <4> QED BY <1>3, <4>1
        <3> QED BY <1>7, <3>1, <3>2
    <2>2. CASE i # m + 1
        <3>1. i \in 1 .. m /\ i \in 1 .. n /\ i - 1 \in 0 .. n /\ i \in 0 .. n
            BY <2>2
        <3>2. /\ off[i] <= off[m] /\ \A r \in 1 .. Len(seqs[i]) : s[off[i - 1] + r] = seqs[i][r]
            BY <3>1 DEF Holds
        <3>3. off[i] = off[i - 1] + Len(seqs[i]) /\ off[i - 1] \in Nat /\ off[i] \in Nat
            BY <3>1 DEF Offsets
        <3>4. \A r \in 1 .. Len(seqs[i]) : off[i - 1] + r \in 1 .. off[m]
            <4>1. PICK l \in Nat, a \in Nat, b \in Nat : l = Len(seqs[i]) /\ a = off[i - 1] /\ b = off[m]
                BY <1>3, <3>1, <3>3
            <4>2. a + l <= b
                BY <3>2, <3>3, <4>1
            <4>3. \A r \in 1 .. l : a + r \in 1 .. b
                BY <4>2
            <4> QED BY <4>1, <4>3
        <3>5. off[i] <= off[m + 1]
            <4>1. Len(q) \in Nat
                BY <1>1
            <4> QED BY <1>3, <3>2, <3>3, <4>1
        <3> QED BY <1>6, <3>2, <3>4, <3>5
    <2> QED BY <2>1, <2>2
<1> QED BY <1>1, <1>5, <1>8 DEF Holds

\* FlattenSeq puts sequences one after the other.
LEMMA FlattenHolds ==
    ASSUME NEW V, NEW n \in Nat \ {0}, NEW seqs \in [1 .. n -> Seq(V)], NEW off, Offsets(off, seqs, n)
    PROVE  Holds(FlattenSeq(seqs), V, off, seqs, n)
<1> DEFINE Equation(x) == x = [i \in 1 .. Len(seqs) |-> IF i = 1 THEN seqs[i] ELSE x[i - 1] \o seqs[i]]
<1>1. Len(seqs) = n
    <2>1. seqs \in Seq(Seq(V))
        OBVIOUS
    <2> QED OBVIOUS
<1>2. FlattenSeq(seqs) = (CHOOSE x : Equation(x))[n]
    <2>1. FlattenSeq(seqs) = IF Len(seqs) = 0 THEN seqs ELSE (CHOOSE x : Equation(x))[Len(seqs)]
        BY Zenon DEF FlattenSeq
    <2>2. Len(seqs) # 0
        BY <1>1
    <2> HIDE DEF Equation
    <2> QED BY <1>1, <2>1, <2>2
<1>3. ASSUME NEW x PROVE Equation(x) <=> x = [i \in 1 .. n |-> IF i = 1 THEN seqs[i] ELSE x[i - 1] \o seqs[i]]
    BY <1>1
<1> HIDE DEF Equation
<1>4. PICK d \in Nat : d = n - 1
    OBVIOUS
<1>5. \E x : Equation(x)
    <2> DEFINE G == [k \in 1 .. d |-> [u \in Seq(V) |-> u \o seqs[k + 1]]]
    <2>1. \A k \in 1 .. d : k + 1 \in 1 .. n /\ seqs[k + 1] \in Seq(V)
        BY <1>4
    <2>2. \A k \in 1 .. d, u \in Seq(V) : G[k][u] = u \o seqs[k + 1] /\ u \o seqs[k + 1] \in Seq(V)
        BY <2>1
    <2> HIDE DEF G
    <2>3. StepsIn(G, d, Seq(V))
        BY <2>2 DEF StepsIn
    <2>4. PICK base \in Seq(V) : base = seqs[1]
        <3>1. 1 \in 1 .. n
            OBVIOUS
        <3> QED BY <3>1
    <2>5. PICK f : CountedBy(f, Seq(V), d, base, G)
        BY <2>3, CountedExists
    <2>6. f \in [0 .. d -> Seq(V)] /\ f[0] = seqs[1] /\ \A k \in 1 .. d : f[k] = G[k][f[k - 1]]
        BY <2>4, <2>5 DEF CountedBy
    <2>7. \A k \in 1 .. d : f[k] = f[k - 1] \o seqs[k + 1]
        <3>1. \A k \in 1 .. d : k - 1 \in 0 .. d
            OBVIOUS
        <3> QED BY <2>2, <2>6, <3>1
    <2> DEFINE x == [i \in 1 .. n |-> f[i - 1]]
    <2>8. ASSUME NEW i \in 1 .. n PROVE x[i] = IF i = 1 THEN seqs[i] ELSE x[i - 1] \o seqs[i]
        <3>1. CASE i = 1
            BY <2>6, <3>1
        <3>2. CASE i # 1
            <4>1. i - 1 \in 1 .. n /\ i - 1 \in 1 .. d /\ (i - 1) + 1 = i
                BY <1>4, <3>2
            <4>2. x[i - 1] = f[(i - 1) - 1]
                BY <4>1
            <4>3. x[i] = f[i - 1]
                OBVIOUS
            <4> HIDE DEF x
            <4> QED BY <2>7, <3>2, <4>1, <4>2, <4>3
        <3> QED BY <3>1, <3>2
    <2>9. x = [i \in 1 .. n |-> x[i]]
        OBVIOUS
    <2> HIDE DEF x
    <2>10. x = [i \in 1 .. n |-> IF i = 1 THEN seqs[i] ELSE x[i - 1] \o seqs[i]]
        BY <2>8, <2>9
    <2> QED BY <1>3, <2>10
<1>6. PICK x : FlattenSeq(seqs) = x[n] /\ Equation(x)
    <2>1. Equation(CHOOSE x : Equation(x))
        BY <1>5, Zenon
    <2> QED BY <1>2, <2>1
<1>7. \A i \in 1 .. n : x[i] = IF i = 1 THEN seqs[i] ELSE x[i - 1] \o seqs[i]
    <2>1. x = [i \in 1 .. n |-> IF i = 1 THEN seqs[i] ELSE x[i - 1] \o seqs[i]]
        BY <1>3, <1>6
    <2> QED BY <2>1
<1> DEFINE Bad == {k \in 0 .. d : ~ Holds(x[k + 1], V, off, seqs, k + 1)}
<1>8. 0 \notin Bad
    <2>1. 1 \in 1 .. n /\ 0 + 1 = 1 /\ 1 - 1 = 0
        OBVIOUS
    <2>2. x[1] = seqs[1] /\ seqs[1] \in Seq(V)
        BY <1>7, <2>1
    <2>3. off[1] = off[0] + Len(seqs[1]) /\ off[0] = 0
        BY <2>1 DEF Offsets
    <2>4. Len(seqs[1]) \in Nat /\ \A r \in 1 .. Len(seqs[1]) : 0 + r = r
        BY <2>2
    <2>5. Holds(x[1], V, off, seqs, 1)
        <3>1. Len(x[1]) = off[1] /\ off[1] <= off[1] /\ x[1] \in Seq(V)
            BY <2>2, <2>3, <2>4
        <3>2. \A r \in 1 .. Len(seqs[1]) : x[1][off[0] + r] = seqs[1][r]
            BY <2>2, <2>3, <2>4
        <3>3. \A i \in 1 .. 1 : i = 1
            OBVIOUS
        <3> QED BY <2>1, <3>1, <3>2, <3>3 DEF Holds
    <2> QED BY <2>1, <2>5
<1>9. ASSUME NEW k \in 1 .. d, k - 1 \notin Bad PROVE k \notin Bad
    <2>1. k \in 1 .. n - 1 /\ k + 1 \in 1 .. n /\ k + 1 # 1 /\ (k + 1) - 1 = k /\ k - 1 \in 0 .. d /\ (k - 1) + 1 = k
        BY <1>4
    <2>2. Holds(x[k], V, off, seqs, k)
        BY <1>9, <2>1
    <2>3. x[k + 1] = x[k] \o seqs[k + 1]
        BY <1>7, <2>1
    <2>4. Holds(x[k] \o seqs[k + 1], V, off, seqs, k + 1)
        BY <2>1, <2>2, HoldsMore
    <2> QED BY <2>3, <2>4
<1>10. Bad = {}
    <2>1. Bad \in SUBSET (0 .. d)
        OBVIOUS
    <2> HIDE DEF Bad
    <2> QED BY <1>8, <1>9, <2>1, FirstFailure
<1>11. Holds(x[n], V, off, seqs, n)
    <2>1. d \in 0 .. d /\ d + 1 = n
        BY <1>4
    <2>2. Holds(x[d + 1], V, off, seqs, d + 1)
        BY <1>10, <2>1
    <2> QED BY <2>1, <2>2
<1> QED BY <1>6, <1>11

LEMMA OffsetIs ==
    ASSUME NEW T \in Nat
    PROVE  /\ Offset(T, 0) = 0
           /\ \A j \in 0 .. T : Offset(T, j) \in Nat
           /\ \A j \in 0 .. T - 1 : Offset(T, j + 1) = Offset(T, j) + (T - j)
<1>1. Offset(T, 0) = 0
    <2>1. (2 * T - 0 + 1) * 0 = 0
        OBVIOUS
    <2> QED BY <2>1 DEF Offset
<1>2. ASSUME NEW j \in 0 .. T PROVE Offset(T, j) \in Nat
    <2>1. (2 * T - j + 1) * j \in Nat
        <3>1. 2 * T - j + 1 \in Nat /\ j \in Nat
            OBVIOUS
        <3> QED BY <3>1
    <2> QED BY <2>1 DEF Offset
<1>3. ASSUME NEW j \in 0 .. T - 1 PROVE Offset(T, j + 1) = Offset(T, j) + (T - j)
    <2>1. PICK a \in Nat, d \in Nat : a = (2 * T - j + 1) * j /\ d = T - j
        <3>1. 2 * T - j + 1 \in Nat /\ j \in Nat /\ T - j \in Nat
            OBVIOUS
        <3> QED BY <3>1
    <2>2. (2 * T - (j + 1) + 1) * (j + 1) = a + 2 * d
        BY <2>1
    <2>3. (a + 2 * d) \div 2 = a \div 2 + d
        OBVIOUS
    <2> QED BY <2>1, <2>2, <2>3 DEF Offset
<1> QED BY <1>1, <1>2, <1>3

LEMMA Segment ==
    ASSUME NEW V, NEW m \in Nat, NEW f \in [1 .. m -> V]
    PROVE  f \o <<>> = f /\ f \in Seq(V) /\ Len(f) = m
<1>1. f \in Seq(V) /\ Len(f) = m
    OBVIOUS
<1>2. f \o <<>> = f
    BY <1>1
<1> QED BY <1>1, <1>2

\* What copy j sees of the inputs v.
InsOfCopy(copy, j, v) == [c \in DOMAIN copy[j] |-> v[copy[j][c]]]

\* The outputs of copy i - 1 in its T - i + 1 frames.
OutcomeOf(T, nPo, cos, copy, v, i) == [j \in 1 .. (T - i + 1) * nPo |-> cos[j - 1][InsOfCopy(copy, i - 1, v)]]

AllSeen(T, n, copy, v) == \A j \in 0 .. T - 1 : InsOfCopy(copy, j, v) \in Ins(n)

LEMMA OutcomesAre ==
    ASSUME NEW T \in Nat \ {0}, NEW nPo \in Nat, NEW n, NEW cos \in Funcs(T * nPo, n), NEW copy, NEW v,
           AllSeen(T, n, copy, v),
           NEW t \in 0 .. T - 1, NEW s \in 0 .. t, NEW k \in 0 .. nPo - 1
    PROVE  Outcomes(T, nPo, cos, copy, v)[(Offset(T, s) + t - s) * nPo + k + 1]
             = cos[(t - s) * nPo + k][InsOfCopy(copy, s, v)]
<1> DEFINE seqs == [i \in 1 .. T |-> OutcomeOf(T, nPo, cos, copy, v, i) \o <<>>]
           off == [i \in 0 .. T |-> Offset(T, i) * nPo]
<1>1. Outcomes(T, nPo, cos, copy, v) = FlattenSeq(seqs)
    <2>1. \A i : Table([c \in DOMAIN copy[i - 1] |-> v[copy[i - 1][c]]]) = InsOfCopy(copy, i - 1, v)
        BY TableIs DEF InsOfCopy
    <2> QED BY <2>1 DEF Outcomes, OutcomeOf
<1>2. ASSUME NEW i \in 1 .. T
      PROVE  /\ OutcomeOf(T, nPo, cos, copy, v, i) \in Seq(BOOLEAN)
             /\ seqs[i] = OutcomeOf(T, nPo, cos, copy, v, i)
             /\ Len(OutcomeOf(T, nPo, cos, copy, v, i)) = (T - i + 1) * nPo
    <2>1. (T - i + 1) * nPo \in Nat /\ (T - i + 1) * nPo <= T * nPo /\ T * nPo \in Nat
        <3>1. T - i + 1 \in Nat /\ T - i + 1 <= T /\ T \in Nat
            OBVIOUS
        <3> QED BY <3>1, MulMonotone
    <2>2. i - 1 \in 0 .. T - 1
        OBVIOUS
    <2>3. \A j \in 1 .. (T - i + 1) * nPo : cos[j - 1][InsOfCopy(copy, i - 1, v)] \in BOOLEAN
        <3>1. \A j \in 1 .. (T - i + 1) * nPo : j - 1 \in 0 .. T * nPo - 1
            BY <2>1
        <3> QED BY <2>2, <3>1 DEF Funcs, AllSeen
    <2>4. OutcomeOf(T, nPo, cos, copy, v, i) \in [1 .. (T - i + 1) * nPo -> BOOLEAN]
        BY <2>3 DEF OutcomeOf
    <2> QED BY <2>1, <2>4, Segment
<1>3. seqs \in [1 .. T -> Seq(BOOLEAN)]
    BY <1>2
<1>4. Offsets(off, seqs, T)
    <2>1. \A i \in 0 .. T : Offset(T, i) * nPo \in Nat
        BY OffsetIs
    <2>2. off \in [0 .. T -> Nat] /\ off[0] = 0
        <3>1. 0 * nPo = 0 /\ 0 \in 0 .. T
            OBVIOUS
        <3> QED BY <2>1, <3>1, OffsetIs
    <2>3. ASSUME NEW i \in 1 .. T PROVE off[i] = off[i - 1] + Len(seqs[i])
        <3>1. i - 1 \in 0 .. T - 1 /\ i - 1 \in 0 .. T /\ i \in 0 .. T /\ (i - 1) + 1 = i
            OBVIOUS
        <3>2. PICK a \in Nat, b \in Nat : a = Offset(T, i - 1) /\ b = T - i + 1
            BY <3>1, OffsetIs
        <3>3. Offset(T, i) = a + b
            <4>1. Offset(T, (i - 1) + 1) = Offset(T, i - 1) + (T - (i - 1))
                BY <3>1, OffsetIs
            <4>2. T - (i - 1) = T - i + 1
                OBVIOUS
            <4> QED BY <3>1, <3>2, <4>1, <4>2
        <3>4. (a + b) * nPo = a * nPo + b * nPo
            OBVIOUS
        <3>5. Len(seqs[i]) = b * nPo
            BY <1>2, <3>2
        <3>6. off[i] = (a + b) * nPo /\ off[i - 1] = a * nPo
            BY <3>1, <3>2, <3>3
        <3> QED BY <3>4, <3>5, <3>6
    <2> HIDE DEF off, seqs
    <2> QED BY <2>2, <2>3 DEF Offsets
<1>5. Holds(FlattenSeq(seqs), BOOLEAN, off, seqs, T)
    <2> HIDE DEF off, seqs
    <2> QED BY <1>3, <1>4, FlattenHolds
<1>6. PICK o \in Nat, d \in Nat : o = Offset(T, s) /\ d = t - s
    <2>1. s \in 0 .. T
        OBVIOUS
    <2> QED BY <2>1, OffsetIs
<1>7. s + 1 \in 1 .. T /\ (s + 1) - 1 = s /\ s \in 0 .. T
    OBVIOUS
<1>8. d * nPo + k \in 0 .. (T - s) * nPo - 1 /\ d * nPo \in Nat
    <2>1. PICK m \in Nat : m = T - s
        OBVIOUS
    <2>2. d \in 0 .. m - 1
        BY <1>6, <2>1
    <2>3. d * nPo + k \in 0 .. m * nPo - 1
        BY <2>2, ItemInRange
    <2> QED BY <2>1, <2>3
<1>9. PICK r : r = d * nPo + k + 1 /\ r - 1 = d * nPo + k /\ r \in 1 .. (T - s) * nPo
    <2>1. (T - s) * nPo \in Nat
        <3>1. T - s \in Nat
            OBVIOUS
        <3> QED BY <3>1
    <2> QED BY <1>8, <2>1
<1>10. T - (s + 1) + 1 = T - s
    OBVIOUS
<1>11. FlattenSeq(seqs)[off[s] + r] = OutcomeOf(T, nPo, cos, copy, v, s + 1)[r]
    <2>1. /\ seqs[s + 1] = OutcomeOf(T, nPo, cos, copy, v, s + 1)
          /\ Len(seqs[s + 1]) = (T - s) * nPo
        BY <1>2, <1>7, <1>10
    <2> HIDE DEF off, seqs
    <2>2. \A x \in 1 .. Len(seqs[s + 1]) : FlattenSeq(seqs)[off[(s + 1) - 1] + x] = seqs[s + 1][x]
        BY <1>5, <1>7 DEF Holds
    <2> QED BY <1>7, <1>9, <2>1, <2>2
<1>12. OutcomeOf(T, nPo, cos, copy, v, s + 1)[r] = cos[d * nPo + k][InsOfCopy(copy, s, v)]
    <2>1. OutcomeOf(T, nPo, cos, copy, v, s + 1) = [j \in 1 .. (T - s) * nPo |-> cos[j - 1][InsOfCopy(copy, s, v)]]
        BY <1>7, <1>10 DEF OutcomeOf
    <2> QED BY <1>9, <2>1
<1>13. off[s] + r = (Offset(T, s) + t - s) * nPo + k + 1
    <2>1. off[s] = o * nPo
        BY <1>6, <1>7
    <2>2. Offset(T, s) + t - s = o + d
        BY <1>6
    <2>3. (o + d) * nPo = o * nPo + d * nPo
        OBVIOUS
    <2>4. o * nPo \in Nat /\ d * nPo \in Nat
        OBVIOUS
    <2> HIDE DEF off
    <2> QED BY <1>9, <2>1, <2>2, <2>3, <2>4
<1> HIDE DEF off, seqs
<1> QED BY <1>1, <1>6, <1>11, <1>12, <1>13

\* The last reset before frame t is in frame s - 1, or there is none and s is 0.
LastReset(nPi, v, t, s) ==
    /\ s \in 0 .. t
    /\ s = 0 \/ v[RstCi(nPi, s - 1)]
    /\ \A j \in s + 1 .. t : ~ v[RstCi(nPi, j - 1)]

LEMMA SelectedIs ==
    ASSUME NEW T, NEW nPi, NEW nPo, NEW y, NEW v, NEW t \in Nat, NEW k
    PROVE  \E s : /\ LastReset(nPi, v, t, s)
                  /\ Selected(T, nPi, nPo, y, v, t, k) = y[(Offset(T, s) + t - s) * nPo + k + 1]
<1> DEFINE Y(j) == y[(Offset(T, j) + t - j) * nPo + k + 1]
           Equation(x) == x = [j \in 0 .. t |-> IF j = 0 THEN Y(0) ELSE IF v[RstCi(nPi, j - 1)] THEN Y(j) ELSE x[j - 1]]
           V == {Y(j) : j \in 0 .. t}
<1>1. Selected(T, nPi, nPo, y, v, t, k) = (CHOOSE x : Equation(x))[t]
    BY Zenon DEF Selected
<1>2. \A j \in 0 .. t : Y(j) \in V
    OBVIOUS
<1>3. 0 \in 0 .. t /\ t \in 0 .. t /\ \A j \in 1 .. t : j \in 0 .. t /\ j - 1 \in 0 .. t /\ j # 0
    OBVIOUS
<1>4. \A j \in 0 .. t : j = 0 \/ j \in 1 .. t
    OBVIOUS
<1> HIDE DEF Y, V
<1>5. \E x : Equation(x)
    <2> DEFINE G == [j \in 1 .. t |-> [u \in V |-> IF v[RstCi(nPi, j - 1)] THEN Y(j) ELSE u]]
               base == Y(0)
    <2>1. StepsIn(G, t, V)
        <3>1. ASSUME NEW j \in 1 .. t, NEW u \in V PROVE G[j][u] \in V
            BY <1>2, <1>3
        <3> HIDE DEF G
        <3> QED BY <3>1 DEF StepsIn
    <2>2. PICK x : CountedBy(x, V, t, base, G)
        <3>1. base \in V
            BY <1>2, <1>3
        <3> HIDE DEF G, base
        <3> QED BY <2>1, <3>1, CountedExists
    <2>3. x \in [0 .. t -> V] /\ x[0] = Y(0) /\ \A j \in 1 .. t : x[j] = G[j][x[j - 1]]
        BY <2>2 DEF CountedBy
    <2>4. \A j \in 1 .. t : x[j] = IF v[RstCi(nPi, j - 1)] THEN Y(j) ELSE x[j - 1]
        BY <1>3, <2>3
    <2> HIDE DEF G
    <2>5. \A j \in 0 .. t : x[j] = IF j = 0 THEN Y(0) ELSE IF v[RstCi(nPi, j - 1)] THEN Y(j) ELSE x[j - 1]
        BY <1>3, <1>4, <2>3, <2>4
    <2>6. x = [j \in 0 .. t |-> x[j]]
        BY <2>3
    <2> QED BY <2>5, <2>6
<1>6. PICK x : Selected(T, nPi, nPo, y, v, t, k) = x[t] /\ Equation(x)
    <2>1. Equation(CHOOSE x : Equation(x))
        BY <1>5, Zenon
    <2> HIDE DEF Equation
    <2> QED BY <1>1, <2>1
<1>7. x[0] = Y(0) /\ \A j \in 1 .. t : x[j] = IF v[RstCi(nPi, j - 1)] THEN Y(j) ELSE x[j - 1]
    <2>1. \A j \in 0 .. t : x[j] = IF j = 0 THEN Y(0) ELSE IF v[RstCi(nPi, j - 1)] THEN Y(j) ELSE x[j - 1]
        BY <1>6
    <2> HIDE DEF Equation
    <2> QED BY <1>3, <2>1
<1> HIDE DEF Equation
<1> DEFINE Good(j) == \E s : LastReset(nPi, v, j, s) /\ x[j] = Y(s)
           Bad == {j \in 0 .. t : ~ Good(j)}
<1>8. 0 \notin Bad
    <2>1. LastReset(nPi, v, 0, 0)
        BY DEF LastReset
    <2> QED BY <1>7, <2>1
<1>9. ASSUME NEW j \in 1 .. t, j - 1 \notin Bad PROVE j \notin Bad
    <2>1. CASE v[RstCi(nPi, j - 1)]
        <3>1. LastReset(nPi, v, j, j)
            BY <2>1 DEF LastReset
        <3>2. x[j] = Y(j)
            BY <1>7, <2>1
        <3> QED BY <3>1, <3>2
    <2>2. CASE ~ v[RstCi(nPi, j - 1)]
        <3>1. x[j] = x[j - 1]
            BY <1>7, <2>2
        <3>2. PICK s : LastReset(nPi, v, j - 1, s) /\ x[j - 1] = Y(s)
            BY <1>3, <1>9
        <3>3. LastReset(nPi, v, j, s)
            <4>1. \A i \in s + 1 .. j : i = j \/ i \in s + 1 .. j - 1
                BY <3>2 DEF LastReset
            <4>2. s \in 0 .. j
                BY <3>2 DEF LastReset
            <4> QED BY <2>2, <3>2, <4>1, <4>2 DEF LastReset
        <3> QED BY <3>1, <3>2, <3>3
    <2> QED BY <2>1, <2>2
<1>10. Bad = {}
    <2>1. Bad \in SUBSET (0 .. t)
        OBVIOUS
    <2> HIDE DEF Bad
    <2> QED BY <1>8, <1>9, <2>1, FirstFailure
<1>11. Good(t)
    BY <1>3, <1>10
<1> QED BY <1>6, <1>11 DEF Y

\* A shows in frame t what the circuit N shows t - s frames after its start,
\* when it is started after the last reset.
ShowsSinceReset(A, N, T, nPi, nPo, copy) ==
    /\ A.pi = (1 + nPi) * T
    /\ \A v \in Ins((1 + nPi) * T), s \in 0 .. T - 1 : InsOfCopy(copy, s, v) \in Ins(CiNum(N))
    /\ \A v \in Ins((1 + nPi) * T), t \in 0 .. T - 1, k \in 0 .. nPo - 1 :
          \E s : /\ LastReset(nPi, v, t, s)
                 /\ A.po[t * nPo + k][v] = Co(N)[(t - s) * nPo + k][InsOfCopy(copy, s, v)]

LEMMA TimeCasShows ==
    ASSUME NEW N, IsCircuit(N), NEW T \in Nat \ {0}, timeCasAsserts(N, T),
           NEW nPi, nPi = CiNum(N) \div T, NEW nPo, nPo = CoNum(N) \div T,
           NEW copy, copy = pCopy(T, nPi)
    PROVE  /\ nPi \in Nat /\ nPo \in Nat /\ CiNum(N) = T * nPi /\ CoNum(N) = T * nPo
           /\ IsCircuit(timeCas(N, T)) /\ ShowsSinceReset(timeCas(N, T), N, T, nPi, nPo, copy)
<1> DEFINE X == (1 + nPi) * T
           cos == Co(N)
           P == T * nPo
           Row(v) == LET y == Outcomes(T, nPo, cos, copy, v)
                     IN Table([j \in 0 .. P - 1 |-> Selected(T, nPi, nPo, y, v, j \div nPo, j % nPo)])
           values == Table([v \in Ins(X) |-> Row(v)])
           po == [j \in 0 .. P - 1 |-> [v \in Ins(X) |-> values[v][j]]]
<1>1. timeCas(N, T) = Comb(X, po)
    BY Zenon DEF timeCas
<1>2. nPi \in Nat /\ nPo \in Nat /\ CiNum(N) = T * nPi /\ CoNum(N) = P /\ X \in Nat /\ P \in Nat
    <2>1. PICK a \in Nat, b \in Nat : a = CiNum(N) /\ b = CoNum(N)
        BY CircuitNumbers
    <2>2. a % T = 0 /\ b % T = 0
        BY <2>1 DEF timeCasAsserts
    <2>3. a = T * (a \div T) /\ a \div T \in Nat /\ b = T * (b \div T) /\ b \div T \in Nat
        BY <2>2
    <2>4. nPi \in Nat /\ nPo \in Nat /\ CiNum(N) = T * nPi /\ CoNum(N) = T * nPo
        BY <2>1, <2>3
    <2>5. (1 + nPi) * T \in Nat /\ T * nPo \in Nat
        BY <2>4
    <2> QED BY <2>4, <2>5
<1>3. IsCopy(copy, T, nPi)
    BY <1>2, CopyShows
<1>4. ASSUME NEW v \in Ins(X), NEW s \in 0 .. T - 1 PROVE InsOfCopy(copy, s, v) \in Ins(CiNum(N))
    <2>1. copy[s] \in [0 .. T * nPi - 1 -> 0 .. X - 1]
        BY <1>3 DEF IsCopy
    <2>2. v \in [0 .. X - 1 -> BOOLEAN]
        BY DEF Ins
    <2> HIDE DEF X
    <2>3. [c \in DOMAIN copy[s] |-> v[copy[s][c]]] \in [0 .. T * nPi - 1 -> BOOLEAN]
        BY <2>1, <2>2
    <2> QED BY <1>2, <2>3 DEF InsOfCopy, Ins
<1>5. cos \in Funcs(P, CiNum(N))
    BY <1>2, CoType
<1> HIDE DEF cos, X
<1>6. ASSUME NEW v \in Ins(X), NEW j \in 0 .. P - 1
      PROVE  /\ po[j][v] = Selected(T, nPi, nPo, Outcomes(T, nPo, cos, copy, v), v, j \div nPo, j % nPo)
    <2>1. values = [w \in Ins(X) |-> Row(w)]
        BY TableIs
    <2>2. values[v] = Row(v)
        <3> HIDE DEF values, Row
        <3> QED BY <2>1
    <2>3. Row(v) = [i \in 0 .. P - 1 |->
                      Selected(T, nPi, nPo, Outcomes(T, nPo, cos, copy, v), v, i \div nPo, i % nPo)]
        BY TableIs
    <2>4. po[j][v] = values[v][j]
        <3> HIDE DEF values
        <3> QED OBVIOUS
    <2> HIDE DEF values, Row, po, P
    <2> QED BY <2>2, <2>3, <2>4
<1>7. ASSUME NEW v \in Ins(X), NEW t \in 0 .. T - 1, NEW k \in 0 .. nPo - 1
      PROVE  \E s : /\ LastReset(nPi, v, t, s)
                    /\ Selected(T, nPi, nPo, Outcomes(T, nPo, cos, copy, v), v, t, k)
                          = cos[(t - s) * nPo + k][InsOfCopy(copy, s, v)]
    <2>1. PICK y : y = Outcomes(T, nPo, cos, copy, v)
        OBVIOUS
    <2>2. t \in Nat
        OBVIOUS
    <2>3. PICK s : /\ LastReset(nPi, v, t, s)
                   /\ Selected(T, nPi, nPo, y, v, t, k) = y[(Offset(T, s) + t - s) * nPo + k + 1]
        BY <2>2, SelectedIs
    <2>4. s \in 0 .. t
        BY <2>3 DEF LastReset
    <2>5. y[(Offset(T, s) + t - s) * nPo + k + 1] = cos[(t - s) * nPo + k][InsOfCopy(copy, s, v)]
        <3>1. PICK n : n = CiNum(N)
            OBVIOUS
        <3>2. AllSeen(T, n, copy, v)
            BY <1>4, <3>1 DEF AllSeen
        <3>3. PICK C : C = cos /\ C \in Funcs(T * nPo, n) /\ nPo \in Nat
            BY <1>2, <1>5, <3>1
        <3> HIDE DEF P
        <3>4. Outcomes(T, nPo, C, copy, v)[(Offset(T, s) + t - s) * nPo + k + 1]
                = C[(t - s) * nPo + k][InsOfCopy(copy, s, v)]
            BY <2>4, <3>2, <3>3, OutcomesAre
        <3> QED BY <2>1, <3>3, <3>4
    <2> QED BY <2>1, <2>3, <2>5
<1>8. po \in Funcs(P, X)
    <2>1. ASSUME NEW v \in Ins(X), NEW j \in 0 .. P - 1 PROVE po[j][v] \in BOOLEAN
        <3>1. PICK t \in 0 .. T - 1, k \in 0 .. nPo - 1 : t = j \div nPo /\ k = j % nPo
            BY <1>2, FrameAndItem
        <3>2. PICK s : LastReset(nPi, v, t, s) /\ po[j][v] = cos[(t - s) * nPo + k][InsOfCopy(copy, s, v)]
            <4> HIDE DEF po
            <4> QED BY <1>6, <1>7, <3>1
        <3>3. (t - s) * nPo + k \in 0 .. P - 1 /\ s \in 0 .. T - 1
            <4>1. s \in 0 .. t
                BY <3>2 DEF LastReset
            <4>2. t - s \in 0 .. T - 1
                BY <4>1
            <4> QED BY <1>2, <4>1, <4>2, ItemInRange
        <3>4. InsOfCopy(copy, s, v) \in Ins(CiNum(N))
            BY <1>4, <3>3
        <3> HIDE DEF po
        <3> QED BY <1>5, <3>2, <3>3, <3>4 DEF Funcs
    <2> DEFINE I == Ins(X)
               D == 0 .. P - 1
    <2>2. po = [j \in D |-> [v \in I |-> po[j][v]]]
        OBVIOUS
    <2> HIDE DEF po, I, D, P
    <2>3. \A j \in D : \A v \in I : po[j][v] \in BOOLEAN
        BY <2>1 DEF I, D
    <2>4. po \in [D -> [I -> BOOLEAN]]
        BY <2>2, <2>3
    <2> QED BY <2>4 DEF I, D, Funcs
<1>9. ASSUME NEW v \in Ins(X), NEW t \in 0 .. T - 1, NEW k \in 0 .. nPo - 1
      PROVE  \E s : /\ LastReset(nPi, v, t, s)
                    /\ po[t * nPo + k][v] = cos[(t - s) * nPo + k][InsOfCopy(copy, s, v)]
    <2>1. t * nPo + k \in 0 .. P - 1 /\ (t * nPo + k) \div nPo = t /\ (t * nPo + k) % nPo = k
        <3>1. t \in Nat
            OBVIOUS
        <3> QED BY <1>2, <3>1, ItemInRange, ItemOfFrame
    <2>2. PICK j \in 0 .. P - 1 : j = t * nPo + k /\ j \div nPo = t /\ j % nPo = k
        BY <2>1
    <2> HIDE DEF po, P
    <2>3. po[j][v] = Selected(T, nPi, nPo, Outcomes(T, nPo, cos, copy, v), v, t, k)
        BY <1>6, <2>2
    <2> QED BY <1>7, <2>2, <2>3
<1> HIDE DEF po
<1>10. IsCircuit(Comb(X, po)) /\ Comb(X, po).pi = X /\ Comb(X, po).po = po
    BY <1>2, <1>8, CombCircuit
<1>11. PICK A : A = timeCas(N, T) /\ A = Comb(X, po)
    BY <1>1
<1>12. /\ IsCircuit(A) /\ A.pi = X
       /\ \A v \in Ins(X), t \in 0 .. T - 1, k \in 0 .. nPo - 1 :
             \E s : LastReset(nPi, v, t, s) /\ A.po[t * nPo + k][v] = cos[(t - s) * nPo + k][InsOfCopy(copy, s, v)]
    <2>1. IsCircuit(A) /\ A.pi = X /\ A.po = po
        BY <1>10, <1>11
    <2>2. ASSUME NEW v \in Ins(X), NEW t \in 0 .. T - 1, NEW k \in 0 .. nPo - 1
          PROVE  \E s : LastReset(nPi, v, t, s) /\ A.po[t * nPo + k][v] = cos[(t - s) * nPo + k][InsOfCopy(copy, s, v)]
        <3>1. PICK s : LastReset(nPi, v, t, s) /\ po[t * nPo + k][v] = cos[(t - s) * nPo + k][InsOfCopy(copy, s, v)]
            BY <1>9
        <3>2. A.po[t * nPo + k][v] = po[t * nPo + k][v]
            BY <2>1
        <3> QED BY <3>1, <3>2, Zenon
    <2> QED BY <2>1, <2>2
<1>13. \A v \in Ins(X), s \in 0 .. T - 1 : InsOfCopy(copy, s, v) \in Ins(CiNum(N))
    BY <1>4
<1> QED BY <1>2, <1>11, <1>12, <1>13 DEF X, cos, ShowsSinceReset

\* The Cis of frame t of a machine with resets, when the latches are l.
RstCis(M, t, v, l) ==
    [c \in 0 .. CiNum(M) - 1 |-> IF c < M.pi THEN v[t * (M.pi + 1) + c] ELSE l[c - M.pi]]

IsResetRun(M, T, v, run) ==
    \A t \in 0 .. T - 1 :
        run[t] = IF t = 0 \/ v[RstCi(M.pi, t - 1)] THEN RstCis(M, t, v, M.init)
                 ELSE RstCis(M, t, v, After(M, run[t - 1]))

LEMMA RstCisType ==
    ASSUME NEW M, IsCircuit(M), NEW T \in Nat \ {0}, NEW t \in 0 .. T - 1, NEW v \in Ins((1 + M.pi) * T),
           NEW l \in Ins(LatNum(M))
    PROVE  RstCis(M, t, v, l) \in Ins(CiNum(M))
<1>1. PICK p \in Nat, m \in Nat : p = M.pi /\ m = LatNum(M) /\ CiNum(M) = p + m
    BY CircuitNumbers
<1>2. ASSUME NEW c \in 0 .. CiNum(M) - 1
      PROVE  (IF c < M.pi THEN v[t * (M.pi + 1) + c] ELSE l[c - M.pi]) \in BOOLEAN
    <2>1. CASE c < p
        <3>1. c \in 0 .. (p + 1) - 1 /\ p + 1 \in Nat
            BY <1>1, <2>1
        <3>2. t * (p + 1) + c \in 0 .. T * (p + 1) - 1
            BY <3>1, ItemInRange
        <3>3. T * (p + 1) = (1 + p) * T
            OBVIOUS
        <3> QED BY <1>1, <2>1, <3>2, <3>3 DEF Ins
    <2>2. CASE ~ (c < p)
        <3>1. c - p \in 0 .. m - 1
            BY <1>1, <2>2
        <3> QED BY <1>1, <2>2, <3>1 DEF Ins
    <2> QED BY <1>1, <2>1, <2>2
<1> QED BY <1>2 DEF RstCis, Ins

LEMMA ResetRunIs ==
    ASSUME NEW M, IsCircuit(M), NEW T \in Nat \ {0}, NEW v \in Ins((1 + M.pi) * T)
    PROVE  IsResetRun(M, T, v, ResetRun(M, T, v))
<1> DEFINE Cis(t, l) == Table([c \in 0 .. CiNum(M) - 1 |-> IF c < M.pi THEN v[t * (M.pi + 1) + c] ELSE l[c - M.pi]])
           Equation(x) == x = [t \in 0 .. T - 1 |->
               IF t = 0 \/ v[RstCi(M.pi, t - 1)] THEN Cis(t, M.init)
               ELSE LET u == x[t - 1] IN Cis(t, Table([l \in DOMAIN M.init |-> M.next[l][u]]))]
           Body(x, t) == IF t = 0 \/ v[RstCi(M.pi, t - 1)] THEN RstCis(M, t, v, M.init)
                         ELSE RstCis(M, t, v, After(M, x[t - 1]))
           V == Ins(CiNum(M))
<1>1. ResetRun(M, T, v) = CHOOSE x : Equation(x)
    <2>1. ResetRun(M, T, v) = Table(CHOOSE x : Equation(x))
        BY Zenon DEF ResetRun
    <2> QED BY <2>1, TableIs
<1>2. \A t, l : Cis(t, l) = RstCis(M, t, v, l)
    BY TableIs DEF RstCis
<1>3. \A u : Table([l \in DOMAIN M.init |-> M.next[l][u]]) = After(M, u)
    BY TableIs DEF After
<1> HIDE DEF Cis
<1>4. ASSUME NEW x PROVE Equation(x) <=> x = [t \in 0 .. T - 1 |-> Body(x, t)]
    BY <1>2, <1>3
<1>5. \A t \in 1 .. T - 1 : t \in 0 .. T - 1 /\ t - 1 \in 0 .. T - 1 /\ t # 0
    OBVIOUS
<1>6. 0 \in 0 .. T - 1 /\ \A t \in 0 .. T - 1 : t = 0 \/ t \in 1 .. T - 1
    OBVIOUS
<1>7. /\ \A t \in 0 .. T - 1 : RstCis(M, t, v, M.init) \in V
      /\ \A t \in 0 .. T - 1, u \in V : RstCis(M, t, v, After(M, u)) \in V
    <2>1. M.init \in Ins(LatNum(M)) /\ \A u \in V : After(M, u) \in Ins(LatNum(M))
        BY AfterType DEF IsCircuit
    <2> QED BY <2>1, RstCisType
<1> HIDE DEF V, Equation
<1>8. \E x : Equation(x)
    <2> DEFINE G == [t \in 1 .. T - 1 |-> [u \in V |->
                        IF v[RstCi(M.pi, t - 1)] THEN RstCis(M, t, v, M.init) ELSE RstCis(M, t, v, After(M, u))]]
               base == RstCis(M, 0, v, M.init)
    <2>1. PICK n \in Nat : n = T - 1
        OBVIOUS
    <2>2. StepsIn(G, n, V)
        <3>1. ASSUME NEW t \in 1 .. T - 1, NEW u \in V PROVE G[t][u] \in V
            BY <1>5, <1>7
        <3> HIDE DEF G
        <3> QED BY <2>1, <3>1 DEF StepsIn
    <2>3. PICK x : CountedBy(x, V, n, base, G)
        <3>1. base \in V
            BY <1>6, <1>7
        <3> HIDE DEF G, base
        <3> QED BY <2>2, <3>1, CountedExists
    <2>4. x \in [0 .. T - 1 -> V] /\ x[0] = base /\ \A t \in 1 .. T - 1 : x[t] = G[t][x[t - 1]]
        BY <2>1, <2>3 DEF CountedBy
    <2>5. \A t \in 1 .. T - 1 : x[t] = IF v[RstCi(M.pi, t - 1)] THEN RstCis(M, t, v, M.init)
                                        ELSE RstCis(M, t, v, After(M, x[t - 1]))
        BY <1>5, <2>4
    <2> HIDE DEF G
    <2>6. \A t \in 0 .. T - 1 : x[t] = Body(x, t)
        BY <1>5, <1>6, <2>4, <2>5
    <2>7. x = [t \in 0 .. T - 1 |-> x[t]]
        BY <2>4
    <2> HIDE DEF Body
    <2>8. x = [t \in 0 .. T - 1 |-> Body(x, t)]
        BY <2>6, <2>7
    <2> QED BY <1>4, <2>8
<1>9. PICK x : x = ResetRun(M, T, v) /\ Equation(x)
    <2>1. Equation(CHOOSE x : Equation(x))
        BY <1>8, Zenon
    <2> QED BY <1>1, <2>1
<1>10. \A t \in 0 .. T - 1 : x[t] = Body(x, t)
    <2> HIDE DEF Body
    <2>1. x = [t \in 0 .. T - 1 |-> Body(x, t)]
        BY <1>4, <1>9
    <2> QED BY <2>1
<1> QED BY <1>9, <1>10 DEF IsResetRun

\* The copy that starts in frame s sees in its frame f the inputs of frame s + f.
LEMMA CopySees ==
    ASSUME NEW M, IsCircuit(M), NEW T \in Nat \ {0}, NEW copy, IsCopy(copy, T, M.pi), NEW v,
           NEW s \in 0 .. T - 1, NEW f \in 0 .. T - s - 1, NEW l
    PROVE  CisAt(M, f, InsOfCopy(copy, s, v), l) = RstCis(M, s + f, v, l)
<1>1. PICK p \in Nat, n \in Nat : p = M.pi /\ n = CiNum(M)
    BY CircuitNumbers
<1>2. PICK m \in Nat : m = T - s
    OBVIOUS
<1>3. ASSUME NEW c \in 0 .. p - 1 PROVE InsOfCopy(copy, s, v)[f * p + c] = v[(s + f) * (p + 1) + c]
    <2>1. f \in 0 .. m - 1 /\ f \in Nat
        BY <1>2
    <2>2. PICK i : i = f * p + c /\ i \in 0 .. m * p - 1 /\ i \div p = f /\ i % p = c
        <3>1. f * p + c \in 0 .. m * p - 1
            BY <2>1, ItemInRange
        <3>2. (f * p + c) \div p = f /\ (f * p + c) % p = c
            BY <2>1, ItemOfFrame, Zenon
        <3> QED BY <3>1, <3>2
    <2>3. copy[s][i] = (s + f) * (p + 1) + c
        BY <1>1, <1>2, <2>2 DEF IsCopy
    <2>4. i \in DOMAIN copy[s]
        <3>1. DOMAIN copy[s] = 0 .. T * p - 1
            BY <1>1 DEF IsCopy
        <3>2. m * p <= T * p /\ m * p \in Nat /\ T * p \in Nat
            <4>1. m <= T /\ T \in Nat
                BY <1>2
            <4> QED BY <4>1, MulMonotone
        <3>3. \A a, b \in Nat : a <= b => 0 .. a - 1 \subseteq 0 .. b - 1
            OBVIOUS
        <3>4. 0 .. m * p - 1 \subseteq 0 .. T * p - 1
            BY <3>2, <3>3
        <3> QED BY <2>2, <3>1, <3>4
    <2> QED BY <2>2, <2>3, <2>4 DEF InsOfCopy
<1>4. \A c \in 0 .. n - 1 : c < p => c \in 0 .. p - 1
    OBVIOUS
<1>5. ASSUME NEW c \in 0 .. n - 1
      PROVE  (IF c < p THEN InsOfCopy(copy, s, v)[f * p + c] ELSE l[c - p])
               = (IF c < p THEN v[(s + f) * (p + 1) + c] ELSE l[c - p])
    BY <1>3, <1>4
<1>6. [c \in 0 .. n - 1 |-> IF c < p THEN InsOfCopy(copy, s, v)[f * p + c] ELSE l[c - p]]
        = [c \in 0 .. n - 1 |-> IF c < p THEN v[(s + f) * (p + 1) + c] ELSE l[c - p]]
    BY <1>5
<1> QED BY <1>1, <1>6 DEF CisAt, RstCis

\* It goes through the states that the machine with resets goes through.
LEMMA CopyRuns ==
    ASSUME NEW M, IsCircuit(M), NEW T \in Nat \ {0}, NEW copy, IsCopy(copy, T, M.pi), NEW v,
           NEW t \in 0 .. T - 1, NEW s, LastReset(M.pi, v, t, s),
           NEW own, IsRun(M, T, InsOfCopy(copy, s, v), own), NEW run, IsResetRun(M, T, v, run)
    PROVE  own[t - s] = run[t]
<1>1. PICK d \in Nat : d = t - s
    BY DEF LastReset
<1>2. s \in 0 .. t /\ s \in 0 .. T - 1
    BY DEF LastReset
<1>3. \A f \in 0 .. d : f \in 0 .. T - s - 1 /\ f \in 0 .. T - 1 /\ s + f \in 0 .. T - 1 /\ s + f \in 0 .. t
    BY <1>1, <1>2
<1> DEFINE Bad == {f \in 0 .. d : own[f] # run[s + f]}
<1>4. 0 \notin Bad
    <2>1. 0 \in 0 .. d /\ s + 0 = s
        BY <1>2
    <2>2. own[0] = CisAt(M, 0, InsOfCopy(copy, s, v), M.init)
        BY DEF IsRun
    <2>3. CisAt(M, 0, InsOfCopy(copy, s, v), M.init) = RstCis(M, s + 0, v, M.init)
        BY <1>2, <1>3, <2>1, CopySees
    <2>4. run[s] = RstCis(M, s, v, M.init)
        BY <1>2 DEF IsResetRun, LastReset
    <2> QED BY <2>1, <2>2, <2>3, <2>4
<1>5. ASSUME NEW f \in 1 .. d, f - 1 \notin Bad PROVE f \notin Bad
    <2>1. f \in 0 .. d /\ f - 1 \in 0 .. d /\ f \in 1 .. T - 1
        BY <1>1, <1>2
    <2>2. own[f - 1] = run[s + (f - 1)]
        BY <1>5, <2>1
    <2>3. own[f] = CisAt(M, f, InsOfCopy(copy, s, v), After(M, own[f - 1]))
        BY <2>1 DEF IsRun
    <2>4. PICK l : l = After(M, own[f - 1])
        OBVIOUS
    <2>5. CisAt(M, f, InsOfCopy(copy, s, v), l) = RstCis(M, s + f, v, l)
        BY <1>2, <1>3, <2>1, CopySees
    <2>6. s + f \in s + 1 .. t /\ s + f # 0 /\ (s + f) - 1 = s + (f - 1) /\ s + f \in 0 .. T - 1
        BY <1>1, <1>2, <1>3
    <2>7. ~ v[RstCi(M.pi, (s + f) - 1)]
        BY <2>6 DEF LastReset
    <2>8. run[s + f] = RstCis(M, s + f, v, After(M, run[(s + f) - 1]))
        BY <2>6, <2>7 DEF IsResetRun
    <2> QED BY <2>2, <2>3, <2>4, <2>5, <2>6, <2>8
<1>6. Bad = {}
    <2>1. Bad \in SUBSET (0 .. d)
        OBVIOUS
    <2> HIDE DEF Bad
    <2> QED BY <1>4, <1>5, <2>1, FirstFailure
<1>7. d \in 0 .. d /\ s + d = t
    BY <1>1, <1>2
<1>8. own[d] = run[s + d]
    BY <1>6, <1>7
<1> QED BY <1>1, <1>7, <1>8

LEMMA Quotient ==
    ASSUME NEW T \in Nat \ {0}, NEW p \in Nat
    PROVE  (T * p) \div T = p
<1>1. 0 \in 0 .. T - 1 /\ T \in Nat
    OBVIOUS
<1>2. (p * T + 0) \div T = p
    BY <1>1, ItemOfFrame, Zenon
<1>3. T * p = p * T + 0
    OBVIOUS
<1> QED BY <1>2, <1>3

LEMMA CombCos ==
    ASSUME NEW N, IsCircuit(N), LatNum(N) = 0
    PROVE  CoNum(N) = PoNum(N) /\ CiNum(N) = N.pi /\ \A k \in 0 .. PoNum(N) - 1 : Co(N)[k] = N.po[k]
<1>1. PICK p \in Nat, n \in Nat : p = PoNum(N) /\ n = N.pi /\ CoNum(N) = p + 0 /\ CiNum(N) = n + 0
    BY CircuitNumbers
<1>2. \A k \in 0 .. p - 1 : Co(N)[k] = N.po[k]
    BY <1>1 DEF Co
<1> QED BY <1>1, <1>2

\* After a reset the expanded machine is in its initial state again.
LEMMA CascadeShows ==
    ASSUME NEW M, IsCircuit(M), NEW T \in Nat \ {0}, timeCasAsserts(Frames(M, T), T),
           NEW A, A = timeCas(Frames(M, T), T),
           NEW v \in Ins(A.pi), NEW t \in 0 .. T - 1, NEW k \in 0 .. PoNum(M) - 1
    PROVE  A.po[t * PoNum(M) + k][v] = M.po[k][ResetRun(M, T, v)[t]]
<1>1. PICK N : N = Frames(M, T)
    OBVIOUS
<1>2. IsCircuit(N) /\ LatNum(N) = 0 /\ PoNum(N) = T * PoNum(M) /\ CiNum(N) = T * M.pi
    BY <1>1, FramesShow
<1>3. PICK p \in Nat, n \in Nat : p = PoNum(M) /\ n = M.pi
    BY CircuitNumbers
<1>4. CoNum(N) = T * p /\ CiNum(N) = T * n /\ \A i \in 0 .. T * p - 1 : Co(N)[i] = N.po[i]
    BY <1>2, <1>3, CombCos
<1>5. n = CiNum(N) \div T /\ p = CoNum(N) \div T
    BY <1>4, Quotient
<1>6. PICK copy : copy = pCopy(T, n) /\ IsCopy(copy, T, n)
    BY CopyShows
<1>7. timeCasAsserts(N, T) /\ A = timeCas(N, T)
    BY <1>1
<1>8. /\ A.pi = (1 + n) * T
      /\ \A w \in Ins((1 + n) * T), s \in 0 .. T - 1 : InsOfCopy(copy, s, w) \in Ins(CiNum(N))
      /\ \A w \in Ins((1 + n) * T), x \in 0 .. T - 1, j \in 0 .. p - 1 :
            \E s : LastReset(n, w, x, s) /\ A.po[x * p + j][w] = Co(N)[(x - s) * p + j][InsOfCopy(copy, s, w)]
    <2>1. ShowsSinceReset(timeCas(N, T), N, T, n, p, copy)
        BY <1>2, <1>5, <1>6, <1>7, TimeCasShows
    <2> QED BY <1>7, <2>1 DEF ShowsSinceReset
<1>9. v \in Ins((1 + n) * T) /\ k \in 0 .. p - 1
    BY <1>3, <1>8
<1>10. PICK s : LastReset(n, v, t, s) /\ A.po[t * p + k][v] = Co(N)[(t - s) * p + k][InsOfCopy(copy, s, v)]
    BY <1>8, <1>9
<1>11. s \in 0 .. T - 1 /\ t - s \in 0 .. T - 1
    BY <1>10 DEF LastReset
<1>12. PICK w : w = InsOfCopy(copy, s, v) /\ w \in Ins(T * M.pi)
    BY <1>3, <1>4, <1>8, <1>9, <1>11
<1>13. PICK own : IsRun(M, T, w, own)
    BY <1>12, RunExists
<1>14. Co(N)[(t - s) * p + k] = N.po[(t - s) * p + k]
    BY <1>4, <1>9, <1>11, ItemInRange
<1>15. N.po[(t - s) * p + k][w] = M.po[k][own[t - s]]
    <2>1. PICK d : d = t - s /\ d \in 0 .. T - 1
        BY <1>11
    <2>2. Frames(M, T).po[d * PoNum(M) + k][w] = M.po[k][own[d]]
        BY <1>12, <1>13, <2>1, FramesShow
    <2> QED BY <1>1, <1>3, <2>1, <2>2
<1>16. own[t - s] = ResetRun(M, T, v)[t]
    <2>1. PICK run : run = ResetRun(M, T, v) /\ IsResetRun(M, T, v, run)
        BY <1>3, <1>9, ResetRunIs
    <2>2. IsCopy(copy, T, M.pi) /\ LastReset(M.pi, v, t, s) /\ IsRun(M, T, InsOfCopy(copy, s, v), own)
        BY <1>3, <1>6, <1>10, <1>12, <1>13
    <2>3. IsResetRun(M, T, v, run)
        BY <2>1
    <2>4. own[t - s] = run[t]
        BY <2>2, <2>3, CopyRuns
    <2> QED BY <2>1, <2>4
<1> QED BY <1>3, <1>10, <1>12, <1>14, <1>15, <1>16

-----------------------------------------------------------------------------
(* Permutations                                                            *)

\* L orders S strictly.
Orders(L, S) ==
    /\ \A j \in S : <<j, j>> \notin L
    /\ \A i, j, k \in S : <<i, j>> \in L /\ <<j, k>> \in L => <<i, k>> \in L
    /\ \A i, j \in S : i = j \/ <<i, j>> \in L \/ <<j, i>> \in L

RankOf(L, S) == [j \in S |-> Cardinality({m \in S : <<m, j>> \in L})]

\* Counting what comes before numbers the members of a finite set.
LEMMA RankBijection ==
    ASSUME NEW S, IsFiniteSet(S), NEW L, Orders(L, S)
    PROVE  RankOf(L, S) \in Bijection(S, 0 .. Cardinality(S) - 1)
<1> DEFINE B(j) == {m \in S : <<m, j>> \in L}
           r == RankOf(L, S)
<1>1. PICK n \in Nat : n = Cardinality(S)
    BY FS_CardinalityType
<1>2. \A j \in S : B(j) \subseteq S \ {j} /\ IsFiniteSet(B(j)) /\ Cardinality(B(j)) \in Nat
    <2>1. ASSUME NEW j \in S PROVE B(j) \subseteq S \ {j}
        BY DEF Orders
    <2>2. ASSUME NEW j \in S PROVE IsFiniteSet(B(j))
        <3>1. B(j) \subseteq S
            OBVIOUS
        <3> HIDE DEF B
        <3> QED BY <3>1, FS_Subset
    <2> HIDE DEF B
    <2> QED BY <2>1, <2>2, FS_CardinalityType
<1>3. \A j \in S : r[j] = Cardinality(B(j))
    BY DEF RankOf
<1>4. ASSUME NEW j \in S PROVE r[j] \in 0 .. n - 1
    <2>1. IsFiniteSet(S \ {j}) /\ Cardinality(S \ {j}) = n - 1
        BY <1>1, FS_RemoveElement
    <2> HIDE DEF B, r
    <2>2. Cardinality(B(j)) <= n - 1
        BY <1>2, <2>1, FS_Subset
    <2> QED BY <1>1, <1>2, <1>3, <2>2
<1>5. ASSUME NEW i \in S, NEW j \in S, <<i, j>> \in L PROVE r[i] # r[j]
    <2>1. B(i) \subseteq B(j) /\ i \in B(j) /\ i \notin B(i)
        BY <1>5 DEF Orders
    <2> HIDE DEF B, r
    <2>2. Cardinality(B(i)) # Cardinality(B(j))
        BY <1>2, <2>1, FS_Subset
    <2> QED BY <1>3, <2>2
<1>6. r \in Injection(S, 0 .. n - 1)
    <2>1. \A i, j \in S : r[i] = r[j] => i = j
        BY <1>5 DEF Orders
    <2>2. r = [j \in S |-> r[j]]
        BY DEF RankOf
    <2> HIDE DEF r
    <2>3. r \in [S -> 0 .. n - 1]
        BY <1>4, <2>2
    <2> QED BY <2>1, <2>3 DEF Injection, IsInjective
<1>7. IsFiniteSet(0 .. n - 1) /\ Cardinality(0 .. n - 1) = n
    BY FS_Interval
<1> HIDE DEF r
<1>8. r \in Surjection(S, 0 .. n - 1)
    BY <1>1, <1>6, <1>7, FS_Injection
<1> QED BY <1>1, <1>6, <1>8 DEF Bijection, r

\* An injection of 0 .. n - 1 into itself permutes it.
LEMMA InjectionPermutes ==
    ASSUME NEW n \in Nat, NEW f \in Injection(0 .. n - 1, 0 .. n - 1)
    PROVE  f \in Bijection(0 .. n - 1, 0 .. n - 1)
<1>1. IsFiniteSet(0 .. n - 1)
    BY FS_Interval
<1>2. f \in Surjection(0 .. n - 1, 0 .. n - 1)
    BY <1>1, FS_Injection
<1> QED BY <1>2 DEF Bijection

\* The inverse is a permutation, and its inverse is the permutation again.
LEMMA InverseOf ==
    ASSUME NEW n \in Nat, NEW perm \in Bijection(0 .. n - 1, 0 .. n - 1)
    PROVE  /\ invPerm(perm) \in Bijection(0 .. n - 1, 0 .. n - 1)
           /\ \A v : Back(n, invPerm(perm), v) = [j \in 0 .. n - 1 |-> v[perm[j]]]
<1> DEFINE S == 0 .. n - 1
           inv == invPerm(perm)
<1>1. perm \in [S -> S] /\ DOMAIN perm = S
    BY DEF Bijection, Injection
<1>2. inv = [p \in S |-> CHOOSE c \in S : perm[c] = p]
    BY <1>1 DEF invPerm
<1>3. \A p \in S : inv[p] \in S /\ perm[inv[p]] = p /\ \A i \in S : perm[i] = p => inv[p] = i
    <2>1. ASSUME NEW p \in S
          PROVE  inv[p] \in S /\ perm[inv[p]] = p /\ \A i \in S : perm[i] = p => inv[p] = i
        <3>1. inv[p] = CHOOSE c \in S : perm[c] = p
            BY <1>2
        <3> HIDE DEF inv
        <3> QED BY <3>1, PlaceOf
    <2> QED BY <2>1
<1>4. inv \in Injection(S, S)
    <2>1. inv \in [S -> S]
        <3> DEFINE Where(p) == CHOOSE c \in S : perm[c] = p
        <3>1. \A p \in S : Where(p) \in S
            BY <1>2, <1>3
        <3> HIDE DEF Where, inv, S
        <3>2. inv = [p \in S |-> Where(p)]
            BY <1>2 DEF Where
        <3> QED BY <3>1, <3>2
    <2>2. \A p, q \in S : inv[p] = inv[q] => p = q
        BY <1>3
    <2> HIDE DEF inv
    <2> QED BY <2>1, <2>2 DEF Injection, IsInjective
<1>5. inv \in Bijection(S, S)
    <2> HIDE DEF inv
    <2> QED BY <1>4, InjectionPermutes
<1>6. ASSUME NEW c \in S PROVE (CHOOSE i \in S : inv[i] = c) = perm[c]
    <2> HIDE DEF inv
    <2>1. perm[c] \in S
        BY <1>1
    <2>2. inv[perm[c]] = c
        BY <1>3, <2>1
    <2> QED BY <1>5, <2>1, <2>2, PlaceOf
<1>7. ASSUME NEW v PROVE Back(n, inv, v) = [j \in S |-> v[perm[j]]]
    <2> DEFINE Where(c) == CHOOSE i \in S : inv[i] = c
    <2>1. Back(n, inv, v) = [c \in S |-> v[Where(c)]]
        BY DEF Back
    <2>2. \A c \in S : Where(c) = perm[c]
        BY <1>6
    <2> HIDE DEF Where, inv
    <2> QED BY <2>1, <2>2
<1> QED BY <1>5, <1>7

\* The network that is folded shows what the network shows, with its inputs
\* at their places.
LEMMA PermutedShows ==
    ASSUME NEW N, IsCircuit(N), LatNum(N) = 0,
           NEW perm \in Bijection(0 .. N.pi - 1, 0 .. N.pi - 1)
    PROVE  /\ IsCircuit(aigPermCi(N, invPerm(perm)))
           /\ \A v \in Ins(N.pi), k \in DOMAIN N.po :
                 aigPermCi(N, invPerm(perm)).po[k][v] = N.po[k][[j \in 0 .. N.pi - 1 |-> v[perm[j]]]]
<1>1. PICK n \in Nat : n = N.pi /\ CiNum(N) = n
    BY CombCos, CircuitNumbers
<1>2. PICK inv : inv = invPerm(perm) /\ inv \in Bijection(0 .. n - 1, 0 .. n - 1)
                 /\ \A v : Back(n, inv, v) = [j \in 0 .. n - 1 |-> v[perm[j]]]
    BY <1>1, InverseOf
<1>3. CoNum(N) = PoNum(N) /\ DOMAIN N.po = 0 .. PoNum(N) - 1 /\ \A k \in 0 .. PoNum(N) - 1 : Co(N)[k] = N.po[k]
    BY CombCos, CircuitNumbers
<1>4. inv \in Bijection(0 .. CiNum(N) - 1, 0 .. CiNum(N) - 1)
    BY <1>1, <1>2
<1>5. IsCircuit(aigPermCi(N, inv))
    BY <1>4, PermCiShows
<1>6. ASSUME NEW v \in Ins(n), NEW k \in 0 .. PoNum(N) - 1
      PROVE  aigPermCi(N, inv).po[k][v] = N.po[k][[j \in 0 .. n - 1 |-> v[perm[j]]]]
    <2>1. aigPermCi(N, inv).po[k][v] = Co(N)[k][Back(CiNum(N), inv, v)]
        <3>1. v \in Ins(CiNum(N)) /\ k \in 0 .. CoNum(N) - 1
            BY <1>1, <1>3
        <3> QED BY <1>4, <3>1, PermCiShows
    <2> QED BY <1>1, <1>2, <1>3, <2>1
<1> QED BY <1>1, <1>2, <1>3, <1>5, <1>6

\* The output that places input j, in the order s; Num(sup) when none does.
RoundOf(sup, s, j) ==
    IF \E a \in DOMAIN s : j \in sup[s[a]]
    THEN CHOOSE a \in DOMAIN s : j \in sup[s[a]] /\ \A b \in 0 .. a - 1 : j \notin sup[s[b]]
    ELSE Num(sup)

LEMMA RoundIs ==
    ASSUME NEW P \in Nat, NEW sup, DOMAIN sup = 0 .. P - 1, NEW s, DOMAIN s = 0 .. P - 1, NEW j
    PROVE  /\ RoundOf(sup, s, j) \in 0 .. P
           /\ RoundOf(sup, s, j) < P => j \in sup[s[RoundOf(sup, s, j)]]
           /\ \A a \in 0 .. P - 1 : j \in sup[s[a]] => RoundOf(sup, s, j) <= a
<1>1. Num(sup) = P
    BY NumOf
<1>2. CASE \E a \in 0 .. P - 1 : j \in sup[s[a]]
    <2> DEFINE A == {a \in 0 .. P - 1 : j \in sup[s[a]]}
               First(a) == j \in sup[s[a]] /\ \A b \in 0 .. a - 1 : j \notin sup[s[b]]
    <2>1. PICK a \in A : \A b \in A : a <= b
        <3>1. A \in SUBSET Nat /\ A # {}
            BY <1>2
        <3> HIDE DEF A
        <3> QED BY <3>1, LeastNumber
    <2>2. First(a) /\ a \in 0 .. P - 1
        <3>1. \A b \in 0 .. a - 1 : b \in 0 .. P - 1 /\ ~ (a <= b)
            OBVIOUS
        <3> QED BY <2>1, <3>1
    <2>3. RoundOf(sup, s, j) = CHOOSE x \in 0 .. P - 1 : First(x)
        BY <1>2 DEF RoundOf
    <2>4. PICK r : r = (CHOOSE x \in 0 .. P - 1 : First(x))
        OBVIOUS
    <2>5. r \in 0 .. P - 1 /\ First(r)
        <3> HIDE DEF First
        <3> QED BY <2>2, <2>4
    <2>6. \A x \in 0 .. P - 1 : j \in sup[s[x]] => r <= x
        <3>1. ASSUME NEW x \in 0 .. P - 1, j \in sup[s[x]], ~ (r <= x) PROVE FALSE
            <4>1. x \in 0 .. r - 1
                BY <2>5, <3>1
            <4> QED BY <2>5, <3>1, <4>1
        <3> QED BY <3>1
    <2>7. RoundOf(sup, s, j) = r
        BY <2>3, <2>4
    <2> QED BY <2>5, <2>6, <2>7
<1>3. CASE ~ \E a \in 0 .. P - 1 : j \in sup[s[a]]
    <2>1. RoundOf(sup, s, j) = P
        BY <1>1, <1>3 DEF RoundOf
    <2> QED BY <1>3, <2>1
<1> QED BY <1>2, <1>3

\* The inputs of an output come before those that only outputs with larger
\* supports have.
EarlyFirst(f, n, D, sup) ==
    \A k \in D, j \in 0 .. n - 1 : j \in sup[k] =>
        f[j] < Cardinality(UNION {sup[m] : m \in {m \in D : Cardinality(sup[m]) <= Cardinality(sup[k])}})

LEMMA PermPiPlaces ==
    ASSUME NEW n \in Nat, NEW P \in Nat, NEW sup \in [0 .. P - 1 -> SUBSET (0 .. n - 1)],
           NEW s \in Sorted(sup)
    PROVE  /\ permPi(n, sup, s) \in Bijection(0 .. n - 1, 0 .. n - 1)
           /\ EarlyFirst(permPi(n, sup, s), n, 0 .. P - 1, sup)
<1> DEFINE S == 0 .. n - 1
           R(j) == RoundOf(sup, s, j)
           L == {p \in S \X S : R(p[1]) < R(p[2]) \/ (R(p[1]) = R(p[2]) /\ p[1] < p[2])}
           B(j) == {m \in S : R(m) < R(j) \/ (R(m) = R(j) /\ m < j)}
<1>1. DOMAIN sup = 0 .. P - 1 /\ Num(sup) = P /\ Num(sup) - 1 = P - 1
    BY NumOf
<1>2. /\ s \in [0 .. P - 1 -> 0 .. P - 1] /\ DOMAIN s = 0 .. P - 1
      /\ \A k \in 0 .. P - 1 : \E a \in 0 .. P - 1 : s[a] = k
      /\ \A a, b \in 0 .. P - 1 : a < b => Cardinality(sup[s[a]]) <= Cardinality(sup[s[b]])
    <2>1. s \in Bijection(0 .. P - 1, 0 .. P - 1) /\ SmallestFirst(sup, s)
        BY <1>1 DEF Sorted
    <2>2. s \in [0 .. P - 1 -> 0 .. P - 1] /\ \A k \in 0 .. P - 1 : \E a \in 0 .. P - 1 : s[a] = k
        BY <2>1 DEF Bijection, Injection, Surjection
    <2>3. DOMAIN s = 0 .. P - 1
        BY <2>2
    <2> QED BY <2>1, <2>2, <2>3 DEF SmallestFirst
<1>3. \A j : /\ R(j) \in 0 .. P
             /\ R(j) < P => j \in sup[s[R(j)]]
             /\ \A a \in 0 .. P - 1 : j \in sup[s[a]] => R(j) <= a
    BY <1>1, <1>2, RoundIs
<1>4. permPi(n, sup, s) = [j \in S |-> Cardinality(B(j))]
    BY DEF permPi, RoundOf
<1> HIDE DEF R
<1>5. Orders(L, S)
    <2>1. \A j \in S : <<j, j>> \notin L
        BY <1>3
    <2>2. \A i, j, k \in S : <<i, j>> \in L /\ <<j, k>> \in L => <<i, k>> \in L
        <3>1. \A i, j \in S : <<i, j>> \in L <=> (R(i) < R(j) \/ (R(i) = R(j) /\ i < j))
            OBVIOUS
        <3> SUFFICES ASSUME NEW i \in S, NEW j \in S, NEW k \in S, <<i, j>> \in L, <<j, k>> \in L
                     PROVE  <<i, k>> \in L
            OBVIOUS
        <3>2. PICK x \in Nat, y \in Nat, z \in Nat : x = R(i) /\ y = R(j) /\ z = R(k)
            BY <1>3
        <3> HIDE DEF L
        <3>3. (x < y \/ (x = y /\ i < j)) /\ (y < z \/ (y = z /\ j < k))
            BY <3>1, <3>2
        <3>4. x < z \/ (x = z /\ i < k)
            BY <3>3
        <3> QED BY <3>1, <3>2, <3>4
    <2>3. \A i, j \in S : i = j \/ <<i, j>> \in L \/ <<j, i>> \in L
        <3>1. \A i, j \in S : <<i, j>> \in L <=> (R(i) < R(j) \/ (R(i) = R(j) /\ i < j))
            OBVIOUS
        <3> SUFFICES ASSUME NEW i \in S, NEW j \in S PROVE i = j \/ <<i, j>> \in L \/ <<j, i>> \in L
            OBVIOUS
        <3>2. PICK x \in Nat, y \in Nat : x = R(i) /\ y = R(j)
            BY <1>3
        <3> HIDE DEF L
        <3>3. i = j \/ (x < y \/ (x = y /\ i < j)) \/ (y < x \/ (y = x /\ j < i))
            OBVIOUS
        <3> QED BY <3>1, <3>2, <3>3
    <2> HIDE DEF L
    <2> QED BY <2>1, <2>2, <2>3 DEF Orders
<1>6. IsFiniteSet(S) /\ Cardinality(S) = n
    BY FS_Interval
<1>7. permPi(n, sup, s) = RankOf(L, S)
    <2>1. \A j \in S : {m \in S : <<m, j>> \in L} = B(j)
        OBVIOUS
    <2> HIDE DEF L, B, S
    <2> QED BY <1>4, <2>1 DEF RankOf
<1>8. permPi(n, sup, s) \in Bijection(S, S)
    <2>1. RankOf(L, S) \in Bijection(S, 0 .. Cardinality(S) - 1)
        <3> HIDE DEF L, S
        <3> QED BY <1>5, <1>6, RankBijection
    <2> QED BY <1>6, <1>7, <2>1
<1>9. ASSUME NEW k \in 0 .. P - 1, NEW j \in S, j \in sup[k]
      PROVE  permPi(n, sup, s)[j] <
                 Cardinality(UNION {sup[m] : m \in {m \in 0 .. P - 1 : Cardinality(sup[m]) <= Cardinality(sup[k])}})
    <2> DEFINE Early == {m \in 0 .. P - 1 : Cardinality(sup[m]) <= Cardinality(sup[k])}
               U == UNION {sup[m] : m \in Early}
    <2>1. PICK a \in 0 .. P - 1 : s[a] = k
        BY <1>2
    <2>2. \A m \in 0 .. P - 1 : Cardinality(sup[m]) \in Nat
        <3>1. \A m \in 0 .. P - 1 : IsFiniteSet(sup[m])
            BY <1>6, FS_Subset
        <3> QED BY <3>1, FS_CardinalityType
    <2>3. R(j) <= a /\ R(j) \in Nat
        BY <1>3, <1>9, <2>1
    <2>4. ASSUME NEW m \in S, R(m) <= R(j) PROVE m \in U
        <3>1. PICK q \in 0 .. P - 1 : q = R(m) /\ q <= a
            BY <1>3, <2>3, <2>4
        <3>2. m \in sup[s[q]] /\ s[q] \in 0 .. P - 1
            <4>1. R(m) < P => m \in sup[s[R(m)]]
                BY <1>3
            <4> QED BY <1>2, <3>1, <4>1
        <3>3. Cardinality(sup[s[q]]) <= Cardinality(sup[k])
            <4>1. CASE q = a
                BY <2>1, <2>2, <4>1
            <4>2. CASE q # a
                <5>1. q < a
                    BY <3>1, <4>2
                <5> QED BY <1>2, <2>1, <5>1
            <4> QED BY <4>1, <4>2
        <3>4. s[q] \in Early
            BY <3>2, <3>3
        <3> HIDE DEF Early
        <3> QED BY <3>2, <3>4
    <2>5. U \subseteq S
        OBVIOUS
    <2>6. B(j) \subseteq U \ {j} /\ j \in U
        <3>1. \A m \in B(j) : m \in S /\ R(m) <= R(j) /\ m # j
            BY <1>3
        <3>2. R(j) <= R(j)
            BY <2>3
        <3> HIDE DEF B, U
        <3> QED BY <2>4, <3>1, <3>2
    <2> HIDE DEF B, U, Early
    <2>7. IsFiniteSet(U) /\ IsFiniteSet(U \ {j}) /\ Cardinality(U \ {j}) = Cardinality(U) - 1 /\ Cardinality(U) \in Nat
        <3>1. IsFiniteSet(U)
            BY <1>6, <2>5, FS_Subset
        <3> QED BY <2>6, <3>1, FS_RemoveElement, FS_CardinalityType
    <2>8. Cardinality(B(j)) <= Cardinality(U \ {j}) /\ Cardinality(B(j)) \in Nat
        BY <2>6, <2>7, FS_Subset, FS_CardinalityType
    <2>9. permPi(n, sup, s)[j] = Cardinality(B(j))
        BY <1>4
    <2>10. permPi(n, sup, s)[j] < Cardinality(U)
        BY <2>7, <2>8, <2>9
    <2> QED BY <2>10 DEF U, Early
<1>10. EarlyFirst(permPi(n, sup, s), n, 0 .. P - 1, sup)
    BY <1>9 DEF EarlyFirst
<1> QED BY <1>8, <1>10

LEMMA FirstNumbers ==
    ASSUME NEW n \in Nat
    PROVE  IsFiniteSet(0 .. n - 1) /\ Cardinality(0 .. n - 1) = n
BY FS_Interval

\* The counting of members below numbers a finite set of numbers.
LEMMA CountBelow ==
    ASSUME NEW S \in SUBSET Nat, IsFiniteSet(S)
    PROVE  /\ \A j \in S : Cardinality({m \in S : m < j}) \in 0 .. Cardinality(S) - 1
           /\ \A i, j \in S : Cardinality({m \in S : m < i}) = Cardinality({m \in S : m < j}) => i = j
           /\ \A r \in 0 .. Cardinality(S) - 1 : \E j \in S : Cardinality({m \in S : m < j}) = r
<1> DEFINE L == {p \in S \X S : p[1] < p[2]}
           B(j) == {m \in S : m < j}
<1>1. \A i, j \in S : <<i, j>> \in L <=> i < j
    OBVIOUS
<1>2. Orders(L, S)
    <2> HIDE DEF L
    <2> QED BY <1>1 DEF Orders
<1>3. \A j \in S : {m \in S : <<m, j>> \in L} = B(j)
    BY <1>1
<1> HIDE DEF L, B
<1>4. RankOf(L, S) = [j \in S |-> Cardinality(B(j))]
    BY <1>3 DEF RankOf
<1>5. PICK r, c : r = RankOf(L, S) /\ c = Cardinality(S) /\ r \in Bijection(S, 0 .. c - 1)
    BY <1>2, RankBijection
<1>6. \A j \in S : r[j] = Cardinality(B(j))
    BY <1>4, <1>5
<1>7. /\ \A j \in S : r[j] \in 0 .. c - 1
      /\ \A i, j \in S : r[i] = r[j] => i = j
      /\ \A x \in 0 .. c - 1 : \E j \in S : r[j] = x
    BY <1>5 DEF Bijection, Injection, Surjection, IsInjective
<1> QED BY <1>5, <1>6, <1>7 DEF B

\* The inputs of a part have places of their own.
LEMMA KidPlaces ==
    ASSUME NEW T \in Nat \ {0}, NEW nPi \in Nat, NEW nPi0 \in Nat, nPi0 <= nPi,
           NEW iPerm0 \in Bijection(0 .. T * nPi0 - 1, 0 .. T * nPi0 - 1)
    PROVE  /\ \A i \in 0 .. T * nPi0 - 1 :
                 /\ KidPlace(iPerm0, nPi, T, i) \in 0 .. T * nPi - 1
                 /\ KidPlace(iPerm0, nPi, T, i) \div nPi = iPerm0[i] \div nPi0
                 /\ KidPlace(iPerm0, nPi, T, i) % nPi = iPerm0[i] % nPi0
           /\ \A i, j \in 0 .. T * nPi0 - 1 :
                 KidPlace(iPerm0, nPi, T, i) = KidPlace(iPerm0, nPi, T, j) => i = j
<1> DEFINE D == 0 .. T * nPi0 - 1
           K(i) == KidPlace(iPerm0, nPi, T, i)
<1>1. iPerm0 \in [D -> D] /\ DOMAIN iPerm0 = D /\ \A i, j \in D : iPerm0[i] = iPerm0[j] => i = j
    BY DEF Bijection, Injection, IsInjective
<1>2. Num(iPerm0) \div T = nPi0
    <2>1. T * nPi0 \in Nat
        OBVIOUS
    <2>2. Num(iPerm0) = T * nPi0
        BY <1>1, <2>1, NumOf
    <2> QED BY <2>2, Quotient
<1>3. \A i : K(i) = (iPerm0[i] \div nPi0) * nPi + (iPerm0[i] % nPi0)
    BY <1>2 DEF KidPlace
<1>4. ASSUME NEW x \in D
      PROVE  /\ x = (x \div nPi0) * nPi0 + (x % nPi0)
             /\ (x \div nPi0) * nPi + (x % nPi0) \in 0 .. T * nPi - 1
             /\ ((x \div nPi0) * nPi + (x % nPi0)) \div nPi = x \div nPi0
             /\ ((x \div nPi0) * nPi + (x % nPi0)) % nPi = x % nPi0
    <2>1. PICK f, i : /\ f = x \div nPi0 /\ i = x % nPi0 /\ f \in 0 .. T - 1 /\ i \in 0 .. nPi0 - 1
                      /\ x = f * nPi0 + i
        <3>1. x \in 0 .. T * nPi0 - 1 /\ T \in Nat
            OBVIOUS
        <3>2. /\ x \div nPi0 \in 0 .. T - 1 /\ x % nPi0 \in 0 .. nPi0 - 1
              /\ x = (x \div nPi0) * nPi0 + (x % nPi0)
            BY <3>1, FrameAndItem, Zenon
        <3> QED BY <3>2
    <2>2. i \in 0 .. nPi - 1 /\ f \in Nat
        BY <2>1
    <2>3. f * nPi + i \in 0 .. T * nPi - 1
        BY <2>1, <2>2, ItemInRange
    <2>4. (f * nPi + i) \div nPi = f /\ (f * nPi + i) % nPi = i
        BY <2>2, ItemOfFrame, Zenon
    <2> QED BY <2>1, <2>3, <2>4
<1> HIDE DEF K, D
<1>5. ASSUME NEW i \in D
      PROVE  /\ K(i) \in 0 .. T * nPi - 1 /\ K(i) \div nPi = iPerm0[i] \div nPi0
             /\ K(i) % nPi = iPerm0[i] % nPi0
             /\ iPerm0[i] = (iPerm0[i] \div nPi0) * nPi0 + (iPerm0[i] % nPi0)
    <2>1. PICK x \in D : x = iPerm0[i]
        BY <1>1
    <2> QED BY <1>3, <1>4, <2>1
<1>6. ASSUME NEW i \in D, NEW j \in D, K(i) = K(j) PROVE i = j
    BY <1>1, <1>5, <1>6
<1> QED BY <1>5, <1>6 DEF K, D

\* readInfo permutes, and the part keeps the frames and pins of its fold.
\* c inputs of n, where the fold of the part has T frames of nPi0 pins and the
\* fold of the circuit T frames of nPi.
KidsIn(kids, c, n, iPerm0, T, nPi, nPi0) ==
    /\ n = T * nPi /\ nPi0 <= nPi
    /\ iPerm0 \in Bijection(0 .. T * nPi0 - 1, 0 .. T * nPi0 - 1)
    /\ c <= T * nPi0 /\ kids \in Injection(0 .. c - 1, 0 .. n - 1)

KidsPlaced(f, kids, c, n, iPerm0, T, nPi) ==
    /\ f \in Bijection(0 .. n - 1, 0 .. n - 1)
    /\ \A i \in 0 .. c - 1 : f[kids[i]] = KidPlace(iPerm0, nPi, T, i)

LEMMA ReadInfoPlaces ==
    ASSUME NEW T \in Nat \ {0}, NEW nPi \in Nat, NEW nPi0 \in Nat,
           NEW n, NEW iPerm0, NEW c \in Nat, NEW kids, KidsIn(kids, c, n, iPerm0, T, nPi, nPi0)
    PROVE  KidsPlaced(readInfo(n, kids, iPerm0, T), kids, c, n, iPerm0, T, nPi)
<1> DEFINE S == 0 .. n - 1
           D == 0 .. c - 1
           Kids == Range(kids)
           K(i) == KidPlace(iPerm0, nPi, T, i)
           Place(x) == K(CHOOSE i \in DOMAIN kids : kids[i] = x)
           rest == S \ {Place(x) : x \in Kids}
           others == S \ Kids
           Count(x) == Cardinality({m \in 0 .. x - 1 : m \notin Kids})
           Below(p) == Cardinality({q \in rest : q < p})
           f == readInfo(n, kids, iPerm0, T)
<1>0. /\ iPerm0 \in Bijection(0 .. T * nPi0 - 1, 0 .. T * nPi0 - 1)
      /\ c <= T * nPi0 /\ kids \in Injection(0 .. c - 1, 0 .. n - 1)
      /\ n = T * nPi /\ nPi0 <= nPi
    BY DEF KidsIn
<1>1. n \in Nat /\ n \div T = nPi
    <2>1. T * nPi \in Nat
        OBVIOUS
    <2> QED BY <1>0, <2>1, Quotient
<1>2. f = [x \in S |-> IF x \in Kids THEN Place(x) ELSE CHOOSE p \in rest : Below(p) = Count(x)]
    <2> DEFINE At(q, x) == KidPlace(iPerm0, q, T, CHOOSE i \in DOMAIN kids : kids[i] = x)
               Left(q) == S \ {At(q, x) : x \in Kids}
               Body(q) == [x \in S |-> IF x \in Kids THEN At(q, x)
                                       ELSE CHOOSE p \in Left(q) : Cardinality({y \in Left(q) : y < p}) = Count(x)]
    <2>1. f = Body(n \div T)
        BY Zenon DEF readInfo
    <2>2. Body(nPi) = [x \in S |-> IF x \in Kids THEN Place(x) ELSE CHOOSE p \in rest : Below(p) = Count(x)]
        OBVIOUS
    <2> HIDE DEF Body, f, Place, rest, Below, Count
    <2> QED BY <1>1, <2>1, <2>2
<1>3. kids \in [D -> S] /\ DOMAIN kids = D /\ \A i, j \in D : kids[i] = kids[j] => i = j
    BY <1>0 DEF Injection, IsInjective
<1>4. \A i \in D : i \in 0 .. T * nPi0 - 1
    <2>1. T * nPi0 \in Nat
        OBVIOUS
    <2> QED BY <1>0, <2>1
<1>5. /\ \A i \in D : K(i) \in S
      /\ \A i, j \in D : K(i) = K(j) => i = j
    BY <1>0, <1>4, KidPlaces
<1>6. Kids = {kids[i] : i \in D} /\ Kids \subseteq S
    BY <1>3 DEF Range
<1>7. ASSUME NEW i \in D PROVE Place(kids[i]) = K(i)
    <2>1. (CHOOSE j \in DOMAIN kids : kids[j] = kids[i]) = i
        BY <1>3
    <2> QED BY <2>1
<1> HIDE DEF K, Place, Kids
<1>8. \A x, y \in Kids : Place(x) \in S /\ (Place(x) = Place(y) => x = y)
    BY <1>5, <1>6, <1>7
<1>9. IsFiniteSet(S) /\ Cardinality(S) = n
    BY <1>1, FirstNumbers
<1>10. Cardinality(rest) = Cardinality(others) /\ IsFiniteSet(rest) /\ IsFiniteSet(others)
    <2> DEFINE Places == {Place(x) : x \in Kids}
               g == [x \in Kids |-> Place(x)]
    <2>1. g \in Bijection(Kids, Places)
        BY <1>8 DEF Bijection, Injection, Surjection, IsInjective
    <2>2. Places \subseteq S
        BY <1>8
    <2> HIDE DEF Places, g, S
    <2>3. ExistsBijection(Kids, Places)
        BY <2>1 DEF ExistsBijection
    <2>4. IsFiniteSet(Kids) /\ IsFiniteSet(Places) /\ Cardinality(Places) = Cardinality(Kids)
        BY <1>6, <1>9, <2>3, FS_Subset, FS_Bijection
    <2>5. S \cap Kids = Kids /\ S \cap Places = Places
        BY <1>6, <2>2
    <2>6. /\ IsFiniteSet(S \ Kids) /\ Cardinality(S \ Kids) = Cardinality(S) - Cardinality(Kids)
          /\ IsFiniteSet(S \ Places) /\ Cardinality(S \ Places) = Cardinality(S) - Cardinality(Places)
        <3>1. /\ IsFiniteSet(S \ Kids) /\ Cardinality(S \ Kids) = Cardinality(S) - Cardinality(S \cap Kids)
              /\ IsFiniteSet(S \ Places) /\ Cardinality(S \ Places) = Cardinality(S) - Cardinality(S \cap Places)
            BY <1>9, FS_Difference
        <3> QED BY <2>5, <3>1
    <2> QED BY <2>4, <2>6 DEF Places
<1>11. PICK r \in Nat : r = Cardinality(others) /\ r = Cardinality(rest)
    BY <1>10, FS_CardinalityType
<1>12. /\ \A x \in others : Count(x) \in 0 .. r - 1
       /\ \A x, y \in others : Count(x) = Count(y) => x = y
    <2>1. \A x \in others : {m \in 0 .. x - 1 : m \notin Kids} = {m \in others : m < x}
        BY <1>1
    <2>2. others \in SUBSET Nat
        OBVIOUS
    <2> HIDE DEF others
    <2>3. \A x \in others : Count(x) = Cardinality({m \in others : m < x})
        BY <2>1
    <2> HIDE DEF Count
    <2>4. /\ \A x \in others : Cardinality({m \in others : m < x}) \in 0 .. Cardinality(others) - 1
          /\ \A x, y \in others :
                Cardinality({m \in others : m < x}) = Cardinality({m \in others : m < y}) => x = y
        BY <1>10, <2>2, CountBelow
    <2> QED BY <1>11, <2>3, <2>4
<1>13. \A x \in 0 .. r - 1 : \E p \in rest : Below(p) = x
    <2>1. rest \in SUBSET Nat
        OBVIOUS
    <2> HIDE DEF rest
    <2> QED BY <1>10, <1>11, <2>1, CountBelow
<1> HIDE DEF Count, Below
<1>14. \A x \in others : f[x] \in rest /\ Below(f[x]) = Count(x)
    <2> HIDE DEF rest
    <2>1. ASSUME NEW x \in others PROVE f[x] \in rest /\ Below(f[x]) = Count(x)
        <3>1. f[x] = CHOOSE p \in rest : Below(p) = Count(x)
            BY <1>2
        <3>2. \E p \in rest : Below(p) = Count(x)
            BY <1>12, <1>13
        <3> HIDE DEF f
        <3> QED BY <3>1, <3>2
    <2> QED BY <2>1
<1>15. \A x \in Kids : f[x] = Place(x) /\ f[x] \in S /\ f[x] \notin rest
    <2>1. \A x \in Kids : f[x] = Place(x)
        BY <1>2, <1>6
    <2> HIDE DEF f
    <2> QED BY <1>8, <2>1
<1>16. f \in Injection(S, S)
    <2>1. f = [x \in S |-> f[x]]
        BY <1>2
    <2> HIDE DEF f
    <2>2. \A x \in S : x \in Kids \/ x \in others
        OBVIOUS
    <2>3. \A x \in S : f[x] \in S
        BY <1>14, <1>15, <2>2
    <2>4. ASSUME NEW x \in S, NEW y \in S, f[x] = f[y] PROVE x = y
        <3> HIDE DEF rest, others
        <3>1. CASE x \in Kids /\ y \in Kids
            BY <1>8, <1>15, <2>4, <3>1
        <3>2. CASE x \in others /\ y \in others
            BY <1>12, <1>14, <2>4, <3>2
        <3>3. CASE (x \in Kids /\ y \in others) \/ (x \in others /\ y \in Kids)
            BY <1>14, <1>15, <2>4, <3>3
        <3> QED BY <2>2, <3>1, <3>2, <3>3
    <2> HIDE DEF S
    <2>5. f \in [S -> S]
        BY <2>1, <2>3
    <2> QED BY <2>4, <2>5 DEF Injection, IsInjective
<1>17. f \in Bijection(S, S)
    <2> HIDE DEF f
    <2> QED BY <1>1, <1>16, InjectionPermutes
<1>18. \A i \in D : f[kids[i]] = K(i)
    <2> HIDE DEF f
    <2>1. \A i \in D : kids[i] \in Kids
        BY <1>6
    <2> QED BY <1>7, <1>15, <2>1
<1> QED BY <1>17, <1>18 DEF K, KidsPlaced

-----------------------------------------------------------------------------
(* The commands                                                            *)

\* InputsPlaced of the network P that is folded, when N is the network whose
\* inputs are moved.
Placing(P, name, T, iPerm, N, part) ==
    LET nPi == N.pi \div T
    IN /\ iPerm \in Bijection(0 .. N.pi - 1, 0 .. N.pi - 1)
       /\ \A v \in Ins(N.pi), k \in DOMAIN N.po :
             P.po[k][v] = N.po[k][[j \in 0 .. N.pi - 1 |-> v[iPerm[j]]]]
       /\ name = "stru_fold -p" =>
             LET sup == Table([k \in DOMAIN N.po |-> Reads(N, k)])
                 Early(k) == {m \in DOMAIN N.po : Cardinality(sup[m]) <= Cardinality(sup[k])}
             IN \A k \in DOMAIN N.po, j \in 0 .. N.pi - 1 :
                   j \in sup[k] => iPerm[j] < Cardinality(UNION {sup[m] : m \in Early(k)})
       /\ name = "stru_fold -i" =>
             LET nPi0 == Num(part.iPerm0) \div part.T
             IN \A i \in DOMAIN part.kids :
                   /\ iPerm[part.kids[i]] \div nPi = part.iPerm0[i] \div nPi0
                   /\ iPerm[part.kids[i]] % nPi = part.iPerm0[i] % nPi0

PlacedIn(P, d) == Placing(P, d.name, d.num, d.arg[1], d.arg[2], d.arg[3])

LEMMA PlacedFor == InputsPlaced <=> (status = "folding" => PlacedIn(pNtk, done))
BY DEF InputsPlaced, PlacedIn, Placing

\* Option -p places the inputs.
LEMMA SupportPlaces ==
    ASSUME NEW M, IsCircuit(M), NEW T \in Nat \ {0}, NEW N, N = aigToComb(M, T),
           NEW sup, sup = Table([k \in DOMAIN N.po |-> Reads(N, k)]), NEW s \in Sorted(sup),
           NEW iPerm, iPerm = permPi(CiNum(N), sup, s)
    PROVE  PlacedIn(aigPermCi(N, invPerm(iPerm)), Done("stru_fold -p", T, <<iPerm, N>>))
<1>1. IsCircuit(N) /\ LatNum(N) = 0
    BY ToCombCircuit
<1>2. PICK n \in Nat, P \in Nat : n = CiNum(N) /\ n = N.pi /\ P = PoNum(N) /\ DOMAIN N.po = 0 .. P - 1
    BY <1>1, CircuitNumbers, CombCos
<1>3. sup \in [0 .. P - 1 -> SUBSET (0 .. n - 1)]
    <2>1. sup = [k \in 0 .. P - 1 |-> Reads(N, k)]
        BY <1>2, TableIs
    <2>2. \A k : Reads(N, k) \subseteq 0 .. n - 1
        BY <1>2 DEF Reads
    <2> QED BY <2>1, <2>2
<1>4. /\ iPerm \in Bijection(0 .. n - 1, 0 .. n - 1)
      /\ EarlyFirst(iPerm, n, 0 .. P - 1, sup)
    <2>1. iPerm = permPi(n, sup, s)
        BY <1>2
    <2>2. /\ permPi(n, sup, s) \in Bijection(0 .. n - 1, 0 .. n - 1)
          /\ EarlyFirst(permPi(n, sup, s), n, 0 .. P - 1, sup)
        BY <1>3, PermPiPlaces
    <2> QED BY <2>1, <2>2
<1>5. \A v \in Ins(N.pi), k \in DOMAIN N.po :
          aigPermCi(N, invPerm(iPerm)).po[k][v] = N.po[k][[j \in 0 .. N.pi - 1 |-> v[iPerm[j]]]]
    <2>1. iPerm \in Bijection(0 .. N.pi - 1, 0 .. N.pi - 1)
        BY <1>2, <1>4
    <2> HIDE <1>2, <1>4
    <2> QED BY <1>1, <2>1, PermutedShows
<1> DEFINE d == Done("stru_fold -p", T, <<iPerm, N>>)
<1>6. d.name = "stru_fold -p" /\ d.name # "stru_fold -i" /\ d.arg[1] = iPerm /\ d.arg[2] = N
    BY DEF Done
<1> HIDE DEF d
<1>7. EarlyFirst(iPerm, N.pi, DOMAIN N.po, Table([k \in DOMAIN N.po |-> Reads(N, k)]))
    BY <1>2, <1>4
<1>8. iPerm \in Bijection(0 .. N.pi - 1, 0 .. N.pi - 1)
    BY <1>2, <1>4
<1>9. \A part : Placing(aigPermCi(N, invPerm(iPerm)), "stru_fold -p", T, iPerm, N, part)
    BY <1>5, <1>7, <1>8, Zenon DEF Placing, EarlyFirst
<1> QED BY <1>6, <1>9 DEF d, PlacedIn, Done

\* Option -i places the inputs.
LEMMA PartPlaces ==
    ASSUME NEW M, IsCircuit(M), NEW part, IsPart(part), NEW N, N = aigToComb(M, part.T),
           Range(part.kids) \subseteq 0 .. CiNum(N) - 1, Num(part.iPerm0) <= CiNum(N),
           readInfoAsserts(part.kids, part.iPerm0, part.T),
           NEW iPerm, iPerm = readInfo(CiNum(N), part.kids, part.iPerm0, part.T)
    PROVE  PlacedIn(aigPermCi(N, invPerm(iPerm)), Done("stru_fold -i", part.T, <<iPerm, N, part>>))
<1>1. PICK T \in Nat \ {0} : T = part.T
    BY DEF IsPart
<1>2. IsCircuit(N) /\ LatNum(N) = 0 /\ N.pi % T = 0
    BY <1>1, ToCombCircuit
<1>3. PICK n \in Nat : n = CiNum(N) /\ n = N.pi
    BY <1>2, CircuitNumbers, CombCos
<1>4. PICK nPi \in Nat : nPi = n \div T /\ n = T * nPi
    BY <1>2, <1>3
<1>5. PICK n0 \in Nat, nPi0 \in Nat : n0 = Num(part.iPerm0) /\ nPi0 = n0 \div T /\ n0 = T * nPi0 /\ n0 <= n
    <2>1. Num(part.iPerm0) \in Nat /\ Num(part.iPerm0) % T = 0
        BY <1>1, FS_CardinalityType DEF IsPart, readInfoAsserts, Num
    <2>2. PICK n0 \in Nat : n0 = Num(part.iPerm0) /\ n0 % T = 0 /\ n0 <= n
        BY <1>3, <2>1
    <2>3. n0 \div T \in Nat /\ n0 = T * (n0 \div T)
        BY <2>2
    <2> QED BY <2>2, <2>3
<1>6. nPi0 <= nPi
    <2> SUFFICES ASSUME nPi + 1 <= nPi0 PROVE FALSE
        OBVIOUS
    <2>1. (nPi + 1) * T <= nPi0 * T
        BY MulMonotone
    <2> QED BY <1>4, <1>5, <2>1
<1>7. part.iPerm0 \in Bijection(0 .. T * nPi0 - 1, 0 .. T * nPi0 - 1)
    BY <1>5 DEF IsPart
<1>8. PICK c \in Nat : c = Num(part.kids) /\ c <= T * nPi0 /\ part.kids \in Injection(0 .. c - 1, 0 .. n - 1)
                       /\ DOMAIN part.kids = 0 .. c - 1
    <2>1. PICK c \in Nat : c = Num(part.kids)
        BY FS_CardinalityType DEF IsPart, Num
    <2>2. part.kids \in [0 .. c - 1 -> Nat] /\ IsInjective(part.kids)
        BY <2>1 DEF IsPart, Injection
    <2>3. \A i \in 0 .. c - 1 : part.kids[i] \in 0 .. n - 1
        BY <1>3, <2>2 DEF Range
    <2>4. part.kids \in [0 .. c - 1 -> 0 .. n - 1]
        BY <2>2, <2>3
    <2>5. c <= T * nPi0
        BY <1>5, <2>1 DEF readInfoAsserts
    <2> QED BY <2>1, <2>2, <2>4, <2>5 DEF Injection
<1>9. PICK kids, iPerm0 : kids = part.kids /\ iPerm0 = part.iPerm0
    OBVIOUS
<1>10. iPerm = readInfo(n, kids, iPerm0, T)
    BY <1>1, <1>3, <1>9
<1>11. /\ iPerm \in Bijection(0 .. n - 1, 0 .. n - 1)
       /\ \A i \in 0 .. c - 1 : iPerm[kids[i]] = KidPlace(iPerm0, nPi, T, i)
    <2>1. KidsIn(kids, c, n, iPerm0, T, nPi, nPi0)
        BY <1>4, <1>6, <1>7, <1>8, <1>9 DEF KidsIn
    <2>2. KidsPlaced(readInfo(n, kids, iPerm0, T), kids, c, n, iPerm0, T, nPi)
        BY <2>1, ReadInfoPlaces
    <2> QED BY <1>10, <2>2 DEF KidsPlaced
<1>12. ASSUME NEW i \in 0 .. c - 1
       PROVE  iPerm[kids[i]] \div nPi = iPerm0[i] \div nPi0 /\ iPerm[kids[i]] % nPi = iPerm0[i] % nPi0
    <2>1. i \in 0 .. T * nPi0 - 1
        <3>1. T * nPi0 \in Nat
            OBVIOUS
        <3> QED BY <1>8, <3>1
    <2>2. /\ KidPlace(iPerm0, nPi, T, i) \div nPi = iPerm0[i] \div nPi0
          /\ KidPlace(iPerm0, nPi, T, i) % nPi = iPerm0[i] % nPi0
        BY <1>6, <1>7, <1>9, <2>1, KidPlaces
    <2> QED BY <1>11, <2>2
<1>13. \A v \in Ins(N.pi), k \in DOMAIN N.po :
          aigPermCi(N, invPerm(iPerm)).po[k][v] = N.po[k][[j \in 0 .. N.pi - 1 |-> v[iPerm[j]]]]
    BY <1>2, <1>3, <1>11, PermutedShows
<1> DEFINE d == Done("stru_fold -i", part.T, <<iPerm, N, part>>)
<1>14. /\ d.name = "stru_fold -i" /\ d.name # "stru_fold -p" /\ d.arg[1] = iPerm /\ d.arg[2] = N
       /\ d.arg[3] = part /\ d.num = T
    BY <1>1 DEF Done
<1> HIDE DEF d
<1>15. PlacedIn(aigPermCi(N, invPerm(iPerm)), d)
    <2>2. \A i \in DOMAIN part.kids :
              /\ iPerm[part.kids[i]] \div nPi = part.iPerm0[i] \div nPi0
              /\ iPerm[part.kids[i]] % nPi = part.iPerm0[i] % nPi0
        BY <1>8, <1>9, <1>12
    <2>3. Placing(aigPermCi(N, invPerm(iPerm)), "stru_fold -i", T, iPerm, N, part)
        BY <1>1, <1>3, <1>4, <1>5, <1>11, <1>13, <2>2 DEF Placing
    <2> QED BY <1>14, <2>3 DEF PlacedIn
<1> QED BY <1>15 DEF d

-----------------------------------------------------------------------------
(* The session                                                             *)

\* What is known of the network P that the command d has made of B.
Made(P, B, d) ==
    /\ IsCircuit(P) /\ IsCircuit(B)
    /\ d.name = "build_voter" =>
          d.num \in Nat \ {0} /\ d.arg[1] \in BOOLEAN /\ P = aigBuildVoter(d.num, d.arg[1])
    /\ d.name = "cmerge" /\ B # NULL => IsCircuit(d.arg[1]) /\ P = aigMerge(B, d.arg[1])
    /\ d.name = "frames" => d.num \in Nat \ {0} /\ P = Frames(B, d.num)
    /\ d.name = "time_cas" =>
          /\ d.num \in Nat \ {0} /\ timeCasAsserts(B, d.num) /\ P = timeCas(B, d.num)
          /\ d.arg[2].name = "frames" => IsCircuit(d.arg[1]) /\ B = Frames(d.arg[1], d.arg[2].num)

SessionInv ==
    /\ status = "ready" => Made(pNtk, before, done)
    /\ InputsPlaced

\* A command without a promise of its own.
Plain(name) == name \notin {"build_voter", "cmerge", "frames", "time_cas"}

LEMMA PlainMade ==
    ASSUME NEW P, NEW B, IsCircuit(P), IsCircuit(B), NEW name, Plain(name), NEW num, NEW arg
    PROVE  Made(P, B, Done(name, num, arg))
BY DEF Made, Plain, Done

\* A command that replaces the network keeps the invariant when it makes a
\* circuit and keeps its promise.
LEMMA ReplaceKeeps ==
    ASSUME Typed, NEW name, NEW num, NEW arg, NEW N, Replace(name, num, arg, N),
           Made(N, pNtk, Done(name, num, arg))
    PROVE  SessionInv'
<1>1. /\ pNtk' = N /\ before' = pNtk /\ done' = Done(name, num, arg)
      /\ status' = status /\ status = "ready"
    BY DEF Replace, Typed
<1>2. Made(pNtk', before', done')
    BY <1>1
<1>3. InputsPlaced'
    BY <1>1 DEF InputsPlaced
<1> QED BY <1>2, <1>3 DEF SessionInv, Made

LEMMA ReplacePlain ==
    ASSUME SessionInv, Typed, NEW name, Plain(name), NEW num, NEW arg, NEW N,
           Replace(name, num, arg, N), IsCircuit(N)
    PROVE  SessionInv'
<1>1. IsCircuit(pNtk)
    BY DEF SessionInv, Typed, Made
<1>2. Made(N, pNtk, Done(name, num, arg))
    BY <1>1, PlainMade
<1> QED BY <1>2, ReplaceKeeps

LEMMA RefuseKeeps ==
    ASSUME SessionInv, Typed, Refuse
    PROVE  SessionInv'
<1>1. /\ pNtk' = pNtk /\ before' = before /\ done' = done
      /\ status' = status /\ status = "ready"
    BY DEF Refuse, Typed
<1>2. Made(pNtk, before, done)
    BY <1>1 DEF SessionInv
<1>3. Made(pNtk', before', done')
    BY <1>1, <1>2
<1>4. InputsPlaced'
    BY <1>1 DEF InputsPlaced
<1> QED BY <1>3, <1>4 DEF SessionInv

LEMMA AbortKeeps ==
    ASSUME NEW name, Abort(name)
    PROVE  SessionInv'
<1>1. status' = "aborted"
    BY DEF Abort
<1> QED BY <1>1 DEF SessionInv, InputsPlaced

LEMMA FoldKeeps ==
    ASSUME NEW name, NEW T, NEW arg, NEW N, Fold(name, T, arg, N), PlacedIn(N, Done(name, T, arg))
    PROVE  SessionInv'
<1>1. status' = "folding" /\ pNtk' = N /\ done' = Done(name, T, arg)
    BY DEF Fold
<1>2. PlacedIn(pNtk', done')
    BY <1>1
<1>3. InputsPlaced'
    BY <1>2 DEF InputsPlaced, PlacedIn, Placing
<1> QED BY <1>1, <1>3 DEF SessionInv

LEMMA SessionStart ==
    ASSUME SessionInit
    PROVE  SessionInv
<1>1. /\ pNtk = NULL /\ before = NULL /\ done = Done("none", 0, <<>>) /\ status = "ready"
    BY DEF SessionInit
<1>2. Plain("none")
    BY DEF Plain
<1>3. Made(pNtk, before, done)
    BY <1>1, <1>2, NullCircuit, PlainMade
<1> QED BY <1>1, <1>3 DEF SessionInv, InputsPlaced

-----------------------------------------------------------------------------
(* The commands                                                            *)

LEMMA ReadKeeps ==
    ASSUME SessionInv, Read
    PROVE  SessionInv'
<1>1. PICK N \in Circuits : Typed /\ Replace("read", 0, <<>>, N)
    BY DEF Read
<1>2. IsCircuit(N) /\ Plain("read")
    BY CommandsAssumption DEF Plain
<1> QED BY <1>1, <1>2, ReplacePlain

\* What the invariant says of the current network while commands are given.
LEMMA ReadyCircuit ==
    ASSUME SessionInv, Typed
    PROVE  IsCircuit(pNtk) /\ Made(pNtk, before, done)
BY DEF SessionInv, Typed, Made

LEMMA CMergeKeeps ==
    ASSUME SessionInv, CMerge
    PROVE  SessionInv'
<1>1. PICK N \in Circuits :
          Typed /\ Replace("cmerge", 0, <<N>>, IF pNtk = NULL THEN N ELSE aigMerge(pNtk, N))
    BY DEF CMerge
<1>2. IsCircuit(N) /\ IsCircuit(pNtk)
    BY <1>1, CommandsAssumption, ReadyCircuit
<1>3. PICK P : P = IF pNtk = NULL THEN N ELSE aigMerge(pNtk, N)
    OBVIOUS
<1>4. IsCircuit(P)
    BY <1>2, <1>3, MergeContains
<1>5. Made(P, pNtk, Done("cmerge", 0, <<N>>))
    BY <1>2, <1>3, <1>4 DEF Made, Done
<1> QED BY <1>1, <1>3, <1>5, ReplaceKeeps

LEMMA FramesOfKeeps ==
    ASSUME SessionInv, NEW T \in Int, FramesOf(T)
    PROVE  SessionInv'
<1>1. Typed /\ T \in Nat \ {0} /\ Replace("frames", T, <<>>, Frames(pNtk, T))
    BY DEF FramesOf
<1>2. IsCircuit(pNtk)
    BY <1>1, ReadyCircuit
<1>3. IsCircuit(Frames(pNtk, T))
    BY <1>1, <1>2, FramesShow
<1>4. Made(Frames(pNtk, T), pNtk, Done("frames", T, <<>>))
    BY <1>1, <1>2, <1>3 DEF Made, Done
<1> QED BY <1>1, <1>4, ReplaceKeeps

LEMMA ToCombKeeps ==
    ASSUME SessionInv, NEW num \in Int, ToComb(num)
    PROVE  SessionInv'
<1>1. Typed
    BY DEF ToComb
<1>2. CASE Refuse
    BY <1>1, <1>2, RefuseKeeps
<1>3. CASE num \in Nat \ {0} /\ Replace("to_comb", num, <<>>, aigToComb(pNtk, num))
    <2>1. IsCircuit(pNtk) /\ Plain("to_comb")
        BY <1>1, ReadyCircuit DEF Plain
    <2>2. IsCircuit(aigToComb(pNtk, num))
        BY <1>3, <2>1, ToCombCircuit
    <2> QED BY <1>1, <1>3, <2>1, <2>2, ReplacePlain
<1> QED BY <1>2, <1>3 DEF ToComb

LEMMA RConeKeeps ==
    ASSUME SessionInv, NEW first \in Int, NEW last \in Int, RCone(first, last)
    PROVE  SessionInv'
<1>1. Typed
    BY DEF RCone
<1>2. CASE Refuse
    BY <1>1, <1>2, RefuseKeeps
<1>3. CASE /\ first \in Nat /\ last \in Nat /\ aigConeAsserts(pNtk, first, last)
           /\ Replace("rcone", first, <<last>>, aigCone(pNtk, first, last))
    <2>1. IsCircuit(pNtk) /\ Plain("rcone")
        BY <1>1, ReadyCircuit DEF Plain
    <2>2. IsCircuit(aigCone(pNtk, first, last))
        BY <1>3, <2>1, ConeCircuit
    <2> QED BY <1>1, <1>3, <2>1, <2>2, ReplacePlain
<1>4. CASE Abort("rcone")
    BY <1>4, AbortKeeps
<1> QED BY <1>2, <1>3, <1>4 DEF RCone

LEMMA IConeKeeps ==
    ASSUME SessionInv, NEW first \in Int, NEW last \in Int, ICone(first, last)
    PROVE  SessionInv'
<1>1. Typed
    BY DEF ICone
<1>2. CASE Refuse
    BY <1>1, <1>2, RefuseKeeps
<1>3. CASE /\ first \in Nat /\ last \in Nat /\ aigConeAsserts(pNtk, first, last)
           /\ Replace("icone", first, <<last>>, aigCone(pNtk, first, last))
    <2>1. IsCircuit(pNtk) /\ Plain("icone")
        BY <1>1, ReadyCircuit DEF Plain
    <2>2. IsCircuit(aigCone(pNtk, first, last))
        BY <1>3, <2>1, ConeCircuit
    <2> QED BY <1>1, <1>3, <2>1, <2>2, ReplacePlain
<1>4. CASE Abort("icone")
    BY <1>4, AbortKeeps
<1> QED BY <1>2, <1>3, <1>4 DEF ICone

LEMMA RPermIOKeeps ==
    ASSUME SessionInv, NEW noI \in BOOLEAN, NEW noO \in BOOLEAN, RPermIO(noI, noO)
    PROVE  SessionInv'
<1>1. Typed
    BY DEF RPermIO
<1>2. CASE Refuse
    BY <1>1, <1>2, RefuseKeeps
<1>3. CASE ~ (pNtk = NULL \/ LatNum(pNtk) > 0 \/ (noI /\ noO))
    <2>1. IsCircuit(pNtk) /\ Plain("rand_perm_io")
        BY <1>1, ReadyCircuit DEF Plain
    <2>2. LatNum(pNtk) = 0 /\ CoNum(pNtk) = PoNum(pNtk) /\ CiNum(pNtk) = pNtk.pi
        BY <1>3, <2>1, CircuitNumbers, CombCos
    <2>3. PICK iPerm \in Bijection(0 .. pNtk.pi - 1, 0 .. pNtk.pi - 1),
               oPerm \in Bijection(DOMAIN pNtk.po, DOMAIN pNtk.po) :
               \E N, P :
                  /\ N = IF noI THEN pNtk ELSE aigPermCi(pNtk, iPerm)
                  /\ P = IF noO THEN N ELSE aigPermCo(N, oPerm)
                  /\ Replace("rand_perm_io", 0, <<>>, P)
        BY <1>3 DEF RPermIO
    <2>4. PICK N, P :
              /\ N = IF noI THEN pNtk ELSE aigPermCi(pNtk, iPerm)
              /\ P = IF noO THEN N ELSE aigPermCo(N, oPerm)
              /\ Replace("rand_perm_io", 0, <<>>, P)
        BY <2>3
    <2>5. IsCircuit(aigPermCi(pNtk, iPerm)) /\ PoNum(aigPermCi(pNtk, iPerm)) = PoNum(pNtk)
        BY <2>1, <2>2, <2>3, PermCiShows
    <2>6. IsCircuit(N) /\ DOMAIN N.po = DOMAIN pNtk.po
        BY <2>1, <2>4, <2>5, CircuitNumbers
    <2>7. IsCircuit(aigPermCo(N, oPerm))
        BY <2>3, <2>6, PermCoCircuit
    <2>8. IsCircuit(P)
        BY <2>4, <2>6, <2>7
    <2> QED BY <1>1, <2>1, <2>4, <2>8, ReplacePlain
<1> QED BY <1>2, <1>3 DEF RPermIO

LEMMA BuildVoterKeeps ==
    ASSUME SessionInv, NEW n \in Int, NEW tieVal \in BOOLEAN, BuildVoter(n, tieVal)
    PROVE  SessionInv'
<1>1. Typed
    BY DEF BuildVoter
<1>2. CASE Refuse
    BY <1>1, <1>2, RefuseKeeps
<1>3. CASE n \in Nat \ {0} /\ Replace("build_voter", n, <<tieVal>>, aigBuildVoter(n, tieVal))
    <2>1. IsCircuit(pNtk)
        BY <1>1, ReadyCircuit
    <2>2. IsCircuit(aigBuildVoter(n, tieVal))
        BY <1>3, VoterVotes
    <2>3. Made(aigBuildVoter(n, tieVal), pNtk, Done("build_voter", n, <<tieVal>>))
        BY <1>3, <2>1, <2>2 DEF Made, Done
    <2> QED BY <1>1, <1>3, <2>3, ReplaceKeeps
<1> QED BY <1>2, <1>3 DEF BuildVoter

LEMMA BuildParityKeeps ==
    ASSUME SessionInv, NEW n \in Int, BuildParity(n)
    PROVE  SessionInv'
<1>1. Typed
    BY DEF BuildParity
<1>2. CASE Refuse
    BY <1>1, <1>2, RefuseKeeps
<1>3. CASE n \in Nat /\ Replace("build_parity", n, <<>>, aigBuildParity(n))
    <2>1. IsCircuit(aigBuildParity(n)) /\ Plain("build_parity")
        BY <1>3, ParityCircuit DEF Plain
    <2> QED BY <1>1, <1>3, <2>1, ReplacePlain
<1> QED BY <1>2, <1>3 DEF BuildParity

LEMMA ConstructDummyKeeps ==
    ASSUME SessionInv, NEW n \in Int, ConstructDummy(n)
    PROVE  SessionInv'
<1>1. Typed
    BY DEF ConstructDummy
<1>2. CASE Refuse
    BY <1>1, <1>2, RefuseKeeps
<1>3. CASE n \in Nat /\ Replace("construct_dummy", n, <<>>, aigConstructDummyNtk(n))
    <2>1. IsCircuit(aigConstructDummyNtk(n)) /\ Plain("construct_dummy")
        BY <1>3, DummyCircuit DEF Plain
    <2> QED BY <1>1, <1>3, <2>1, ReplacePlain
<1> QED BY <1>2, <1>3 DEF ConstructDummy

LEMMA TimeCascadeKeeps ==
    ASSUME SessionInv, NEW T \in Int, TimeCascade(T)
    PROVE  SessionInv'
<1>1. Typed
    BY DEF TimeCascade
<1>2. CASE Refuse
    BY <1>1, <1>2, RefuseKeeps
<1>3. CASE /\ T \in Nat \ {0} /\ timeCasAsserts(pNtk, T)
           /\ Replace("time_cas", T, <<before, done>>, timeCas(pNtk, T))
    <2>1. IsCircuit(pNtk) /\ Made(pNtk, before, done)
        BY <1>1, ReadyCircuit
    <2>2. PICK nPi, nPo, copy : nPi = CiNum(pNtk) \div T /\ nPo = CoNum(pNtk) \div T /\ copy = pCopy(T, nPi)
        OBVIOUS
    <2>3. IsCircuit(timeCas(pNtk, T))
        BY <1>3, <2>1, <2>2, TimeCasShows
    <2>4. done.name = "frames" => IsCircuit(before) /\ pNtk = Frames(before, done.num)
        BY <2>1 DEF Made
    <2>5. Made(timeCas(pNtk, T), pNtk, Done("time_cas", T, <<before, done>>))
        BY <1>3, <2>1, <2>3, <2>4 DEF Made, Done
    <2> QED BY <1>1, <1>3, <2>5, ReplaceKeeps
<1>4. CASE Abort("time_cas")
    BY <1>4, AbortKeeps
<1> QED BY <1>2, <1>3, <1>4 DEF TimeCascade

LEMMA PermuteBySupportKeeps ==
    ASSUME SessionInv, NEW T \in Int, PermuteBySupport(T)
    PROVE  SessionInv'
<1>1. Typed /\ T \in Nat \ {0}
    <2>1. Typed /\ T > 0
        BY Zenon DEF PermuteBySupport
    <2> QED BY <2>1
<1>2. IsCircuit(pNtk)
    BY <1>1, ReadyCircuit
<1> DEFINE N   == aigToComb(pNtk, T)
           sup == Table([k \in DOMAIN N.po |-> Reads(N, k)])
<1>3. PICK s \in Sorted(sup) : \E iPerm :
          /\ iPerm = permPi(CiNum(N), sup, s)
          /\ Fold("stru_fold -p", T, <<iPerm, N>>, aigPermCi(N, invPerm(iPerm)))
    BY Zenon DEF PermuteBySupport
<1>4. PICK iPerm :
          /\ iPerm = permPi(CiNum(N), sup, s)
          /\ Fold("stru_fold -p", T, <<iPerm, N>>, aigPermCi(N, invPerm(iPerm)))
    BY <1>3
<1>5. PlacedIn(aigPermCi(N, invPerm(iPerm)), Done("stru_fold -p", T, <<iPerm, N>>))
    BY <1>1, <1>2, <1>3, <1>4, SupportPlaces
<1> QED BY <1>4, <1>5, FoldKeeps

LEMMA PermuteByPartKeeps ==
    ASSUME SessionInv, NEW part \in Parts, PermuteByPart(part)
    PROVE  SessionInv'
<1>1. Typed /\ IsPart(part)
    BY CommandsAssumption DEF PermuteByPart
<1>2. IsCircuit(pNtk)
    BY <1>1, ReadyCircuit
<1>3. PICK N : N = aigToComb(pNtk, part.T)
    OBVIOUS
<1>4. CASE Abort("stru_fold -i")
    BY <1>4, AbortKeeps
<1>5. CASE readInfoAsserts(part.kids, part.iPerm0, part.T)
    <2>1. Range(part.kids) \subseteq 0 .. CiNum(N) - 1 /\ Num(part.iPerm0) <= CiNum(N)
        BY <1>3 DEF PermuteByPart
    <2>2. PICK iPerm :
              /\ iPerm = readInfo(CiNum(N), part.kids, part.iPerm0, part.T)
              /\ Fold("stru_fold -i", part.T, <<iPerm, N, part>>, aigPermCi(N, invPerm(iPerm)))
        BY <1>3, <1>5 DEF PermuteByPart
    <2>3. PlacedIn(aigPermCi(N, invPerm(iPerm)), Done("stru_fold -i", part.T, <<iPerm, N, part>>))
        BY <1>1, <1>2, <1>3, <1>5, <2>1, <2>2, PartPlaces
    <2> QED BY <2>2, <2>3, FoldKeeps
<1> QED BY <1>3, <1>4, <1>5 DEF PermuteByPart

LEMMA SessionStep ==
    ASSUME SessionInv, [SessionNext]_sessionVars
    PROVE  SessionInv'
<1>1. CASE Read
    BY <1>1, ReadKeeps
<1>2. CASE CMerge
    BY <1>2, CMergeKeeps
<1>3. ASSUME NEW n \in Sizes, FramesOf(n) \/ ToComb(n) \/ BuildParity(n) \/ ConstructDummy(n)
      PROVE  SessionInv'
    <2>1. n \in Int
        BY CommandsAssumption
    <2> QED BY <1>3, <2>1, FramesOfKeeps, ToCombKeeps, BuildParityKeeps, ConstructDummyKeeps
<1>4. ASSUME NEW n \in Sizes, TimeCascade(n) \/ PermuteBySupport(n)
      PROVE  SessionInv'
    <2>1. n \in Int
        BY CommandsAssumption
    <2> QED BY <1>4, <2>1, TimeCascadeKeeps, PermuteBySupportKeeps
<1>5. ASSUME NEW n \in Sizes, NEW m \in Sizes, RCone(n, m) \/ ICone(n, m)
      PROVE  SessionInv'
    <2>1. n \in Int /\ m \in Int
        BY CommandsAssumption
    <2> QED BY <1>5, <2>1, RConeKeeps, IConeKeeps
<1>6. ASSUME NEW n \in Sizes, NEW tieVal \in BOOLEAN, BuildVoter(n, tieVal)
      PROVE  SessionInv'
    <2>1. n \in Int
        BY CommandsAssumption
    <2> QED BY <1>6, <2>1, BuildVoterKeeps
<1>7. ASSUME NEW noI \in BOOLEAN, NEW noO \in BOOLEAN, RPermIO(noI, noO)
      PROVE  SessionInv'
    BY <1>7, RPermIOKeeps
<1>8. ASSUME NEW part \in Parts, PermuteByPart(part)
      PROVE  SessionInv'
    BY <1>8, PermuteByPartKeeps
<1>9. CASE UNCHANGED sessionVars
    <2>1. pNtk' = pNtk /\ before' = before /\ done' = done /\ status' = status
        BY <1>9 DEF sessionVars
    <2>2. (status = "ready" => Made(pNtk, before, done))'
        BY <2>1 DEF SessionInv
    <2>3. InputsPlaced'
        <3>1. CASE status = "folding"
            <4>1. PlacedIn(pNtk, done)
                BY <3>1 DEF SessionInv, InputsPlaced, PlacedIn, Placing
            <4>2. PlacedIn(pNtk', done')
                BY <2>1, <4>1
            <4> QED BY <4>2 DEF InputsPlaced, PlacedIn, Placing
        <3>2. CASE status # "folding"
            BY <2>1, <3>2 DEF InputsPlaced
        <3> QED BY <3>1, <3>2
    <2> QED BY <2>2, <2>3 DEF SessionInv
<1> QED BY <1>1, <1>2, <1>3, <1>4, <1>5, <1>6, <1>7, <1>8, <1>9 DEF SessionNext

-----------------------------------------------------------------------------
(* What the commands promise                                               *)

LEMMA SessionInvariant == SessionSpec => []SessionInv
BY SessionStart, SessionStep, PTL DEF SessionSpec

\* build_voter: the output of the circuit is 1 if most of the inputs are, or
\* half of them when a tie counts as 1, for every number of inputs.
THEOREM VoterVotesRight == SessionSpec => []VoterCounts
<1>1. SessionInv => VoterCounts
    <2> SUFFICES ASSUME SessionInv, status = "ready", done.name = "build_voter", NEW v \in Ins(done.num)
                 PROVE  pNtk.po[0][v] <=>
                            \/ 2 * Cardinality({j \in DOMAIN v : v[j]}) > done.num
                            \/ 2 * Cardinality({j \in DOMAIN v : v[j]}) = done.num /\ done.arg[1]
        BY DEF VoterCounts
    <2>1. done.num \in Nat \ {0} /\ done.arg[1] \in BOOLEAN /\ pNtk = aigBuildVoter(done.num, done.arg[1])
        BY DEF SessionInv, Made
    <2>2. PICK n \in Nat \ {0}, tieVal \in BOOLEAN : n = done.num /\ tieVal = done.arg[1]
        BY <2>1, Zenon
    <2>3. v \in Ins(n)
        BY <2>2
    <2>4. aigBuildVoter(n, tieVal).po[0][v] <=>
              (2 * OnesBefore(v, n) > n \/ (2 * OnesBefore(v, n) = n /\ tieVal))
        BY <2>3, VoterVotes
    <2>5. OnesBefore(v, n) = Cardinality({j \in DOMAIN v : v[j]})
        BY <2>3 DEF OnesBefore, Ins
    <2> QED BY <2>1, <2>2, <2>4, <2>5
<1> QED BY <1>1, SessionInvariant, PTL

\* cmerge: in every frame of the merged circuit each of the two shows what it
\* shows alone for its share of the inputs, so neither drives the latches of
\* the other, whatever the circuits are.
THEOREM MergeKeepsApart == SessionSpec => []MergedApart
<1>1. SessionInv => MergedApart
    <2> SUFFICES ASSUME SessionInv, status = "ready", done.name = "cmerge", before # NULL
                 PROVE  MergedApart
        BY DEF MergedApart
    <2>1. IsCircuit(before) /\ IsCircuit(done.arg[1]) /\ pNtk = aigMerge(before, done.arg[1])
        BY DEF SessionInv, Made
    <2> QED BY <2>1, MergeApart
<1> QED BY <1>1, SessionInvariant, PTL

\* time_cas after frames: the output of every frame is that of the machine
\* that is put back to its initial state by each reset, for every machine and
\* every number of frames.
THEOREM CascadeRestarts == SessionSpec => []CascadeResets
<1>1. SessionInv => CascadeResets
    <2> SUFFICES ASSUME SessionInv, status = "ready", done.name = "time_cas",
                        done.arg[2].name = "frames", done.arg[2].num = done.num,
                        NEW v \in Ins(pNtk.pi),
                        NEW t \in 0 .. done.num - 1, NEW k \in DOMAIN done.arg[1].po
                 PROVE  pNtk.po[t * PoNum(done.arg[1]) + k][v] =
                            done.arg[1].po[k][ResetRun(done.arg[1], done.num, v)[t]]
        BY Zenon DEF CascadeResets
    <2>1. /\ IsCircuit(done.arg[1]) /\ done.num \in Nat \ {0} /\ before = Frames(done.arg[1], done.num)
          /\ timeCasAsserts(before, done.num) /\ pNtk = timeCas(before, done.num)
        BY DEF SessionInv, Made
    <2>2. PICK T \in Nat \ {0} : T = done.num
        BY <2>1
    <2> DEFINE M == done.arg[1]
    <2>3. /\ IsCircuit(M) /\ timeCasAsserts(Frames(M, T), T) /\ pNtk = timeCas(Frames(M, T), T)
          /\ t \in 0 .. T - 1 /\ k \in 0 .. PoNum(M) - 1
        BY <2>1, <2>2, CircuitNumbers
    <2>4. pNtk.po[t * PoNum(M) + k][v] = M.po[k][ResetRun(M, T, v)[t]]
        BY <2>3, CascadeShows
    <2> QED BY <2>2, <2>4
<1> QED BY <1>1, SessionInvariant, PTL

\* stru_fold -p and -i: the permutation that is printed tells where every
\* input of the circuit went, and puts the inputs where the option wants them.
THEOREM InputsFound == SessionSpec => []InputsPlaced
<1>1. SessionInv => InputsPlaced
    BY DEF SessionInv
<1> QED BY <1>1, SessionInvariant, PTL
=============================================================================

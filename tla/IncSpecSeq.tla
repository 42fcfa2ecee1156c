----------------------------- MODULE IncSpecSeq -----------------------------
(***************************************************************************)
(* Incompletely specified sequences of bits (memin/IncSpecSeq.h): the      *)
(* inputs and outputs of the transitions of an FSM.  The two bit vectors   *)
(* seq and specifiedBits of the class are one function from positions to   *)
(* "0", "1" and "-".                                                       *)
(***************************************************************************)
EXTENDS Naturals

IncSpecSeqs(n) == [0 .. n - 1 -> {"0", "1", "-"}]

\* The words that a sequence stands for are its completions.
Words(n) == [0 .. n - 1 -> {"0", "1"}]

specified(s) == {b \in DOMAIN s : s[b] # "-"}

Matches(w, s) == \A b \in specified(s) : w[b] = s[b]

\* "bits that are specified in both outputs must be the same"
isCompatible(s, o) == \A b \in specified(s) \cap specified(o) : s[b] = o[b]

isDisjoint(s, o) == \E b \in specified(s) \cap specified(o) : s[b] # o[b]

\* Written for compatible sequences; a 1 wins over a 0.
intersect(s, o) ==
    [b \in DOMAIN s |->
        IF b \notin specified(s) \cup specified(o) THEN "-"
        ELSE IF "1" \in {s[b], o[b]} THEN "1" ELSE "0"]

isSubset(s, o) == specified(o) \subseteq specified(s) /\ isCompatible(s, o)

flip(c) == IF c = "0" THEN "1" ELSE "0"

\* The words of s that are not in o: for every position b that o specifies
\* and s does not, those that agree with o before b and differ at b.
diff(s, o) ==
    LET open == specified(o) \ specified(s)
    IN {[q \in DOMAIN s |-> IF q \in open /\ q < b THEN o[q]
                            ELSE IF q = b THEN flip(o[b])
                            ELSE s[q]] : b \in open}
=============================================================================

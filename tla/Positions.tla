------------------------------ MODULE Positions ------------------------------
(* Positions in a text.  As with the iterators of the source, an end is one *)
(* past the last position, and what is not found is found at the end.       *)
EXTENDS Integers, Sequences

CONSTANT
  Chars           \* the characters and words texts are made of

Least(S) == CHOOSE i \in S : \A j \in S : i <= j

findAny(d, begin, end, marks) == Least({i \in begin..(end - 1) : d[i] \in marks} \cup {end})

findIn(d, begin, end, mark) == findAny(d, begin, end, {mark})
=============================================================================

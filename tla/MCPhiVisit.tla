----------------------------- MODULE MCPhiVisit -----------------------------
(***************************************************************************)
(* Integers of two bits: a range is an interval that may wrap around, and  *)
(* the union of two is the smallest interval that contains both.           *)
(***************************************************************************)
EXTENDS PhiVisit

CONSTANTS C, D     \* two constants that are not integers

MCInts == 0..3

Interval(low, size) == {(low + k) % 4 : k \in 0..(size - 1)}

MCRanges == {Interval(low, size) : low \in 0..3, size \in 1..4}

MCUnionWith(r, s) ==
    LET covers == {t \in MCRanges : r \cup s \subseteq t}
    IN CHOOSE t \in covers : \A u \in covers : Cardinality(t) <= Cardinality(u)

RangeElement(tag, r, n) == [unknown EXCEPT !.Tag = tag, !.Range = r, !.NumRangeExtensions = n]
ConstElement(tag, c) == [unknown EXCEPT !.Tag = tag, !.ConstVal = c]

Guess(e) == [e EXCEPT !.spec = TRUE]

\* Each state an operand can be in, with integers and ranges that together make up all
\* integers, a guess of each kind, and the range of a phi with three active operands.
MCOperands ==
    {unknown, [unknown EXCEPT !.Tag = "undef"], [unknown EXCEPT !.Tag = "overdefined"],
     ConstElement("constant", C), ConstElement("notconstant", C),
     Guess(ConstElement("constant", D)),
     RangeElement("constantrange", {0}, 0), RangeElement("constantrange", {1}, 0),
     Guess(RangeElement("constantrange", {0}, 0)),
     RangeElement("constantrange_including_undef", {2, 3}, 0),
     RangeElement("constantrange", {0, 1}, 3)}
=============================================================================

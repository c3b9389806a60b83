------------------------------- MODULE Lists -------------------------------
(***************************************************************************)
(* Sums along a sequence or over a set, and the elements of a set in an    *)
(* order.                                                                  *)
(***************************************************************************)
EXTENDS Integers, Sequences, FiniteSetsExt

\* What the first n numbers of vals add up to, for each n.
Sums(vals) ==
    LET sum[n \in 0..Len(vals)] == IF n = 0 THEN 0 ELSE sum[n - 1] + vals[n]
    IN sum

Total(vals) == Sums(vals)[Len(vals)]

\* What f has for the elements of s adds up to this.
SumOver(f, s) == MapThenSumSet(LAMBDA x : f[x], s)

\* The elements of s, each after those which the pairs of before say come before it.
InOrder(s, before) ==
    [k \in 1..Cardinality(s) |->
        CHOOSE x \in s : Cardinality({y \in s : <<y, x>> \in before}) = k - 1]

Increasing(ns) == InOrder(ns, {p \in ns \X ns : p[1] < p[2]})

\* The place of x in a sequence without repetitions.
PlaceIn(order, x) == CHOOSE k \in DOMAIN order : order[k] = x
=============================================================================

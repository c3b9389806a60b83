------------------------------ MODULE MCFirst ------------------------------
(***************************************************************************)
(* Programs for the first HPSSA pass: those of MCHpssa, and three more.    *)
(***************************************************************************)
EXTENDS FirstHpssa, MCHpssa

\* A phi with a diamond below it and an edge out of the part it dominates.  Which comes
\* first in reverse postorder, that block or the diamond's join, is a matter of the order
\* of the successors.
Frontier(succs) ==
    Program([e |-> <<"a", "b">>, a |-> <<"j">>, b |-> <<"j", "x">>, j |-> succs,
             c |-> <<"y">>, d |-> <<"y">>],
            [j |-> <<X>>, x |-> <<Y>>],
            (X :> [a |-> K1, b |-> K2]) @@ (Y :> [b |-> K3, j |-> X]),
            [y |-> <<I1>>, x |-> <<I2>>],
            (I1 :> X) @@ (I2 :> Y))

\* A join of two joins: a tau of the first phi is an argument of one of the second and
\* nothing else reads it.
Joins ==
    Program([e |-> <<"a", "b">>, a |-> <<"j">>, b |-> <<"j">>, j |-> <<"c", "d", "y">>,
             c |-> <<"x">>, d |-> <<"x">>, y |-> <<"x">>, x |-> <<"z", "w">>, z |-> <<"w">>],
            [j |-> <<X>>, x |-> <<Y>>],
            (X :> [a |-> K1, b |-> K2]) @@ (Y :> [c |-> X, d |-> K3, y |-> K4]),
            [w |-> <<I1>>],
            I1 :> Y)

FirstPrograms ==
    MCPrograms \cup Frontier(<<"c", "d", "x">>) \cup Frontier(<<"x", "c", "d">>) \cup Joins
=============================================================================

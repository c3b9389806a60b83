------------------------------ MODULE MCHpssa ------------------------------
(***************************************************************************)
(* Programs for the HPSSA passes, each with every choice of at most MaxHot *)
(* hot paths.                                                              *)
(***************************************************************************)
EXTENDS TDestruction, CfgInstances

CONSTANTS MaxHot,                          \* at most so many paths are hot
          X, Y, Z, W,                      \* phis
          I1, I2, I3, I4,                  \* other instructions
          K1, K2, K3, K4                   \* constants of the program

MCBlocks == {"e", "a", "b", "j", "c", "d", "x", "y", "z", "w"}

\* s on all blocks, with the empty sequence where it says nothing.
OnBlocks(s) == [u \in MCBlocks |-> IF u \in DOMAIN s THEN s[u] ELSE << >>]

Program(succ, phis, op, body, use) ==
    {f @@ [phis |-> OnBlocks(phis), op |-> op, body |-> OnBlocks(body), use |-> use] :
        f \in Profiled(Graph("e", OnBlocks(succ)), MaxHot)}

\* Two phis at the first join, read on one side of the second branch, through the
\* phi of the second join, and below it.
TwoDiamonds ==
    Program([e |-> <<"a", "b">>, a |-> <<"j">>, b |-> <<"j">>,
             j |-> <<"c", "d">>, c |-> <<"x">>, d |-> <<"x">>],
            [j |-> <<X, W>>, x |-> <<Y>>],
            (X :> [a |-> K1, b |-> K2]) @@ (W :> [a |-> K3, b |-> K1])
                @@ (Y :> [c |-> X, d |-> W]),
            [c |-> <<I1>>, x |-> <<I2, I3>>],
            (I1 :> X) @@ (I2 :> Y) @@ (I3 :> X))

\* A loop variable that a branch in the body may replace before it is stepped.
BranchInLoop ==
    Program([e |-> <<"a">>, a |-> <<"b", "x">>, b |-> <<"c", "d">>,
             c |-> <<"d">>, d |-> <<"a">>],
            [a |-> <<X>>, d |-> <<Y>>],
            (X :> [e |-> K1, d |-> I1]) @@ (Y :> [b |-> X, c |-> I2]),
            [c |-> <<I2>>, d |-> <<I1>>, x |-> <<I3>>],
            (I1 :> Y) @@ (I2 :> X) @@ (I3 :> X))

\* An inner loop that starts from the outer loop's variable.
NestedLoops ==
    Program([e |-> <<"a">>, a |-> <<"b", "x">>, b |-> <<"c", "d">>,
             c |-> <<"b">>, d |-> <<"a">>],
            [a |-> <<X>>, b |-> <<Y>>],
            (X :> [e |-> K1, d |-> I1]) @@ (Y :> [a |-> X, c |-> I2]),
            [c |-> <<I2>>, d |-> <<I1>>, x |-> <<I3>>],
            (I1 :> Y) @@ (I2 :> Y) @@ (I3 :> X))

MCPrograms == TwoDiamonds \cup BranchInLoop \cup NestedLoops

\* A phi that has the same phi on two of its edges.
SharedOperand ==
    Program([e |-> <<"a", "b">>, a |-> <<"j">>, b |-> <<"j">>,
             j |-> <<"c", "d", "x">>, c |-> <<"x">>, d |-> <<"x">>],
            [j |-> <<X>>, x |-> <<Z>>],
            (X :> [a |-> K1, b |-> K2]) @@ (Z :> [c |-> X, d |-> X, j |-> K3]),
            [x |-> <<I1>>],
            (I1 :> Z))

\* A loop variable that a branch in the body may replace, carried round as it is.
CarriedPhi ==
    Program([e |-> <<"a">>, a |-> <<"b", "x">>, b |-> <<"c", "d">>,
             c |-> <<"d">>, d |-> <<"a">>],
            [a |-> <<X>>, d |-> <<Y>>],
            (X :> [e |-> K1, d |-> Y]) @@ (Y :> [b |-> X, c |-> K2]),
            [d |-> <<I1, I2>>, x |-> <<I3>>],
            (I1 :> Y) @@ (I2 :> X) @@ (I3 :> X))
=============================================================================

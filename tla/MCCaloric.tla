----------------------------- MODULE MCCaloric -----------------------------
(***************************************************************************)
(* Functions that bring out each situation of the walk: paths that split   *)
(* and join again, one block reached by two edges of a switch, a loop with *)
(* a branch in its body, a block that is its own successor, a loop inside  *)
(* a loop, and a loop entered with two buddy sets so that the incubating   *)
(* paths make them overlap before the body splits and joins them.          *)
(***************************************************************************)
EXTENDS Caloric, CfgInstances

CONSTANT MaxHot   \* at most so many paths are hot

MCBlocks == {"e", "a", "b", "j", "c", "d", "x"}

\* The graph on all blocks from the successors of those that have some.
Flow(s) == Graph("e", [u \in MCBlocks |-> IF u \in DOMAIN s THEN s[u] ELSE << >>])

TwoDiamonds == Flow([e |-> <<"a", "b">>, a |-> <<"j">>, b |-> <<"j">>,
                     j |-> <<"c", "d">>, c |-> <<"x">>, d |-> <<"x">>])

SwitchWithSharedTarget ==
    Flow([e |-> <<"a", "b", "b">>, a |-> <<"j">>, b |-> <<"j", "c">>,
          j |-> <<"c", "x">>, c |-> <<"x">>])

BranchInLoop == Flow([e |-> <<"a">>, a |-> <<"b", "x">>, b |-> <<"c", "d">>,
                      c |-> <<"d">>, d |-> <<"a">>])

SelfLoop == Flow([e |-> <<"a", "b">>, a |-> <<"b">>, b |-> <<"b", "c">>,
                  c |-> <<"d", "x">>, d |-> <<"x">>])

NestedLoops == Flow([e |-> <<"a">>, a |-> <<"b", "x">>, b |-> <<"c", "d">>,
                     c |-> <<"b">>, d |-> <<"a">>])

TwoWaysIntoLoop == Flow([e |-> <<"a", "b">>, a |-> <<"j">>, b |-> <<"j">>,
                         j |-> <<"c", "d">>, c |-> <<"d">>, d |-> <<"j", "x">>])

MCPrograms == UNION {Profiled(g, MaxHot) :
                        g \in {TwoDiamonds, SwitchWithSharedTarget, BranchInLoop,
                               SelfLoop, NestedLoops, TwoWaysIntoLoop}}
=============================================================================

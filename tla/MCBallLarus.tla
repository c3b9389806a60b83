---------------------------- MODULE MCBallLarus ----------------------------
(***************************************************************************)
(* Functions for the Ball-Larus profiler: paths that split and join, a     *)
(* switch, one with two edges to one block, a block that cannot return,    *)
(* edges of nonzero value that close a cycle, a loop with an exit at its   *)
(* head, right after the entry and later, one with a branch in its body, a *)
(* block that is its own successor, and a loop with two back edges to one  *)
(* header.  The maps of the profiler have the order of the addresses of    *)
(* the blocks, which may be any.                                           *)
(***************************************************************************)
EXTENDS PathCounts, CfgInstances

MCBlocks == {"e", "a", "b", "j", "c", "d", "x"}

MCThresholds == {0, 50, 100}

TwoDiamonds == [e |-> <<"a", "b">>, a |-> <<"j">>, b |-> <<"j">>,
                j |-> <<"c", "d">>, c |-> <<"x">>, d |-> <<"x">>]

SharedTarget == [e |-> <<"a", "b", "b">>, a |-> <<"x">>, b |-> <<"x", "a">>]

Switch == [e |-> <<"a", "b", "c">>, a |-> <<"x">>, b |-> <<"x">>, c |-> <<"x">>]

CannotReturn == [e |-> <<"a", "b">>, a |-> <<"x">>]

ValuedCycle == [e |-> <<"x", "a", "b">>, a |-> <<"x", "b">>, b |-> <<"x">>]

WhileLoop == [e |-> <<"a">>, a |-> <<"b", "x">>, b |-> <<"a">>]

GuardedLoop == [e |-> <<"a">>, a |-> <<"b">>, b |-> <<"c", "x">>, c |-> <<"b">>]

BranchInLoop == [e |-> <<"a">>, a |-> <<"b", "x">>, b |-> <<"c", "d">>,
                 c |-> <<"d">>, d |-> <<"a">>]

SelfLoop == [e |-> <<"a", "b">>, a |-> <<"b">>, b |-> <<"b", "x">>]

TwoTails == [e |-> <<"a">>, a |-> <<"b", "x">>, b |-> <<"a", "c">>, c |-> <<"a">>]

\* The function with the successors s, with its blocks at addresses in any order, or
\* in the order of the search and against it.
Main(s, anyOrder) ==
    LET succ == [u \in MCBlocks |-> IF u \in DOMAIN s THEN s[u] ELSE << >>]
        dfs == Dfs("e", succ)
    IN {[entry |-> "e", exit |-> "x", succ |-> succ, back |-> dfs.back, paths |-> << >>,
         rpo |-> Reverse(dfs.post), layout |-> Reverse(dfs.post), address |-> o]
        : o \in IF anyOrder THEN SetToSeqs(ToSet(dfs.post)) ELSE {dfs.post, Reverse(dfs.post)}}

MCPrograms ==
    UNION ({Main(s, TRUE) : s \in {SharedTarget, CannotReturn, ValuedCycle, WhileLoop,
                                   GuardedLoop, SelfLoop}}
           \cup {Main(s, FALSE) : s \in {TwoDiamonds, Switch, BranchInLoop, TwoTails}})

MCGuardedLoop == Main(GuardedLoop, FALSE)
=============================================================================

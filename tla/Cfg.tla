-------------------------------- MODULE Cfg --------------------------------
(***************************************************************************)
(* The functions the passes run on, as far as the passes look at them: the *)
(* control-flow graph that LLVM keeps, the orders and back edges LLVM's    *)
(* analyses compute from it, and the hot paths that the Ball-Larus         *)
(* profiler wrote to BallLarusProfiler/hotPathInfo.txt.                    *)
(*                                                                         *)
(* A function is a record f with                                           *)
(*   f.entry   its entry block                                             *)
(*   f.succ    for each block the sequence of its terminator's successors; *)
(*             a block that is named twice is reached by two edges         *)
(*   f.rpo     the blocks in the order of LLVM's ReversePostOrderTraversal *)
(*   f.back    the edges <<tail, header>> of FindFunctionBackedges         *)
(*   f.paths   the hot paths, each the sequence of its blocks; the path    *)
(*             on line k is hot path k                                     *)
(***************************************************************************)
EXTENDS Naturals, Sequences, FiniteSets

CONSTANTS Blocks,    \* the basic blocks
          Programs   \* the functions, with their hot paths

(***************************************************************************)
(* The edges out of a block are numbered by their place in its terminator. *)
(***************************************************************************)
Edges(f) == UNION {{<<u, n>> : n \in DOMAIN f.succ[u]} : u \in Blocks}

\* The edges into b: what predecessors(b) iterates over.
PredEdges(f, b) == {e \in Edges(f) : f.succ[e[1]][e[2]] = b}

Preds(f, b) == {e[1] : e \in PredEdges(f, b)}

Succs(f, b) == {f.succ[b][n] : n \in DOMAIN f.succ[b]}

Reachable(f) == {f.rpo[k] : k \in DOMAIN f.rpo}

\* b comes before c in the traversal.
Before(f, b, c) == \E m, n \in DOMAIN f.rpo : m < n /\ f.rpo[m] = b /\ f.rpo[n] = c

(***************************************************************************)
(* The dominator tree: c dominates b if the entry reaches b only through c *)
(* and the immediate dominator is the one all the others dominate.         *)
(***************************************************************************)
ReachableAround(f, c) ==
    LET within[n \in 0..Cardinality(Blocks)] ==
            IF n = 0 THEN {f.entry} \ {c}
            ELSE LET before == within[n - 1]
                 IN before \cup ((UNION {Succs(f, u) : u \in before}) \ {c})
    IN within[Cardinality(Blocks)]

Dominators(f) ==
    LET around == [c \in Reachable(f) |-> ReachableAround(f, c)]
    IN [b \in Reachable(f) |-> {c \in Reachable(f) : b \notin around[c]}]

DominatorTree(f) ==
    LET doms == Dominators(f)
    IN [b \in Reachable(f) \ {f.entry} |->
            CHOOSE d \in doms[b] \ {b} : doms[d] = doms[b] \ {b}]

BlocksOf(path) == {path[n] : n \in DOMAIN path}

(***************************************************************************)
(* HotPathSet of HPSSA_new.cpp: for each block the hot paths through it.   *)
(***************************************************************************)
ProfileOf(f) == [b \in Blocks |-> {k \in DOMAIN f.paths : b \in BlocksOf(f.paths[k])}]

(***************************************************************************)
(* What LLVM guarantees of a function (the entry block has no              *)
(* predecessor, the traversal lists each reachable block once, the entry   *)
(* first and each other block after one it is a successor of) and the      *)
(* profiler of a hot path: it follows edges that are not back edges, so it *)
(* moves forward in the traversal.  A path that                            *)
(* begins with the target of a back edge, or ends where a back edge leaves *)
(* or the program stops, is one of two kinds.  numToPath of the Ball-Larus *)
(* profiler lists the entry before it and the exit after it, for it goes   *)
(* along the edges that stand for the back edge in the abstract graph; the *)
(* blocks logged by the basic block profiler, in the same format, are      *)
(* those between.                                                          *)
(***************************************************************************)
WellFormedGraph(f) ==
    /\ f.entry \in Blocks
    /\ f.succ \in [Blocks -> Seq(Blocks)]
    /\ f.rpo \in Seq(Blocks)
    /\ Len(f.rpo) > 0
    /\ f.rpo[1] = f.entry
    /\ \A m, n \in DOMAIN f.rpo : f.rpo[m] = f.rpo[n] => m = n
    /\ \A n \in DOMAIN f.rpo : n > 1 => \E m \in 1..(n - 1) : f.rpo[n] \in Succs(f, f.rpo[m])
    /\ PredEdges(f, f.entry) = {}

Leaves(f, u) == f.succ[u] = << >> \/ \E e \in f.back : e[1] = u
IsHeader(f, u) == \E e \in f.back : e[2] = u

Forward(f, u, v) == v \in Succs(f, u) /\ Before(f, u, v)

WellFormedPath(f, path) ==
    /\ path \in Seq(Blocks)
    /\ Len(path) > 0
    /\ path[1] = f.entry \/ IsHeader(f, path[1])
    /\ \A n \in 1..(Len(path) - 1) :
          \/ Forward(f, path[n], path[n + 1])
          \/ n = 1 /\ path[n] = f.entry /\ IsHeader(f, path[n + 1])
          \/ n = Len(path) - 1 /\ Leaves(f, path[n]) /\ f.succ[path[n + 1]] = << >>

ASSUME ProgramsAssumption ==
    /\ IsFiniteSet(Blocks)
    /\ \A f \in Programs : /\ WellFormedGraph(f)
                           /\ DOMAIN f.paths \subseteq Nat
                           /\ \A k \in DOMAIN f.paths : WellFormedPath(f, f.paths[k])

\* Path k comes to b from the entry along edges of the function.
ComesTo(f, k, b) ==
    \E m \in DOMAIN f.paths[k] :
        /\ f.paths[k][1] = f.entry
        /\ f.paths[k][m] = b
        /\ \A n \in 1..(m - 1) : Forward(f, f.paths[k][n], f.paths[k][n + 1])
=============================================================================

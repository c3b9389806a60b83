---------------------------- MODULE CfgInstances ----------------------------
(***************************************************************************)
(* Functions for model checking.  A function is given by its entry block   *)
(* and its successors; what LLVM and the profiler derive from these two is *)
(* computed here the way they compute it, so that every instance is one    *)
(* the passes can really meet: the reverse postorder and the back edges by *)
(* the depth-first search of LLVM's ReversePostOrderTraversal and          *)
(* FindFunctionBackedges, the possible hot paths by cutting the graph at   *)
(* its back edges as getAbstractGraph of the Ball-Larus profiler does.     *)
(***************************************************************************)
EXTENDS Naturals, Sequences, Functions, FiniteSetsExt, SequencesExt

(***************************************************************************)
(* The depth-first search, one step at a time.  st.stack holds the blocks  *)
(* being visited, each with the number of successors looked at: an edge to *)
(* one of them is a back edge.  Every block is pushed and popped once and  *)
(* every edge looked at once.                                              *)
(***************************************************************************)
DfsStep(succ, st) ==
    LET u == Last(st.stack)[1]
        n == Last(st.stack)[2] + 1
        rest == Append(Front(st.stack), <<u, n>>)
        v == succ[u][n]
    IN IF st.stack = << >> THEN st
       ELSE IF n > Len(succ[u])
       THEN [st EXCEPT !.stack = Front(@), !.post = Append(@, u)]
       ELSE IF v \in st.seen
       THEN [st EXCEPT !.stack = rest,
                       !.back = IF \E k \in DOMAIN rest : rest[k][1] = v
                                THEN @ \cup {<<u, v>>} ELSE @]
       ELSE [st EXCEPT !.stack = Append(rest, <<v, 0>>), !.seen = @ \cup {v}]

Dfs(entry, succ) ==
    LET start == [stack |-> <<<<entry, 0>>>>, seen |-> {entry}, post |-> << >>, back |-> {}]
        steps == FoldFunction(LAMBDA s, k : k + Len(s) + 2, 0, succ)
        after[n \in 0..steps] == IF n = 0 THEN start ELSE DfsStep(succ, after[n - 1])
    IN after[steps]

(***************************************************************************)
(* The paths between back edges: from the entry or the target of a back    *)
(* edge to a block where the function returns or a back edge leaves, along *)
(* edges that are not back edges.                                          *)
(***************************************************************************)
AllPaths(entry, succ) ==
    LET back == Dfs(entry, succ).back
        leaves(b) == succ[b] = << >> \/ \E e \in back : e[1] = b
        next(b) == {v \in ToSet(succ[b]) : <<b, v>> \notin back}
        from[b \in DOMAIN succ] ==
            (IF leaves(b) THEN {<<b>>} ELSE {})
            \cup {<<b>> \o q : q \in UNION {from[v] : v \in next(b)}}
    IN UNION {from[b] : b \in {entry} \cup {e[2] : e \in back}}

(***************************************************************************)
(* The same paths as numToPath of the Ball-Larus profiler lists them, from *)
(* the entry to the exit.                                                  *)
(***************************************************************************)
Regenerated(entry, succ, path) ==
    LET exit == CHOOSE b \in ToSet(Dfs(entry, succ).post) : succ[b] = << >>
    IN (IF path[1] = entry THEN << >> ELSE <<entry>>) \o path
       \o (IF succ[Last(path)] = << >> THEN << >> ELSE <<exit>>)

(***************************************************************************)
(* A graph, and the function it makes with each set of at most n of its    *)
(* paths hot, all of them of the one kind or of the other.                 *)
(***************************************************************************)
Graph(entry, succ) ==
    LET between == AllPaths(entry, succ)
    IN [entry |-> entry, succ |-> succ,
        rpo |-> Reverse(Dfs(entry, succ).post), back |-> Dfs(entry, succ).back,
        kinds |-> {between, {Regenerated(entry, succ, path) : path \in between}}]

Profiled(g, n) ==
    {[entry |-> g.entry, succ |-> g.succ, rpo |-> g.rpo, back |-> g.back,
      paths |-> SetToSeq(H)]
     : H \in UNION {kSubset(k, paths) : k \in 0..n, paths \in g.kinds}}
=============================================================================

----------------------------- MODULE BallLarus -----------------------------
(***************************************************************************)
(* BallLarusProfiler.cpp: the pass that numbers the paths of a function    *)
(* and puts code on its edges that computes the number of the path taken.  *)
(* It replaces back edges by dummy edges (getAbstractGraph), sorts the     *)
(* blocks by a depth-first search and gives each edge a value, so that the *)
(* values along a path add up to its number (getEdgeValues), grows a       *)
(* spanning tree and derives increments for the edges off the tree         *)
(* (getIncValues), and instruments these (run).                            *)
(*                                                                         *)
(* Beside the fields of Cfg a function has                                 *)
(*   f.exit     the block that returns                                     *)
(*   f.layout   its blocks in the order of the function, entry first       *)
(*   f.address  its blocks in the order of their addresses, which is that  *)
(*              of the maps the profiler keeps                             *)
(* Its blocks are those reachable from the entry.  Numbers do not overflow *)
(* ("Assuming no of paths <= INT_MAX").                                    *)
(***************************************************************************)
EXTENDS Cfg, Lists, SequencesExt

NoBlock == "none"  \* NULL

(***************************************************************************)
(* What LLVM guarantees of the function: each block is in its layout and   *)
(* has an address, each but the entry is reached from one before it in the *)
(* traversal, and an edge that does not go forward in it is a back edge.   *)
(***************************************************************************)
ListsAll(order, f) ==
    /\ order \in Seq(Blocks)
    /\ {order[k] : k \in DOMAIN order} = Reachable(f)
    /\ \A j, k \in DOMAIN order : order[j] = order[k] => j = k

WellFormedMain(f) ==
    /\ f.exit \in Reachable(f) /\ f.succ[f.exit] = << >>
    /\ ListsAll(f.layout, f) /\ ListsAll(f.address, f)
    /\ \A u \in Reachable(f) : \A v \in Succs(f, u) :
          /\ v \in Reachable(f)
          /\ <<u, v>> \in f.back <=> ~ Before(f, u, v)
    /\ \A v \in Reachable(f) \ {f.entry} : \E u \in Reachable(f) : Forward(f, u, v)

ASSUME MainAssumption == NoBlock \notin Blocks /\ \A f \in Programs : WellFormedMain(f)

VARIABLES
    fn,        \* the function main
    pc,        \* the part of the pass that takes the next step
    G,         \* for each block its edges in the abstract graph
    Backedge,  \* for each back edge its tail and header
    stack,     \* the calls of DFS, each with the edge it looks at next
    finish,    \* the blocks in the order DFS finishes them
    NumPaths,  \* for each block the number of paths from it to the exit
    pos,       \* the place of the loop in finish or in chords
    inMST,     \* the blocks of the spanning tree
    distance,  \* for each other block the value of the best edge to the tree
    parent,    \* the block at the other end of this edge, and its direction
    potential, \* for each block of the tree the sum of values from the root
    chords,    \* the edges to instrument
    onEdge,    \* for each edge of the function the code put on it
    atExit     \* the code put in front of the exit's return

graphVars == <<fn, G, Backedge>>
orderVars == <<stack, finish, NumPaths>>
treeVars  == <<inMST, distance, parent, potential>>
codeVars  == <<chords, onEdge, atExit>>
passVars  == <<pc, graphVars, orderVars, pos, treeVars, codeVars>>

Members == ToSet(fn.address)    \* the blocks of the function

IntMin == -1       \* INT_MIN: less than every value

PassInit ==
    /\ fn \in Programs
    /\ pc = "abstract"
    /\ G = << >> /\ Backedge = << >>
    /\ stack = << >> /\ finish = << >> /\ NumPaths = << >>
    /\ pos = 1
    /\ inMST = {} /\ distance = << >> /\ parent = << >> /\ potential = << >>
    /\ chords = << >>
    /\ onEdge = [e \in Edges(fn) |-> << >>]
    /\ atExit = << >>

----------------------------------------------------------------------------
(* getAbstractGraph.                                                       *)

isBackedge(u, v) == <<u, v>> \in fn.back

Header(e) == fn.succ[e[1]][e[2]]

\* The places of the edges that g gives for each block, and some in the order of blocks.
Places(g) == UNION {{u} \X DOMAIN g[u] : u \in Members}

ByPlace(order, es) ==
    LET earlier(d, e) == \/ PlaceIn(order, d[1]) < PlaceIn(order, e[1])
                         \/ d[1] = e[1] /\ d[2] < e[2]
    IN InOrder(es, {p \in es \X es : earlier(p[1], p[2])})

\* The back edges in the order in which they are numbered.
BackPlaces == ByPlace(fn.layout, {e \in Places(fn.succ) : isBackedge(e[1], Header(e))})

Edge(u, v, number) == [from |-> u, to |-> v, backedge_number |-> number, val |-> 0]

\* A back edge leaves its tail for the exit, and so does a block that cannot return.
OutEdges(u) ==
    IF fn.succ[u] = << >> /\ u # fn.exit
    THEN <<Edge(u, fn.exit, 0)>>
    ELSE [n \in DOMAIN fn.succ[u] |->
            IF isBackedge(u, fn.succ[u][n])
            THEN Edge(u, fn.exit, CHOOSE k \in DOMAIN BackPlaces : BackPlaces[k] = <<u, n>>)
            ELSE Edge(u, fn.succ[u][n], 0)]

EntryEdges_Tail ==  \* mutant: to the tail
    [k \in DOMAIN BackPlaces |-> Edge(fn.entry, BackPlaces[k][1], k)]

\* The other half of a back edge goes from the entry to the header.
EntryEdges == [k \in DOMAIN BackPlaces |-> Edge(fn.entry, Header(BackPlaces[k]), k)]

EdgesFrom_DummiesFirst(u) ==  \* mutant: the dummy edges come before the others
    IF u = fn.entry THEN EntryEdges \o OutEdges(u) ELSE OutEdges(u)

EdgesFrom(u) == IF u = fn.entry THEN OutEdges(u) \o EntryEdges ELSE OutEdges(u)

getAbstractGraph ==
    /\ pc = "abstract"
    /\ G' = [u \in Members |-> EdgesFrom(u)]
    /\ Backedge' = [k \in DOMAIN BackPlaces |->
                        [tail |-> BackPlaces[k][1], header |-> Header(BackPlaces[k])]]
    /\ stack' = <<<<fn.entry, 1>>>>
    /\ NumPaths' = [u \in Members |-> 0]
    /\ pc' = "sort"
    /\ UNCHANGED <<fn, finish, pos, treeVars, codeVars>>

----------------------------------------------------------------------------
(* TopoSort and getEdgeValues.                                             *)

Visited == {stack[k][1] : k \in DOMAIN stack} \cup ToSet(finish)

\* DFS looks at the next edge of the block on top and calls itself if it is new.
DFS ==
    /\ pc = "sort" /\ stack # << >>
    /\ LET u == Last(stack)[1]
           n == Last(stack)[2]
           rest == Append(Front(stack), <<u, n + 1>>)
       IN /\ n <= Len(G[u])
          /\ stack' = IF G[u][n].to \in Visited THEN rest
                      ELSE Append(rest, <<G[u][n].to, 1>>)
    /\ UNCHANGED <<pc, graphVars, finish, NumPaths, pos, treeVars, codeVars>>

FinishBlock ==
    /\ pc = "sort" /\ stack # << >>
    /\ LET u == Last(stack)[1]
       IN /\ Last(stack)[2] > Len(G[u])
          /\ finish' = Append(finish, u)
    /\ stack' = Front(stack)
    /\ UNCHANGED <<pc, graphVars, NumPaths, pos, treeVars, codeVars>>

Sorted ==
    /\ pc = "sort" /\ stack = << >>
    /\ pc' = "values"
    /\ UNCHANGED <<graphVars, orderVars, pos, treeVars, codeVars>>

\* How many paths the first n edges of u lead to.
PathsBy(u, n) == Sums([k \in DOMAIN G[u] |-> NumPaths[G[u][k].to]])[n]

EdgeVal_Next(u, n) == PathsBy(u, n)  \* mutant: NumPaths is added first

EdgeVal(u, n) == PathsBy(u, n - 1)

\* From the block that finished first to the entry.
getEdgeValues ==
    /\ pc = "values" /\ pos \in DOMAIN finish
    /\ LET BB == finish[pos]
       IN IF G[BB] = << >>
          THEN /\ NumPaths' = [NumPaths EXCEPT ![BB] = 1]
               /\ UNCHANGED G
          ELSE /\ NumPaths' = [NumPaths EXCEPT ![BB] = PathsBy(BB, Len(G[BB]))]
               /\ G' = [G EXCEPT ![BB] = [n \in DOMAIN @ |-> [@[n] EXCEPT !.val = EdgeVal(BB, n)]]]
    /\ pos' = pos + 1
    /\ UNCHANGED <<fn, pc, Backedge, stack, finish, treeVars, codeVars>>

----------------------------------------------------------------------------
(* getIncValues: a spanning tree of large values.                          *)

\* The edge from the exit to the entry closes each path to a cycle.
StartTree ==
    /\ pc = "values" /\ pos \notin DOMAIN finish
    /\ G' = [G EXCEPT ![fn.exit] = Append(@, Edge(fn.exit, fn.entry, 0))]
    /\ distance' = [u \in Members |-> IF u = fn.address[1] THEN 0 ELSE IntMin]
    /\ parent' = [u \in Members |-> [block |-> NoBlock, forward |-> TRUE]]
    /\ potential' = [u \in Members |-> 0]
    /\ pc' = "tree"
    /\ UNCHANGED <<fn, Backedge, orderVars, pos, inMST, codeVars>>

AddressOf(u) == PlaceIn(fn.address, u)

\* notInMST is sorted by distance, then by address.
ComesFirst_Least(u, v) == distance[u] <= distance[v]  \* mutant: a minimal spanning tree

ComesFirst(u, v) ==
    \/ distance[u] > distance[v]
    \/ distance[u] = distance[v] /\ AddressOf(u) >= AddressOf(v)

ToMST_Again(u) == inMST  \* mutant: the block stays in notInMST

ToMST(u) == inMST \cup {u}

Larger(m, vals) == CHOOSE x \in {m} \cup vals : \A y \in {m} \cup vals : x >= y

Values(u, v) == {G[u][n].val : n \in {m \in DOMAIN G[u] : G[u][m].to = v}}

\* The best block joins the tree, and its edges may be better for others.  Inc of
\* the code, kept for each pair of blocks of the tree, is the difference of their
\* potentials: the values on the tree path from one to the other.
GrowTree ==
    /\ pc = "tree"
    /\ \E u \in Members \ inMST :
          /\ \A v \in Members \ inMST : ComesFirst(u, v)
          /\ potential' =
                IF parent[u].block = NoBlock THEN potential
                ELSE [potential EXCEPT ![u] = potential[parent[u].block]
                         + (IF parent[u].forward THEN distance[u] ELSE -distance[u])]
          /\ inMST' = ToMST(u)
          /\ LET others == Members \ (inMST \cup {u})
                 out == [v \in others |-> Larger(distance[v], Values(u, v))]
                 best == [v \in others |-> Larger(out[v], Values(v, u))]
             IN /\ distance' = [v \in Members |-> IF v \in others THEN best[v] ELSE distance[v]]
                /\ parent' = [v \in Members |->
                                 IF v \in others /\ best[v] > distance[v]
                                 THEN [block |-> u, forward |-> best[v] = out[v]]
                                 ELSE parent[v]]
    /\ UNCHANGED <<pc, graphVars, orderVars, pos, codeVars>>

Inc(u, v) == potential[v] - potential[u]

chordEdge_Half(e) == e.from # parent[e.to].block  \* mutant: in one direction

chordEdge(e) == e.from # parent[e.to].block /\ parent[e.from].block # e.to

\* The chords in the order of the map.
Annotate ==
    /\ pc = "tree" /\ inMST = Members
    /\ LET off == ByPlace(fn.address, {e \in Places(G) : chordEdge(G[e[1]][e[2]])})
       IN chords' = [k \in DOMAIN off |-> G[off[k][1]][off[k][2]]]
    /\ pos' = 1
    /\ pc' = "instrument"
    /\ UNCHANGED <<graphVars, orderVars, treeVars, onEdge, atExit>>

----------------------------------------------------------------------------
(* run: the code on the chords.                                            *)

insertInc_Store(n) == [do |-> "set", arg |-> n]  \* mutant: nothing is added

insertInc(n) == [do |-> "add", arg |-> n]

regInc == [do |-> "count", arg |-> 0]
resetInc(n) == [do |-> "set", arg |-> n]

\* The edges from u to v that have not been split.
Unsplit(u, v) == {e \in PredEdges(fn, v) : e[1] = u /\ onEdge[e] = << >>}

FirstOf(edges) == CHOOSE e \in edges : \A d \in edges : e[2] <= d[2]

ExitChord ==
    /\ pc = "instrument" /\ pos \in DOMAIN chords
    /\ chords[pos].backedge_number = 0 /\ chords[pos].to = fn.entry
    /\ atExit' = Append(atExit, insertInc(Inc(chords[pos].from, chords[pos].to)))
    /\ pos' = pos + 1
    /\ UNCHANGED <<pc, graphVars, orderVars, treeVars, chords, onEdge>>

\* SplitEdge and the code in the new block.
Chord ==
    /\ pc = "instrument" /\ pos \in DOMAIN chords
    /\ chords[pos].backedge_number = 0 /\ chords[pos].to # fn.entry
    /\ LET edges == Unsplit(chords[pos].from, chords[pos].to)
       IN /\ edges # {}
          /\ onEdge' = [onEdge EXCEPT ![FirstOf(edges)] =
                           <<insertInc(Inc(chords[pos].from, chords[pos].to))>>]
    /\ pos' = pos + 1
    /\ UNCHANGED <<pc, graphVars, orderVars, treeVars, chords, atExit>>

BackChord ==
    /\ pc = "instrument" /\ pos \in DOMAIN chords
    /\ chords[pos].backedge_number # 0
    /\ LET b == Backedge[chords[pos].backedge_number]
           edges == Unsplit(b.tail, b.header)
       IN /\ edges # {}
          /\ onEdge' = [onEdge EXCEPT ![FirstOf(edges)] =
                           <<insertInc(Inc(fn.entry, b.header)), regInc,
                             resetInc(Inc(b.tail, fn.exit))>>]
    /\ pos' = pos + 1
    /\ UNCHANGED <<pc, graphVars, orderVars, treeVars, chords, atExit>>

\* SplitEdge of an edge that is not in the function, or no longer: LLVM asserts.
SplitFails ==
    /\ pc = "instrument" /\ pos \in DOMAIN chords
    /\ LET c == chords[pos]
       IN IF c.backedge_number = 0
          THEN c.to # fn.entry /\ Unsplit(c.from, c.to) = {}
          ELSE Unsplit(Backedge[c.backedge_number].tail,
                       Backedge[c.backedge_number].header) = {}
    /\ pc' = "failed"
    /\ UNCHANGED <<graphVars, orderVars, pos, treeVars, codeVars>>

Instrumented ==
    /\ pc = "instrument" /\ pos \notin DOMAIN chords
    /\ atExit' = Append(atExit, regInc)
    /\ pc' = "instrumented"
    /\ UNCHANGED <<graphVars, orderVars, pos, treeVars, chords, onEdge>>

PassNext == \/ getAbstractGraph
            \/ DFS \/ FinishBlock \/ Sorted
            \/ getEdgeValues
            \/ StartTree \/ GrowTree \/ Annotate
            \/ ExitChord \/ Chord \/ BackChord \/ SplitFails \/ Instrumented
=============================================================================

-------------------------- MODULE BallLarusProofs --------------------------
(***************************************************************************)
(* Proofs about the Ball-Larus pass, for functions of every shape: the     *)
(* abstract graph has no cycle, the search finishes a block after those    *)
(* its edges lead to, the values of its edges are sums of path counts, and *)
(* the tree is one of maximal values.                                      *)
(***************************************************************************)
EXTENDS PathCounts, ListProofs

----------------------------------------------------------------------------
(* The function.                                                           *)

\* A place in an order in which each edge of the abstract graph goes forward: that of the
\* traversal, with the exit last.
Rank(u) == IF u = fn.exit THEN Len(fn.rpo) + 1 ELSE PlaceIn(fn.rpo, u)

LEMMA MainGiven ==
    ASSUME fn \in Programs
    PROVE  WellFormedGraph(fn) /\ WellFormedMain(fn) /\ NoBlock \notin Blocks
BY ProgramsAssumption, MainAssumption

LEMMA MembersAre ==
    ASSUME fn \in Programs
    PROVE  /\ Members = Reachable(fn) /\ Members \subseteq Blocks /\ NoBlock \notin Members
           /\ fn.entry \in Members /\ fn.exit \in Members
           /\ IsFiniteSet(Members)
           /\ fn.address \in Seq(Members) /\ fn.layout \in Seq(Members)
<1>1. /\ fn.rpo \in Seq(Blocks) /\ Len(fn.rpo) > 0 /\ fn.rpo[1] = fn.entry
      /\ ListsAll(fn.address, fn) /\ ListsAll(fn.layout, fn)
      /\ fn.exit \in Reachable(fn) /\ NoBlock \notin Blocks
  BY MainGiven DEF WellFormedGraph, WellFormedMain
<1>2. Members = Reachable(fn)
  BY <1>1 DEF Members, ToSet, ListsAll
<1>3. Reachable(fn) \subseteq Blocks /\ fn.entry \in Reachable(fn)
  BY <1>1 DEF Reachable
<1>4. IsFiniteSet(Members)
  <2>1. Len(fn.rpo) \in Nat /\ DOMAIN fn.rpo = 1..Len(fn.rpo)
    BY <1>1
  <2>2. IsFiniteSet(1..Len(fn.rpo))
    BY <2>1, FS_Interval
  <2>3. fn.rpo \in Surjection(1..Len(fn.rpo), Members)
    <3>1. fn.rpo = [k \in 1..Len(fn.rpo) |-> fn.rpo[k]]
      BY <1>1
    <3>2. \A k \in 1..Len(fn.rpo) : fn.rpo[k] \in Members
      BY <1>2, <2>1 DEF Reachable
    <3>3. fn.rpo \in [1..Len(fn.rpo) -> Members]
      BY <3>1, <3>2
    <3>4. \A u \in Members : \E k \in 1..Len(fn.rpo) : fn.rpo[k] = u
      BY <1>2, <2>1 DEF Reachable
    <3> QED
      BY <3>3, <3>4 DEF Surjection
  <2> QED
    BY <2>2, <2>3, FS_Surjection
<1>5. ASSUME NEW order, ListsAll(order, fn) PROVE order \in Seq(Members)
  <2>1. order \in Seq(Blocks) /\ \A k \in DOMAIN order : order[k] \in Members
    BY <1>2, <1>5 DEF ListsAll
  <2> QED
    BY <2>1
<1> QED
  BY <1>1, <1>2, <1>3, <1>4, <1>5

LEMMA SuccsAre ==
    ASSUME fn \in Programs
    PROVE  /\ \A u \in Members : /\ fn.succ[u] \in Seq(Members)
                                 /\ \A v \in Succs(fn, u) : v \in Members /\ v # fn.entry
           /\ fn.succ[fn.exit] = << >>
           /\ \A u \in Members : \A v \in Succs(fn, u) :
                 isBackedge(u, v) \/ (Forward(fn, u, v) /\ ~ isBackedge(u, v))
<1>1. /\ fn.succ \in [Blocks -> Seq(Blocks)]
      /\ \A u \in Reachable(fn) : \A v \in Succs(fn, u) :
            v \in Reachable(fn) /\ (<<u, v>> \in fn.back <=> ~ Before(fn, u, v))
      /\ fn.succ[fn.exit] = << >>
  BY MainGiven DEF WellFormedGraph, WellFormedMain
<1>2. Members = Reachable(fn) /\ Members \subseteq Blocks
  BY MembersAre
<1>3. ASSUME NEW u \in Members PROVE fn.succ[u] \in Seq(Members)
  <2>1. fn.succ[u] \in Seq(Blocks) /\ \A n \in DOMAIN fn.succ[u] : fn.succ[u][n] \in Members
    BY <1>1, <1>2 DEF Succs
  <2> QED
    BY <2>1
<1>4. ASSUME NEW u \in Members, NEW v \in Succs(fn, u) PROVE v \in Members /\ v # fn.entry
  <2>1. v \in Members
    BY <1>1, <1>2
  <2>2. PICK n \in DOMAIN fn.succ[u] : v = fn.succ[u][n]
    BY DEF Succs
  <2>3. <<u, n>> \in Edges(fn) /\ fn.succ[<<u, n>>[1]][<<u, n>>[2]] = v
    BY <1>2, <2>2 DEF Edges
  <2>4. PredEdges(fn, fn.entry) = {}
    BY MainGiven DEF WellFormedGraph
  <2>5. v # fn.entry
    BY <2>3, <2>4 DEF PredEdges
  <2> QED
    BY <2>1, <2>5
<1>5. ASSUME NEW u \in Members, NEW v \in Succs(fn, u)
      PROVE  isBackedge(u, v) \/ (Forward(fn, u, v) /\ ~ isBackedge(u, v))
  BY <1>1, <1>2, <1>5 DEF isBackedge, Forward
<1> QED
  BY <1>1, <1>3, <1>4, <1>5

LEMMA RankIs ==
    ASSUME fn \in Programs
    PROVE  /\ Len(fn.rpo) \in Nat
           /\ \A u \in Members : Rank(u) \in 1..(Len(fn.rpo) + 1)
           /\ \A u \in Members \ {fn.exit} : Rank(u) < Rank(fn.exit)
           /\ fn.entry # fn.exit => \A u \in Members \ {fn.entry} : Rank(fn.entry) < Rank(u)
           /\ \A u, v \in Members : Forward(fn, u, v) => Rank(u) < Rank(v)
<1>1. /\ fn.rpo \in Seq(Blocks) /\ fn.rpo[1] = fn.entry /\ Len(fn.rpo) > 0
      /\ \A j, k \in DOMAIN fn.rpo : fn.rpo[j] = fn.rpo[k] => j = k
  BY MainGiven DEF WellFormedGraph
<1>2. Len(fn.rpo) \in Nat /\ DOMAIN fn.rpo = 1..Len(fn.rpo)
  BY <1>1
<1>3. ASSUME NEW u \in Members
      PROVE  PlaceIn(fn.rpo, u) \in 1..Len(fn.rpo) /\ fn.rpo[PlaceIn(fn.rpo, u)] = u
  <2>1. \E k \in DOMAIN fn.rpo : fn.rpo[k] = u
    BY MembersAre DEF Reachable
  <2> QED
    BY <1>2, <2>1, PlaceInAt
<1>4. \A u \in Members : Rank(u) \in 1..(Len(fn.rpo) + 1)
  BY <1>2, <1>3 DEF Rank
<1>5. \A u \in Members \ {fn.exit} : Rank(u) < Rank(fn.exit)
  BY <1>2, <1>3 DEF Rank
<1>6. ASSUME fn.entry # fn.exit, NEW u \in Members \ {fn.entry} PROVE Rank(fn.entry) < Rank(u)
  <2>1. PlaceIn(fn.rpo, fn.entry) = 1
    <3>1. 1 \in DOMAIN fn.rpo
      BY <1>1, <1>2
    <3> QED
      BY <1>1, <1>2, <1>3, <3>1, MembersAre
  <2>2. PlaceIn(fn.rpo, u) # 1
    BY <1>1, <1>3
  <2> QED
    BY <1>1, <1>2, <1>3, <1>6, <2>1, <2>2 DEF Rank
<1>7. ASSUME NEW u \in Members, NEW v \in Members, Forward(fn, u, v) PROVE Rank(u) < Rank(v)
  <2>1. u # fn.exit
    BY <1>7, SuccsAre DEF Forward, Succs
  <2>2. PICK m \in DOMAIN fn.rpo, n \in DOMAIN fn.rpo : m < n /\ fn.rpo[m] = u /\ fn.rpo[n] = v
    BY <1>7 DEF Forward, Before
  <2>3. PlaceIn(fn.rpo, u) = m /\ PlaceIn(fn.rpo, v) = n
    BY <1>1, <1>2, <1>3, <2>2
  <2> QED
    BY <1>2, <2>1, <2>2, <2>3 DEF Rank
<1> QED
  BY <1>2, <1>4, <1>5, <1>6, <1>7

\* Where the entry returns there is nothing else.
LEMMA EntryExits ==
    ASSUME fn \in Programs, fn.entry = fn.exit
    PROVE  Members = {fn.entry}
<1>1. SUFFICES ASSUME NEW u \in Members \ {fn.entry} PROVE FALSE
  BY MembersAre
<1>2. /\ fn.rpo \in Seq(Blocks) /\ fn.rpo[1] = fn.entry /\ Len(fn.rpo) > 0
      /\ \A j, k \in DOMAIN fn.rpo : fn.rpo[j] = fn.rpo[k] => j = k
  BY MainGiven DEF WellFormedGraph
<1>3. PICK k \in DOMAIN fn.rpo : fn.rpo[k] = u
  BY MembersAre DEF Reachable
<1>4. 2 \in DOMAIN fn.rpo /\ fn.rpo[2] # fn.entry /\ fn.rpo[2] \in Reachable(fn)
  <2>1. k \in 1..Len(fn.rpo) /\ k # 1 /\ Len(fn.rpo) \in Nat
    BY <1>2, <1>3
  <2>2. 2 \in 1..Len(fn.rpo) /\ 1 \in 1..Len(fn.rpo)
    BY <2>1
  <2>3. DOMAIN fn.rpo = 1..Len(fn.rpo)
    BY <1>2
  <2> QED
    BY <1>2, <2>2, <2>3 DEF Reachable
<1>5. PICK w \in Reachable(fn) : Forward(fn, w, fn.rpo[2])
  BY <1>4, MainGiven DEF WellFormedMain
<1>6. PICK m \in DOMAIN fn.rpo, n \in DOMAIN fn.rpo :
          m < n /\ fn.rpo[m] = w /\ fn.rpo[n] = fn.rpo[2]
  BY <1>5 DEF Forward, Before
<1>7. n = 2 /\ m = 1
  <2>1. n = 2
    BY <1>2, <1>4, <1>6
  <2>2. m \in Nat /\ m >= 1
    BY <1>2, <1>6
  <2> QED
    BY <1>6, <2>1, <2>2
<1>8. w = fn.exit
  BY <1>2, <1>6, <1>7
<1> QED
  BY <1>5, <1>8, SuccsAre DEF Forward, Succs

----------------------------------------------------------------------------
(* Places of edges in an order of the blocks.                              *)

\* g gives for each block a sequence.
Lined(g) == \A u \in Members : Len(g[u]) \in Nat /\ DOMAIN g[u] = 1..Len(g[u])

LEMMA PlacesFinite ==
    ASSUME fn \in Programs, NEW g, Lined(g)
    PROVE  /\ IsFiniteSet(Places(g))
           /\ \A e \in Places(g) : e[1] \in Members /\ e[2] \in DOMAIN g[e[1]] /\ e = <<e[1], e[2]>>
           /\ \A u \in Members, n \in Nat : n \in DOMAIN g[u] => <<u, n>> \in Places(g)
<1> DEFINE row(u) == {u} \X DOMAIN g[u]
           rows == [u \in Members |-> row(u)]
           family == {row(u) : u \in Members}
<1>1. IsFiniteSet(Members)
  BY MembersAre
<1>2. ASSUME NEW u \in Members PROVE IsFiniteSet(row(u))
  <2>1. Len(g[u]) \in Int /\ 1 \in Int /\ DOMAIN g[u] = 1..Len(g[u])
    BY DEF Lined
  <2>2. IsFiniteSet(DOMAIN g[u])
    BY <2>1, FS_Interval
  <2>3. IsFiniteSet({u})
    BY FS_Singleton
  <2> QED
    BY <2>2, <2>3, FS_Product
<1>3. rows \in Surjection(Members, family)
  <2>1. rows \in [Members -> family]
    OBVIOUS
  <2>2. \A x \in family : \E u \in Members : rows[u] = x
    OBVIOUS
  <2> HIDE DEF rows, family
  <2> QED
    BY <2>1, <2>2 DEF Surjection
<1>4. IsFiniteSet(family)
  <2> HIDE DEF rows, family
  <2> QED
    BY <1>1, <1>3, FS_Surjection
<1>5. IsFiniteSet(Places(g))
  <2>1. \A x \in family : IsFiniteSet(x)
    BY <1>2
  <2>2. Places(g) = UNION family
    BY DEF Places
  <2> HIDE DEF family
  <2> QED
    BY <1>4, <2>1, <2>2, FS_UNION
<1>6. \A e \in Places(g) : e[1] \in Members /\ e[2] \in DOMAIN g[e[1]] /\ e = <<e[1], e[2]>>
  BY DEF Places
<1>7. \A u \in Members, n \in Nat : n \in DOMAIN g[u] => <<u, n>> \in Places(g)
  BY DEF Places
<1> QED
  BY <1>5, <1>6, <1>7

LEMMA ByPlaceLists ==
    ASSUME fn \in Programs, NEW order, ListsAll(order, fn),
           NEW g, Lined(g), NEW es \in SUBSET Places(g)
    PROVE  \E N \in Nat :
              /\ ByPlace(order, es) \in [1..N -> es]
              /\ \A e \in es : \E k \in 1..N : ByPlace(order, es)[k] = e
              /\ \A j, k \in 1..N : ByPlace(order, es)[j] = ByPlace(order, es)[k] => j = k
              /\ \A j, k \in 1..N :
                    /\ ByPlace(order, es)[j][1] = ByPlace(order, es)[k][1]
                    /\ ByPlace(order, es)[j][2] < ByPlace(order, es)[k][2]
                    => j < k
<1> DEFINE site(u) == PlaceIn(order, u)
           earlier(d, e) == site(d[1]) < site(e[1]) \/ (d[1] = e[1] /\ d[2] < e[2])
           before == {p \in es \X es : earlier(p[1], p[2])}
<1>1. /\ IsFiniteSet(es)
      /\ \A e \in es : e[1] \in Members /\ e[2] \in Nat /\ e = <<e[1], e[2]>>
  <2>1. IsFiniteSet(es)
    BY PlacesFinite, FS_Subset
  <2>2. \A u \in Members : DOMAIN g[u] \subseteq Nat
    BY DEF Lined
  <2> QED
    BY <2>1, <2>2, PlacesFinite
<1>2. ASSUME NEW u \in Members PROVE site(u) \in Nat /\ order[site(u)] = u
  <2>1. order \in Seq(Blocks) /\ \E k \in DOMAIN order : order[k] = u
    BY MembersAre DEF ListsAll
  <2>2. site(u) \in DOMAIN order /\ order[site(u)] = u
    BY <2>1, PlaceInAt
  <2> QED
    BY <2>1, <2>2
<1>3. \A d, e \in es : <<d, e>> \in before <=> earlier(d, e)
  OBVIOUS
<1>4. ByPlace(order, es) = InOrder(es, before)
  BY DEF ByPlace
<1> HIDE DEF before, site
<1>5. \A e \in es : <<e, e>> \notin before
  BY <1>1, <1>2, <1>3
<1>6. \A d, e \in es : d = e \/ <<d, e>> \in before \/ <<e, d>> \in before
  <2> SUFFICES ASSUME NEW d \in es, NEW e \in es, ~ earlier(d, e), ~ earlier(e, d) PROVE d = e
    BY <1>3
  <2>1. /\ d[1] \in Members /\ d[2] \in Nat /\ e[1] \in Members /\ e[2] \in Nat
        /\ d = <<d[1], d[2]>> /\ e = <<e[1], e[2]>>
    BY <1>1
  <2>2. /\ site(d[1]) \in Nat /\ order[site(d[1])] = d[1]
        /\ site(e[1]) \in Nat /\ order[site(e[1])] = e[1]
    BY <1>2, <2>1
  <2>3. site(d[1]) = site(e[1])
    BY <2>2
  <2>4. d[1] = e[1]
    BY <2>2, <2>3
  <2>5. d[2] = e[2]
    BY <2>1, <2>4
  <2> QED
    BY <2>1, <2>4, <2>5
<1>7. \A c, d, e \in es : <<c, d>> \in before /\ <<d, e>> \in before => <<c, e>> \in before
  <2> SUFFICES ASSUME NEW c \in es, NEW d \in es, NEW e \in es, earlier(c, d), earlier(d, e)
               PROVE  earlier(c, e)
    BY <1>3
  <2>1. /\ c[1] \in Members /\ d[1] \in Members /\ e[1] \in Members
        /\ c[2] \in Nat /\ d[2] \in Nat /\ e[2] \in Nat
    BY <1>1
  <2>2. site(c[1]) \in Nat /\ site(d[1]) \in Nat /\ site(e[1]) \in Nat
    BY <1>2, <2>1
  <2>3. CASE c[1] = d[1] /\ d[1] = e[1]
    BY <2>1, <2>2, <2>3
  <2>4. CASE c[1] # d[1] \/ d[1] # e[1]
    BY <2>1, <2>2, <2>4
  <2> QED
    BY <2>3, <2>4
<1>8. /\ Cardinality(es) \in Nat
      /\ InOrder(es, before) \in [1..Cardinality(es) -> es]
      /\ \A x \in es : \E k \in 1..Cardinality(es) : InOrder(es, before)[k] = x
      /\ \A j, k \in 1..Cardinality(es) : InOrder(es, before)[j] = InOrder(es, before)[k] => j = k
      /\ \A j, k \in 1..Cardinality(es) :
            <<InOrder(es, before)[j], InOrder(es, before)[k]>> \in before => j < k
  BY <1>1, <1>5, <1>6, <1>7, InOrderLists
<1>9. PICK N \in Nat : N = Cardinality(es)
  BY <1>8
<1>10. PICK f \in [1..N -> es] : f = InOrder(es, before)
  BY <1>8, <1>9
<1>11. ASSUME NEW j \in 1..N, NEW k \in 1..N, f[j][1] = f[k][1], f[j][2] < f[k][2] PROVE j < k
  <2>1. <<f[j], f[k]>> \in before
    BY <1>3, <1>11
  <2> QED
    BY <1>8, <1>9, <1>10, <2>1
<1> QED
  BY <1>4, <1>8, <1>9, <1>10, <1>11

BackEdges == {e \in Places(fn.succ) : isBackedge(e[1], Header(e))}

LEMMA BackPlacesAre ==
    ASSUME fn \in Programs
    PROVE  \E N \in Nat :
              /\ BackPlaces \in [1..N -> BackEdges]
              /\ \A e \in BackEdges : \E k \in 1..N : BackPlaces[k] = e
              /\ \A j, k \in 1..N : BackPlaces[j] = BackPlaces[k] => j = k
<1>1. Lined(fn.succ)
  BY SuccsAre DEF Lined
<1>2. ListsAll(fn.layout, fn)
  BY MainGiven DEF WellFormedMain
<1>3. BackEdges \in SUBSET Places(fn.succ)
  BY DEF BackEdges
<1>4. BackPlaces = ByPlace(fn.layout, BackEdges)
  BY DEF BackPlaces, BackEdges
<1> QED
  BY <1>1, <1>2, <1>3, <1>4, ByPlaceLists

\* A back edge leaves a block for its header, which is not the entry, and the function
\* has more than one block.
LEMMA BackEdgesAre ==
    ASSUME fn \in Programs, NEW e \in BackEdges
    PROVE  /\ e[1] \in Members \ {fn.exit} /\ e[2] \in DOMAIN fn.succ[e[1]] /\ e = <<e[1], e[2]>>
           /\ Header(e) \in Members \ {fn.entry} /\ Header(e) \in Succs(fn, e[1])
           /\ isBackedge(e[1], Header(e))
           /\ Leaves(fn, e[1]) /\ IsHeader(fn, Header(e))
           /\ fn.entry # fn.exit
<1>1. Lined(fn.succ)
  BY SuccsAre DEF Lined
<1>2. /\ e[1] \in Members /\ e[2] \in DOMAIN fn.succ[e[1]] /\ e = <<e[1], e[2]>>
      /\ isBackedge(e[1], Header(e))
  BY <1>1, PlacesFinite DEF BackEdges
<1>3. Header(e) \in Succs(fn, e[1])
  BY <1>2 DEF Header, Succs
<1>4. e[1] # fn.exit
  BY <1>3, SuccsAre DEF Succs
<1>5. Header(e) \in Members \ {fn.entry}
  BY <1>2, <1>3, SuccsAre
<1>6. Leaves(fn, e[1]) /\ IsHeader(fn, Header(e))
  <2>1. <<e[1], Header(e)>> \in fn.back
    BY <1>2 DEF isBackedge
  <2>2. <<e[1], Header(e)>>[1] = e[1] /\ <<e[1], Header(e)>>[2] = Header(e)
    OBVIOUS
  <2> QED
    BY <2>1, <2>2 DEF Leaves, IsHeader
<1>7. fn.entry # fn.exit
  BY <1>2, <1>4, EntryExits
<1> QED
  BY <1>2, <1>3, <1>4, <1>5, <1>6, <1>7

----------------------------------------------------------------------------
(* The abstract graph.                                                     *)

EdgeRecords == [from : Members, to : Members, backedge_number : Nat, val : Nat]

\* What an edge out of u can be: one of the function, that of a block that cannot return,
\* and the two halves of a back edge.
Plain(u, n, e) == /\ n \in DOMAIN fn.succ[u] /\ ~ isBackedge(u, fn.succ[u][n])
                  /\ e = Edge(u, fn.succ[u][n], 0)

Stop(u, n, e) == fn.succ[u] = << >> /\ u # fn.exit /\ n = 1 /\ e = Edge(u, fn.exit, 0)

TailHalf(u, n, e) ==
    \E k \in DOMAIN BackPlaces : /\ n \in DOMAIN fn.succ[u] /\ BackPlaces[k] = <<u, n>>
                                 /\ e = Edge(u, fn.exit, k)

HeadHalf(u, n, e) ==
    \E k \in DOMAIN BackPlaces : /\ u = fn.entry /\ n = Len(OutEdges(u)) + k
                                 /\ e = Edge(u, Header(BackPlaces[k]), k)

EdgeOf(u, n, e) == Plain(u, n, e) \/ Stop(u, n, e) \/ TailHalf(u, n, e) \/ HeadHalf(u, n, e)

LEMMA BackPlacesDomain ==
    ASSUME fn \in Programs
    PROVE  /\ DOMAIN BackPlaces \subseteq Nat \ {0}
           /\ \A k \in DOMAIN BackPlaces : BackPlaces[k] \in BackEdges
           /\ \E N \in Nat : DOMAIN BackPlaces = 1..N
<1>1. PICK N \in Nat : BackPlaces \in [1..N -> BackEdges]
  BY BackPlacesAre
<1> QED
  BY <1>1

LEMMA OutEdgesAre ==
    ASSUME fn \in Programs, NEW u \in Members
    PROVE  /\ OutEdges(u) \in Seq(EdgeRecords)
           /\ \A n \in DOMAIN OutEdges(u) :
                 \/ Plain(u, n, OutEdges(u)[n]) \/ Stop(u, n, OutEdges(u)[n])
                 \/ TailHalf(u, n, OutEdges(u)[n])
           /\ u # fn.exit => OutEdges(u) # << >>
           /\ u = fn.exit => OutEdges(u) = << >>
           /\ fn.succ[u] # << >> => Len(OutEdges(u)) = Len(fn.succ[u])
<1>1. fn.exit \in Members /\ fn.succ[u] \in Seq(Members) /\ fn.succ[fn.exit] = << >>
  BY MembersAre, SuccsAre
<1>2. CASE fn.succ[u] = << >> /\ u # fn.exit
  <2>1. OutEdges(u) = <<Edge(u, fn.exit, 0)>>
    BY <1>2 DEF OutEdges
  <2>2. Edge(u, fn.exit, 0) \in EdgeRecords
    BY <1>1 DEF Edge, EdgeRecords
  <2>3. OutEdges(u) \in Seq(EdgeRecords) /\ OutEdges(u) # << >>
    BY <2>1, <2>2
  <2>4. \A n \in DOMAIN OutEdges(u) : Stop(u, n, OutEdges(u)[n])
    BY <1>2, <2>1 DEF Stop
  <2> QED
    BY <1>2, <2>3, <2>4
<1>3. CASE fn.succ[u] # << >> \/ u = fn.exit
  <2> DEFINE number(n) == CHOOSE k \in DOMAIN BackPlaces : BackPlaces[k] = <<u, n>>
             edge(n) == IF isBackedge(u, fn.succ[u][n]) THEN Edge(u, fn.exit, number(n))
                        ELSE Edge(u, fn.succ[u][n], 0)
  <2>1. OutEdges(u) = [n \in DOMAIN fn.succ[u] |-> edge(n)]
    BY <1>3 DEF OutEdges
  <2>2. ASSUME NEW n \in DOMAIN fn.succ[u], isBackedge(u, fn.succ[u][n])
        PROVE  /\ number(n) \in DOMAIN BackPlaces /\ number(n) \in Nat
               /\ BackPlaces[number(n)] = <<u, n>>
    <3>1. <<u, n>> \in BackEdges
      <4>1. <<u, n>> \in Places(fn.succ)
        BY DEF Places
      <4>2. <<u, n>>[1] = u /\ <<u, n>>[2] = n
        OBVIOUS
      <4> QED
        BY <2>2, <4>1, <4>2 DEF BackEdges, Header
    <3>2. \E k \in DOMAIN BackPlaces : BackPlaces[k] = <<u, n>>
      BY <3>1, BackPlacesAre
    <3>3. number(n) \in DOMAIN BackPlaces /\ BackPlaces[number(n)] = <<u, n>>
      BY <3>2
    <3> QED
      BY <3>3, BackPlacesDomain
  <2> HIDE DEF number
  <2>3. ASSUME NEW n \in DOMAIN fn.succ[u]
        PROVE  edge(n) \in EdgeRecords /\ (Plain(u, n, edge(n)) \/ TailHalf(u, n, edge(n)))
    <3>1. fn.succ[u][n] \in Members
      BY <1>1
    <3>2. CASE isBackedge(u, fn.succ[u][n])
      BY <1>1, <2>2, <3>2 DEF Edge, EdgeRecords, TailHalf
    <3>3. CASE ~ isBackedge(u, fn.succ[u][n])
      BY <1>1, <3>1, <3>3 DEF Edge, EdgeRecords, Plain
    <3> QED
      BY <3>2, <3>3
  <2> HIDE DEF edge
  <2>4. DOMAIN fn.succ[u] = 1..Len(fn.succ[u]) /\ Len(fn.succ[u]) \in Nat
    BY <1>1
  <2>5. OutEdges(u) \in Seq(EdgeRecords)
    BY <2>1, <2>3, <2>4
  <2>6. Len(OutEdges(u)) = Len(fn.succ[u]) /\ DOMAIN OutEdges(u) = DOMAIN fn.succ[u]
    BY <2>1, <2>4, <2>5
  <2>7. u = fn.exit => OutEdges(u) = << >>
    BY <1>1, <2>5, <2>6
  <2>8. u # fn.exit => OutEdges(u) # << >>
    BY <1>1, <1>3, <2>4, <2>6
  <2> QED
    BY <2>1, <2>3, <2>5, <2>6, <2>7, <2>8
<1> QED
  BY <1>2, <1>3

LEMMA EdgesFromAre ==
    ASSUME fn \in Programs, NEW u \in Members
    PROVE  /\ EdgesFrom(u) \in Seq(EdgeRecords)
           /\ \A n \in DOMAIN EdgesFrom(u) : EdgeOf(u, n, EdgesFrom(u)[n])
           /\ u # fn.exit => EdgesFrom(u) # << >>
           /\ u = fn.exit => EdgesFrom(u) = << >>
           /\ Len(OutEdges(u)) <= Len(EdgesFrom(u))
<1>1. PICK o : o = OutEdges(u)
  OBVIOUS
<1>2. /\ o \in Seq(EdgeRecords)
      /\ \A n \in DOMAIN o : EdgeOf(u, n, o[n])
      /\ (u # fn.exit => o # << >>) /\ (u = fn.exit => o = << >>)
  BY <1>1, OutEdgesAre DEF EdgeOf
<1>3. CASE u # fn.entry
  BY <1>1, <1>2, <1>3 DEF EdgesFrom
<1>4. CASE u = fn.entry
  <2>1. PICK N \in Nat : DOMAIN BackPlaces = 1..N
    BY BackPlacesDomain
  <2>2. PICK h : h = EntryEdges
    OBVIOUS
  <2>3. ASSUME NEW k \in 1..N
        PROVE  h[k] = Edge(u, Header(BackPlaces[k]), k) /\ h[k] \in EdgeRecords
    <3>1. h[k] = Edge(u, Header(BackPlaces[k]), k)
      BY <1>4, <2>1, <2>2 DEF EntryEdges
    <3>2. Header(BackPlaces[k]) \in Members
      BY <2>1, BackPlacesDomain, BackEdgesAre
    <3> QED
      BY <3>1, <3>2 DEF Edge, EdgeRecords
  <2>4. h \in Seq(EdgeRecords) /\ Len(h) = N
    <3>1. h = [k \in 1..N |-> h[k]]
      BY <2>1, <2>2 DEF EntryEdges
    <3> QED
      BY <2>3, <3>1
  <2>5. EdgesFrom(u) = o \o h
    BY <1>1, <1>4, <2>2 DEF EdgesFrom
  <2>6. /\ o \o h \in Seq(EdgeRecords) /\ Len(o \o h) = Len(o) + N
        /\ \A n \in 1..(Len(o) + N) :
              (o \o h)[n] = IF n <= Len(o) THEN o[n] ELSE h[n - Len(o)]
    BY <1>2, <2>4
  <2>7. ASSUME NEW n \in 1..(Len(o) + N) PROVE EdgeOf(u, n, (o \o h)[n])
    <3>1. CASE n <= Len(o)
      <4>1. n \in DOMAIN o
        BY <1>2, <3>1
      <4> QED
        BY <1>2, <2>6, <3>1, <4>1
    <3>2. CASE ~ (n <= Len(o))
      <4>1. n - Len(o) \in 1..N /\ n = Len(o) + (n - Len(o))
        BY <1>2, <3>2
      <4>2. (o \o h)[n] = Edge(u, Header(BackPlaces[n - Len(o)]), n - Len(o))
        BY <2>3, <2>6, <3>2, <4>1
      <4>3. HeadHalf(u, n, (o \o h)[n])
        BY <1>1, <1>4, <2>1, <4>1, <4>2 DEF HeadHalf
      <4> QED
        BY <4>3 DEF EdgeOf
    <3> QED
      BY <3>1, <3>2
  <2>8. u = fn.exit => N = 0
    <3> SUFFICES ASSUME u = fn.exit, N # 0 PROVE FALSE
      OBVIOUS
    <3>1. 1 \in DOMAIN BackPlaces
      BY <2>1
    <3> QED
      BY <1>4, <3>1, BackPlacesDomain, BackEdgesAre
  <2>9. u = fn.exit => o \o h = << >>
    BY <1>2, <2>6, <2>8
  <2>10. u # fn.exit => o \o h # << >>
    BY <1>2, <2>6
  <2>11. Len(o) <= Len(o \o h)
    BY <1>2, <2>6
  <2>12. DOMAIN (o \o h) = 1..(Len(o) + N)
    BY <2>6
  <2> QED
    BY <1>1, <2>5, <2>6, <2>7, <2>9, <2>10, <2>11, <2>12
<1> QED
  BY <1>3, <1>4

\* Where an edge can go: forward, and it cannot but be one of the three kinds that a path
\* of hotPathInfo.txt may contain.
LEMMA EdgeGoes ==
    ASSUME fn \in Programs, NEW u \in Members, NEW n, NEW e, EdgeOf(u, n, e)
    PROVE  /\ e.from = u /\ e.to \in Members /\ e.val = 0
           /\ u # fn.exit /\ Rank(u) < Rank(e.to)
           /\ \/ Forward(fn, u, e.to)
              \/ u = fn.entry /\ IsHeader(fn, e.to)
              \/ Leaves(fn, u) /\ e.to = fn.exit
<1>1. CASE Plain(u, n, e)
  <2>1. /\ n \in DOMAIN fn.succ[u] /\ ~ isBackedge(u, fn.succ[u][n])
        /\ e.from = u /\ e.to = fn.succ[u][n] /\ e.val = 0
    BY <1>1 DEF Plain, Edge
  <2>2. e.to \in Succs(fn, u)
    BY <2>1 DEF Succs
  <2>3. e.to \in Members /\ Forward(fn, u, e.to) /\ u # fn.exit
    BY <2>1, <2>2, SuccsAre
  <2> QED
    BY <2>1, <2>3, RankIs
<1>2. CASE Stop(u, n, e)
  <2>1. e.from = u /\ e.to = fn.exit /\ e.val = 0 /\ u # fn.exit /\ Leaves(fn, u)
    BY <1>2 DEF Stop, Edge, Leaves
  <2> QED
    BY <2>1, MembersAre, RankIs
<1>3. CASE TailHalf(u, n, e)
  <2>1. PICK k \in DOMAIN BackPlaces :
            BackPlaces[k] = <<u, n>> /\ e = Edge(u, fn.exit, k)
    BY <1>3 DEF TailHalf
  <2>2. u # fn.exit /\ Leaves(fn, u)
    <3>1. <<u, n>> \in BackEdges /\ <<u, n>>[1] = u
      BY <2>1, BackPlacesDomain
    <3> QED
      BY <3>1, BackEdgesAre
  <2> QED
    BY <2>1, <2>2, MembersAre, RankIs DEF Edge
<1>4. CASE HeadHalf(u, n, e)
  <2>1. PICK k \in DOMAIN BackPlaces : u = fn.entry /\ e = Edge(u, Header(BackPlaces[k]), k)
    BY <1>4 DEF HeadHalf
  <2>2. /\ Header(BackPlaces[k]) \in Members \ {fn.entry}
        /\ IsHeader(fn, Header(BackPlaces[k])) /\ fn.entry # fn.exit
    BY <2>1, BackPlacesDomain, BackEdgesAre
  <2> QED
    BY <2>1, <2>2, RankIs DEF Edge
<1> QED
  BY <1>1, <1>2, <1>3, <1>4 DEF EdgeOf

----------------------------------------------------------------------------
(* The invariant of the pass, in parts.                                    *)

\* getHotPathInfo ends the use of what the pass has built.
Report == pc = "instrumented" /\ pc' = "reported" /\ UNCHANGED <<graphVars, orderVars, pos, treeVars, codeVars>>

Step == PassNext \/ Report \/ UNCHANGED passVars

Unvalued(es) == [n \in DOMAIN es |-> [es[n] EXCEPT !.val = 0]]

Numbering == pc \in {"sort", "values"}   \* the exit has no edge yet

Built == pc # "abstract" /\ ~ Numbering  \* the values of edges do not change any more

TailsAndHeaders ==
    [k \in DOMAIN BackPlaces |-> [tail |-> BackPlaces[k][1], header |-> Header(BackPlaces[k])]]

(***************************************************************************)
(* Blocks keep the edges of the abstract graph, but for their values.      *)
(***************************************************************************)
GraphInv ==
    /\ fn \in Programs
    /\ pc # "abstract" =>
          /\ DOMAIN G = Members
          /\ \A u \in Members : G[u] \in Seq(EdgeRecords)
          /\ \A u \in Members : u # fn.exit => Unvalued(G[u]) = EdgesFrom(u)
          /\ Numbering => G[fn.exit] = << >>
          /\ Built => G[fn.exit] = <<Edge(fn.exit, fn.entry, 0)>>
          /\ Backedge = TailsAndHeaders

(***************************************************************************)
(* The stack is a path on which ranks go up, what DFS has looked at has    *)
(* been visited, and a block is finished after those its edges lead to:    *)
(* these are not on the stack, for their ranks are above that of the block *)
(* on its top.                                                             *)
(***************************************************************************)
OrderInv ==
    /\ pc = "abstract" => finish = << >>
    /\ pc # "abstract" =>
          /\ stack \in Seq(Members \X (Nat \ {0})) /\ finish \in Seq(Members)
          /\ fn.entry \in Visited
          /\ \A j, k \in DOMAIN stack : j < k => Rank(stack[j][1]) < Rank(stack[k][1])
          /\ \A k \in DOMAIN stack : stack[k][1] \notin ToSet(finish)
          /\ \A k \in DOMAIN stack : \A m \in DOMAIN G[stack[k][1]] :
                m < stack[k][2] => G[stack[k][1]][m].to \in Visited
          /\ \A j, k \in DOMAIN finish : finish[j] = finish[k] => j = k
          /\ \A k \in DOMAIN finish : finish[k] # fn.exit =>
                \A m \in DOMAIN G[finish[k]] :
                   \E j \in DOMAIN finish : j < k /\ finish[j] = G[finish[k]][m].to
          /\ pc # "sort" => stack = << >>

\* The values of the edges of u are the sums of the numbers of paths before them.
Valued(u) ==
    /\ \A n \in DOMAIN G[u] : G[u][n].val = PathsBy(u, n - 1)
    /\ NumPaths[u] = PathsBy(u, Len(G[u]))

Numbered(u) == NumPaths[u] >= 1 /\ (u = fn.exit => NumPaths[u] = 1) /\ (u # fn.exit => Valued(u))

(***************************************************************************)
(* What getEdgeValues has passed by in finish has its number and values.   *)
(***************************************************************************)
ValuesInv ==
    /\ pos \in Nat \ {0}
    /\ pc \in {"abstract", "sort"} => pos = 1
    /\ pc # "abstract" =>
          /\ NumPaths \in [Members -> Nat]
          /\ \A u \in Members \ {fn.exit} : G[u][1].val = 0
          /\ pc = "values" => \A k \in DOMAIN finish : k < pos => Numbered(finish[k])
          /\ Built => \A k \in DOMAIN finish : Numbered(finish[k])

Between(u, v) == Values(u, v) \cup Values(v, u)

\* above gives for each block of the tree those up to the root.
IsAbove(above) ==
    \A u \in inMST : above[u] = {u} \cup (IF parent[u].block = NoBlock THEN {}
                                          ELSE above[parent[u].block])

Heavy(above, u, v, val) == \A w \in treePath(above, u, v) : distance[w] >= val

\* A block of the tree is joined to another one, and so is one outside as soon as an edge
\* leads to it; an edge is worth no more than the best one to a block outside.
TreeTypes ==
    /\ inMST \subseteq Members /\ (~ Built => inMST = {})
    /\ Built =>
          /\ distance \in [Members -> Int]
          /\ parent \in [Members -> [block : inMST \cup {NoBlock}, forward : BOOLEAN]]
          /\ potential \in [Members -> Int]
          /\ inMST = {} => \A u \in Members : distance[u] = IF u = fn.address[1] THEN 0 ELSE IntMin
          /\ inMST # {} =>
                \A u \in Members \ inMST :
                   /\ distance[u] >= 0 <=> parent[u].block \in inMST
                   /\ \A x \in inMST : \A val \in Between(x, u) : val <= distance[u]

(***************************************************************************)
(* An edge between two blocks of the tree is worth no more than those on   *)
(* the tree path between them; the same of an edge from the tree to a      *)
(* block outside and the path to where this would be joined to the tree;   *)
(* and the path between where two blocks would be joined is worth as much  *)
(* as one of the two edges that would join them.                           *)
(***************************************************************************)
Maximal(above) ==
    LET Outside == Members \ inMST
    IN /\ \A x, y \in inMST : \A val \in Between(x, y) : Heavy(above, x, y, val)
       /\ \A x \in inMST, y \in Outside : \A val \in Between(x, y) :
             Heavy(above, x, parent[y].block, val)
       /\ \A y, z \in Outside :
             parent[y].block \in inMST /\ parent[z].block \in inMST =>
                \A w \in treePath(above, parent[y].block, parent[z].block) :
                   distance[w] >= distance[y] \/ distance[w] >= distance[z]

Inside(above) == \A x \in inMST : above[x] \subseteq inMST

TreeInv ==
    Built => /\ \E above \in [inMST -> SUBSET inMST] : IsAbove(above)
             /\ \A above : IsAbove(above) => Inside(above) /\ Maximal(above)

\* The chords are edges of the graph, all of whose blocks are in the tree by then.
ChordsInv ==
    /\ pc \in {"abstract", "sort", "values", "tree"} => chords = << >>
    /\ pc \notin {"abstract", "sort", "values", "tree"} => inMST = Members
    /\ \A k \in DOMAIN chords :
          \E u \in Members : \E n \in DOMAIN G[u] : chords[k] = G[u][n]

Instructions == [do : {"add", "set", "count"}, arg : Int]

CodeInv == onEdge \in [Edges(fn) -> Seq(Instructions)] /\ atExit \in Seq(Instructions)

----------------------------------------------------------------------------
(* The first part: the edges of the graph.                                 *)

\* What is computed from the function is what it was.
LEMMA FnKept ==
    ASSUME fn' = fn
    PROVE  /\ Members' = Members /\ BackPlaces' = BackPlaces
           /\ \A u : EdgesFrom(u)' = EdgesFrom(u)
           /\ \A u : Rank(u)' = Rank(u)
           /\ EdgeRecords' = EdgeRecords
           /\ \A e : Header(e)' = Header(e)
           /\ TailsAndHeaders' = TailsAndHeaders
<1>1. Members' = Members
  BY DEF Members
<1>2. \A e : Header(e)' = Header(e)
  BY DEF Header
<1>3. BackPlaces' = BackPlaces
  BY <1>1 DEF BackPlaces, ByPlace, Places, Header, isBackedge, Members
<1>4. EntryEdges' = EntryEdges
  BY <1>3 DEF EntryEdges, Header
<1>5. \A u : OutEdges(u)' = OutEdges(u)
  BY <1>3 DEF OutEdges, isBackedge
<1>6. \A u : EdgesFrom(u)' = EdgesFrom(u)
  BY <1>4, <1>5 DEF EdgesFrom
<1>7. \A u : Rank(u)' = Rank(u)
  BY DEF Rank
<1>8. EdgeRecords' = EdgeRecords
  BY <1>1 DEF EdgeRecords
<1>9. TailsAndHeaders' = TailsAndHeaders
  BY <1>3 DEF TailsAndHeaders, Header
<1> QED
  BY <1>1, <1>2, <1>3, <1>6, <1>7, <1>8, <1>9

\* Each step is one of five kinds.
LEMMA StepKinds ==
    ASSUME Step
    PROVE  \/ getAbstractGraph
           \/ Numbering /\ Numbering' /\ UNCHANGED <<graphVars, treeVars, NumPaths, pos>> /\ (DFS \/ FinishBlock \/ Sorted)
           \/ getEdgeValues
           \/ StartTree
           \/ Built /\ Built' /\ UNCHANGED <<graphVars, orderVars>>
           \/ UNCHANGED passVars
<1>1. CASE UNCHANGED passVars
  BY <1>1
<1>2. CASE Report
  BY <1>2 DEF Report, Built, Numbering
<1>3. CASE PassNext
  <2>1. CASE DFS
    BY <2>1 DEF DFS, Numbering
  <2>2. CASE FinishBlock
    BY <2>2 DEF FinishBlock, Numbering
  <2>3. CASE Sorted
    BY <2>3 DEF Sorted, Numbering, orderVars
  <2>4. CASE GrowTree
    BY <2>4 DEF GrowTree, Built, Numbering
  <2>5. CASE Annotate
    BY <2>5 DEF Annotate, Built, Numbering
  <2>6. CASE ExitChord \/ Chord \/ BackChord
    BY <2>6 DEF ExitChord, Chord, BackChord, Built, Numbering
  <2>7. CASE SplitFails \/ Instrumented
    BY <2>7 DEF SplitFails, Instrumented, Built, Numbering
  <2> QED
    BY <1>3, <2>1, <2>2, <2>3, <2>4, <2>5, <2>6, <2>7 DEF PassNext
<1> QED
  BY <1>1, <1>2, <1>3 DEF Step

\* The first numbers of paths before an edge are sums.
Counts(u) == [k \in DOMAIN G[u] |-> NumPaths[G[u][k].to]]

LEMMA PathsByAre ==
    ASSUME GraphInv, pc # "abstract", NumPaths \in [Members -> Nat], NEW u \in Members
    PROVE  /\ Counts(u) \in Seq(Nat) /\ Len(Counts(u)) = Len(G[u]) /\ Len(G[u]) \in Nat
           /\ DOMAIN G[u] = 1..Len(G[u])
           /\ \A n \in 0..Len(G[u]) : PathsBy(u, n) \in Nat
           /\ PathsBy(u, 0) = 0
           /\ \A n \in DOMAIN G[u] :
                 /\ PathsBy(u, n) = PathsBy(u, n - 1) + NumPaths[G[u][n].to]
                 /\ G[u][n].to \in Members
<1>1. G[u] \in Seq(EdgeRecords)
  BY DEF GraphInv
<1>2. DOMAIN G[u] = 1..Len(G[u]) /\ Len(G[u]) \in Nat
  BY <1>1
<1>3. ASSUME NEW n \in DOMAIN G[u] PROVE G[u][n].to \in Members /\ NumPaths[G[u][n].to] \in Nat
  <2>1. G[u][n] \in EdgeRecords
    BY <1>1, <1>3
  <2>2. G[u][n].to \in Members
    BY <2>1 DEF EdgeRecords
  <2> QED
    BY <2>2
<1>4. Counts(u) \in Seq(Nat) /\ Len(Counts(u)) = Len(G[u])
  BY <1>2, <1>3 DEF Counts
<1>5. \A n \in DOMAIN G[u] : Counts(u)[n] = NumPaths[G[u][n].to]
  BY DEF Counts
<1>6. \A n : PathsBy(u, n) = Sums(Counts(u))[n]
  BY DEF PathsBy, Counts
<1>7. /\ Sums(Counts(u)) \in [0..Len(G[u]) -> Nat] /\ Sums(Counts(u))[0] = 0
      /\ \A n \in 1..Len(G[u]) : Sums(Counts(u))[n] = Sums(Counts(u))[n - 1] + Counts(u)[n]
  BY <1>4, SumsOfNat
<1> HIDE DEF Counts
<1>8. \A n \in 0..Len(G[u]) : PathsBy(u, n) \in Nat
  BY <1>6, <1>7
<1>9. PathsBy(u, 0) = 0
  BY <1>6, <1>7
<1>10. \A n \in DOMAIN G[u] : PathsBy(u, n) = PathsBy(u, n - 1) + NumPaths[G[u][n].to]
  BY <1>2, <1>5, <1>6, <1>7
<1> QED
  BY <1>2, <1>3, <1>4, <1>8, <1>9, <1>10

LEMMA GraphKept ==
    ASSUME GraphInv, UNCHANGED graphVars, pc' # "abstract" => pc # "abstract",
           Numbering' => Numbering, Built' => Built
    PROVE  GraphInv'
<1>1. fn' = fn /\ G' = G /\ Backedge' = Backedge
  BY DEF graphVars
<1>2. /\ Members' = Members /\ BackPlaces' = BackPlaces /\ EdgeRecords' = EdgeRecords
      /\ \A u : EdgesFrom(u)' = EdgesFrom(u)
      /\ TailsAndHeaders' = TailsAndHeaders
  BY <1>1, FnKept
<1>3. \A u, v, n : Edge(u, v, n)' = Edge(u, v, n)
  BY DEF Edge
<1>4. SUFFICES ASSUME pc' # "abstract" PROVE GraphInv'
  BY <1>1 DEF GraphInv
<1>5. /\ fn \in Programs /\ DOMAIN G = Members
      /\ \A u \in Members : G[u] \in Seq(EdgeRecords)
      /\ \A u \in Members : u # fn.exit => Unvalued(G[u]) = EdgesFrom(u)
      /\ Numbering => G[fn.exit] = << >>
      /\ Built => G[fn.exit] = <<Edge(fn.exit, fn.entry, 0)>>
      /\ Backedge = TailsAndHeaders
  BY <1>4 DEF GraphInv
<1>6. \A u \in Members' : G'[u] \in Seq(EdgeRecords')
  BY <1>1, <1>2, <1>5
<1>7. \A u \in Members' : u # fn'.exit => Unvalued(G'[u]) = EdgesFrom(u)'
  BY <1>1, <1>2, <1>5
<1>8. Backedge' = TailsAndHeaders'
  BY <1>1, <1>2, <1>5
<1>9. /\ Numbering' => G'[fn'.exit] = << >>
      /\ Built' => G'[fn'.exit] = <<Edge(fn'.exit, fn'.entry, 0)>>
  BY <1>1, <1>5
<1>10. fn' \in Programs /\ DOMAIN G' = Members'
  BY <1>1, <1>2, <1>5
<1> QED
  BY <1>6, <1>7, <1>8, <1>9, <1>10 DEF GraphInv

LEMMA ValueEdge ==
    ASSUME NEW e \in EdgeRecords, NEW val \in Nat
    PROVE  /\ [e EXCEPT !.val = val] \in EdgeRecords
           /\ [[e EXCEPT !.val = val] EXCEPT !.val = 0] = [e EXCEPT !.val = 0]
           /\ [e EXCEPT !.val = val].val = val
           /\ [e EXCEPT !.val = val].to = e.to
           /\ [e EXCEPT !.val = val].from = e.from
           /\ [e EXCEPT !.val = val].backedge_number = e.backedge_number
           /\ e.val = 0 => [e EXCEPT !.val = 0] = e
BY DEF EdgeRecords

LEMMA UnvaluedEdgesFrom ==
    ASSUME fn \in Programs, NEW u \in Members
    PROVE  Unvalued(EdgesFrom(u)) = EdgesFrom(u)
<1>1. PICK es : es = EdgesFrom(u)
  OBVIOUS
<1>2. es \in Seq(EdgeRecords) /\ \A n \in DOMAIN es : es[n].val = 0
  BY <1>1, EdgesFromAre, EdgeGoes
<1>3. ASSUME NEW n \in DOMAIN es PROVE [es[n] EXCEPT !.val = 0] = es[n]
  <2>1. es[n] \in EdgeRecords /\ es[n].val = 0
    BY <1>2
  <2> QED
    BY <2>1, ValueEdge
<1>4. es = [n \in DOMAIN es |-> es[n]]
  BY <1>2
<1>5. Unvalued(es) = es
  BY <1>3, <1>4 DEF Unvalued
<1> QED
  BY <1>1, <1>5

LEMMA GraphBuilt ==
    ASSUME GraphInv, getAbstractGraph
    PROVE  GraphInv'
<1>1. /\ fn \in Programs /\ fn' = fn
      /\ G' = [u \in Members |-> EdgesFrom(u)]
      /\ Backedge' = TailsAndHeaders
      /\ pc' = "sort"
  BY DEF GraphInv, getAbstractGraph, TailsAndHeaders
<1>2. /\ Members' = Members /\ BackPlaces' = BackPlaces /\ EdgeRecords' = EdgeRecords
      /\ \A u : EdgesFrom(u)' = EdgesFrom(u)
      /\ TailsAndHeaders' = TailsAndHeaders
  BY <1>1, FnKept
<1>3. \A u \in Members : /\ EdgesFrom(u) \in Seq(EdgeRecords)
                         /\ Unvalued(EdgesFrom(u)) = EdgesFrom(u)
  BY <1>1, EdgesFromAre, UnvaluedEdgesFrom
<1>4. DOMAIN G' = Members' /\ \A u \in Members' : G'[u] = EdgesFrom(u)
  BY <1>1, <1>2
<1>5. G'[fn'.exit] = << >>
  <2>1. fn.exit \in Members
    BY <1>1, MembersAre
  <2> QED
    BY <1>1, <1>2, <1>4, <2>1, EdgesFromAre
<1>6. ~ Built'
  BY <1>1 DEF Built, Numbering
<1>7. \A u \in Members' : G'[u] \in Seq(EdgeRecords') /\ Unvalued(G'[u]) = EdgesFrom(u)'
  BY <1>2, <1>3, <1>4
<1>8. Backedge' = TailsAndHeaders'
  BY <1>1, <1>2
<1> QED
  BY <1>1, <1>4, <1>5, <1>6, <1>7, <1>8 DEF GraphInv

\* What the edges of a block are given as values leaves them what they are.
LEMMA GraphValued ==
    ASSUME GraphInv, OrderInv, ValuesInv, getEdgeValues
    PROVE  GraphInv'
<1>1. /\ fn' = fn /\ Backedge' = Backedge /\ pc = "values" /\ pc' = "values"
      /\ pos \in DOMAIN finish
      /\ G' = IF G[finish[pos]] = << >> THEN G
              ELSE [G EXCEPT ![finish[pos]] =
                       [n \in DOMAIN @ |-> [@[n] EXCEPT !.val = EdgeVal(finish[pos], n)]]]
  BY DEF getEdgeValues
<1>2. CASE G[finish[pos]] = << >>
  <2>1. UNCHANGED graphVars
    BY <1>1, <1>2 DEF graphVars
  <2> QED
    BY <1>1, <2>1, GraphKept DEF Numbering, Built
<1>3. CASE G[finish[pos]] # << >>
  <2>1. PICK BB \in Members : BB = finish[pos]
    BY <1>1 DEF OrderInv
  <2>2. /\ fn \in Programs /\ DOMAIN G = Members
        /\ \A u \in Members : G[u] \in Seq(EdgeRecords)
        /\ \A u \in Members : u # fn.exit => Unvalued(G[u]) = EdgesFrom(u)
        /\ G[fn.exit] = << >>
        /\ Backedge = TailsAndHeaders
    BY <1>1 DEF GraphInv, Numbering
  <2>3. /\ Members' = Members /\ BackPlaces' = BackPlaces /\ EdgeRecords' = EdgeRecords
        /\ \A u : EdgesFrom(u)' = EdgesFrom(u)
        /\ TailsAndHeaders' = TailsAndHeaders
    BY <1>1, FnKept
  <2> DEFINE es == [n \in DOMAIN G[BB] |-> [G[BB][n] EXCEPT !.val = EdgeVal(BB, n)]]
  <2>4. G' = [G EXCEPT ![BB] = es]
    BY <1>1, <1>3, <2>1
  <2>5. DOMAIN G[BB] = 1..Len(G[BB]) /\ Len(G[BB]) \in Nat
    BY <2>2
  <2>6. ASSUME NEW n \in DOMAIN G[BB] PROVE G[BB][n] \in EdgeRecords /\ EdgeVal(BB, n) \in Nat
    <3>1. NumPaths \in [Members -> Nat]
      BY <1>1 DEF ValuesInv
    <3>2. n - 1 \in 0..Len(G[BB])
      BY <2>5
    <3> QED
      BY <1>1, <2>2, <3>1, <3>2, PathsByAre DEF EdgeVal
  <2>7. \A n \in DOMAIN G[BB] : /\ es[n] \in EdgeRecords
                                /\ [es[n] EXCEPT !.val = 0] = [G[BB][n] EXCEPT !.val = 0]
    BY <2>6, ValueEdge
  <2>8. es \in Seq(EdgeRecords) /\ DOMAIN es = DOMAIN G[BB]
    <3>1. DOMAIN es = DOMAIN G[BB] /\ es = [n \in DOMAIN G[BB] |-> es[n]]
      OBVIOUS
    <3>2. PICK L \in Nat : DOMAIN G[BB] = 1..L
      BY <2>5
    <3>3. \A n \in 1..L : es[n] \in EdgeRecords
      BY <2>7, <3>2
    <3> HIDE DEF es
    <3>4. es = [n \in 1..L |-> es[n]]
      BY <3>1, <3>2
    <3>5. es \in [1..L -> EdgeRecords]
      BY <3>3, <3>4
    <3>6. es \in Seq(EdgeRecords)
      BY <3>5
    <3> QED
      BY <3>1, <3>6
  <2> HIDE DEF es
  <2>9. Unvalued(es) = Unvalued(G[BB])
    BY <2>7, <2>8 DEF Unvalued
  <2>10. BB # fn.exit
    BY <1>3, <2>1, <2>2
  <2>11. \A u \in Members : G'[u] = IF u = BB THEN es ELSE G[u]
    BY <2>2, <2>4
  <2>12. \A u \in Members' : G'[u] \in Seq(EdgeRecords')
    BY <2>2, <2>3, <2>8, <2>11
  <2>13. \A u \in Members' : u # fn'.exit => Unvalued(G'[u]) = EdgesFrom(u)'
    BY <1>1, <2>2, <2>3, <2>9, <2>11
  <2>14. DOMAIN G' = Members' /\ G'[fn'.exit] = << >>
    BY <1>1, <2>2, <2>3, <2>4, <2>10, <2>11, MembersAre
  <2>15. Backedge' = TailsAndHeaders'
    BY <1>1, <2>2, <2>3
  <2>16. ~ Built' /\ fn' \in Programs
    BY <1>1, <2>2 DEF Built, Numbering
  <2> QED
    BY <2>12, <2>13, <2>14, <2>15, <2>16 DEF GraphInv
<1> QED
  BY <1>2, <1>3

\* The edge that closes the paths is the only one out of the exit.
LEMMA GraphClosed ==
    ASSUME GraphInv, StartTree
    PROVE  GraphInv'
<1>1. /\ fn' = fn /\ Backedge' = Backedge /\ pc = "values" /\ pc' = "tree"
      /\ G' = [G EXCEPT ![fn.exit] = Append(@, Edge(fn.exit, fn.entry, 0))]
  BY DEF StartTree
<1>2. /\ fn \in Programs /\ DOMAIN G = Members
      /\ \A u \in Members : G[u] \in Seq(EdgeRecords)
      /\ \A u \in Members : u # fn.exit => Unvalued(G[u]) = EdgesFrom(u)
      /\ G[fn.exit] = << >>
      /\ Backedge = TailsAndHeaders
  BY <1>1 DEF GraphInv, Numbering
<1>3. /\ Members' = Members /\ BackPlaces' = BackPlaces /\ EdgeRecords' = EdgeRecords
      /\ \A u : EdgesFrom(u)' = EdgesFrom(u)
      /\ TailsAndHeaders' = TailsAndHeaders
  BY <1>1, FnKept
<1>4. fn.exit \in Members /\ fn.entry \in Members
  BY <1>2, MembersAre
<1>5. Edge(fn.exit, fn.entry, 0) \in EdgeRecords
  BY <1>4 DEF Edge, EdgeRecords
<1>6. G'[fn.exit] = <<Edge(fn.exit, fn.entry, 0)>>
  BY <1>1, <1>2, <1>4
<1>7. DOMAIN G' = Members' /\ \A u \in Members : u # fn.exit => G'[u] = G[u]
  BY <1>1, <1>2, <1>3
<1>8. \A u \in Members' : G'[u] \in Seq(EdgeRecords')
  <2> SUFFICES ASSUME NEW u \in Members PROVE G'[u] \in Seq(EdgeRecords)
    BY <1>3
  <2>1. CASE u = fn.exit
    <3>1. PICK e : e = Edge(fn.exit, fn.entry, 0)
      OBVIOUS
    <3>2. G'[u] = <<e>> /\ e \in EdgeRecords
      BY <1>5, <1>6, <2>1, <3>1
    <3> QED
      BY <3>2
  <2>2. CASE u # fn.exit
    BY <1>2, <1>7, <2>2
  <2> QED
    BY <2>1, <2>2
<1>9. \A u \in Members' : u # fn'.exit => Unvalued(G'[u]) = EdgesFrom(u)'
  BY <1>1, <1>2, <1>3, <1>7
<1>10. Backedge' = TailsAndHeaders'
  BY <1>1, <1>2, <1>3
<1>11. ~ Numbering' /\ fn' \in Programs /\ G'[fn'.exit] = <<Edge(fn'.exit, fn'.entry, 0)>>
  BY <1>1, <1>2, <1>6 DEF Numbering
<1> QED
  BY <1>7, <1>8, <1>9, <1>10, <1>11 DEF GraphInv

LEMMA GraphStep ==
    ASSUME GraphInv, OrderInv, ValuesInv, Step
    PROVE  GraphInv'
<1>1. CASE Numbering /\ Numbering' /\ UNCHANGED graphVars
  BY <1>1, GraphKept DEF Numbering, Built
<1>2. CASE Built /\ Built' /\ UNCHANGED graphVars
  BY <1>2, GraphKept DEF Built
<1>3. CASE UNCHANGED passVars
  <2>1. UNCHANGED graphVars /\ pc' = pc
    BY <1>3 DEF passVars
  <2> QED
    BY <2>1, GraphKept DEF Numbering, Built
<1> QED
  BY <1>1, <1>2, <1>3, StepKinds, GraphBuilt, GraphValued, GraphClosed

----------------------------------------------------------------------------
(* The second part: the search.                                            *)

LEMMA GraphEdges ==
    ASSUME GraphInv, pc # "abstract", NEW u \in Members
    PROVE  /\ G[u] \in Seq(EdgeRecords) /\ DOMAIN G[u] = 1..Len(G[u]) /\ Len(G[u]) \in Nat
           /\ u # fn.exit => /\ DOMAIN G[u] = DOMAIN EdgesFrom(u) /\ Len(G[u]) >= 1
                             /\ Len(G[u]) = Len(EdgesFrom(u))
           /\ Numbering /\ u = fn.exit => DOMAIN G[u] = {}
           /\ \A n \in DOMAIN G[u] : u # fn.exit \/ Numbering =>
                 /\ EdgeOf(u, n, [G[u][n] EXCEPT !.val = 0])
                 /\ G[u][n].from = u /\ G[u][n].to \in Members /\ G[u][n].val \in Nat
                 /\ u # fn.exit /\ Rank(u) < Rank(G[u][n].to)
                 /\ \/ Forward(fn, u, G[u][n].to)
                    \/ u = fn.entry /\ IsHeader(fn, G[u][n].to)
                    \/ Leaves(fn, u) /\ G[u][n].to = fn.exit
<1>1. /\ G[u] \in Seq(EdgeRecords) /\ fn \in Programs
      /\ u # fn.exit => Unvalued(G[u]) = EdgesFrom(u)
      /\ Numbering => G[fn.exit] = << >>
  BY DEF GraphInv
<1>2. DOMAIN G[u] = 1..Len(G[u]) /\ Len(G[u]) \in Nat
  BY <1>1
<1>3. ASSUME u # fn.exit
      PROVE  /\ DOMAIN G[u] = DOMAIN EdgesFrom(u) /\ Len(G[u]) >= 1
             /\ Len(G[u]) = Len(EdgesFrom(u))
             /\ \A n \in DOMAIN G[u] : EdgesFrom(u)[n] = [G[u][n] EXCEPT !.val = 0]
  <2>1. PICK es : es = EdgesFrom(u)
    OBVIOUS
  <2>2. es \in Seq(EdgeRecords) /\ es # << >>
    BY <1>1, <1>3, <2>1, EdgesFromAre
  <2>3. es = [n \in DOMAIN G[u] |-> [G[u][n] EXCEPT !.val = 0]]
    BY <1>1, <1>3, <2>1 DEF Unvalued
  <2>4. DOMAIN es = DOMAIN G[u] /\ \A n \in DOMAIN G[u] : es[n] = [G[u][n] EXCEPT !.val = 0]
    BY <2>3
  <2>5. Len(es) = Len(G[u])
    BY <1>2, <2>2, <2>4
  <2>6. Len(es) >= 1
    BY <2>2
  <2> QED
    BY <2>1, <2>4, <2>5, <2>6
<1>4. Numbering /\ u = fn.exit => DOMAIN G[u] = {}
  BY <1>1
<1>5. ASSUME NEW n \in DOMAIN G[u], u # fn.exit
      PROVE  /\ EdgeOf(u, n, [G[u][n] EXCEPT !.val = 0])
             /\ G[u][n].from = u /\ G[u][n].to \in Members /\ G[u][n].val \in Nat
             /\ u # fn.exit /\ Rank(u) < Rank(G[u][n].to)
             /\ \/ Forward(fn, u, G[u][n].to)
                \/ u = fn.entry /\ IsHeader(fn, G[u][n].to)
                \/ Leaves(fn, u) /\ G[u][n].to = fn.exit
  <2>1. G[u][n] \in EdgeRecords
    BY <1>1
  <2>2. PICK e : e = [G[u][n] EXCEPT !.val = 0]
    OBVIOUS
  <2>3. EdgeOf(u, n, e)
    BY <1>1, <1>3, <1>5, <2>2, EdgesFromAre
  <2>4. e.from = G[u][n].from /\ e.to = G[u][n].to /\ G[u][n].val \in Nat
    BY <2>1, <2>2 DEF EdgeRecords
  <2>5. /\ e.from = u /\ e.to \in Members /\ Rank(u) < Rank(e.to)
        /\ \/ Forward(fn, u, e.to)
           \/ u = fn.entry /\ IsHeader(fn, e.to)
           \/ Leaves(fn, u) /\ e.to = fn.exit
    BY <1>1, <2>3, EdgeGoes
  <2> QED
    BY <1>5, <2>2, <2>3, <2>4, <2>5
<1> QED
  BY <1>1, <1>2, <1>3, <1>4, <1>5

LEMMA FrontIs ==
    ASSUME NEW X, NEW s \in Seq(X), s # << >>
    PROVE  /\ Front(s) \in Seq(X) /\ Len(s) \in Nat \ {0}
           /\ Len(Front(s)) = Len(s) - 1
           /\ \A k \in 1..(Len(s) - 1) : Front(s)[k] = s[k]
           /\ Last(s) = s[Len(s)] /\ Last(s) \in X
<1>1. Len(s) \in Nat \ {0}
  OBVIOUS
<1>2. Front(s) = SubSeq(s, 1, Len(s) - 1)
  BY DEF Front
<1>3. Last(s) = s[Len(s)] /\ Last(s) \in X
  BY <1>1 DEF Last
<1>4. /\ SubSeq(s, 1, Len(s) - 1) \in Seq(X)
      /\ Len(SubSeq(s, 1, Len(s) - 1)) = Len(s) - 1
      /\ \A k \in 1..(Len(s) - 1) : SubSeq(s, 1, Len(s) - 1)[k] = s[k]
  <2>1. PICK n \in Nat : n = Len(s) - 1
    BY <1>1
  <2>2. \A k \in 1..n : s[k] \in X
    BY <2>1
  <2>3. /\ SubSeq(s, 1, n) \in Seq(X)
        /\ Len(SubSeq(s, 1, n)) = IF 1 <= n THEN n - 1 + 1 ELSE 0
        /\ \A k \in 1..(n - 1 + 1) : SubSeq(s, 1, n)[k] = s[1 + k - 1]
    BY <2>2, SubSeqProperties
  <2>4. Len(SubSeq(s, 1, n)) = n
    BY <2>3
  <2>5. \A k \in 1..n : SubSeq(s, 1, n)[k] = s[k]
    <3>1. \A k \in 1..n : k \in 1..(n - 1 + 1) /\ 1 + k - 1 = k
      OBVIOUS
    <3> QED
      BY <2>3, <3>1
  <2> QED
    BY <2>1, <2>3, <2>4, <2>5
<1> QED
  BY <1>1, <1>2, <1>3, <1>4

\* The search stands where it stood if the edges it follows have not changed.
LEMMA OrderKept ==
    ASSUME OrderInv, GraphInv, pc # "abstract", pc' # "abstract", fn' = fn, stack' = stack, finish' = finish,
           \A u \in Members : u # fn.exit \/ stack # << >> =>
              DOMAIN G'[u] = DOMAIN G[u] /\ \A n \in DOMAIN G[u] : G'[u][n].to = G[u][n].to,
           pc' # "sort" => stack = << >>
    PROVE  OrderInv'
<1>1. /\ Members' = Members /\ Visited' = Visited /\ \A u : Rank(u)' = Rank(u)
      /\ ToSet(finish)' = ToSet(finish)
  BY FnKept DEF Visited
<1>2. /\ stack \in Seq(Members \X (Nat \ {0})) /\ finish \in Seq(Members)
      /\ fn.entry \in Visited
      /\ \A j, k \in DOMAIN stack : j < k => Rank(stack[j][1]) < Rank(stack[k][1])
      /\ \A k \in DOMAIN stack : stack[k][1] \notin ToSet(finish)
      /\ \A k \in DOMAIN stack : \A m \in DOMAIN G[stack[k][1]] :
              m < stack[k][2] => G[stack[k][1]][m].to \in Visited
      /\ \A j, k \in DOMAIN finish : finish[j] = finish[k] => j = k
      /\ \A k \in DOMAIN finish : finish[k] # fn.exit =>
              \A m \in DOMAIN G[finish[k]] :
                 \E j \in DOMAIN finish : j < k /\ finish[j] = G[finish[k]][m].to
  BY DEF OrderInv
<1>3. ASSUME NEW k \in DOMAIN stack, NEW m \in DOMAIN G'[stack[k][1]], m < stack[k][2]
      PROVE  G'[stack[k][1]][m].to \in Visited
  <2>1. stack # << >> /\ stack[k][1] \in Members
    BY <1>2, <1>3
  <2>2. /\ DOMAIN G'[stack[k][1]] = DOMAIN G[stack[k][1]]
        /\ \A n \in DOMAIN G[stack[k][1]] : G'[stack[k][1]][n].to = G[stack[k][1]][n].to
    BY <2>1
  <2> QED
    BY <1>2, <1>3, <2>2
<1>4. ASSUME NEW k \in DOMAIN finish, finish[k] # fn.exit, NEW m \in DOMAIN G'[finish[k]]
      PROVE  \E j \in DOMAIN finish : j < k /\ finish[j] = G'[finish[k]][m].to
  <2>1. finish[k] \in Members
    BY <1>2
  <2>2. /\ DOMAIN G'[finish[k]] = DOMAIN G[finish[k]]
        /\ \A n \in DOMAIN G[finish[k]] : G'[finish[k]][n].to = G[finish[k]][n].to
    BY <1>4, <2>1
  <2> QED
    BY <1>2, <1>4, <2>2
<1>5. /\ stack' \in Seq(Members' \X (Nat \ {0})) /\ finish' \in Seq(Members')
      /\ fn'.entry \in Visited'
  BY <1>1, <1>2
<1>6. \A j, k \in DOMAIN stack' : j < k => Rank(stack[j][1]) < Rank(stack[k][1])
  BY <1>2
<1>7. (\A j, k \in DOMAIN stack : j < k => Rank(stack[j][1]) < Rank(stack[k][1]))'
  BY <1>6 DEF Rank
<1>8. (\A k \in DOMAIN stack : stack[k][1] \notin ToSet(finish))'
  BY <1>2 DEF ToSet
<1>9. (\A k \in DOMAIN stack : \A m \in DOMAIN G[stack[k][1]] :
              m < stack[k][2] => G[stack[k][1]][m].to \in Visited)'
  BY <1>1, <1>3
<1>10. (/\ \A j, k \in DOMAIN finish : finish[j] = finish[k] => j = k
        /\ \A k \in DOMAIN finish : finish[k] # fn.exit =>
              \A m \in DOMAIN G[finish[k]] :
                 \E j \in DOMAIN finish : j < k /\ finish[j] = G[finish[k]][m].to)'
  BY <1>2, <1>4
<1>11. pc' # "sort" => stack' = << >>
  OBVIOUS
<1> QED
  BY <1>5, <1>7, <1>8, <1>9, <1>10, <1>11 DEF OrderInv

LEMMA OrderBegun ==
    ASSUME GraphInv, OrderInv, getAbstractGraph
    PROVE  OrderInv'
<1>1. /\ fn \in Programs /\ fn' = fn /\ stack' = <<<<fn.entry, 1>>>> /\ pc' = "sort"
      /\ finish' = finish
  BY DEF GraphInv, getAbstractGraph
<1>2. /\ Members' = Members /\ \A u : Rank(u)' = Rank(u)
      /\ fn.entry \in Members
  BY <1>1, FnKept, MembersAre
<1>3. finish = << >> /\ ToSet(finish) = {}
  <2>1. pc = "abstract"
    BY DEF getAbstractGraph
  <2>2. finish = << >>
    BY <2>1 DEF OrderInv
  <2> QED
    BY <2>2 DEF ToSet
<1>4. stack' \in Seq(Members \X (Nat \ {0})) /\ DOMAIN stack' = {1} /\ stack'[1] = <<fn.entry, 1>>
  <2>1. PICK x \in Members \X (Nat \ {0}) : x = <<fn.entry, 1>>
    <3>1. 1 \in Nat \ {0}
      OBVIOUS
    <3> QED
      BY <1>2, <3>1
  <2>2. <<x>> \in Seq(Members \X (Nat \ {0})) /\ DOMAIN <<x>> = {1} /\ <<x>>[1] = x
    OBVIOUS
  <2> QED
    BY <1>1, <2>1, <2>2
<1>5. Visited' = {fn.entry}
  BY <1>1, <1>3, <1>4 DEF Visited, ToSet
<1>6. finish' \in Seq(Members) /\ DOMAIN finish' = {} /\ ToSet(finish)' = {}
  BY <1>1, <1>3 DEF ToSet
<1>7. \A k \in DOMAIN stack' : \A m \in DOMAIN G'[stack'[k][1]] :
              ~ (m < stack'[k][2])
  <2>1. fn.entry \in Members' /\ GraphInv'
    BY <1>1, <1>2, GraphBuilt
  <2>2. DOMAIN G'[fn.entry] \subseteq Nat \ {0}
    <3>1. G'[fn.entry] \in Seq(EdgeRecords')
      BY <1>1, <2>1 DEF GraphInv
    <3> QED
      BY <3>1
  <2> QED
    BY <1>4, <2>2
<1> QED
  BY <1>1, <1>2, <1>4, <1>5, <1>6, <1>7 DEF OrderInv

LEMMA SearchLooks ==
    ASSUME GraphInv, OrderInv, DFS
    PROVE  OrderInv'
<1>1. /\ pc = "sort" /\ pc' = "sort" /\ stack # << >> /\ fn' = fn /\ G' = G /\ finish' = finish
      /\ LET u == Last(stack)[1]
             n == Last(stack)[2]
             rest == Append(Front(stack), <<u, n + 1>>)
         IN /\ n <= Len(G[u])
            /\ stack' = IF G[u][n].to \in Visited THEN rest
                        ELSE Append(rest, <<G[u][n].to, 1>>)
  BY DEF DFS, graphVars
<1>2. /\ stack \in Seq(Members \X (Nat \ {0})) /\ finish \in Seq(Members)
      /\ fn.entry \in Visited
      /\ \A j, k \in DOMAIN stack : j < k => Rank(stack[j][1]) < Rank(stack[k][1])
      /\ \A k \in DOMAIN stack : stack[k][1] \notin ToSet(finish)
      /\ \A k \in DOMAIN stack : \A m \in DOMAIN G[stack[k][1]] :
              m < stack[k][2] => G[stack[k][1]][m].to \in Visited
      /\ \A j, k \in DOMAIN finish : finish[j] = finish[k] => j = k
      /\ \A k \in DOMAIN finish : finish[k] # fn.exit =>
              \A m \in DOMAIN G[finish[k]] :
                 \E j \in DOMAIN finish : j < k /\ finish[j] = G[finish[k]][m].to
  BY <1>1 DEF OrderInv
<1>3. PICK u \in Members, n \in Nat \ {0} : Last(stack) = <<u, n>>
  <2>1. Last(stack) \in Members \X (Nat \ {0})
    BY <1>1, <1>2, FrontIs
  <2> QED
    BY <2>1
<1>4. PICK L \in Nat \ {0} : L = Len(stack)
  BY <1>1, <1>2, FrontIs
<1>5. PICK v \in Members : v = G[u][n].to /\ n \in DOMAIN G[u] /\ Rank(u) < Rank(v)
  <2>1. n \in DOMAIN G[u]
    BY <1>1, <1>3, GraphEdges
  <2> QED
    BY <1>1, <2>1, GraphEdges DEF Numbering
<1>6. PICK F : F = Front(stack)
  OBVIOUS
<1>7. /\ F \in Seq(Members \X (Nat \ {0})) /\ Len(F) = L - 1
      /\ \A k \in 1..(L - 1) : F[k] = stack[k]
      /\ stack[L] = <<u, n>> /\ DOMAIN stack = 1..L
  <2>1. PICK X : X = Members \X (Nat \ {0})
    OBVIOUS
  <2>2. stack \in Seq(X) /\ stack # << >>
    BY <1>1, <1>2, <2>1
  <2>3. /\ F \in Seq(X) /\ Len(F) = L - 1 /\ \A k \in 1..(L - 1) : F[k] = stack[k]
        /\ Last(stack) = stack[L]
    BY <1>4, <1>6, <2>2, FrontIs
  <2>4. DOMAIN stack = 1..L
    BY <1>4, <2>2
  <2> QED
    BY <1>3, <2>1, <2>3, <2>4
<1>8. PICK r : r = Append(F, <<u, n + 1>>)
  OBVIOUS
<1>9. /\ r \in Seq(Members \X (Nat \ {0})) /\ Len(r) = L
      /\ \A k \in 1..(L - 1) : r[k] = stack[k]
      /\ r[L] = <<u, n + 1>>
  <2>1. PICK x \in Members \X (Nat \ {0}) : x = <<u, n + 1>>
    <3>1. n + 1 \in Nat \ {0}
      OBVIOUS
    <3> QED
      BY <3>1
  <2>2. r \in Seq(Members \X (Nat \ {0})) /\ Len(r) = (L - 1) + 1
    BY <1>7, <1>8, <2>1
  <2>3. r[L] = x /\ \A k \in 1..(L - 1) : r[k] = F[k]
    BY <1>7, <1>8, <2>1
  <2> QED
    BY <1>7, <2>1, <2>2, <2>3
<1>10. PICK t : t = stack'
  OBVIOUS
<1>11. PICK K \in {L, L + 1} :
          /\ K = L <=> v \in Visited
          /\ t \in Seq(Members \X (Nat \ {0})) /\ Len(t) = K /\ DOMAIN t = 1..K
          /\ \A k \in 1..(L - 1) : t[k] = stack[k]
          /\ t[L] = <<u, n + 1>>
          /\ K = L + 1 => t[K] = <<v, 1>>
  <2>1. t = IF v \in Visited THEN r ELSE Append(r, <<v, 1>>)
    <3>1. Last(stack)[1] = u /\ Last(stack)[2] = n
      BY <1>3
    <3> QED
      BY <1>1, <1>5, <1>6, <1>8, <1>10, <3>1
  <2>2. CASE v \in Visited
    BY <1>9, <2>1, <2>2
  <2>3. CASE v \notin Visited
    <3>1. PICK x \in Members \X (Nat \ {0}) : x = <<v, 1>>
      <4>1. 1 \in Nat \ {0}
        OBVIOUS
      <4> QED
        BY <4>1
    <3>2. t = Append(r, x)
      BY <2>1, <2>3, <3>1
    <3>3. t \in Seq(Members \X (Nat \ {0})) /\ Len(t) = L + 1 /\ DOMAIN t = 1..(L + 1)
      BY <1>9, <3>2
    <3>4. t[L + 1] = x /\ \A k \in 1..L : t[k] = r[k]
      BY <1>9, <3>2
    <3> QED
      BY <1>9, <2>3, <3>1, <3>3, <3>4
  <2> QED
    BY <2>2, <2>3
<1>12. \A k \in 1..L : t[k][1] = stack[k][1] /\ k \in DOMAIN stack
  <2>1. t[L][1] = u /\ stack[L][1] = u
    BY <1>7, <1>11
  <2>2. \A k \in 1..L : k = L \/ k \in 1..(L - 1)
    OBVIOUS
  <2> QED
    BY <1>7, <1>11, <2>1, <2>2
<1>13. \A k \in DOMAIN t : k \in 1..L \/ (k = L + 1 /\ K = L + 1 /\ t[k] = <<v, 1>> /\ v \notin Visited)
  BY <1>11
<1>14. /\ fn \in Programs /\ Members' = Members /\ \A x : Rank(x)' = Rank(x)
       /\ ToSet(finish)' = ToSet(finish)
  BY <1>1, FnKept DEF GraphInv
<1>15. Visited' = {t[k][1] : k \in DOMAIN t} \cup ToSet(finish)
  BY <1>10, <1>14 DEF Visited
<1>16. Visited \subseteq Visited' /\ v \in Visited'
  <2>1. Visited \subseteq Visited'
    <3>1. \A k \in DOMAIN stack : k \in DOMAIN t /\ t[k][1] = stack[k][1]
      BY <1>7, <1>11, <1>12
    <3> QED
      BY <1>15, <3>1 DEF Visited
  <2>2. v \in Visited'
    <3>1. CASE v \in Visited
      BY <2>1, <3>1
    <3>2. CASE v \notin Visited
      <4>1. K \in DOMAIN t /\ t[K][1] = v
        BY <1>11, <3>2
      <4> QED
        BY <1>15, <4>1
    <3> QED
      BY <3>1, <3>2
  <2> QED
    BY <2>1, <2>2
<1>17. ASSUME NEW j \in DOMAIN t, NEW k \in DOMAIN t, j < k PROVE Rank(t[j][1]) < Rank(t[k][1])
  <2>1. CASE k \in 1..L
    <3>1. j \in 1..L
      BY <1>11, <1>17, <2>1
    <3> QED
      BY <1>2, <1>12, <1>17, <2>1, <3>1
  <2>2. CASE k \notin 1..L
    <3>1. k = L + 1 /\ t[k][1] = v /\ j \in 1..L
      BY <1>11, <1>13, <1>17, <2>2
    <3>2. stack[L][1] = u
      BY <1>7
    <3>3. j = L \/ Rank(t[j][1]) < Rank(u)
      <4>1. L \in DOMAIN stack /\ j \in DOMAIN stack /\ (j = L \/ j < L)
        BY <1>12, <3>1
      <4> QED
        BY <1>2, <1>12, <3>1, <3>2, <4>1
    <3>4. t[j][1] \in Members
      BY <1>11
    <3>5. Rank(t[j][1]) \in Nat /\ Rank(u) \in Nat /\ Rank(v) \in Nat
      BY <1>14, <3>4, RankIs
    <3>6. j = L => t[j][1] = u
      BY <1>11
    <3> QED
      BY <1>5, <3>1, <3>3, <3>5, <3>6
  <2> QED
    BY <2>1, <2>2
<1>18. ASSUME NEW k \in DOMAIN t PROVE t[k][1] \notin ToSet(finish)
  BY <1>2, <1>12, <1>13 DEF Visited
<1>19. ASSUME NEW k \in DOMAIN t, NEW m \in DOMAIN G[t[k][1]], m < t[k][2]
       PROVE  G[t[k][1]][m].to \in Visited'
  <2>1. CASE k \in 1..(L - 1)
    <3>1. t[k] = stack[k] /\ k \in DOMAIN stack
      BY <1>11, <1>12, <2>1
    <3> QED
      BY <1>2, <1>16, <1>19, <3>1
  <2>2. CASE k = L
    <3>1. t[k] = <<u, n + 1>> /\ stack[k] = <<u, n>> /\ k \in DOMAIN stack
      BY <1>7, <1>11, <2>2
    <3>2. m \in Nat /\ (m = n \/ m < n)
      <4>1. m \in DOMAIN G[u] /\ DOMAIN G[u] \subseteq Nat /\ m < n + 1
        BY <1>1, <1>19, <3>1, GraphEdges
      <4> QED
        BY <4>1
    <3>3. CASE m = n
      BY <1>5, <1>16, <3>1, <3>3
    <3>4. CASE m < n
      <4>1. t[k][1] = u /\ stack[k][1] = u /\ stack[k][2] = n
        BY <3>1
      <4>2. m \in DOMAIN G[stack[k][1]] /\ m < stack[k][2]
        BY <1>19, <3>4, <4>1
      <4>3. G[stack[k][1]][m].to \in Visited
        BY <1>2, <3>1, <4>2
      <4> QED
        BY <1>16, <4>1, <4>3
    <3> QED
      BY <3>2, <3>3, <3>4
  <2>3. CASE k \notin 1..L
    <3>1. t[k] = <<v, 1>>
      BY <1>13, <2>3
    <3>2. m \in DOMAIN G[v] /\ DOMAIN G[v] \subseteq Nat \ {0} /\ m < 1
      BY <1>1, <1>19, <3>1, GraphEdges
    <3> QED
      BY <3>2
  <2> QED
    BY <1>11, <2>1, <2>2, <2>3
<1>20. fn'.entry \in Visited'
  BY <1>1, <1>2, <1>16
<1>21. /\ stack' \in Seq(Members' \X (Nat \ {0})) /\ finish' \in Seq(Members')
       /\ fn'.entry \in Visited'
  BY <1>1, <1>2, <1>10, <1>11, <1>14, <1>20
<1>22. (\A j, k \in DOMAIN stack : j < k => Rank(stack[j][1]) < Rank(stack[k][1]))'
  BY <1>1, <1>10, <1>17 DEF Rank
<1>23. (\A k \in DOMAIN stack : stack[k][1] \notin ToSet(finish))'
  BY <1>1, <1>10, <1>18 DEF ToSet
<1>24. (\A k \in DOMAIN stack : \A m \in DOMAIN G[stack[k][1]] :
              m < stack[k][2] => G[stack[k][1]][m].to \in Visited)'
  BY <1>1, <1>10, <1>19
<1>25. (/\ \A j, k \in DOMAIN finish : finish[j] = finish[k] => j = k
        /\ \A k \in DOMAIN finish : finish[k] # fn.exit =>
              \A m \in DOMAIN G[finish[k]] :
                 \E j \in DOMAIN finish : j < k /\ finish[j] = G[finish[k]][m].to)'
  BY <1>1, <1>2
<1> QED
  BY <1>1, <1>21, <1>22, <1>23, <1>24, <1>25 DEF OrderInv

LEMMA SearchFinishes ==
    ASSUME GraphInv, OrderInv, FinishBlock
    PROVE  OrderInv'
<1>1. /\ pc = "sort" /\ pc' = "sort" /\ stack # << >> /\ fn' = fn /\ G' = G
      /\ Last(stack)[2] > Len(G[Last(stack)[1]])
      /\ finish' = Append(finish, Last(stack)[1]) /\ stack' = Front(stack)
  BY DEF FinishBlock, graphVars
<1>2. /\ stack \in Seq(Members \X (Nat \ {0})) /\ finish \in Seq(Members)
      /\ fn.entry \in Visited
      /\ \A j, k \in DOMAIN stack : j < k => Rank(stack[j][1]) < Rank(stack[k][1])
      /\ \A k \in DOMAIN stack : stack[k][1] \notin ToSet(finish)
      /\ \A k \in DOMAIN stack : \A m \in DOMAIN G[stack[k][1]] :
              m < stack[k][2] => G[stack[k][1]][m].to \in Visited
      /\ \A j, k \in DOMAIN finish : finish[j] = finish[k] => j = k
      /\ \A k \in DOMAIN finish : finish[k] # fn.exit =>
              \A m \in DOMAIN G[finish[k]] :
                 \E j \in DOMAIN finish : j < k /\ finish[j] = G[finish[k]][m].to
  BY <1>1 DEF OrderInv
<1>3. PICK u \in Members, n \in Nat \ {0} : Last(stack) = <<u, n>> /\ n > Len(G[u])
  <2>1. Last(stack) \in Members \X (Nat \ {0})
    BY <1>1, <1>2, FrontIs
  <2> QED
    BY <1>1, <2>1
<1>4. PICK L \in Nat \ {0} : L = Len(stack)
  BY <1>1, <1>2, FrontIs
<1>5. PICK F : F = stack'
  OBVIOUS
<1>6. /\ F \in Seq(Members \X (Nat \ {0})) /\ Len(F) = L - 1 /\ DOMAIN F = 1..(L - 1)
      /\ \A k \in 1..(L - 1) : F[k] = stack[k] /\ k \in DOMAIN stack
      /\ stack[L] = <<u, n>> /\ DOMAIN stack = 1..L
  <2>1. PICK X : X = Members \X (Nat \ {0})
    OBVIOUS
  <2>2. stack \in Seq(X) /\ stack # << >>
    BY <1>1, <1>2, <2>1
  <2>3. /\ F \in Seq(X) /\ Len(F) = L - 1 /\ \A k \in 1..(L - 1) : F[k] = stack[k]
        /\ Last(stack) = stack[L]
    BY <1>1, <1>4, <1>5, <2>2, FrontIs
  <2>4. DOMAIN stack = 1..L /\ DOMAIN F = 1..(L - 1)
    BY <1>4, <2>2, <2>3
  <2> QED
    BY <1>3, <2>1, <2>3, <2>4
<1>7. PICK K \in Nat : K = Len(finish) /\ DOMAIN finish = 1..K
  BY <1>2
<1>8. PICK e : e = finish'
  OBVIOUS
<1>9. /\ e \in Seq(Members) /\ Len(e) = K + 1 /\ DOMAIN e = 1..(K + 1)
      /\ \A k \in 1..K : e[k] = finish[k]
      /\ e[K + 1] = u
  <2>1. e = Append(finish, u)
    BY <1>1, <1>3, <1>8
  <2> QED
    BY <1>2, <1>7, <2>1
<1>10. ToSet(e) = ToSet(finish) \cup {u}
  BY <1>7, <1>9 DEF ToSet
<1>11. L \in DOMAIN stack /\ stack[L][1] = u /\ stack[L][2] = n
  BY <1>6
<1>12. u \notin ToSet(finish)
  BY <1>2, <1>11
<1>13. /\ fn \in Programs /\ Members' = Members /\ \A x : Rank(x)' = Rank(x)
  BY <1>1, FnKept DEF GraphInv
<1>14. Visited' = Visited
  <2>1. Visited' = {F[k][1] : k \in DOMAIN F} \cup ToSet(e)
    BY <1>5, <1>8 DEF Visited, ToSet
  <2>2. {stack[k][1] : k \in DOMAIN stack} = {F[k][1] : k \in DOMAIN F} \cup {u}
    <3>1. \A k \in DOMAIN stack : k = L \/ (k \in DOMAIN F /\ F[k][1] = stack[k][1])
      BY <1>6
    <3>2. \A k \in DOMAIN F : k \in DOMAIN stack /\ F[k][1] = stack[k][1]
      BY <1>6
    <3> QED
      BY <1>11, <3>1, <3>2
  <2> QED
    BY <1>10, <2>1, <2>2 DEF Visited
<1>15. ASSUME NEW x \in Visited, Rank(u) < Rank(x) PROVE \E j \in 1..K : finish[j] = x
  <2>1. x \notin {stack[k][1] : k \in DOMAIN stack}
    <3> SUFFICES ASSUME NEW k \in DOMAIN stack, x = stack[k][1] PROVE FALSE
      OBVIOUS
    <3>1. k = L \/ k < L
      BY <1>6
    <3>2. x \in Members
      BY <1>2
    <3>3. Rank(x) \in Nat /\ Rank(u) \in Nat
      BY <1>13, <3>2, RankIs
    <3> QED
      BY <1>2, <1>11, <1>15, <3>1, <3>3
  <2> QED
    BY <1>7, <2>1 DEF Visited, ToSet
<1>16. (\A j, k \in DOMAIN stack : j < k => Rank(stack[j][1]) < Rank(stack[k][1]))'
  <2>1. \A j, k \in DOMAIN F : j < k => Rank(F[j][1]) < Rank(F[k][1])
    BY <1>2, <1>6
  <2> QED
    BY <1>1, <1>5, <2>1 DEF Rank
<1>17. (\A k \in DOMAIN stack : stack[k][1] \notin ToSet(finish))'
  <2>1. ASSUME NEW k \in DOMAIN F PROVE F[k][1] \notin ToSet(e)
    <3>1. F[k] = stack[k] /\ k \in DOMAIN stack /\ k < L
      BY <1>6
    <3>2. Rank(F[k][1]) < Rank(u)
      BY <1>2, <1>11, <3>1
    <3>3. F[k][1] # u
      BY <1>13, <3>2, RankIs
    <3> QED
      BY <1>2, <1>10, <3>1, <3>3
  <2> QED
    BY <1>5, <1>8, <2>1 DEF ToSet
<1>18. (\A k \in DOMAIN stack : \A m \in DOMAIN G[stack[k][1]] :
              m < stack[k][2] => G[stack[k][1]][m].to \in Visited)'
  <2>1. \A k \in DOMAIN F : F[k] = stack[k] /\ k \in DOMAIN stack
    BY <1>6
  <2> QED
    BY <1>1, <1>2, <1>5, <1>14, <2>1
<1>19. \A j, k \in DOMAIN e : e[j] = e[k] => j = k
  <2>1. \A j \in 1..K : e[j] # u
    BY <1>7, <1>9, <1>12 DEF ToSet
  <2>2. \A j \in DOMAIN e : j = K + 1 \/ j \in 1..K
    BY <1>9
  <2> QED
    BY <1>2, <1>7, <1>9, <2>1, <2>2
<1>20. ASSUME NEW k \in DOMAIN e, e[k] # fn.exit, NEW m \in DOMAIN G[e[k]]
       PROVE  \E j \in DOMAIN e : j < k /\ e[j] = G[e[k]][m].to
  <2>1. CASE k \in 1..K
    <3>1. PICK j \in DOMAIN finish : j < k /\ finish[j] = G[finish[k]][m].to
      BY <1>2, <1>7, <1>9, <1>20, <2>1
    <3> QED
      BY <1>7, <1>9, <2>1, <3>1
  <2>2. CASE k = K + 1
    <3>1. m \in DOMAIN G[u] /\ e[k] = u
      BY <1>9, <1>20, <2>2
    <3>2. m < n /\ Rank(u) < Rank(G[u][m].to)
      <4>1. DOMAIN G[u] = 1..Len(G[u]) /\ Len(G[u]) \in Nat /\ Numbering
        BY <1>1, GraphEdges DEF Numbering
      <4>2. Rank(u) < Rank(G[u][m].to)
        BY <1>1, <3>1, <4>1, GraphEdges
      <4> QED
        BY <1>3, <3>1, <4>1, <4>2
    <3>3. G[u][m].to \in Visited
      BY <1>2, <1>11, <3>1, <3>2
    <3>4. PICK j \in 1..K : finish[j] = G[u][m].to
      BY <1>15, <3>2, <3>3
    <3> QED
      BY <1>9, <2>2, <3>1, <3>4
  <2> QED
    BY <1>9, <2>1, <2>2
<1>21. /\ stack' \in Seq(Members' \X (Nat \ {0})) /\ finish' \in Seq(Members')
       /\ fn'.entry \in Visited'
  BY <1>1, <1>2, <1>5, <1>6, <1>8, <1>9, <1>13, <1>14
<1>22. (\A j, k \in DOMAIN finish : finish[j] = finish[k] => j = k)'
  BY <1>8, <1>19
<1>23. \A k \in DOMAIN e : e[k] # fn.exit =>
          \A m \in DOMAIN G[e[k]] : \E j \in DOMAIN e : j < k /\ e[j] = G[e[k]][m].to
  BY <1>20
<1>24. (\A k \in DOMAIN finish : finish[k] # fn.exit =>
              \A m \in DOMAIN G[finish[k]] :
                 \E j \in DOMAIN finish : j < k /\ finish[j] = G[finish[k]][m].to)'
  <2> SUFFICES ASSUME NEW k \in DOMAIN finish', finish'[k] # fn'.exit,
                      NEW m \in DOMAIN G'[finish'[k]]
               PROVE  \E j \in DOMAIN finish' : j < k /\ finish'[j] = G'[finish'[k]][m].to
    OBVIOUS
  <2>1. k \in DOMAIN e /\ e[k] # fn.exit /\ m \in DOMAIN G[e[k]]
    BY <1>1, <1>8
  <2>2. PICK j \in DOMAIN e : j < k /\ e[j] = G[e[k]][m].to
    BY <1>23, <2>1
  <2> QED
    BY <1>1, <1>8, <2>2
<1> QED
  BY <1>1, <1>16, <1>17, <1>18, <1>21, <1>22, <1>24 DEF OrderInv

\* What getEdgeValues does to the edges of a block.
LEMMA EdgesValued ==
    ASSUME GraphInv, OrderInv, ValuesInv, getEdgeValues
    PROVE  \E BB \in Members :
              /\ BB = finish[pos] /\ pos \in DOMAIN finish /\ pos' = pos + 1
              /\ DOMAIN G' = Members
              /\ \A u \in Members \ {BB} : G'[u] = G[u]
              /\ DOMAIN G'[BB] = DOMAIN G[BB] /\ Len(G'[BB]) = Len(G[BB])
              /\ \A n \in DOMAIN G[BB] : /\ G'[BB][n].to = G[BB][n].to
                                         /\ G'[BB][n].val = PathsBy(BB, n - 1)
              /\ NumPaths' = [NumPaths EXCEPT ![BB] = IF BB = fn.exit THEN 1
                                                      ELSE PathsBy(BB, Len(G[BB]))]
<1>1. pos \in DOMAIN finish /\ pc = "values" /\ pos' = pos + 1
  BY DEF getEdgeValues
<1>2. PICK BB \in Members : BB = finish[pos]
  BY <1>1 DEF OrderInv
<1>3. DOMAIN G = Members /\ (BB = fn.exit <=> G[BB] = << >>)
  <2>1. BB = fn.exit => G[BB] = << >>
    BY <1>1 DEF GraphInv, Numbering
  <2>2. BB # fn.exit => G[BB] # << >>
    BY <1>1, GraphEdges
  <2> QED
    BY <1>1, <2>1, <2>2 DEF GraphInv
<1>4. CASE BB = fn.exit
  <2>1. G' = G /\ NumPaths' = [NumPaths EXCEPT ![BB] = 1] /\ DOMAIN G[BB] = {}
    BY <1>2, <1>3, <1>4 DEF getEdgeValues
  <2> QED
    BY <1>1, <1>2, <1>3, <1>4, <2>1
<1>5. CASE BB # fn.exit
  <2> DEFINE es == [n \in DOMAIN G[BB] |-> [G[BB][n] EXCEPT !.val = EdgeVal(BB, n)]]
  <2>1. /\ G' = [G EXCEPT ![BB] = es]
        /\ NumPaths' = [NumPaths EXCEPT ![BB] = PathsBy(BB, Len(G[BB]))]
    BY <1>2, <1>3, <1>5 DEF getEdgeValues
  <2>2. \A n \in DOMAIN G[BB] : G[BB][n] \in EdgeRecords
    BY <1>1, GraphEdges
  <2>3. \A n \in DOMAIN G[BB] : es[n].to = G[BB][n].to /\ es[n].val = PathsBy(BB, n - 1)
    BY <2>2 DEF EdgeRecords, EdgeVal
  <2>4. DOMAIN es = DOMAIN G[BB]
    OBVIOUS
  <2>5. Len(es) = Len(G[BB])
    <3>1. PICK N \in Nat : DOMAIN G[BB] = 1..N /\ Len(G[BB]) = N
      BY <1>1, GraphEdges
    <3> HIDE DEF es
    <3> QED
      BY <2>4, <3>1
  <2> HIDE DEF es
  <2>6. DOMAIN G' = Members /\ \A u \in Members : G'[u] = IF u = BB THEN es ELSE G[u]
    BY <1>3, <2>1
  <2> QED
    BY <1>1, <1>2, <1>5, <2>1, <2>3, <2>4, <2>5, <2>6
<1> QED
  BY <1>4, <1>5

LEMMA OrderStep ==
    ASSUME GraphInv, OrderInv, ValuesInv, Step
    PROVE  OrderInv'
<1>1. CASE Sorted
  <2>1. pc = "sort" /\ pc' = "values" /\ stack = << >> /\ fn' = fn /\ G' = G
        /\ stack' = stack /\ finish' = finish
    BY <1>1 DEF Sorted, graphVars, orderVars
  <2> QED
    BY <2>1, OrderKept
<1>2. CASE getEdgeValues
  <2>1. pc = "values" /\ pc' = "values" /\ fn' = fn /\ stack' = stack /\ finish' = finish
    BY <1>2 DEF getEdgeValues
  <2>2. stack = << >>
    BY <2>1 DEF OrderInv
  <2>3. \A u \in Members :
              DOMAIN G'[u] = DOMAIN G[u] /\ \A n \in DOMAIN G[u] : G'[u][n].to = G[u][n].to
    <3>1. PICK BB \in Members :
              /\ \A u \in Members \ {BB} : G'[u] = G[u]
              /\ DOMAIN G'[BB] = DOMAIN G[BB]
              /\ \A n \in DOMAIN G[BB] : G'[BB][n].to = G[BB][n].to
      BY <1>2, EdgesValued
    <3> QED
      BY <3>1
  <2> QED
    BY <2>1, <2>2, <2>3, OrderKept
<1>3. CASE StartTree
  <2>1. /\ pc = "values" /\ pc' = "tree" /\ fn' = fn /\ stack' = stack /\ finish' = finish
        /\ G' = [G EXCEPT ![fn.exit] = Append(@, Edge(fn.exit, fn.entry, 0))]
    BY <1>3 DEF StartTree, orderVars
  <2>2. stack = << >>
    BY <2>1 DEF OrderInv
  <2>3. \A u \in Members : u # fn.exit => G'[u] = G[u]
    BY <2>1 DEF GraphInv
  <2> QED
    BY <2>1, <2>2, <2>3, OrderKept
<1>4. CASE Built /\ Built' /\ UNCHANGED <<graphVars, orderVars>>
  <2>1. /\ pc # "abstract" /\ pc' # "abstract" /\ pc # "sort" /\ pc' # "sort" /\ fn' = fn
        /\ G' = G /\ stack' = stack /\ finish' = finish
    BY <1>4 DEF Built, Numbering, graphVars, orderVars
  <2>2. stack = << >>
    BY <2>1 DEF OrderInv
  <2> QED
    BY <2>1, <2>2, OrderKept
<1>5. CASE UNCHANGED passVars
  <2>1. pc' = pc /\ fn' = fn /\ G' = G /\ stack' = stack /\ finish' = finish
    BY <1>5 DEF passVars, graphVars, orderVars
  <2>2. CASE pc = "abstract"
    BY <2>1, <2>2 DEF OrderInv
  <2>3. CASE pc # "abstract"
    <3>1. pc # "sort" => stack = << >>
      BY <2>3 DEF OrderInv
    <3> QED
      BY <2>1, <2>3, <3>1, OrderKept
  <2> QED
    BY <2>2, <2>3
<1> QED
  BY <1>1, <1>2, <1>3, <1>4, <1>5, StepKinds, OrderBegun, SearchLooks, SearchFinishes

----------------------------------------------------------------------------
(* The third part: numbers of paths and values of edges.                   *)

\* A block keeps its number and values if it and those its edges lead to do.
LEMMA NumberedKept ==
    ASSUME GraphInv, pc # "abstract", fn' = fn, NEW u \in Members, Numbered(u),
           NumPaths'[u] = NumPaths[u],
           u # fn.exit => /\ G'[u] = G[u]
                          /\ \A n \in DOMAIN G[u] : NumPaths'[G[u][n].to] = NumPaths[G[u][n].to]
    PROVE  Numbered(u)'
<1>1. CASE u = fn.exit
  BY <1>1 DEF Numbered
<1>2. CASE u # fn.exit
  <2>1. \A n \in DOMAIN G[u] : NumPaths'[G[u][n].to] = NumPaths[G[u][n].to]
    BY <1>2
  <2>2. [k \in DOMAIN G'[u] |-> NumPaths'[G'[u][k].to]] = [k \in DOMAIN G[u] |-> NumPaths[G[u][k].to]]
    BY <1>2, <2>1
  <2>3. \A n : PathsBy(u, n)' = PathsBy(u, n)
    BY <2>2 DEF PathsBy
  <2>4. Valued(u)'
    BY <1>2, <2>3 DEF Valued, Numbered
  <2> QED
    BY <1>2, <2>4 DEF Numbered
<1> QED
  BY <1>1, <1>2

LEMMA ValuesKept ==
    ASSUME GraphInv, OrderInv, ValuesInv, pc # "abstract", pc' # "abstract", fn' = fn,
           NumPaths' = NumPaths, \A u \in Members : u # fn.exit => G'[u] = G[u],
           pos' \in Nat \ {0}, pc' = "sort" => pos' = 1,
           pc' = "values" => finish' = finish /\ (pc = "values" \/ pos' = 1) /\ pos' = pos,
           Built' => finish' = finish /\ (Built \/ \A k \in DOMAIN finish : k < pos /\ pc = "values")
    PROVE  ValuesInv'
<1>1. /\ NumPaths \in [Members -> Nat]
      /\ \A u \in Members \ {fn.exit} : G[u][1].val = 0
      /\ pc = "values" => \A k \in DOMAIN finish : k < pos => Numbered(finish[k])
      /\ Built => \A k \in DOMAIN finish : Numbered(finish[k])
      /\ finish \in Seq(Members)
  BY DEF ValuesInv, OrderInv
<1>2. Members' = Members
  BY FnKept
<1>3. \A u \in Members : Numbered(u) => Numbered(u)'
  BY NumberedKept
<1>4. NumPaths' \in [Members' -> Nat]
  BY <1>1, <1>2
<1>5. \A u \in Members' \ {fn'.exit} : G'[u][1].val = 0
  BY <1>1, <1>2
<1>6. \A k \in DOMAIN finish : finish[k] \in Members /\ k \in Nat \ {0}
  BY <1>1
<1>7. ASSUME pc' = "values", NEW k \in DOMAIN finish', k < pos'
      PROVE  Numbered(finish[k])'
  <2>1. k \in DOMAIN finish /\ finish'[k] = finish[k] /\ pc = "values" /\ k < pos
    BY <1>6, <1>7
  <2>2. Numbered(finish[k])
    BY <1>1, <2>1
  <2>3. PICK u \in Members : u = finish[k]
    BY <1>6, <2>1
  <2>4. Numbered(u)'
    BY <1>3, <2>2, <2>3
  <2> QED
    BY <2>1, <2>3, <2>4 DEF Numbered, Valued, PathsBy
<1>8. ASSUME Built', NEW k \in DOMAIN finish'
      PROVE  Numbered(finish[k])'
  <2>1. k \in DOMAIN finish /\ finish'[k] = finish[k]
    BY <1>8
  <2>2. Numbered(finish[k])
    BY <1>1, <1>8, <2>1
  <2>3. PICK u \in Members : u = finish[k]
    BY <1>6, <2>1
  <2>4. Numbered(u)'
    BY <1>3, <2>2, <2>3
  <2> QED
    BY <2>1, <2>3, <2>4 DEF Numbered, Valued, PathsBy
<1> QED
  BY <1>4, <1>5, <1>7, <1>8 DEF ValuesInv

LEMMA ValuesBegun ==
    ASSUME GraphInv, ValuesInv, getAbstractGraph
    PROVE  ValuesInv'
<1>1. /\ fn \in Programs /\ fn' = fn /\ pc = "abstract" /\ pc' = "sort" /\ pos' = pos
      /\ G' = [u \in Members |-> EdgesFrom(u)]
      /\ NumPaths' = [u \in Members |-> 0]
  BY DEF GraphInv, getAbstractGraph
<1>2. Members' = Members
  BY <1>1, FnKept
<1>3. pos' = 1
  BY <1>1 DEF ValuesInv
<1>4. ASSUME NEW u \in Members \ {fn.exit} PROVE G'[u][1].val = 0
  <2>1. PICK es : es = EdgesFrom(u)
    OBVIOUS
  <2>2. es \in Seq(EdgeRecords) /\ es # << >> /\ \A n \in DOMAIN es : EdgeOf(u, n, es[n])
    BY <1>1, <2>1, EdgesFromAre
  <2>3. 1 \in DOMAIN es
    BY <2>2
  <2>4. es[1].val = 0
    BY <1>1, <2>2, <2>3, EdgeGoes
  <2> QED
    BY <1>1, <2>1, <2>4
<1>5. NumPaths' \in [Members' -> Nat]
  BY <1>1, <1>2
<1>6. \A u \in Members' \ {fn'.exit} : G'[u][1].val = 0
  BY <1>1, <1>2, <1>4
<1> QED
  BY <1>1, <1>3, <1>5, <1>6 DEF ValuesInv, Built, Numbering

\* The block at pos gets its values after those its edges lead to.
LEMMA ValuesGiven ==
    ASSUME GraphInv, OrderInv, ValuesInv, getEdgeValues
    PROVE  ValuesInv'
<1>1. /\ fn \in Programs /\ fn' = fn /\ pc = "values" /\ pc' = "values" /\ finish' = finish
  BY DEF GraphInv, getEdgeValues
<1>2. PICK BB \in Members :
          /\ BB = finish[pos] /\ pos \in DOMAIN finish /\ pos' = pos + 1
          /\ \A u \in Members \ {BB} : G'[u] = G[u]
          /\ DOMAIN G'[BB] = DOMAIN G[BB] /\ Len(G'[BB]) = Len(G[BB])
          /\ \A n \in DOMAIN G[BB] : /\ G'[BB][n].to = G[BB][n].to
                                     /\ G'[BB][n].val = PathsBy(BB, n - 1)
          /\ NumPaths' = [NumPaths EXCEPT ![BB] = IF BB = fn.exit THEN 1
                                                  ELSE PathsBy(BB, Len(G[BB]))]
  BY EdgesValued
<1>3. /\ NumPaths \in [Members -> Nat] /\ pos \in Nat \ {0}
      /\ \A u \in Members \ {fn.exit} : G[u][1].val = 0
      /\ \A k \in DOMAIN finish : k < pos => Numbered(finish[k])
  BY <1>1 DEF ValuesInv
<1>4. /\ finish \in Seq(Members)
      /\ \A j, k \in DOMAIN finish : finish[j] = finish[k] => j = k
      /\ \A k \in DOMAIN finish : finish[k] # fn.exit =>
            \A m \in DOMAIN G[finish[k]] :
               \E j \in DOMAIN finish : j < k /\ finish[j] = G[finish[k]][m].to
  BY <1>1 DEF OrderInv
<1>5. Members' = Members
  BY <1>1, FnKept
<1>6. \A k \in DOMAIN finish : finish[k] \in Members /\ k \in Nat \ {0}
  BY <1>4
\* Blocks before pos are not the block at pos.
<1>7. \A k \in DOMAIN finish : k < pos => NumPaths'[finish[k]] = NumPaths[finish[k]] /\ finish[k] # BB
  BY <1>2, <1>3, <1>4, <1>6
<1>8. ASSUME NEW k \in DOMAIN finish, k <= pos, finish[k] # fn.exit, NEW m \in DOMAIN G[finish[k]]
      PROVE  /\ NumPaths'[G[finish[k]][m].to] = NumPaths[G[finish[k]][m].to]
             /\ NumPaths[G[finish[k]][m].to] >= 1
  <2>1. PICK j \in DOMAIN finish : j < k /\ finish[j] = G[finish[k]][m].to
    BY <1>4, <1>8
  <2>2. j < pos
    BY <1>3, <1>6, <1>8, <2>1
  <2> QED
    BY <1>3, <1>7, <2>1, <2>2 DEF Numbered
<1>9. ASSUME NEW k \in DOMAIN finish, k < pos PROVE Numbered(finish[k])'
  <2>1. PICK u \in Members : u = finish[k]
    BY <1>6
  <2>2. u # BB /\ Numbered(u) /\ NumPaths'[u] = NumPaths[u] /\ G'[u] = G[u]
    BY <1>2, <1>3, <1>7, <1>9, <2>1
  <2>3. u # fn.exit => \A n \in DOMAIN G[u] : NumPaths'[G[u][n].to] = NumPaths[G[u][n].to]
    BY <1>3, <1>6, <1>8, <1>9, <2>1
  <2>4. Numbered(u)'
    BY <1>1, <2>2, <2>3, NumberedKept
  <2> QED
    BY <1>1, <2>1, <2>4 DEF Numbered, Valued, PathsBy
<1>10. ASSUME BB # fn.exit
       PROVE  /\ NumPaths'[BB] \in Nat /\ NumPaths'[BB] >= 1 /\ Valued(BB)'
              /\ G'[BB][1].val = 0
  <2>1. PICK N \in Nat \ {0} : N = Len(G[BB]) /\ DOMAIN G[BB] = 1..N
    BY <1>1, <1>10, GraphEdges
  <2>2. /\ \A n \in 0..N : PathsBy(BB, n) \in Nat
        /\ PathsBy(BB, 0) = 0
        /\ \A n \in 1..N : PathsBy(BB, n) = PathsBy(BB, n - 1) + NumPaths[G[BB][n].to]
    BY <1>1, <1>3, <2>1, PathsByAre
  <2>3. \A n \in 1..N : NumPaths'[G[BB][n].to] = NumPaths[G[BB][n].to] /\ NumPaths[G[BB][n].to] >= 1
    BY <1>2, <1>3, <1>8, <1>10, <2>1
  <2>4. NumPaths'[BB] = PathsBy(BB, N)
    BY <1>2, <1>3, <1>10, <2>1
  <2>5. PathsBy(BB, N) \in Nat /\ PathsBy(BB, N) >= 1
    <3>1. N \in 1..N /\ N - 1 \in 0..N
      BY <2>1
    <3>2. G[BB][N].to \in Members
      BY <1>1, <1>3, <2>1, <3>1, PathsByAre
    <3>3. NumPaths[G[BB][N].to] \in Nat
      BY <1>3, <3>2
    <3> QED
      BY <2>2, <2>3, <3>1, <3>3
  <2>6. \A n : PathsBy(BB, n)' = PathsBy(BB, n)
    <3>1. [k \in DOMAIN G'[BB] |-> NumPaths'[G'[BB][k].to]] = [k \in DOMAIN G[BB] |-> NumPaths[G[BB][k].to]]
      BY <1>2, <2>1, <2>3
    <3> QED
      BY <3>1 DEF PathsBy
  <2>7. Valued(BB)'
    BY <1>2, <2>1, <2>4, <2>6 DEF Valued
  <2>8. G'[BB][1].val = 0
    <3>1. 1 \in DOMAIN G[BB] /\ 1 - 1 = 0
      BY <2>1
    <3> QED
      BY <1>2, <2>2, <3>1
  <2> QED
    BY <2>4, <2>5, <2>7, <2>8
<1>11. Numbered(BB)'
  <2>1. CASE BB = fn.exit
    BY <1>1, <1>2, <1>3, <2>1 DEF Numbered
  <2>2. CASE BB # fn.exit
    BY <1>1, <1>10, <2>2 DEF Numbered
  <2> QED
    BY <2>1, <2>2
<1>12. NumPaths' \in [Members' -> Nat]
  <2>1. NumPaths'[BB] \in Nat /\ NumPaths' = [NumPaths EXCEPT ![BB] = NumPaths'[BB]]
    <3>1. CASE BB = fn.exit
      BY <1>2, <1>3, <3>1
    <3>2. CASE BB # fn.exit
      BY <1>2, <1>3, <1>10, <3>2
    <3> QED
      BY <3>1, <3>2
  <2> QED
    BY <1>3, <1>5, <2>1
<1>13. \A u \in Members' \ {fn'.exit} : G'[u][1].val = 0
  BY <1>1, <1>2, <1>3, <1>5, <1>10
<1>14. ASSUME NEW k \in DOMAIN finish, k < pos' PROVE Numbered(finish[k])'
  <2>1. k < pos \/ k = pos
    BY <1>2, <1>3, <1>6, <1>14
  <2>2. CASE k = pos
    <3>1. finish'[k] = BB /\ finish[k] = BB
      BY <1>1, <1>2, <2>2
    <3> QED
      BY <1>11, <3>1 DEF Numbered, Valued, PathsBy
  <2> QED
    BY <1>9, <2>1, <2>2
<1>15. pos' \in Nat \ {0}
  BY <1>2, <1>3
<1> QED
  BY <1>1, <1>12, <1>13, <1>14, <1>15 DEF ValuesInv, Built, Numbering

\* The place of a loop stays, goes on or starts anew.
LEMMA PlaceGoesOn ==
    ASSUME Step, Built
    PROVE  pos' \in {pos, 1, pos + 1}
<1>1. CASE UNCHANGED passVars
  BY <1>1 DEF passVars
<1>2. CASE Report
  BY <1>2 DEF Report
<1>3. CASE PassNext
  <2>1. CASE getAbstractGraph
    BY <2>1 DEF getAbstractGraph, Built
  <2>2. CASE DFS
    BY <2>2 DEF DFS, Built, Numbering
  <2>3. CASE FinishBlock
    BY <2>3 DEF FinishBlock, Built, Numbering
  <2>4. CASE Sorted \/ StartTree \/ GrowTree
    BY <2>4 DEF Sorted, StartTree, GrowTree
  <2>5. CASE getEdgeValues \/ ExitChord \/ Chord \/ BackChord
    BY <2>5 DEF getEdgeValues, ExitChord, Chord, BackChord
  <2>6. CASE Annotate \/ SplitFails \/ Instrumented
    BY <2>6 DEF Annotate, SplitFails, Instrumented
  <2> QED
    BY <1>3, <2>1, <2>2, <2>3, <2>4, <2>5, <2>6 DEF PassNext
<1> QED
  BY <1>1, <1>2, <1>3 DEF Step

LEMMA ValuesStep ==
    ASSUME GraphInv, OrderInv, ValuesInv, Step
    PROVE  ValuesInv'
<1> DEFINE quiet == /\ fn' = fn /\ G' = G /\ NumPaths' = NumPaths
<1>1. CASE /\ Numbering /\ Numbering' /\ UNCHANGED <<graphVars, NumPaths, pos>>
           /\ (DFS \/ FinishBlock \/ Sorted)
  <2>1. quiet /\ pos' = pos /\ pc = "sort" /\ pc' \in {"sort", "values"} /\ pc' # "abstract" /\ ~ Built'
    BY <1>1 DEF graphVars, DFS, FinishBlock, Sorted, Numbering, Built
  <2>2. pos' = 1
    BY <2>1 DEF ValuesInv
  <2>3. pc' = "values" => finish' = finish
    BY <1>1, <2>1 DEF DFS, FinishBlock, Sorted, orderVars
  <2> QED
    BY <2>1, <2>2, <2>3, ValuesKept
<1>2. CASE StartTree
  <2>1. /\ pc = "values" /\ pc' = "tree" /\ fn' = fn /\ NumPaths' = NumPaths /\ finish' = finish
        /\ G' = [G EXCEPT ![fn.exit] = Append(@, Edge(fn.exit, fn.entry, 0))]
        /\ pos' = pos /\ pos \notin DOMAIN finish
    BY <1>2 DEF StartTree, orderVars
  <2>2. \A u \in Members : u # fn.exit => G'[u] = G[u]
    BY <2>1 DEF GraphInv
  <2>3. pos \in Nat \ {0} /\ finish \in Seq(Members)
    BY <2>1 DEF ValuesInv, OrderInv
  <2>4. \A k \in DOMAIN finish : k < pos /\ pc = "values"
    BY <2>1, <2>3
  <2> QED
    BY <2>1, <2>2, <2>3, <2>4, ValuesKept
<1>3. CASE Built /\ Built' /\ UNCHANGED <<graphVars, orderVars>>
  <2>1. quiet /\ finish' = finish /\ pc # "abstract" /\ pc' # "abstract" /\ pc' # "sort" /\ pc' # "values"
    BY <1>3 DEF graphVars, orderVars, Built, Numbering
  <2>2. pos' \in Nat \ {0}
    <3>1. pos \in Nat \ {0}
      BY DEF ValuesInv
    <3> QED
      BY <1>3, <3>1, PlaceGoesOn
  <2> QED
    BY <1>3, <2>1, <2>2, ValuesKept
<1>4. CASE UNCHANGED passVars
  <2>1. quiet /\ finish' = finish /\ pc' = pc /\ pos' = pos
    BY <1>4 DEF passVars, graphVars, orderVars
  <2>2. CASE pc = "abstract"
    BY <2>1, <2>2 DEF ValuesInv, Built
  <2>3. CASE pc # "abstract"
    <3>1. pos \in Nat \ {0} /\ (pc = "sort" => pos = 1)
      BY DEF ValuesInv
    <3>2. Built' = Built
      BY <2>1 DEF Built, Numbering
    <3> QED
      BY <2>1, <2>3, <3>1, <3>2, ValuesKept
  <2> QED
    BY <2>2, <2>3
<1> QED
  BY <1>1, <1>2, <1>3, <1>4, StepKinds, ValuesBegun, ValuesGiven

----------------------------------------------------------------------------
(* The fourth part: the tree.                                              *)

LEMMA LargerIs ==
    ASSUME NEW m \in Int, NEW vals \in SUBSET Nat, NEW b \in Nat, \A x \in vals : x <= b
    PROVE  /\ Larger(m, vals) \in Int /\ Larger(m, vals) \in {m} \cup vals
           /\ \A y \in {m} \cup vals : y <= Larger(m, vals)
<1>1. \E x \in {m} \cup vals : \A y \in {m} \cup vals : x >= y
  <2>1. CASE vals = {}
    BY <2>1
  <2>2. CASE vals # {}
    <3>1. vals \in SUBSET (0..b)
      OBVIOUS
    <3>2. PICK g \in vals : \A y \in vals : y <= g
      BY <2>2, <3>1, GreatestNumber
    <3>3. CASE g <= m
      <4>1. \A y \in vals : m >= y
        BY <3>2, <3>3
      <4> QED
        BY <4>1
    <3>4. CASE ~ (g <= m)
      BY <3>2, <3>4
    <3> QED
      BY <3>3, <3>4
  <2> QED
    BY <2>1, <2>2
<1>2. PICK x : x = Larger(m, vals)
  OBVIOUS
<1>3. x \in {m} \cup vals /\ \A y \in {m} \cup vals : x >= y
  BY <1>1, <1>2 DEF Larger
<1>4. x \in Int /\ \A y \in {m} \cup vals : y <= x
  BY <1>3
<1> QED
  BY <1>2, <1>3, <1>4

LEMMA ValuesAre ==
    ASSUME GraphInv, pc # "abstract", NEW u \in Members, NEW v
    PROVE  Values(u, v) \in SUBSET Nat /\ \E b \in Nat : \A x \in Values(u, v) : x <= b
<1>1. G[u] \in Seq(EdgeRecords)
  BY DEF GraphInv
<1>2. PICK N \in Nat : DOMAIN G[u] = 1..N
  BY <1>1
<1>3. ASSUME NEW n \in 1..N PROVE G[u][n].val \in Nat
  <2>1. G[u][n] \in EdgeRecords
    BY <1>1, <1>2
  <2> QED
    BY <2>1 DEF EdgeRecords
<1>4. [n \in 1..N |-> G[u][n].val] \in [1..N -> Nat]
  BY <1>3
<1>5. PICK b \in Nat : \A n \in 1..N : [m \in 1..N |-> G[u][m].val][n] <= b
  BY <1>4, BoundedRange
<1>6. \A n \in 1..N : G[u][n].val <= b
  BY <1>5
<1> QED
  BY <1>2, <1>3, <1>6 DEF Values

\* How u joins the tree.
Joins(u) ==
    /\ u \in Members \ inMST
    /\ \A v \in Members \ inMST : distance[v] <= distance[u]
    /\ inMST' = inMST \cup {u}
    /\ potential' \in [Members -> Int]
    /\ distance' \in [Members -> Int]
    /\ \A w \in inMST' : distance'[w] = distance[w] /\ parent'[w] = parent[w]
    /\ parent' = [v \in Members |-> parent'[v]]
    /\ \A y \in Members \ inMST' :
          /\ distance[y] <= distance'[y] /\ \A val \in Between(u, y) : val <= distance'[y]
          /\ \/ distance'[y] = distance[y] /\ parent'[y] = parent[y]
             \/ /\ distance'[y] \in Between(u, y) /\ distance[y] < distance'[y]
                /\ parent'[y] \in [block : {u}, forward : BOOLEAN]

LEMMA TreeGrows ==
    ASSUME GraphInv, TreeTypes, GrowTree
    PROVE  \E u : Joins(u)
<1>1. pc = "tree" /\ pc # "abstract" /\ Built
  BY DEF GrowTree, Built, Numbering
<1>2. PICK u \in Members \ inMST :
          /\ \A v \in Members \ inMST : ComesFirst(u, v)
          /\ potential' =
                IF parent[u].block = NoBlock THEN potential
                ELSE [potential EXCEPT ![u] = potential[parent[u].block]
                         + (IF parent[u].forward THEN distance[u] ELSE -distance[u])]
          /\ inMST' = inMST \cup {u}
          /\ LET others == Members \ (inMST \cup {u})
                 out == [v \in others |-> Larger(distance[v], Values(u, v))]
                 best == [v \in others |-> Larger(out[v], Values(v, u))]
             IN /\ distance' = [v \in Members |-> IF v \in others THEN best[v] ELSE distance[v]]
                /\ parent' = [v \in Members |->
                                 IF v \in others /\ best[v] > distance[v]
                                 THEN [block |-> u, forward |-> best[v] = out[v]]
                                 ELSE parent[v]]
  BY DEF GrowTree, ToMST
<1> DEFINE others == Members \ (inMST \cup {u})
           out == [v \in others |-> Larger(distance[v], Values(u, v))]
           best == [v \in others |-> Larger(out[v], Values(v, u))]
<1>3. /\ distance \in [Members -> Int]
      /\ parent \in [Members -> [block : inMST \cup {NoBlock}, forward : BOOLEAN]]
      /\ potential \in [Members -> Int]
      /\ inMST \subseteq Members
  BY <1>1 DEF TreeTypes
<1>4. /\ distance' = [v \in Members |-> IF v \in others THEN best[v] ELSE distance[v]]
      /\ parent' = [v \in Members |-> IF v \in others /\ best[v] > distance[v]
                                      THEN [block |-> u, forward |-> best[v] = out[v]]
                                      ELSE parent[v]]
  BY <1>2
<1>5. ASSUME NEW y \in others
      PROVE  /\ best[y] \in Int /\ out[y] \in Int
             /\ best[y] \in {distance[y]} \cup Between(u, y)
             /\ distance[y] <= best[y] /\ \A val \in Between(u, y) : val <= best[y]
  <2>1. distance[y] \in Int /\ y \in Members /\ u \in Members
    BY <1>3
  <2>2. /\ out[y] \in Int /\ out[y] \in {distance[y]} \cup Values(u, y)
        /\ \A x \in {distance[y]} \cup Values(u, y) : x <= out[y]
    <3>1. PICK b \in Nat : \A x \in Values(u, y) : x <= b
      BY <1>1, <2>1, ValuesAre
    <3>2. Values(u, y) \in SUBSET Nat
      BY <1>1, <2>1, ValuesAre
    <3>3. out[y] = Larger(distance[y], Values(u, y))
      OBVIOUS
    <3> HIDE DEF out, others
    <3> QED
      BY <2>1, <3>1, <3>2, <3>3, LargerIs
  <2>3. /\ best[y] \in Int /\ best[y] \in {out[y]} \cup Values(y, u)
        /\ \A x \in {out[y]} \cup Values(y, u) : x <= best[y]
    <3>1. PICK b \in Nat : \A x \in Values(y, u) : x <= b
      BY <1>1, <2>1, ValuesAre
    <3>2. Values(y, u) \in SUBSET Nat
      BY <1>1, <2>1, ValuesAre
    <3>3. best[y] = Larger(out[y], Values(y, u))
      OBVIOUS
    <3> HIDE DEF out, best, others
    <3> QED
      BY <2>2, <3>1, <3>2, <3>3, LargerIs
  <2> HIDE DEF out, best, others
  <2>4. distance[y] <= best[y]
    <3>1. distance[y] <= out[y] /\ out[y] <= best[y]
      BY <2>2, <2>3
    <3> QED
      BY <2>1, <2>2, <2>3, <3>1
  <2>5. ASSUME NEW val \in Between(u, y) PROVE val <= best[y]
    <3>1. CASE val \in Values(u, y)
      <4>1. val <= out[y] /\ out[y] <= best[y] /\ val \in Nat
        BY <1>1, <2>1, <2>2, <2>3, <3>1, ValuesAre
      <4> QED
        BY <2>2, <2>3, <4>1
    <3>2. CASE val \in Values(y, u)
      BY <2>3, <3>2
    <3> QED
      BY <3>1, <3>2 DEF Between
  <2>6. best[y] \in {distance[y]} \cup Between(u, y)
    BY <2>2, <2>3 DEF Between
  <2> QED
    BY <2>2, <2>3, <2>4, <2>5, <2>6
<1> HIDE DEF out, best
<1>6. \A v \in Members \ inMST : distance[v] <= distance[u]
  BY <1>2, <1>3 DEF ComesFirst
<1>7. potential' \in [Members -> Int]
  <2>1. CASE parent[u].block = NoBlock
    BY <1>2, <1>3, <2>1
  <2>2. CASE parent[u].block # NoBlock
    <3>1. parent[u].block \in Members
      BY <1>3, <2>2
    <3>2. potential[parent[u].block] + (IF parent[u].forward THEN distance[u] ELSE -distance[u]) \in Int
      <4>1. potential[parent[u].block] \in Int /\ distance[u] \in Int
        BY <1>3, <3>1
      <4>2. (IF parent[u].forward THEN distance[u] ELSE -distance[u]) \in Int
        BY <4>1
      <4> QED
        BY <4>1, <4>2
    <3> QED
      BY <1>2, <1>3, <2>2, <3>2
  <2> QED
    BY <2>1, <2>2
<1>8. distance' \in [Members -> Int]
  BY <1>3, <1>4, <1>5
<1>9. /\ parent' = [v \in Members |-> parent'[v]]
      /\ \A w \in inMST' : distance'[w] = distance[w] /\ parent'[w] = parent[w]
  <2>1. \A w \in inMST' : w \in Members /\ w \notin others
    BY <1>2, <1>3
  <2> QED
    BY <1>4, <2>1
<1>10. ASSUME NEW y \in Members \ inMST'
       PROVE  /\ distance[y] <= distance'[y] /\ \A val \in Between(u, y) : val <= distance'[y]
              /\ \/ distance'[y] = distance[y] /\ parent'[y] = parent[y]
                 \/ /\ distance'[y] \in Between(u, y) /\ distance[y] < distance'[y]
                    /\ parent'[y] \in [block : {u}, forward : BOOLEAN]
  <2>1. y \in others /\ y \in Members
    BY <1>2
  <2>2. distance'[y] = best[y] /\ distance[y] \in Int
    BY <1>3, <1>4, <2>1
  <2>3. distance[y] <= distance'[y] /\ \A val \in Between(u, y) : val <= distance'[y]
    BY <1>5, <2>1, <2>2
  <2>4. CASE best[y] > distance[y]
    <3>1. parent'[y] = [block |-> u, forward |-> best[y] = out[y]]
      BY <1>4, <2>1, <2>4
    <3>2. parent'[y] \in [block : {u}, forward : BOOLEAN]
      BY <3>1
    <3>3. best[y] \in Between(u, y)
      BY <1>5, <2>1, <2>2, <2>4
    <3> QED
      BY <1>5, <2>1, <2>2, <2>3, <2>4, <3>2, <3>3
  <2>5. CASE ~ (best[y] > distance[y])
    <3>1. parent'[y] = parent[y]
      BY <1>4, <2>1, <2>5
    <3>2. best[y] = distance[y]
      BY <1>5, <2>1, <2>2, <2>5
    <3> QED
      BY <2>2, <2>3, <3>1, <3>2
  <2> QED
    BY <2>4, <2>5
<1> QED
  BY <1>2, <1>6, <1>7, <1>8, <1>9, <1>10 DEF Joins

LEMMA BetweenAre ==
    ASSUME GraphInv, pc # "abstract", NEW u \in Members, NEW v \in Members
    PROVE  Between(u, v) \in SUBSET Nat /\ Between(u, v) = Between(v, u)
BY ValuesAre DEF Between

\* Where nothing but blocks that are not joined is left, u is joined to nothing either.
LEMMA Unjoined ==
    ASSUME GraphInv, TreeTypes, Built, NEW u, Joins(u), inMST = {} \/ distance[u] < 0
    PROVE  /\ parent[u].block = NoBlock
           /\ \A y \in Members \ inMST' : distance[y] < 0 /\ parent[y].block = NoBlock
<1>1. /\ distance \in [Members -> Int]
      /\ parent \in [Members -> [block : inMST \cup {NoBlock}, forward : BOOLEAN]]
      /\ u \in Members \ inMST /\ inMST' = inMST \cup {u} /\ inMST \subseteq Members
      /\ \A v \in Members \ inMST : distance[v] <= distance[u]
  BY DEF TreeTypes, Joins
<1>2. \A y \in Members : parent[y].block \in inMST \cup {NoBlock}
  BY <1>1
<1>3. CASE inMST = {}
  <2>1. \A v \in Members : distance[v] = IF v = fn.address[1] THEN 0 ELSE IntMin
    BY <1>3 DEF TreeTypes
  <2>2. fn.address[1] \in Members
    <3>1. fn \in Programs
      BY DEF GraphInv
    <3>2. fn.address \in Seq(Members) /\ fn.entry \in Members
      BY <3>1, MembersAre
    <3>3. fn.address # << >>
      <4>1. Members = {fn.address[k] : k \in DOMAIN fn.address}
        BY DEF Members, ToSet
      <4> QED
        BY <3>2, <4>1
    <3> QED
      BY <3>2, <3>3
  <2>3. u = fn.address[1]
    <3>1. 0 <= distance[u]
      BY <1>1, <1>3, <2>1, <2>2
    <3> QED
      BY <1>1, <2>1, <3>1 DEF IntMin
  <2>4. \A y \in Members \ inMST' : distance[y] < 0
    BY <1>1, <2>1, <2>3 DEF IntMin
  <2> QED
    BY <1>1, <1>2, <1>3, <2>4
<1>4. CASE inMST # {} /\ distance[u] < 0
  <2>1. \A y \in Members \ inMST : distance[y] < 0
    BY <1>1, <1>4
  <2>2. \A y \in Members \ inMST : ~ (distance[y] >= 0)
    BY <1>1, <2>1
  <2>3. \A y \in Members \ inMST : parent[y].block \notin inMST
    BY <1>4, <2>2 DEF TreeTypes
  <2> QED
    BY <1>1, <1>2, <2>1, <2>3
<1> QED
  BY <1>3, <1>4

\* Otherwise u is joined to a block of the tree by an edge of the greatest value.
LEMMA Joined ==
    ASSUME GraphInv, TreeTypes, Built, NEW u, Joins(u), inMST # {}, ~ (distance[u] < 0)
    PROVE  parent[u].block \in inMST
<1>1. distance[u] \in Int /\ u \in Members \ inMST
  BY DEF TreeTypes, Joins
<1>2. distance[u] >= 0
  BY <1>1
<1> QED
  BY <1>1, <1>2 DEF TreeTypes

LEMMA TreeTypesGrown ==
    ASSUME GraphInv, TreeTypes, Built, Built', UNCHANGED graphVars, NEW u, Joins(u)
    PROVE  TreeTypes'
<1>1. /\ distance \in [Members -> Int]
      /\ parent \in [Members -> [block : inMST \cup {NoBlock}, forward : BOOLEAN]]
      /\ inMST \subseteq Members
      /\ inMST # {} =>
            \A y \in Members \ inMST :
               /\ distance[y] >= 0 <=> parent[y].block \in inMST
               /\ \A x \in inMST : \A val \in Between(x, y) : val <= distance[y]
  BY DEF TreeTypes
<1>2. /\ u \in Members \ inMST
      /\ inMST' = inMST \cup {u}
      /\ potential' \in [Members -> Int]
      /\ distance' \in [Members -> Int]
      /\ \A w \in inMST' : distance'[w] = distance[w] /\ parent'[w] = parent[w]
      /\ parent' = [v \in Members |-> parent'[v]]
      /\ \A y \in Members \ inMST' :
            /\ distance[y] <= distance'[y] /\ \A val \in Between(u, y) : val <= distance'[y]
            /\ \/ distance'[y] = distance[y] /\ parent'[y] = parent[y]
               \/ /\ distance'[y] \in Between(u, y) /\ distance[y] < distance'[y]
                  /\ parent'[y] \in [block : {u}, forward : BOOLEAN]
  BY DEF Joins
<1>3. /\ Members' = Members /\ \A x, y : Between(x, y)' = Between(x, y)
  BY FnKept DEF graphVars, Between, Values
<1>4. pc # "abstract" /\ NoBlock \notin Members /\ u # NoBlock
  BY <1>2, MembersAre DEF Built, GraphInv
<1>5. ASSUME NEW y \in Members PROVE parent'[y] \in [block : inMST' \cup {NoBlock}, forward : BOOLEAN]
  <2>1. parent[y] \in [block : inMST \cup {NoBlock}, forward : BOOLEAN]
    BY <1>1
  <2>2. CASE parent'[y] = parent[y]
    BY <1>2, <2>1, <2>2
  <2>3. CASE parent'[y] \in [block : {u}, forward : BOOLEAN]
    BY <1>2, <2>3
  <2> QED
    BY <1>2, <2>2, <2>3
<1>6. parent' \in [Members -> [block : inMST' \cup {NoBlock}, forward : BOOLEAN]]
  BY <1>2, <1>5
<1>7. ASSUME NEW y \in Members \ inMST', NEW x \in inMST', NEW val \in Between(x, y)
      PROVE  val <= distance'[y]
  <2>1. distance[y] \in Int /\ distance'[y] \in Int /\ val \in Nat /\ distance[y] <= distance'[y]
    BY <1>1, <1>2, <1>4, BetweenAre
  <2>2. CASE x = u
    BY <1>2, <2>2
  <2>3. CASE x # u
    <3>1. val <= distance[y]
      BY <1>1, <1>2, <2>3
    <3> QED
      BY <2>1, <3>1
  <2> QED
    BY <2>2, <2>3
<1>8. ASSUME NEW y \in Members \ inMST' PROVE distance'[y] >= 0 <=> parent'[y].block \in inMST'
  <2>1. CASE /\ distance'[y] \in Between(u, y)
             /\ parent'[y] \in [block : {u}, forward : BOOLEAN]
    <3>1. distance'[y] \in Nat
      BY <1>2, <1>4, <2>1, BetweenAre
    <3>2. parent'[y].block = u
      BY <2>1
    <3> QED
      BY <1>2, <3>1, <3>2
  <2>2. CASE distance'[y] = distance[y] /\ parent'[y] = parent[y]
    <3>1. CASE inMST = {} \/ distance[u] < 0
      <4>1. distance[y] < 0 /\ parent[y].block = NoBlock /\ distance[y] \in Int
        BY <1>1, <3>1, Unjoined
      <4>2. NoBlock \notin inMST'
        BY <1>1, <1>2, <1>4
      <4>3. ~ (distance[y] >= 0)
        BY <4>1
      <4> QED
        BY <2>2, <4>1, <4>2, <4>3
    <3>2. CASE inMST # {} /\ ~ (distance[u] < 0)
      <4>1. distance[y] >= 0 <=> parent[y].block \in inMST
        BY <1>1, <1>2, <3>2
      <4>2. parent[y].block \in inMST \cup {NoBlock}
        BY <1>1
      <4> QED
        BY <1>2, <1>4, <2>2, <4>1, <4>2
    <3> QED
      BY <3>1, <3>2
  <2> QED
    BY <1>2, <2>1, <2>2
<1>9. inMST' # {} /\ inMST' \subseteq Members
  BY <1>1, <1>2
<1>10. /\ inMST' \subseteq Members'
       /\ distance' \in [Members' -> Int]
       /\ parent' \in [Members' -> [block : inMST' \cup {NoBlock}, forward : BOOLEAN]]
       /\ potential' \in [Members' -> Int]
  BY <1>2, <1>3, <1>6, <1>9
<1>11. (\A y \in Members \ inMST :
          /\ distance[y] >= 0 <=> parent[y].block \in inMST
          /\ \A x \in inMST : \A val \in Between(x, y) : val <= distance[y])'
  BY <1>3, <1>7, <1>8
<1> QED
  BY <1>9, <1>10, <1>11 DEF TreeTypes

\* A path between two blocks of the tree is on the paths to a third one.
LEMMA PathsBetween ==
    ASSUME NEW above, NEW x, NEW y, NEW z
    PROVE  /\ treePath(above, x, z) \subseteq treePath(above, x, y) \cup treePath(above, y, z)
           /\ treePath(above, x, y) = treePath(above, y, x)
           /\ treePath(above, x, x) = {}
           /\ above[x] = {x} \cup above[y] =>
                 treePath(above, x, z) \subseteq {x} \cup treePath(above, y, z)
           /\ above[x] \subseteq inMST /\ above[y] \subseteq inMST => treePath(above, x, y) \subseteq inMST
BY DEF treePath

LEMMA TreeWithJoined ==
    ASSUME TreeTypes, Built, NEW u, Joins(u), \E above \in [inMST -> SUBSET inMST] : IsAbove(above)
    PROVE  \E above \in [inMST' -> SUBSET inMST'] : IsAbove(above)'
<1>1. /\ parent \in [Members -> [block : inMST \cup {NoBlock}, forward : BOOLEAN]]
      /\ inMST \subseteq Members
  BY DEF TreeTypes
<1>2. /\ u \in Members \ inMST
      /\ inMST' = inMST \cup {u}
      /\ \A w \in inMST' : parent'[w] = parent[w]
  BY DEF Joins
<1>3. PICK above \in [inMST -> SUBSET inMST] : IsAbove(above)
  OBVIOUS
<1> DEFINE upTo == {u} \cup (IF parent[u].block = NoBlock THEN {} ELSE above[parent[u].block])
           more == [x \in inMST' |-> IF x = u THEN upTo ELSE above[x]]
<1>4. ASSUME NEW x \in inMST' PROVE parent[x].block \in inMST \cup {NoBlock}
  BY <1>1, <1>2
<1>5. upTo \in SUBSET inMST'
  BY <1>2, <1>4
<1>6. more \in [inMST' -> SUBSET inMST']
  BY <1>2, <1>5
<1>7. ASSUME NEW x \in inMST'
      PROVE  more[x] = {x} \cup (IF parent'[x].block = NoBlock THEN {} ELSE more[parent'[x].block])
  <2>1. parent'[x] = parent[x] /\ parent[x].block \in inMST \cup {NoBlock}
    BY <1>2, <1>4
  <2>2. parent[x].block # NoBlock => more[parent[x].block] = above[parent[x].block]
    BY <1>2, <2>1
  <2>3. CASE x = u
    BY <2>1, <2>2, <2>3
  <2>4. CASE x # u
    <3>1. x \in inMST /\ more[x] = above[x]
      BY <1>2, <2>4
    <3>2. above[x] = {x} \cup (IF parent[x].block = NoBlock THEN {} ELSE above[parent[x].block])
      BY <1>3, <3>1 DEF IsAbove
    <3> QED
      BY <2>1, <2>2, <3>1, <3>2
  <2> QED
    BY <2>3, <2>4
<1> HIDE DEF more
<1>8. PICK m \in [inMST' -> SUBSET inMST'] : \A x \in inMST' :
         m[x] = {x} \cup (IF parent'[x].block = NoBlock THEN {} ELSE m[parent'[x].block])
  BY <1>6, <1>7
<1>9. IsAbove(m)'
  BY <1>8 DEF IsAbove
<1> QED
  BY <1>9

\* The first block of a tree, or of another one of a forest.
LEMMA MaximalAlone ==
    ASSUME GraphInv, TreeTypes, Built, UNCHANGED graphVars, NEW u, Joins(u),
           inMST = {} \/ distance[u] < 0,
           NEW above, Inside(above), Maximal(above)
    PROVE  Maximal(above)'
<1>1. /\ distance \in [Members -> Int] /\ inMST \subseteq Members
      /\ inMST # {} =>
            \A y \in Members \ inMST : \A x \in inMST : \A val \in Between(x, y) : val <= distance[y]
  BY DEF TreeTypes
<1>2. /\ u \in Members \ inMST
      /\ inMST' = inMST \cup {u}
      /\ \A w \in inMST' : distance'[w] = distance[w]
      /\ \A y \in Members \ inMST' :
            /\ distance[y] <= distance'[y] /\ \A val \in Between(u, y) : val <= distance'[y]
            /\ \/ distance'[y] = distance[y] /\ parent'[y] = parent[y]
               \/ parent'[y] \in [block : {u}, forward : BOOLEAN]
  BY DEF Joins
<1>3. /\ Members' = Members /\ \A x, y : Between(x, y)' = Between(x, y)
      /\ \A x, y : treePath(above, x, y)' = treePath(above, x, y)
  BY FnKept DEF graphVars, Between, Values, treePath
<1>4. pc # "abstract" /\ NoBlock \notin Members
  BY MembersAre DEF Built, GraphInv
<1>5. /\ parent[u].block = NoBlock
      /\ \A y \in Members \ inMST' : distance[y] < 0 /\ parent[y].block = NoBlock
  BY Unjoined
<1>6. ASSUME NEW x \in Members, NEW y \in Members, NEW val \in Between(x, y)
      PROVE  val \in Nat /\ val \in Between(y, x)
  BY <1>4, BetweenAre
<1>7. ASSUME NEW x \in inMST, NEW y \in Members \ inMST PROVE Between(x, y) = {} /\ Between(y, x) = {}
  <2>1. distance[y] < 0 /\ distance[y] \in Int
    BY <1>1, <1>2, <1>5
  <2>2. ASSUME NEW val \in Between(x, y) PROVE FALSE
    <3>1. val <= distance[y] /\ val \in Nat
      BY <1>1, <1>6
    <3> QED
      BY <2>1, <3>1
  <2> QED
    BY <1>1, <1>4, <2>2, BetweenAre
<1>8. ASSUME NEW y \in Members \ inMST', NEW val \in Between(u, y) PROVE parent'[y].block = u
  <2>1. val \in Nat /\ distance[y] < 0 /\ distance[y] \in Int /\ val <= distance'[y]
    BY <1>1, <1>2, <1>5, <1>6
  <2> QED
    BY <1>2, <2>1
<1>9. ASSUME NEW y \in Members \ inMST', parent'[y].block \in inMST' PROVE parent'[y].block = u
  BY <1>1, <1>2, <1>4, <1>5, <1>9
<1>10. treePath(above, u, u) = {}
  BY PathsBetween
<1>11. ASSUME NEW x \in inMST', NEW y \in inMST', NEW val \in Between(x, y),
              NEW w \in treePath(above, x, y)
       PROVE  distance'[w] >= val
  <2>1. CASE x = u \/ y = u
    BY <1>2, <1>7, <1>10, <2>1
  <2>2. CASE x \in inMST /\ y \in inMST
    <3>1. distance[w] >= val
      BY <2>2 DEF Maximal, Heavy
    <3>2. w \in inMST
      BY <2>2, PathsBetween DEF Inside
    <3> QED
      BY <1>2, <3>1, <3>2
  <2> QED
    BY <1>2, <2>1, <2>2
<1>12. ASSUME NEW x \in inMST', NEW y \in Members \ inMST', NEW val \in Between(x, y),
              NEW w \in treePath(above, x, parent'[y].block)
       PROVE  distance'[w] >= val
  <2>1. x = u
    BY <1>2, <1>7
  <2>2. parent'[y].block = u
    BY <1>8, <2>1
  <2> QED
    BY <1>10, <2>1, <2>2
<1>13. ASSUME NEW y \in Members \ inMST', NEW z \in Members \ inMST',
              parent'[y].block \in inMST', parent'[z].block \in inMST',
              NEW w \in treePath(above, parent'[y].block, parent'[z].block)
       PROVE  FALSE
  BY <1>9, <1>10, <1>13
<1>14. (\A x, y \in inMST : \A val \in Between(x, y) : Heavy(above, x, y, val))'
  BY <1>3, <1>11 DEF Heavy
<1>15. (\A x \in inMST, y \in Members \ inMST : \A val \in Between(x, y) :
           Heavy(above, x, parent[y].block, val))'
  BY <1>3, <1>12 DEF Heavy
<1>16. (\A y, z \in Members \ inMST :
           parent[y].block \in inMST /\ parent[z].block \in inMST =>
              \A w \in treePath(above, parent[y].block, parent[z].block) :
                 distance[w] >= distance[y] \/ distance[w] >= distance[z])'
  BY <1>3, <1>13
<1> QED
  BY <1>14, <1>15, <1>16 DEF Maximal

\* The best block outside is joined by an edge that is worth no less than those to the
\* blocks that stay outside.
LEMMA MaximalJoined ==
    ASSUME GraphInv, TreeTypes, Built, UNCHANGED graphVars, NEW u, Joins(u),
           parent[u].block \in inMST,
           NEW above, Inside(above), Maximal(above),
           above[u] = {u} \cup above[parent[u].block]
    PROVE  Maximal(above)'
<1>1. /\ distance \in [Members -> Int] /\ inMST \subseteq Members
      /\ inMST # {} =>
            \A y \in Members \ inMST :
               /\ distance[y] >= 0 <=> parent[y].block \in inMST
               /\ \A x \in inMST : \A val \in Between(x, y) : val <= distance[y]
      /\ parent \in [Members -> [block : inMST \cup {NoBlock}, forward : BOOLEAN]]
  BY DEF TreeTypes
<1>2. /\ u \in Members \ inMST
      /\ \A v \in Members \ inMST : distance[v] <= distance[u]
      /\ inMST' = inMST \cup {u}
      /\ distance' \in [Members -> Int]
      /\ \A w \in inMST' : distance'[w] = distance[w]
      /\ \A y \in Members \ inMST' :
            /\ distance[y] <= distance'[y] /\ \A val \in Between(u, y) : val <= distance'[y]
            /\ \/ distance'[y] = distance[y] /\ parent'[y] = parent[y]
               \/ parent'[y] \in [block : {u}, forward : BOOLEAN]
  BY DEF Joins
<1>3. /\ Members' = Members /\ \A x, y : Between(x, y)' = Between(x, y)
      /\ \A x, y : treePath(above, x, y)' = treePath(above, x, y)
  BY FnKept DEF graphVars, Between, Values, treePath
<1>4. pc # "abstract" /\ NoBlock \notin Members
  BY MembersAre DEF Built, GraphInv
<1>5. PICK p \in inMST : p = parent[u].block
  OBVIOUS
<1>6. ASSUME NEW x \in Members, NEW y \in Members, NEW val \in Between(x, y)
      PROVE  val \in Nat /\ val \in Between(y, x)
  BY <1>4, BetweenAre
<1>7. ASSUME NEW x \in inMST, NEW y \in inMST
      PROVE  treePath(above, x, y) \subseteq inMST
  BY PathsBetween DEF Inside
<1>8. ASSUME NEW x \in inMST
      PROVE  /\ treePath(above, u, x) \subseteq {u} \cup treePath(above, p, x)
             /\ treePath(above, x, u) \subseteq {u} \cup treePath(above, x, p)
  <2>1. above[u] = {u} \cup above[p]
    BY <1>5
  <2>2. treePath(above, u, x) \subseteq {u} \cup treePath(above, p, x)
    BY <2>1, PathsBetween
  <2>3. treePath(above, x, u) = treePath(above, u, x) /\ treePath(above, x, p) = treePath(above, p, x)
    BY PathsBetween
  <2> QED
    BY <2>2, <2>3
\* Between where u and another block would be joined.
<1>9. ASSUME NEW y \in Members \ inMST, parent[y].block \in inMST,
             NEW w \in treePath(above, p, parent[y].block)
      PROVE  distance[w] >= distance[y] /\ w \in inMST
  <2>1. distance[w] >= distance[u] \/ distance[w] >= distance[y]
    BY <1>2, <1>5, <1>9 DEF Maximal
  <2>2. w \in inMST
    BY <1>5, <1>7, <1>9
  <2>3. distance[w] \in Int /\ distance[u] \in Int /\ distance[y] \in Int
    BY <1>1, <1>2, <2>2
  <2>4. distance[y] <= distance[u]
    BY <1>2
  <2> QED
    BY <2>1, <2>2, <2>3, <2>4
<1>10. ASSUME NEW x \in inMST, NEW y \in Members \ inMST, NEW val \in Between(x, y)
       PROVE  /\ val \in Nat /\ val <= distance[y] /\ distance[y] \in Int
              /\ parent[y].block \in inMST
              /\ \A w \in treePath(above, x, parent[y].block) : distance[w] >= val
  <2>1. val \in Nat /\ distance[y] \in Int /\ val <= distance[y]
    BY <1>1, <1>6
  <2>2. distance[y] >= 0
    BY <2>1
  <2>3. parent[y].block \in inMST
    BY <1>1, <2>2
  <2>4. \A w \in treePath(above, x, parent[y].block) : distance[w] >= val
    BY DEF Maximal, Heavy
  <2> QED
    BY <2>1, <2>3, <2>4
\* An edge from the tree to u.
<1>11. ASSUME NEW x \in inMST, NEW val \in Between(x, u), NEW w \in treePath(above, x, u)
       PROVE  distance'[w] >= val
  <2>1. /\ val \in Nat /\ val <= distance[u] /\ distance[u] \in Int
        /\ \A w1 \in treePath(above, x, p) : distance[w1] >= val
    BY <1>2, <1>5, <1>10
  <2>2. CASE w = u
    BY <1>2, <2>1, <2>2
  <2>3. CASE w \in treePath(above, x, p)
    BY <1>2, <1>7, <2>1, <2>3
  <2> QED
    BY <1>8, <2>2, <2>3
<1>12. ASSUME NEW x \in inMST', NEW y \in inMST', NEW val \in Between(x, y),
              NEW w \in treePath(above, x, y)
       PROVE  distance'[w] >= val
  <2>1. CASE x \in inMST /\ y \in inMST
    <3>1. distance[w] >= val
      BY <2>1 DEF Maximal, Heavy
    <3> QED
      BY <1>2, <1>7, <2>1, <3>1
  <2>2. CASE x \in inMST /\ y = u
    BY <1>11, <2>2
  <2>3. CASE x = u /\ y \in inMST
    <3>1. val \in Between(y, u) /\ w \in treePath(above, y, u)
      BY <1>1, <1>2, <1>6, <2>3, PathsBetween
    <3> QED
      BY <1>11, <2>3, <3>1
  <2>4. CASE x = u /\ y = u
    BY <2>4, PathsBetween
  <2> QED
    BY <1>2, <2>1, <2>2, <2>3, <2>4
\* An edge from the tree to a block outside.
<1>13. ASSUME NEW x \in inMST', NEW y \in Members \ inMST', NEW val \in Between(x, y),
              NEW w \in treePath(above, x, parent'[y].block)
       PROVE  distance'[w] >= val
  <2>1. y \in Members \ inMST
    BY <1>2
  <2>2. CASE parent'[y].block = u
    <3>1. CASE x = u
      BY <2>2, <3>1, PathsBetween
    <3>2. CASE x \in inMST
      <4>1. /\ val \in Nat /\ val <= distance[y] /\ distance[y] \in Int
            /\ parent[y].block \in inMST
            /\ \A w1 \in treePath(above, x, parent[y].block) : distance[w1] >= val
        BY <1>10, <2>1, <3>2
      <4>2. distance[u] \in Int /\ distance[y] <= distance[u]
        BY <1>1, <1>2, <2>1
      <4>3. CASE w = u
        BY <1>2, <4>1, <4>2, <4>3
      <4>4. CASE w \in treePath(above, x, parent[y].block)
        <5>1. w \in inMST
          BY <1>7, <3>2, <4>1, <4>4
        <5> QED
          BY <1>2, <4>1, <4>4, <5>1
      <4>5. CASE w \in treePath(above, p, parent[y].block)
        <5>1. distance[w] >= distance[y] /\ w \in inMST
          BY <1>9, <2>1, <4>1, <4>5
        <5>2. distance[w] \in Int
          BY <1>1, <5>1
        <5>3. distance[w] >= val
          BY <4>1, <5>1, <5>2
        <5> QED
          BY <1>2, <5>1, <5>3
      <4>6. w \in {u} \cup treePath(above, x, p)
        BY <1>8, <2>2, <3>2
      <4>7. treePath(above, x, p) \subseteq
                treePath(above, x, parent[y].block) \cup treePath(above, p, parent[y].block)
        BY PathsBetween
      <4> QED
        BY <4>3, <4>4, <4>5, <4>6, <4>7
    <3> QED
      BY <1>2, <3>1, <3>2
  <2>3. CASE distance'[y] = distance[y] /\ parent'[y] = parent[y]
    <3>1. CASE x \in inMST
      <4>1. /\ parent[y].block \in inMST
            /\ \A w1 \in treePath(above, x, parent[y].block) : distance[w1] >= val
        BY <1>10, <2>1, <3>1
      <4>2. w \in inMST /\ distance[w] >= val
        BY <1>7, <2>3, <3>1, <4>1
      <4> QED
        BY <1>2, <4>2
    <3>2. CASE x = u
      <4>1. val \in Nat /\ val <= distance[y] /\ distance[y] \in Int
        BY <1>1, <1>2, <1>6, <2>1, <2>3, <3>2
      <4>2. distance[y] >= 0 /\ inMST # {}
        BY <1>5, <4>1
      <4>3. parent[y].block \in inMST
        BY <1>1, <2>1, <4>2
      <4>4. w \in {u} \cup treePath(above, p, parent[y].block)
        BY <1>8, <2>3, <3>2, <4>3
      <4>5. CASE w = u
        <5>1. distance[u] \in Int /\ distance[y] <= distance[u]
          BY <1>1, <1>2, <2>1
        <5> QED
          BY <1>2, <4>1, <4>5, <5>1
      <4>6. CASE w \in treePath(above, p, parent[y].block)
        <5>1. distance[w] >= distance[y] /\ w \in inMST
          BY <1>9, <2>1, <4>3, <4>6
        <5>2. distance[w] \in Int
          BY <1>1, <5>1
        <5>3. distance[w] >= val
          BY <4>1, <5>1, <5>2
        <5> QED
          BY <1>2, <5>1, <5>3
      <4> QED
        BY <4>4, <4>5, <4>6
    <3> QED
      BY <1>2, <3>1, <3>2
  <2> QED
    BY <1>2, <2>2, <2>3
\* Between where two blocks outside would be joined.
<1>14. ASSUME NEW y \in Members \ inMST', NEW z \in Members \ inMST',
              parent'[y].block = u,
              distance'[z] = distance[z], parent'[z] = parent[z], parent[z].block \in inMST',
              NEW w \in treePath(above, u, parent[z].block)
       PROVE  distance'[w] >= distance'[z]
  <2>1. z \in Members \ inMST /\ parent[z].block \in inMST
    BY <1>1, <1>2, <1>4, <1>14
  <2>2. w \in {u} \cup treePath(above, p, parent[z].block)
    BY <1>8, <2>1
  <2>3. CASE w = u
    <3>1. distance[u] \in Int /\ distance[z] \in Int /\ distance[z] <= distance[u]
      BY <1>1, <1>2, <2>1
    <3> QED
      BY <1>2, <1>14, <2>3, <3>1
  <2>4. CASE w \in treePath(above, p, parent[z].block)
    BY <1>2, <1>9, <1>14, <2>1, <2>4
  <2> QED
    BY <2>2, <2>3, <2>4
<1>15. ASSUME NEW y \in Members \ inMST', NEW z \in Members \ inMST',
              parent'[y].block \in inMST', parent'[z].block \in inMST',
              NEW w \in treePath(above, parent'[y].block, parent'[z].block)
       PROVE  distance'[w] >= distance'[y] \/ distance'[w] >= distance'[z]
  <2>1. CASE parent'[y].block = u /\ parent'[z].block = u
    BY <2>1, <1>15, PathsBetween
  <2>2. CASE parent'[y].block = u /\ distance'[z] = distance[z] /\ parent'[z] = parent[z]
    BY <1>14, <1>15, <2>2
  <2>3. CASE parent'[z].block = u /\ distance'[y] = distance[y] /\ parent'[y] = parent[y]
    <3>1. w \in treePath(above, parent'[z].block, parent'[y].block)
      BY <1>15, PathsBetween
    <3>2. distance'[w] >= distance'[y]
      BY <1>14, <1>15, <2>3, <3>1
    <3> QED
      BY <3>2
  <2>4. CASE /\ distance'[y] = distance[y] /\ parent'[y] = parent[y]
             /\ distance'[z] = distance[z] /\ parent'[z] = parent[z]
    <3>1. /\ y \in Members \ inMST /\ parent[y].block \in inMST
          /\ z \in Members \ inMST /\ parent[z].block \in inMST
      BY <1>1, <1>2, <1>4, <1>15, <2>4
    <3>2. distance[w] >= distance[y] \/ distance[w] >= distance[z]
      BY <1>15, <2>4, <3>1 DEF Maximal
    <3>3. w \in inMST
      BY <1>7, <1>15, <2>4, <3>1
    <3> QED
      BY <1>2, <2>4, <3>2, <3>3
  <2>5. \A v \in Members \ inMST' :
           parent'[v].block = u \/ (distance'[v] = distance[v] /\ parent'[v] = parent[v])
    BY <1>2
  <2> QED
    BY <2>1, <2>2, <2>3, <2>4, <2>5
<1>16. (\A x, y \in inMST : \A val \in Between(x, y) : Heavy(above, x, y, val))'
  BY <1>3, <1>12 DEF Heavy
<1>17. (\A x \in inMST, y \in Members \ inMST : \A val \in Between(x, y) :
           Heavy(above, x, parent[y].block, val))'
  BY <1>3, <1>13 DEF Heavy
<1>18. (\A y, z \in Members \ inMST :
           parent[y].block \in inMST /\ parent[z].block \in inMST =>
              \A w \in treePath(above, parent[y].block, parent[z].block) :
                 distance[w] >= distance[y] \/ distance[w] >= distance[z])'
  BY <1>3, <1>15
<1> QED
  BY <1>16, <1>17, <1>18 DEF Maximal

LEMMA TreeGrown ==
    ASSUME GraphInv, TreeTypes, TreeInv, Built, UNCHANGED graphVars, NEW u, Joins(u)
    PROVE  TreeInv'
<1>1. /\ parent \in [Members -> [block : inMST \cup {NoBlock}, forward : BOOLEAN]]
      /\ inMST \subseteq Members
  BY DEF TreeTypes
<1>2. /\ u \in Members \ inMST
      /\ inMST' = inMST \cup {u}
      /\ \A w \in inMST' : parent'[w] = parent[w]
  BY DEF Joins
<1>3. \E above \in [inMST' -> SUBSET inMST'] : IsAbove(above)'
  BY TreeWithJoined DEF TreeInv
<1>4. ASSUME NEW above, IsAbove(above)' PROVE Inside(above)' /\ Maximal(above)'
  <2>1. \A x \in inMST' : above[x] = {x} \cup (IF parent'[x].block = NoBlock THEN {}
                                               ELSE above[parent'[x].block])
    BY <1>4 DEF IsAbove
  <2>2. IsAbove(above)
    BY <1>2, <2>1 DEF IsAbove
  <2>3. Inside(above) /\ Maximal(above)
    BY <2>2 DEF TreeInv
  <2>4. above[u] = {u} \cup (IF parent[u].block = NoBlock THEN {} ELSE above[parent[u].block])
    BY <1>2, <2>1
  <2>5. parent[u].block \in inMST \cup {NoBlock} /\ NoBlock \notin inMST
    <3>1. NoBlock \notin Members
      BY MembersAre DEF GraphInv
    <3> QED
      BY <1>1, <1>2, <3>1
  <2>6. Inside(above)'
    <3>1. above[u] \subseteq inMST'
      BY <1>2, <2>3, <2>4, <2>5 DEF Inside
    <3>2. \A x \in inMST' : above[x] \subseteq inMST'
      BY <1>2, <2>3, <3>1 DEF Inside
    <3> QED
      BY <3>2 DEF Inside
  <2>7. CASE inMST = {} \/ distance[u] < 0
    BY <2>3, <2>6, <2>7, MaximalAlone
  <2>8. CASE inMST # {} /\ ~ (distance[u] < 0)
    <3>1. parent[u].block \in inMST
      BY <2>8, Joined
    <3>2. above[u] = {u} \cup above[parent[u].block]
      BY <2>4, <2>5, <3>1
    <3> QED
      BY <2>3, <2>6, <3>1, <3>2, MaximalJoined
  <2> QED
    BY <2>7, <2>8
<1> QED
  BY <1>3, <1>4 DEF TreeInv

\* The tree begins with no blocks.
LEMMA TreeBegun ==
    ASSUME GraphInv, TreeTypes, StartTree
    PROVE  TreeTypes' /\ TreeInv'
<1>1. /\ fn' = fn /\ pc = "values" /\ pc' = "tree" /\ inMST' = inMST /\ inMST = {}
      /\ distance' = [u \in Members |-> IF u = fn.address[1] THEN 0 ELSE IntMin]
      /\ parent' = [u \in Members |-> [block |-> NoBlock, forward |-> TRUE]]
      /\ potential' = [u \in Members |-> 0]
  BY DEF StartTree, TreeTypes, Built, Numbering
<1>2. Members' = Members
  BY <1>1, FnKept
<1>3. /\ distance' \in [Members' -> Int]
      /\ parent' \in [Members' -> [block : inMST' \cup {NoBlock}, forward : BOOLEAN]]
      /\ potential' \in [Members' -> Int]
      /\ inMST' \subseteq Members'
      /\ \A u \in Members' : distance'[u] = IF u = fn'.address[1] THEN 0 ELSE IntMin
  BY <1>1, <1>2 DEF IntMin
<1>4. TreeTypes'
  BY <1>1, <1>3 DEF TreeTypes, IntMin
<1>5. \E above \in [inMST' -> SUBSET inMST'] : IsAbove(above)'
  <2>1. PICK above \in [inMST' -> SUBSET inMST'] : TRUE
    <3>1. [x \in inMST' |-> {}] \in [inMST' -> SUBSET inMST']
      OBVIOUS
    <3> QED
      BY <3>1
  <2>2. IsAbove(above)'
    BY <1>1 DEF IsAbove
  <2> QED
    BY <2>2
<1>6. ASSUME NEW above PROVE Inside(above)' /\ Maximal(above)'
  <2>1. Inside(above)'
    BY <1>1 DEF Inside
  <2>2. Maximal(above)'
    <3>1. \A y \in Members' : parent'[y].block = NoBlock
      BY <1>1, <1>2
    <3>2. inMST' = {}
      BY <1>1
    <3> QED
      BY <3>1, <3>2 DEF Maximal
  <2> QED
    BY <2>1, <2>2
<1>7. TreeInv'
  BY <1>5, <1>6 DEF TreeInv
<1> QED
  BY <1>4, <1>7

LEMMA TreeKept ==
    ASSUME GraphInv, TreeTypes, TreeInv, UNCHANGED <<graphVars, treeVars>>, Built' <=> Built
    PROVE  TreeTypes' /\ TreeInv'
<1>1. /\ fn' = fn /\ inMST' = inMST /\ distance' = distance /\ parent' = parent
      /\ potential' = potential
  BY DEF graphVars, treeVars
<1>2. /\ Members' = Members /\ \A x, y : Between(x, y)' = Between(x, y)
      /\ \A above, x, y : treePath(above, x, y)' = treePath(above, x, y)
  BY FnKept DEF graphVars, Between, Values, treePath
<1>3. TreeTypes'
  BY <1>1, <1>2 DEF TreeTypes, IntMin
<1>4. TreeInv'
  <2>1. \A above : /\ IsAbove(above)' <=> IsAbove(above)
                   /\ Inside(above)' <=> Inside(above)
    BY <1>1 DEF IsAbove, Inside
  <2>2. \A above : Maximal(above)' <=> Maximal(above)
    BY <1>1, <1>2 DEF Maximal, Heavy
  <2> QED
    BY <1>1, <2>1, <2>2 DEF TreeInv
<1> QED
  BY <1>3, <1>4

LEMMA TreeStep ==
    ASSUME GraphInv, TreeTypes, TreeInv, Step
    PROVE  TreeTypes' /\ TreeInv'
<1>1. CASE StartTree
  BY <1>1, TreeBegun
<1>2. CASE GrowTree
  <2>1. Built /\ Built' /\ UNCHANGED graphVars
    BY <1>2 DEF GrowTree, Built, Numbering
  <2>2. PICK u : Joins(u)
    BY <1>2, TreeGrows
  <2> QED
    BY <2>1, <2>2, TreeTypesGrown, TreeGrown
<1>3. CASE fn' = fn /\ ~ Built' /\ UNCHANGED treeVars /\ ~ Built
  <2>1. inMST' = {}
    BY <1>3 DEF TreeTypes, treeVars
  <2> QED
    BY <1>3, <2>1 DEF TreeTypes, TreeInv
<1>4. CASE UNCHANGED <<graphVars, treeVars>> /\ (Built' <=> Built)
  BY <1>4, TreeKept
<1>5. CASE getAbstractGraph \/ getEdgeValues
  BY <1>3, <1>5 DEF getAbstractGraph, getEdgeValues, Built, Numbering
<1>6. CASE DFS \/ FinishBlock \/ Sorted
  BY <1>4, <1>6 DEF DFS, FinishBlock, Sorted, Built, Numbering
<1>7. CASE Annotate
  BY <1>4, <1>7 DEF Annotate, Built, Numbering
<1>8. CASE ExitChord \/ Chord \/ BackChord
  BY <1>4, <1>8 DEF ExitChord, Chord, BackChord, Built, Numbering
<1>9. CASE SplitFails \/ Instrumented
  BY <1>4, <1>9 DEF SplitFails, Instrumented, Built, Numbering
<1>10. CASE Report
  BY <1>4, <1>10 DEF Report, Built, Numbering
<1>11. CASE UNCHANGED passVars
  BY <1>4, <1>11 DEF passVars, Built, Numbering
<1> QED
  BY <1>1, <1>2, <1>5, <1>6, <1>7, <1>8, <1>9, <1>10, <1>11 DEF Step, PassNext

----------------------------------------------------------------------------
(* The fifth part: the chords and the code on them.                        *)

LEMMA ChordsListed ==
    ASSUME GraphInv, Annotate
    PROVE  ChordsInv'
<1>1. /\ fn' = fn /\ G' = G /\ pc = "tree" /\ pc' = "instrument"
      /\ fn \in Programs /\ inMST = Members /\ inMST' = inMST
  <2>1. fn \in Programs
    BY DEF GraphInv
  <2>2. fn' = fn /\ G' = G /\ pc = "tree" /\ pc' = "instrument"
    BY DEF Annotate, graphVars
  <2>3. inMST = Members /\ inMST' = inMST
    BY DEF Annotate, treeVars
  <2> QED
    BY <2>1, <2>2, <2>3
<1>2. Members' = Members
  BY <1>1, FnKept
<1> DEFINE E == {e \in Places(G) : chordEdge(G[e[1]][e[2]])}
<1>3. PICK off : /\ off = ByPlace(fn.address, E)
                 /\ chords' = [k \in DOMAIN off |-> G[off[k][1]][off[k][2]]]
  BY DEF Annotate
<1>4. Lined(G)
  BY <1>1, GraphEdges DEF Lined
<1>5. E \in SUBSET Places(G)
  OBVIOUS
<1>6. ListsAll(fn.address, fn)
  BY <1>1, MainGiven DEF WellFormedMain
<1>7. PICK N \in Nat : off \in [1..N -> E]
  <2> HIDE DEF E
  <2> QED
    BY <1>1, <1>3, <1>4, <1>5, <1>6, ByPlaceLists
<1>8. ASSUME NEW k \in DOMAIN chords'
      PROVE  \E u \in Members : \E n \in DOMAIN G[u] : chords'[k] = G[u][n]
  <2>1. k \in DOMAIN off /\ off[k] \in Places(G) /\ chords'[k] = G[off[k][1]][off[k][2]]
    BY <1>3, <1>7
  <2>2. off[k][1] \in Members /\ off[k][2] \in DOMAIN G[off[k][1]]
    BY <1>1, <1>4, <2>1, PlacesFinite
  <2> QED
    BY <2>1, <2>2
<1> QED
  BY <1>1, <1>2, <1>8 DEF ChordsInv

LEMMA ChordsStep ==
    ASSUME GraphInv, ChordsInv, Step
    PROVE  ChordsInv'
<1>1. CASE pc' \in {"abstract", "sort", "values", "tree"} /\ chords' = << >>
  BY <1>1 DEF ChordsInv
<1>2. CASE /\ fn' = fn /\ G' = G /\ chords' = chords /\ inMST' = inMST
           /\ pc' \in {"abstract", "sort", "values", "tree"} <=>
                 pc \in {"abstract", "sort", "values", "tree"}
  <2>1. Members' = Members
    BY <1>2, FnKept
  <2> QED
    BY <1>2, <2>1 DEF ChordsInv
<1>3. CASE getAbstractGraph \/ getEdgeValues \/ StartTree
  BY <1>1, <1>3 DEF getAbstractGraph, getEdgeValues, StartTree, codeVars, ChordsInv
<1>4. CASE DFS \/ FinishBlock \/ Sorted \/ GrowTree
  BY <1>1, <1>4 DEF DFS, FinishBlock, Sorted, GrowTree, codeVars, ChordsInv
<1>5. CASE ExitChord \/ Chord \/ BackChord
  BY <1>2, <1>5 DEF ExitChord, Chord, BackChord, graphVars, treeVars
<1>6. CASE SplitFails \/ Instrumented \/ Report
  BY <1>2, <1>6 DEF SplitFails, Instrumented, Report, graphVars, codeVars, treeVars
<1>7. CASE UNCHANGED passVars
  BY <1>2, <1>7 DEF passVars, graphVars, codeVars, treeVars
<1> QED
  BY <1>3, <1>4, <1>5, <1>6, <1>7, ChordsListed DEF Step, PassNext

\* What the pass looks at in a chord.
LEMMA ChordIs ==
    ASSUME GraphInv, Built, NEW u \in Members, NEW n \in DOMAIN G[u]
    PROVE  /\ G[u][n].from = u /\ G[u][n].to \in Members /\ G[u][n].val \in Nat
           /\ G[u][n].backedge_number # 0 =>
                 LET b == Backedge[G[u][n].backedge_number]
                 IN  u # fn.exit /\ b.tail \in Members /\ b.header \in Members
<1>1. pc # "abstract" /\ fn \in Programs /\ fn.exit \in Members /\ fn.entry \in Members
  BY MembersAre DEF Built, GraphInv
<1>2. CASE u = fn.exit
  <2>1. G[u] = <<Edge(fn.exit, fn.entry, 0)>>
    BY <1>1, <1>2 DEF GraphInv
  <2>2. G[u][n] = Edge(fn.exit, fn.entry, 0)
    BY <2>1
  <2> QED
    BY <1>1, <1>2, <2>2 DEF Edge
<1>3. CASE u # fn.exit
  <2>1. PICK e : e = [G[u][n] EXCEPT !.val = 0]
    OBVIOUS
  <2>2. /\ EdgeOf(u, n, e)
        /\ G[u][n].from = u /\ G[u][n].to \in Members /\ G[u][n].val \in Nat
    BY <1>1, <1>3, <2>1, GraphEdges
  <2>3. e.backedge_number = G[u][n].backedge_number
    <3>1. G[u] \in Seq(EdgeRecords)
      BY <1>1, GraphEdges
    <3>2. G[u][n] \in EdgeRecords
      BY <3>1
    <3> QED
      BY <2>1, <3>2 DEF EdgeRecords
  <2>4. ASSUME e.backedge_number # 0
        PROVE  \E k \in DOMAIN BackPlaces : e.backedge_number = k
    BY <2>2, <2>4 DEF EdgeOf, Plain, Stop, TailHalf, HeadHalf, Edge
  <2>5. ASSUME NEW k \in DOMAIN BackPlaces
        PROVE  Backedge[k].tail \in Members /\ Backedge[k].header \in Members
    <3>1. Backedge[k].tail = BackPlaces[k][1] /\ Backedge[k].header = Header(BackPlaces[k])
      BY <1>1 DEF GraphInv, TailsAndHeaders
    <3> QED
      BY <1>1, <3>1, BackPlacesDomain, BackEdgesAre
  <2> QED
    BY <1>3, <2>2, <2>3, <2>4, <2>5
<1> QED
  BY <1>2, <1>3

LEMMA IncIs ==
    ASSUME GraphInv, TreeTypes, Built, NEW u \in Members, NEW v \in Members
    PROVE  /\ insertInc(Inc(u, v)) \in Instructions
           /\ resetInc(Inc(u, v)) \in Instructions
           /\ regInc \in Instructions
<1>1. Inc(u, v) \in Int
  BY DEF Inc, TreeTypes
<1> HIDE DEF Inc
<1> QED
  BY <1>1 DEF insertInc, resetInc, regInc, Instructions

LEMMA CodeStep ==
    ASSUME GraphInv, TreeTypes, ChordsInv, CodeInv, Step
    PROVE  CodeInv'
<1>1. onEdge \in [Edges(fn) -> Seq(Instructions)] /\ atExit \in Seq(Instructions)
  BY DEF CodeInv
<1>2. CASE UNCHANGED <<fn, onEdge, atExit>>
  BY <1>1, <1>2 DEF CodeInv, Instructions
<1>3. ASSUME pc = "instrument", pos \in DOMAIN chords
      PROVE  /\ Built /\ chords[pos].from \in Members /\ chords[pos].to \in Members
             /\ chords[pos].backedge_number # 0 =>
                   /\ Backedge[chords[pos].backedge_number].tail \in Members
                   /\ Backedge[chords[pos].backedge_number].header \in Members
  <2>1. Built
    BY <1>3 DEF Built, Numbering
  <2>2. PICK u \in Members : \E n \in DOMAIN G[u] : chords[pos] = G[u][n]
    BY <1>3 DEF ChordsInv
  <2>3. PICK n \in DOMAIN G[u] : chords[pos] = G[u][n]
    BY <2>2
  <2> QED
    BY <2>1, <2>3, ChordIs
<1>4. CASE ExitChord
  <2>1. PICK i \in Instructions : atExit' = Append(atExit, i)
    BY <1>3, <1>4, IncIs DEF ExitChord
  <2>2. fn' = fn /\ onEdge' = onEdge
    BY <1>4 DEF ExitChord, graphVars
  <2>3. atExit' \in Seq(Instructions)
    BY <1>1, <2>1
  <2> QED
    BY <1>1, <2>2, <2>3 DEF CodeInv, Instructions
<1>5. CASE Chord
  <2>1. PICK i \in Instructions : \E d : onEdge' = [onEdge EXCEPT ![d] = <<i>>]
    BY <1>3, <1>5, IncIs DEF Chord
  <2>2. fn' = fn /\ atExit' = atExit
    BY <1>5 DEF Chord, graphVars
  <2>3. <<i>> \in Seq(Instructions)
    OBVIOUS
  <2>4. onEdge' \in [Edges(fn) -> Seq(Instructions)]
    BY <1>1, <2>1, <2>3
  <2> QED
    BY <1>1, <2>2, <2>4 DEF CodeInv, Instructions
<1>6. CASE BackChord
  <2>1. fn.entry \in Members /\ fn.exit \in Members
    BY MembersAre DEF GraphInv
  <2>2. PICK i \in Instructions, j \in Instructions, k \in Instructions : \E d :
            onEdge' = [onEdge EXCEPT ![d] = <<i, j, k>>]
    BY <1>3, <1>6, <2>1, IncIs DEF BackChord
  <2>3. fn' = fn /\ atExit' = atExit
    BY <1>6 DEF BackChord, graphVars
  <2>4. <<i, j, k>> \in Seq(Instructions)
    OBVIOUS
  <2>5. onEdge' \in [Edges(fn) -> Seq(Instructions)]
    BY <1>1, <2>2, <2>4
  <2> QED
    BY <1>1, <2>3, <2>5 DEF CodeInv, Instructions
<1>7. CASE Instrumented
  <2>1. fn' = fn /\ onEdge' = onEdge /\ atExit' = Append(atExit, regInc)
    BY <1>7 DEF Instrumented, graphVars
  <2>2. regInc \in Instructions
    BY DEF regInc, Instructions
  <2>3. atExit' \in Seq(Instructions)
    BY <1>1, <2>1, <2>2
  <2> QED
    BY <1>1, <2>1, <2>3 DEF CodeInv, Instructions
<1>8. CASE getAbstractGraph \/ getEdgeValues \/ StartTree
  BY <1>2, <1>8 DEF getAbstractGraph, getEdgeValues, StartTree, codeVars
<1>9. CASE DFS \/ FinishBlock \/ Sorted \/ GrowTree \/ Annotate
  BY <1>2, <1>9 DEF DFS, FinishBlock, Sorted, GrowTree, Annotate, codeVars, graphVars
<1>10. CASE SplitFails \/ Report
  BY <1>2, <1>10 DEF SplitFails, Report, graphVars, codeVars
<1>11. CASE UNCHANGED passVars
  BY <1>2, <1>11 DEF passVars, graphVars, codeVars
<1> QED
  BY <1>4, <1>5, <1>6, <1>7, <1>8, <1>9, <1>10, <1>11 DEF Step, PassNext
=============================================================================

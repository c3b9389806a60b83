-------------------------- MODULE RenamingProofs ---------------------------
(***************************************************************************)
(* Proofs of what the HPSSA passes promise of taus.  Of what Search makes  *)
(* of the uses of a phi, in HPSSA_new.cpp and in HPSSA.cpp: each reads the *)
(* innermost tau above it, and no tau stays that nothing reads.  And of    *)
(* what the walks of HPSSA.cpp find: each tau has the definitions that the *)
(* hot paths through its block carry, no more and no less.  They rest on   *)
(* the invariant of TauProofs and on its theory of dominators.             *)
(***************************************************************************)
EXTENDS TauProofs

----------------------------------------------------------------------------
(* The invariant.                                                          *)

\* Block b is still to be searched: it is below a child that some call has yet to visit, or
\* below the block that is just being searched.
Awaited(b) ==
    \/ \E k \in DOMAIN visit : \E c \in visit[k].todo : c \in Above[b]
    \/ pc \in {"search", "rename"} /\ Called \in Above[b]

\* The blocks whose uses Search has renamed.
Searched == {b \in Reachable(fn) : ~ Awaited(b)}

\* Taus are inserted where control can get.
TausReachable == Starting \/ Searching => \A t \in LiveTaus : t.at \in Reachable(fn)

\* A call has all children to visit when it begins, and none when it ends.
TodoInOrder ==
    /\ pc \in {"search", "rename"} => ToVisit = {c \in DOMAIN DT : DT[c] = Called}
    /\ pc = "pop" => ToVisit = {}

IsPushed(t) == t \in DOMAIN stackmap /\ <<t.at, t.phi>> \in hasTau

\* The taus of the blocks searched were pushed, and of the block at hand those before
\* the one at hand.
Pushed ==
    Searching =>
        /\ \A t \in LiveTaus : t.at \in Searched => IsPushed(t)
        /\ pc = "rename" => \A k \in DOMAIN taus[Called] : k < it => IsPushed(taus[Called][k])

\* Where Search was, a use has its name.  Elsewhere an instruction has not been renamed, and
\* an operand of a phi, which its own block's call may have renamed before, reads a tau
\* above its edge.
BodyNamed ==
    \A b \in Blocks : \A i \in ToSet(fn.body[b]) :
        IF b \in Searched THEN IsRenamed(fn.use[i], useOf[i], b) ELSE useOf[i] = fn.use[i]

EdgesNamed ==
    \A z \in Phis : \A u \in DOMAIN fn.op[z] :
        IF u \in Searched THEN IsRenamed(fn.op[z][u], phiOp[z][u], u)
        ELSE phiOp[z][u] \in TauNames =>
                /\ phiOp[z][u] \in DOMAIN stackmap
                /\ u \in Reachable(fn) => phiOp[z][u].at \in Above[u]

TausNamed == \A t \in LiveTaus : t \in DOMAIN stackmap => IsNameOf(operand[t], t.phi, DT[t.at])

Named == Searching /\ DistinctOperands(fn) => BodyNamed /\ EdgesNamed /\ TausNamed

NameInv ==
    /\ TausReachable
    /\ Searching => TodoInOrder
    /\ Pushed /\ Named
    /\ InnermostTau

\* Tau t is on its stack, or will be.
Waiting(t) == \E k \in DOMAIN visit : visit[k].block = t.at /\ Unpopped(k, t.phi)

\* A use reads t that no later step of Search renames.
Read(t) ==
    \/ \E z \in Phis : \E u \in DOMAIN fn.op[z] :
          phiOp[z][u] = t /\ u \notin Reachable(fn) \ Searched
    \/ \E i \in Insts : useOf[i] = t
    \/ \E s \in LiveTaus : operand[s] = t

\* A tau that was popped and kept is read.
Kept ==
    Searching /\ DistinctOperands(fn) =>
        \A t \in LiveTaus : t.at \in Searched /\ ~ Waiting(t) => Read(t)

\* HPSSA_new.cpp gives a tau its arguments only after Search.
NoArguments == Starting \/ Searching => \A t \in LiveTaus : args[t] = {}

KeptInv == NoArguments /\ Kept /\ NoSpuriousTau

----------------------------------------------------------------------------
(* The blocks above a block.                                               *)

\* They are its dominators.
LEMMA AboveDominates ==
    ASSUME Ground, NEW b \in Reachable(fn)
    PROVE  Above[b] = Dominators(fn)[b]
<1> DEFINE doms == Dominators(fn)
           N == Cardinality(Blocks)
           S == {n \in Nat : \A x \in Reachable(fn) : Cardinality(doms[x]) = n => Above[x] = doms[x]}
<1>1. fn \in Programs /\ DT = DominatorTree(fn)
  BY DEF Ground
<1>2. IsFiniteSet(Blocks) /\ N \in Nat
  BY ProgramsAssumption, FS_CardinalityType
<1>3. \A x \in Reachable(fn) : doms[x] \in SUBSET Blocks
  BY <1>1, DominatorsOfEntry DEF Dominators
<1>4. \A x \in Reachable(fn) : IsFiniteSet(doms[x]) /\ Cardinality(doms[x]) \in Nat
  BY <1>2, <1>3, FS_Subset, FS_CardinalityType
<1>5. ASSUME NEW n \in Nat, \A m \in Nat : m < n => m \in S PROVE n \in S
  <2> SUFFICES ASSUME NEW x \in Reachable(fn), Cardinality(doms[x]) = n PROVE Above[x] = doms[x]
    OBVIOUS
  <2>1. CASE x = fn.entry
    BY <1>1, <2>1, AboveEquation, DominatorsOfEntry
  <2>2. CASE x # fn.entry
    <3>1. /\ DT[x] \in doms[x] \ {x} /\ doms[DT[x]] = doms[x] \ {x}
          /\ x \in DOMAIN DT /\ DT[x] \in Reachable(fn)
      BY <1>1, <2>2, ImmediateDominator, GroundForm
    <3>2. Above[x] = {x} \cup Above[DT[x]]
      BY <3>1, AboveEquation
    <3>3. x \in doms[x]
      BY <1>1, DominatorsOfEntry
    <3> HIDE DEF doms
    <3>6. doms[DT[x]] \subseteq doms[x] /\ doms[DT[x]] # doms[x]
      BY <3>1, <3>3
    <3>7. DT[x] \in Reachable(fn)
      BY <3>1
    <3>4. Cardinality(doms[DT[x]]) < Cardinality(doms[x])
      BY <1>4, <3>6, <3>7, FS_Subset
    <3>5. Above[DT[x]] = doms[DT[x]]
      BY <1>4, <1>5, <3>1, <3>4
    <3> QED
      BY <3>1, <3>2, <3>3, <3>5
  <2> QED
    BY <2>1, <2>2
<1>6. \A n \in Nat : n \in S
  <2> HIDE DEF S
  <2> QED
    BY <1>5, StrongInduction
<1> QED
  BY <1>4, <1>6

\* What is known of dominance, of the blocks above a block.
LEMMA AboveOrder ==
    ASSUME Ground, NEW b \in Reachable(fn), NEW d \in Above[b]
    PROVE  /\ d \in Reachable(fn)
           /\ Above[d] \subseteq Above[b]
           /\ b \in Above[d] => d = b
           /\ \A c \in Above[b] : c \in Above[d] \/ d \in Above[c]
           /\ d # b => b \in DOMAIN DT /\ d \in Above[DT[b]] /\ DT[b] \in Reachable(fn)
<1>1. fn \in Programs /\ Above[b] = Dominators(fn)[b]
  BY AboveDominates DEF Ground
<1>2. d \in Reachable(fn) /\ Above[d] = Dominators(fn)[d]
  BY <1>1, DominatorsAbove, AboveDominates
<1>3. \A c \in Above[b] : c \in Reachable(fn) /\ Above[c] = Dominators(fn)[c]
  BY <1>1, DominatorsAbove, AboveDominates
<1>4. Above[d] \subseteq Above[b] /\ (b \in Above[d] => d = b)
  BY <1>1, <1>2, DominatorsAbove
<1>5. \A c \in Above[b] : c \in Above[d] \/ d \in Above[c]
  BY <1>1, <1>2, <1>3, DominatorsInOrder
<1>6. ASSUME d # b PROVE b \in DOMAIN DT /\ d \in Above[DT[b]] /\ DT[b] \in Reachable(fn)
  <2>1. b # fn.entry
    BY <1>6, AboveEquation
  <2> QED
    BY <1>6, <2>1, GroundForm, AboveEquation
<1> QED
  BY <1>2, <1>4, <1>5, <1>6

\* The immediate dominator is above its block and below all others above it.
LEMMA AboveParent ==
    ASSUME Ground, NEW b \in DOMAIN DT
    PROVE  /\ b \in Reachable(fn) /\ b # fn.entry /\ DT[b] \in Reachable(fn) /\ DT[b] # b
           /\ Above[b] = {b} \cup Above[DT[b]] /\ b \notin Above[DT[b]]
           /\ DT[b] \in Above[b] /\ DT[b] \in Above[DT[b]]
<1>1. b \in Reachable(fn) /\ b # fn.entry /\ DT[b] \in Reachable(fn)
  BY GroundForm
<1>2. Above[b] = {b} \cup Above[DT[b]]
  BY AboveEquation
<1>3. fn \in Programs /\ DT[b] \in Dominators(fn)[b] \ {b}
  BY <1>1, ImmediateDominator DEF Ground
<1>4. DT[b] # b /\ DT[b] \in Above[DT[b]]
  BY <1>1, <1>3, AboveItself
<1>5. DT[b] \in Above[b]
  BY <1>2, <1>4
<1>6. b \notin Above[DT[b]]
  BY <1>1, <1>4, <1>5, AboveOrder
<1> QED
  BY <1>1, <1>2, <1>4, <1>5, <1>6

\* What is above a block, itself apart, is above each of its predecessors.
LEMMA AbovePredecessors ==
    ASSUME Ground, NEW u \in Reachable(fn), NEW b \in Reachable(fn), b \in Succs(fn, u),
           NEW d \in Above[b], d # b
    PROVE  d \in Above[u]
BY AboveDominates, DominatesPredecessors DEF Ground

\* A block is above another one only if this is so of a child, or they are the same.
LEMMA ChildAbove ==
    ASSUME Ground, NEW b \in Reachable(fn), NEW d \in Above[b], d # b
    PROVE  \E c \in Above[b] : c \in DOMAIN DT /\ DT[c] = d
<1> DEFINE doms == Dominators(fn)
           S == {n \in Nat : \A x \in Reachable(fn) :
                    Cardinality(doms[x]) = n /\ d \in Above[x] /\ d # x
                        => \E c \in Above[x] : c \in DOMAIN DT /\ DT[c] = d}
<1>1. fn \in Programs /\ IsFiniteSet(Blocks)
  BY ProgramsAssumption DEF Ground
<1>2. \A x \in Reachable(fn) : doms[x] \in SUBSET Blocks
  BY <1>1, DominatorsOfEntry DEF Dominators
<1>3. \A x \in Reachable(fn) : IsFiniteSet(doms[x]) /\ Cardinality(doms[x]) \in Nat
  BY <1>1, <1>2, FS_Subset, FS_CardinalityType
<1>4. ASSUME NEW n \in Nat, \A m \in Nat : m < n => m \in S PROVE n \in S
  <2> SUFFICES ASSUME NEW x \in Reachable(fn), Cardinality(doms[x]) = n, d \in Above[x], d # x
               PROVE  \E c \in Above[x] : c \in DOMAIN DT /\ DT[c] = d
    OBVIOUS
  <2>1. x \in DOMAIN DT /\ d \in Above[DT[x]] /\ DT[x] \in Reachable(fn)
    BY AboveOrder
  <2>2. x \in Above[x] /\ Above[DT[x]] \subseteq Above[x] /\ x \notin Above[DT[x]]
    BY <2>1, AboveParent, AboveItself
  <2>3. CASE DT[x] = d
    BY <2>1, <2>2, <2>3
  <2>4. CASE DT[x] # d
    <3>1. doms[DT[x]] \subseteq doms[x] /\ doms[DT[x]] # doms[x]
      BY <2>1, <2>2, AboveDominates
    <3> HIDE DEF doms
    <3>2. Cardinality(doms[DT[x]]) < Cardinality(doms[x])
      BY <1>3, <2>1, <3>1, FS_Subset
    <3>3. Cardinality(doms[DT[x]]) \in S
      BY <1>3, <1>4, <2>1, <3>2
    <3>4. \E c \in Above[DT[x]] : c \in DOMAIN DT /\ DT[c] = d
      BY <2>1, <2>4, <3>3
    <3> QED
      BY <2>2, <3>4
  <2> QED
    BY <2>3, <2>4
<1>5. \A n \in Nat : n \in S
  <2> HIDE DEF S
  <2> QED
    BY <1>4, StrongInduction
<1> QED
  BY <1>3, <1>5

----------------------------------------------------------------------------
(* Where values stand.                                                     *)

\* A phi stands in one block, and has an operand for each predecessor of it.
LEMMA PhiPlace ==
    ASSUME Ground, NEW z \in Phis
    PROVE  /\ HomeOf(z) \in Blocks /\ z \in ToSet(fn.phis[HomeOf(z)])
           /\ HomeOf(z) # fn.entry
           /\ DOMAIN fn.op[z] \subseteq Blocks
           /\ \A u \in Blocks : u \in DOMAIN fn.op[z] <=> HomeOf(z) \in Succs(fn, u)
           /\ \A u \in DOMAIN fn.op[z] \cap Reachable(fn) : DefinedAbove(fn, fn.op[z][u], u)
<1>1. fn \in Programs /\ ValuesForm(fn) /\ WellFormedGraph(fn) /\ SsaForm(fn)
  BY GroundForm, SsaAssumption DEF Ground
<1>2. PICK b \in Blocks : z \in ToSet(fn.phis[b]) \cup ToSet(fn.body[b])
  BY <1>1 DEF ValuesForm, Defined, Phis
<1>3. z \notin ToSet(fn.body[b])
  BY <1>1 DEF ValuesForm, Phis, ToSet
<1>4. z \in ToSet(fn.phis[b]) /\ HomeOf(z) = b
  BY <1>2, <1>3, PhiAtHome
<1>5. DOMAIN fn.op[z] = Preds(fn, b) /\ Preds(fn, b) # {}
      /\ \A u \in Preds(fn, b) \cap Reachable(fn) : DefinedAbove(fn, fn.op[z][u], u)
  BY <1>1, <1>4 DEF SsaForm
<1>6. \A u \in Blocks : u \in Preds(fn, b) <=> b \in Succs(fn, u)
  <2> SUFFICES ASSUME NEW u \in Blocks PROVE u \in Preds(fn, b) <=> b \in Succs(fn, u)
    OBVIOUS
  <2>1. ASSUME u \in Preds(fn, b) PROVE b \in Succs(fn, u)
    <3>1. PICK e \in PredEdges(fn, b) : u = e[1]
      BY <2>1 DEF Preds
    <3>2. PICK v \in Blocks : e \in {<<v, n>> : n \in DOMAIN fn.succ[v]}
      BY <3>1 DEF PredEdges, Edges
    <3> QED
      BY <3>1, <3>2 DEF PredEdges, Succs
  <2>2. ASSUME b \in Succs(fn, u) PROVE u \in Preds(fn, b)
    <3>1. PICK n \in DOMAIN fn.succ[u] : fn.succ[u][n] = b
      BY <2>2 DEF Succs
    <3>2. <<u, n>> \in Edges(fn)
      BY DEF Edges
    <3>3. <<u, n>> \in PredEdges(fn, b)
      BY <3>1, <3>2 DEF PredEdges
    <3> QED
      BY <3>3 DEF Preds
  <2> QED
    BY <2>1, <2>2
<1>7. Preds(fn, b) \subseteq Blocks
  BY DEF Preds, PredEdges, Edges
<1>8. b # fn.entry
  BY <1>1, <1>5 DEF WellFormedGraph, Preds
<1> QED
  BY <1>4, <1>5, <1>6, <1>7, <1>8

\* An instruction that is no phi stands in one block.
LEMMA InstPlace ==
    ASSUME Ground, NEW b \in Blocks, NEW i \in ToSet(fn.body[b])
    PROVE  /\ i \in Insts
           /\ \A c \in Blocks : i \in ToSet(fn.body[c]) => c = b
           /\ b \in Reachable(fn) => DefinedAbove(fn, fn.use[i], b)
<1>1. fn \in Programs /\ ValuesForm(fn) /\ SsaForm(fn)
  BY GroundForm, SsaAssumption DEF Ground
<1>2. i \in Insts
  BY <1>1 DEF ValuesForm, Insts, ToSet
<1>3. \A c \in Blocks : i \in ToSet(fn.body[c]) => c = b
  BY <1>1 DEF ValuesForm, ToSet
<1>4. b \in Reachable(fn) => DefinedAbove(fn, fn.use[i], b)
  BY <1>1 DEF SsaForm
<1> QED
  BY <1>2, <1>3, <1>4

\* The phi that a use reads stands above it.
LEMMA PhiReadAbove ==
    ASSUME Ground, NEW b \in Reachable(fn), NEW z \in Phis, DefinedAbove(fn, z, b)
    PROVE  HomeOf(z) \in Above[b]
<1>1. z \in ToSet(fn.phis[HomeOf(z)]) /\ HomeOf(z) \in Blocks
  BY PhiPlace
<1>2. Defined(fn, z)
  BY <1>1 DEF Defined
<1>3. PICK c \in Dominators(fn)[b] : z \in ToSet(fn.phis[c]) \cup ToSet(fn.body[c])
  BY <1>2 DEF DefinedAbove
<1>4. c \in Above[b] /\ c \in Blocks
  <2>1. c \in Reachable(fn)
    BY <1>3 DEF Dominators
  <2> QED
    BY <2>1, AboveDominates, GroundForm
<1>5. z \notin ToSet(fn.body[c])
  <2>1. ValuesForm(fn)
    BY GroundForm
  <2> QED
    BY <1>4, <2>1 DEF ValuesForm, Phis, ToSet
<1> QED
  BY <1>3, <1>4, <1>5, PhiAtHome

----------------------------------------------------------------------------
(* What Search has been to.                                                *)

\* The calls in progress are of the blocks above the last one.
LEMMA CallsAbove ==
    ASSUME TauInv, Searching
    PROVE  /\ \A j, k \in DOMAIN visit : j <= k => visit[j].block \in Above[visit[k].block]
           /\ \A b \in Above[Called] : \E k \in DOMAIN visit : visit[k].block = b
           /\ \A b \in Above[Called] : b # Called => \E k \in DOMAIN visit : k # Len(visit) /\ visit[k].block = b
<1>1. Ground /\ Chain /\ visit # << >>
  BY DEF TauInv, Chain
<1>2. PICK n : n = Len(visit)
  OBVIOUS
<1>3. /\ n \in Nat \ {0} /\ DOMAIN visit = 1..n /\ Called = visit[n].block
      /\ \A k \in DOMAIN visit : visit[k].block \in Reachable(fn)
  BY <1>1, <1>2, Calling
<1>4. PICK depth \in [Blocks -> Nat] : VisitedOnce(depth)
  BY DEF TauInv
<1>5. \A k \in DOMAIN visit : Above[visit[k].block] \subseteq {visit[m].block : m \in 1..k}
  BY <1>4 DEF VisitedOnce
<1>6. \A b \in Above[Called] : \E k \in DOMAIN visit : visit[k].block = b
  BY <1>3, <1>5
<1>7. ASSUME NEW j \in DOMAIN visit
      PROVE  \A k \in DOMAIN visit : j <= k => visit[j].block \in Above[visit[k].block]
  <2> DEFINE S == {k \in Nat : k \in DOMAIN visit /\ j <= k => visit[j].block \in Above[visit[k].block]}
  <2>1. 0 \in S
    BY <1>3
  <2>2. ASSUME NEW k \in Nat, k \in S PROVE k + 1 \in S
    <3> SUFFICES ASSUME k + 1 \in DOMAIN visit, j <= k + 1
                 PROVE  visit[j].block \in Above[visit[k + 1].block]
      OBVIOUS
    <3>1. CASE j = k + 1
      BY <1>1, <1>3, <3>1, AboveItself
    <3>2. CASE j # k + 1
      <4>1. k \in DOMAIN visit /\ j <= k
        BY <1>3, <3>2
      <4>2. visit[j].block \in Above[visit[k].block]
        BY <2>2, <4>1
      <4>3. visit[k + 1].block \in DOMAIN DT /\ DT[visit[k + 1].block] = visit[k].block
        BY <1>1, <4>1 DEF Chain
      <4> QED
        BY <1>1, <4>2, <4>3, AboveEquation
    <3> QED
      BY <3>1, <3>2
  <2>3. \A k \in Nat : k \in S
    <3> HIDE DEF S
    <3> QED
      BY <2>1, <2>2, SetInduction
  <2> QED
    BY <1>3, <2>3
<1> QED
  BY <1>2, <1>3, <1>6, <1>7

\* A block is searched when the call of it has come to its children, and then so are those
\* above it.
LEMMA SearchedAbove ==
    ASSUME TauInv, Searching
    PROVE  /\ Searched \subseteq Reachable(fn) /\ Searched \subseteq Blocks
           /\ \A k \in DOMAIN visit : ~ (pc \in {"search", "rename"} /\ k = Len(visit))
                                          => visit[k].block \in Searched
           /\ pc \in {"search", "rename"} => Called \notin Searched
           /\ \A b \in Above[Called] : b # Called => b \in Searched
<1>1. Ground /\ Chain /\ visit # << >>
  BY DEF TauInv, Chain
<1>2. PICK n : n = Len(visit)
  OBVIOUS
<1>3. /\ n \in Nat \ {0} /\ DOMAIN visit = 1..n /\ Called = visit[n].block
      /\ \A k \in DOMAIN visit : visit[k].block \in Reachable(fn)
  BY <1>1, <1>2, Calling
<1>4. PICK depth \in [Blocks -> Nat] : VisitedOnce(depth)
  BY DEF TauInv
<1>5. \A k \in DOMAIN visit : Above[visit[k].block] \subseteq {visit[m].block : m \in 1..k}
  BY <1>4 DEF VisitedOnce
<1>6. ASSUME NEW k \in DOMAIN visit, ~ (pc \in {"search", "rename"} /\ k = n)
      PROVE  visit[k].block \in Searched
  <2>1. \A m \in 1..k : m \in DOMAIN visit
    BY <1>3
  <2>2. ASSUME NEW j \in DOMAIN visit, NEW c \in visit[j].todo, c \in Above[visit[k].block]
        PROVE  FALSE
    <3>1. PICK m \in 1..k : visit[m].block = c
      BY <1>5, <2>2
    <3> QED
      BY <1>1, <2>1, <2>2, <3>1 DEF Chain
  <2>3. pc \in {"search", "rename"} => Called \notin Above[visit[k].block]
    <3> SUFFICES ASSUME pc \in {"search", "rename"}, Called \in Above[visit[k].block] PROVE FALSE
      OBVIOUS
    <3>1. PICK m \in 1..k : visit[m].block = visit[n].block
      BY <1>3, <1>5
    <3>2. m = n
      BY <1>1, <1>3, <2>1, <3>1 DEF Chain
    <3> QED
      BY <1>3, <1>6, <3>2
  <2> QED
    BY <1>3, <2>2, <2>3 DEF Searched, Awaited
<1>7. pc \in {"search", "rename"} => Called \notin Searched
  BY <1>1, <1>3, AboveItself DEF Searched, Awaited
<1>8. \A b \in Above[Called] : b # Called => b \in Searched
  BY <1>2, <1>6, CallsAbove
<1> QED
  BY <1>1, <1>2, <1>6, <1>7, <1>8, GroundForm DEF Searched

\* When a call ends, all blocks below it are searched.
LEMMA SearchedBelow ==
    ASSUME TauInv, pc = "pop", ToVisit = {}, NEW b \in Reachable(fn), Called \in Above[b]
    PROVE  b \in Searched
<1>1. Ground /\ Chain /\ visit # << >> /\ Searching
  BY DEF TauInv, Chain, Searching
<1>2. PICK n : n = Len(visit)
  OBVIOUS
<1>3. /\ n \in Nat \ {0} /\ DOMAIN visit = 1..n /\ Called = visit[n].block /\ ToVisit = visit[n].todo
      /\ \A k \in DOMAIN visit : visit[k].block \in Reachable(fn) /\ visit[k].todo \subseteq DOMAIN DT
  BY <1>1, <1>2, Calling
<1>4. PICK depth \in [Blocks -> Nat] : VisitedOnce(depth)
  BY DEF TauInv
<1>5. \A k \in DOMAIN visit : Above[visit[k].block] \subseteq {visit[m].block : m \in 1..k}
  BY <1>1, <1>4 DEF VisitedOnce
<1> SUFFICES ASSUME NEW k \in DOMAIN visit, NEW c \in visit[k].todo, c \in Above[b] PROVE FALSE
  BY DEF Searched, Awaited
<1>6. c \in DOMAIN DT /\ DT[c] = visit[k].block /\ \A m \in DOMAIN visit : visit[m].block # c
  BY <1>1, <1>3 DEF Chain
<1>7. Called \notin Above[c]
  <2> SUFFICES ASSUME Called \in Above[c] PROVE FALSE
    OBVIOUS
  <2>1. Called \in Above[visit[k].block]
    BY <1>1, <1>3, <1>6, AboveEquation
  <2>2. PICK m \in 1..k : visit[m].block = visit[n].block
    BY <1>3, <1>5, <2>1
  <2>3. m = n
    BY <1>1, <1>3, <2>2 DEF Chain
  <2>4. k = n
    BY <1>3, <2>3
  <2> QED
    BY <1>3, <2>4
<1>8. c \in Above[Called]
  BY <1>1, <1>7, AboveOrder
<1> QED
  BY <1>1, <1>6, <1>8, CallsAbove

----------------------------------------------------------------------------
(* What a use is renamed to.                                               *)

\* What is on top of the stack of phi z is its name at a block c that is, with those above
\* it, a block of a call in progress, if just the taus of z above c were pushed.
LEMMA TopIsName ==
    ASSUME TauInv, Searching, pc # "pop", NEW z \in DOMAIN renaming_stack,
           NEW c, Above[c] \subseteq Above[Called],
           \A t \in LiveTaus : t.phi = z /\ t.at \in Above[c] => <<t.at, z>> \in hasTau,
           \A b \in Above[Called] : <<b, z>> \in hasTau => b \in Above[c]
    PROVE  IsNameOf(Last(renaming_stack[z]), z, c)
<1> DEFINE above == {t \in LiveTaus : t.phi = z /\ t.at \in Above[c]}
<1>1. PICK s : s = renaming_stack[z]
  OBVIOUS
<1>2. PICK l : l = Len(s)
  OBVIOUS
<1>3. /\ l \in Nat \ {0} /\ DOMAIN s = 1..l /\ l \in DOMAIN s /\ Last(s) = s[l] /\ OnStack(z, s)
      /\ s[1] = z
  BY <1>1, <1>2, TopStands DEF OnStack
<1>4. Ground /\ Chain /\ visit # << >> /\ TausForm
  BY DEF TauInv, Chain, TextForm
<1>5. Called = visit[Len(visit)].block /\ Len(visit) \in DOMAIN visit /\ DOMAIN visit = 1..Len(visit)
      /\ Len(visit) \in Nat
  BY <1>4, Calling
<1>6. \A n \in DOMAIN s : n # 1 =>
          /\ s[n] \in above
          /\ \E k \in DOMAIN visit : visit[k].block = s[n].at
  <2> SUFFICES ASSUME NEW n \in DOMAIN s, n # 1
               PROVE  s[n] \in above /\ \E k \in DOMAIN visit : visit[k].block = s[n].at
    OBVIOUS
  <2>1. s[n] \in LiveTaus /\ s[n].phi = z
    BY <1>3 DEF OnStack
  <2>2. PICK k \in DOMAIN visit : visit[k].block = s[n].at /\ <<s[n].at, z>> \in hasTau
    BY <1>3 DEF OnStack
  <2>3. k <= Len(visit)
    BY <1>5
  <2>4. s[n].at \in Above[Called]
    BY <1>5, <2>2, <2>3, CallsAbove
  <2> QED
    BY <2>1, <2>2, <2>4
<1>7. \A t \in above : \E n \in DOMAIN s : n # 1 /\ s[n] = t
  <2> SUFFICES ASSUME NEW t \in above PROVE \E n \in DOMAIN s : n # 1 /\ s[n] = t
    OBVIOUS
  <2>1. PICK k \in DOMAIN visit : visit[k].block = t.at
    BY CallsAbove
  <2>2. <<visit[k].block, z>> \in hasTau /\ Unpopped(k, z)
    BY <2>1 DEF Unpopped
  <2>3. PICK n \in DOMAIN s : n # 1 /\ s[n].at = t.at
    BY <1>3, <2>1, <2>2 DEF OnStack
  <2>4. s[n] = t
    BY <1>4, <1>6, <2>3, OneTauOfPhi
  <2> QED
    BY <2>3, <2>4
<1>8. CASE above = {}
  <2>1. l = 1
    BY <1>3, <1>6, <1>8
  <2> QED
    BY <1>1, <1>3, <1>8, <2>1 DEF IsNameOf
<1>9. CASE above # {}
  <2>1. l # 1
    BY <1>3, <1>7, <1>9
  <2>2. s[l] \in above
    BY <1>3, <1>6, <2>1
  <2>3. ASSUME NEW t \in above PROVE t.at \in Above[s[l].at]
    <3>1. PICK n \in DOMAIN s : n # 1 /\ s[n] = t
      BY <1>7
    <3>2. PICK j, k \in DOMAIN visit : visit[j].block = t.at /\ visit[k].block = s[l].at
      BY <1>3, <1>6, <2>1, <3>1
    <3>3. CASE n = l
      <4>1. t.at \in Reachable(fn)
        BY <1>4, <3>2, Calling
      <4> QED
        BY <1>4, <3>1, <3>3, <4>1, AboveItself
    <3>4. CASE n # l
      <4>1. n < l
        BY <1>3, <3>4
      <4>2. j < k
        BY <1>3, <3>1, <3>2, <4>1 DEF OnStack
      <4>3. j <= k
        BY <1>5, <4>2
      <4> QED
        BY <3>2, <4>3, CallsAbove
    <3> QED
      BY <3>3, <3>4
  <2>4. Last(renaming_stack[z]) = s[l]
    BY <1>1, <1>3
  <2> QED
    BY <1>9, <2>2, <2>3, <2>4 DEF IsNameOf
<1> QED
  BY <1>8, <1>9

\* A name is a matter of the taus that are there.
LEMMA SameName ==
    ASSUME Above' = Above, LiveTaus' \subseteq LiveTaus, NEW v, NEW z, NEW b, IsNameOf(v, z, b),
           v \in LiveTaus => v \in LiveTaus'
    PROVE  IsNameOf(v, z, b)'
BY DEF IsNameOf

LEMMA SameRenamed ==
    ASSUME Above' = Above, Phis' = Phis, LiveTaus' \subseteq LiveTaus,
           NEW old, NEW v, NEW b, IsRenamed(old, v, b), v \in LiveTaus => v \in LiveTaus'
    PROVE  IsRenamed(old, v, b)'
BY SameName DEF IsRenamed

\* A name is the phi or a tau of it.
LEMMA NameStands ==
    ASSUME NEW v, NEW z, NEW b, IsNameOf(v, z, b)
    PROVE  Stands(v, z)
BY DEF IsNameOf, Stands

----------------------------------------------------------------------------
(* The names in a step of either pass.                                     *)

\* What was searched hangs on the calls in progress.
LEMMA SameSearched ==
    ASSUME UNCHANGED <<fn, DT, visit>>,
           pc \in {"search", "rename"} <=> pc' \in {"search", "rename"}
    PROVE  Searched' = Searched /\ Above' = Above /\ Reachable(fn)' = Reachable(fn)
<1>1. Above' = Above
  BY SameAbove
<1>2. Reachable(fn)' = Reachable(fn) /\ Called' = Called
  BY DEF Reachable, Called
<1>3. \A b : Awaited(b)' <=> Awaited(b)
  BY <1>1, <1>2 DEF Awaited
<1> QED
  BY <1>1, <1>2, <1>3 DEF Searched

\* Before Search nothing is claimed but where taus are inserted.
LEMMA InsertingName ==
    ASSUME Starting', TausReachable'
    PROVE  NameInv'
BY DEF NameInv, Starting, Searching, Pushed, Named, InnermostTau, renamed

LEMMA ConnectName ==
    ASSUME NameInv, Connect \/ Connected \/ NextBlock \/ FirstPhi \/ WalkEnds
    PROVE  NameInv'
<1>1. UNCHANGED <<fn, taus>> /\ pc \in {"connect", "insert", "walk"} /\ pc' \in {"connect", "insert", "walk"}
  <2>1. Connect => UNCHANGED <<fn, taus>> /\ pc = "connect" /\ pc' = "connect"
    BY DEF Connect, textVars, WalkNext, Block
  <2>2. Connected \/ NextBlock => UNCHANGED <<fn, taus>> /\ pc \in {"connect", "insert"} /\ pc' = "insert"
    BY DEF Connected, NextBlock, textVars
  <2>3. FirstPhi \/ WalkEnds => UNCHANGED <<fn, taus>> /\ pc \in {"insert", "walk"} /\ pc' \in {"insert", "walk"}
    BY DEF FirstPhi, WalkEnds, textVars, walkVars
  <2> QED
    BY <2>1, <2>2, <2>3
<1>2. LiveTaus' = LiveTaus /\ Reachable(fn)' = Reachable(fn)
  BY <1>1 DEF LiveTaus, Reachable
<1> QED
  BY <1>1, <1>2, InsertingName DEF NameInv, TausReachable, Starting

\* Taus are inserted in blocks of the traversal.
LEMMA InsertTausName ==
    ASSUME TauInv', NameInv, Starting, Starting', fn' = fn,
           NEW z, NEW hot, DOMAIN hot \subseteq Reachable(fn), Insert(z, hot)
    PROVE  NameInv'
<1>1. Reachable(fn)' = Reachable(fn)
  BY DEF Reachable
<1>2. ASSUME NEW b \in Blocks, NEW t \in ToSet(taus'[b]) PROVE t.at \in Reachable(fn)
  <2>1. t.at = b
    BY DEF TauInv, TextForm, TausForm, ToSet
  <2>2. CASE b \in DOMAIN hot
    BY <2>1, <2>2
  <2>3. CASE b \notin DOMAIN hot
    <3>1. taus'[b] = taus[b]
      BY <2>3 DEF Insert
    <3> QED
      BY <3>1 DEF NameInv, TausReachable, LiveTaus
  <2> QED
    BY <2>2, <2>3
<1> QED
  BY <1>1, <1>2, InsertingName DEF TausReachable, LiveTaus

LEMMA InsertName ==
    ASSUME TauInv', NameInv, InsertTaus
    PROVE  NameInv'
<1>1. PICK z : z = fn.phis[fn.rpo[pos]][it]
  OBVIOUS
<1>2. PICK hot : hot = [c \in Refining(fn.rpo[pos]) |-> {}]
  OBVIOUS
<1>3. Insert(z, hot) /\ fn' = fn /\ pc = "insert" /\ pc' = "insert"
  BY <1>1, <1>2 DEF InsertTaus, walkVars
<1>4. DOMAIN hot \subseteq Reachable(fn)
  BY <1>2 DEF Refining
<1> QED
  BY <1>3, <1>4, InsertTausName DEF Starting

LEMMA FirstInsertName ==
    ASSUME TauInv', NameInv, FirstInsertTau
    PROVE  NameInv'
<1>1. fn' = fn /\ pc = "walk" /\ pc' = "walk" /\ ~ BreaksOff
  BY DEF FirstInsertTau, walkVars
<1>2. curr \in Reachable(fn)
  BY <1>1 DEF BreaksOff, curr, Reachable
<1>3. CASE UNCHANGED <<taus, operand, args>>
  <2>1. LiveTaus' = LiveTaus /\ Reachable(fn)' = Reachable(fn)
    BY <1>1, <1>3 DEF LiveTaus, Reachable
  <2> QED
    BY <1>1, <2>1, InsertingName DEF NameInv, TausReachable, Starting
<1>4. CASE ~ UNCHANGED <<taus, operand, args>>
  <2>1. PICK z : z = fn.phis[BB][it]
    OBVIOUS
  <2>2. PICK hot : hot = [c \in {curr} |-> {d[1] : d \in defAccumulator[curr]}]
    OBVIOUS
  <2>3. Insert(z, hot)
    BY <1>4, <2>1, <2>2 DEF FirstInsertTau
  <2>4. DOMAIN hot \subseteq Reachable(fn)
    BY <1>2, <2>2
  <2> QED
    BY <1>1, <2>3, <2>4, InsertTausName DEF Starting
<1> QED
  BY <1>3, <1>4

\* Search begins: nothing is searched.
LEMMA NothingSearched ==
    ASSUME TauInv, Inserted
    PROVE  Called' = fn.entry /\ ToVisit' = {c \in DOMAIN DT : DT[c] = fn.entry} /\ Searched' = {}
<1>1. UNCHANGED <<fn, DT>> /\ pc' = "search" /\ visit' = <<Call(fn.entry)>> /\ Ground
  BY DEF Inserted, walkVars, TauInv
<1>2. Above' = Above /\ Reachable(fn)' = Reachable(fn)
  BY <1>1, SameAbove DEF Reachable
<1>3. Called' = fn.entry /\ ToVisit' = {c \in DOMAIN DT : DT[c] = fn.entry}
  <2>1. PICK r : r = Call(fn.entry)
    OBVIOUS
  <2>2. visit' = <<r>> /\ Last(<<r>>) = r
    BY <1>1, <2>1 DEF Last
  <2> QED
    BY <2>1, <2>2 DEF Called, ToVisit, Call
<1>4. \A b \in Reachable(fn) : fn.entry \in Above[b]
  BY <1>1, AboveDominates, DominatorsOfEntry DEF Ground
<1> QED
  BY <1>1, <1>2, <1>3, <1>4 DEF Searched, Awaited

LEMMA InsertedName ==
    ASSUME TauInv, TauInv', NameInv, Inserted
    PROVE  NameInv'
<1>1. /\ UNCHANGED <<fn, textVars, DT, searchVars, it>>
      /\ pc = "insert" /\ pc' = "search" /\ visit' = <<Call(fn.entry)>>
  BY DEF Inserted, walkVars
<1>2. Starting /\ Ground /\ Searching' /\ ~ Starting'
  BY <1>1 DEF Starting, Searching, TauInv
<1>3. /\ Above' = Above /\ LiveTaus' = LiveTaus /\ TauNames' = TauNames /\ Phis' = Phis
      /\ Reachable(fn)' = Reachable(fn)
  BY <1>1, <1>2, SameGround, SameText DEF Reachable
<1>4. Called' = fn.entry /\ ToVisit' = {c \in DOMAIN DT : DT[c] = fn.entry} /\ Searched' = {}
  BY NothingSearched
<1>5. phiOp' = fn.op /\ useOf' = fn.use /\ DOMAIN stackmap' = {}
  BY <1>1, <1>2 DEF TauInv, Untouched, textVars, searchVars
<1>6. TausReachable' /\ TodoInOrder'
  BY <1>1, <1>2, <1>3, <1>4 DEF NameInv, TausReachable, TodoInOrder
<1>7. Pushed'
  BY <1>1, <1>4 DEF Pushed
<1>8. Named'
  <2>1. BodyNamed'
    BY <1>1, <1>4, <1>5 DEF BodyNamed
  <2>2. EdgesNamed'
    BY <1>1, <1>2, <1>3, <1>4, <1>5, ReadNoTau DEF EdgesNamed
  <2>3. TausNamed'
    BY <1>5 DEF TausNamed
  <2> QED
    BY <2>1, <2>2, <2>3 DEF Named
<1>9. InnermostTau'
  BY <1>1 DEF InnermostTau, renamed
<1> QED
  BY <1>6, <1>7, <1>8, <1>9 DEF NameInv

\* Renaming the operand of a phi where the phi stands makes it a tau, if anything, that is
\* above the block at hand.
LEMMA RenamedAtHome ==
    ASSUME TauInv, pc = "search", NEW z \in Phis, HomeOf(z) = Called, NEW u \in DOMAIN fn.op[z],
           Renamed(phiOp[z][u]) # phiOp[z][u]
    PROVE  LET t == Renamed(phiOp[z][u])
           IN /\ phiOp[z][u] = fn.op[z][u] /\ fn.op[z][u] \in Phis
              /\ t \in LiveTaus /\ t.phi = fn.op[z][u] /\ t \in DOMAIN stackmap
              /\ t.at \in Above[Called] /\ t.at # Called
              /\ u \in Reachable(fn) => t.at \in Above[u]
<1>1. PICK v, t : v = phiOp[z][u] /\ t = Renamed(v)
  OBVIOUS
<1>2. Searching /\ Ground /\ Chain /\ visit # << >>
  BY DEF Searching, TauInv, Chain
<1>3. PICK depth \in [Blocks -> Nat] : VisitedOnce(depth) /\ Mapped(depth)
  BY DEF TauInv
<1>4. v \in DOMAIN renaming_stack /\ t = Last(renaming_stack[v])
  BY <1>1 DEF Renamed
<1>5. PICK s : s = renaming_stack[v]
  OBVIOUS
<1>6. PICK l : l = Len(s)
  OBVIOUS
<1>7. v \in Phis /\ v \notin TauNames /\ l \in DOMAIN s /\ t = s[l] /\ OnStack(v, s)
  BY <1>2, <1>4, <1>5, <1>6, TopStands
<1>8. l # 1
  BY <1>1, <1>7 DEF OnStack
<1>9. t \in LiveTaus /\ t.phi = v /\ t \in DOMAIN stackmap
  BY <1>7, <1>8 DEF OnStack
<1>10. PICK k \in DOMAIN visit : visit[k].block = t.at /\ <<t.at, v>> \in hasTau
  BY <1>7, <1>8 DEF OnStack
<1>11. PICK n : n = Len(visit)
  OBVIOUS
<1>12. /\ n \in Nat \ {0} /\ DOMAIN visit = 1..n /\ Called = visit[n].block /\ n \in DOMAIN visit
       /\ Called \in Reachable(fn)
  BY <1>2, <1>11, Calling
<1>13. depth[Called] = 0 /\ depth[t.at] # 0
  BY <1>2, <1>3, <1>10, <1>11, <1>12 DEF VisitedOnce, Mapped
<1>14. t.at \in Above[Called] /\ t.at # Called
  <2>1. k <= n
    BY <1>12
  <2> QED
    BY <1>2, <1>10, <1>12, <1>13, <2>1, CallsAbove
<1>15. v = fn.op[z][u]
  <2>1. Stands(v, fn.op[z][u])
    BY <1>1 DEF TauInv, ReadsOriginal
  <2> QED
    BY <1>7, <2>1, LiveInBlock DEF Stands, TauInv, TextForm
<1>16. u \in Reachable(fn) => t.at \in Above[u]
  <2> SUFFICES ASSUME u \in Reachable(fn) PROVE t.at \in Above[u]
    OBVIOUS
  <2>1. Called \in Succs(fn, u)
    BY <1>2, PhiPlace
  <2> QED
    BY <1>2, <1>12, <1>14, <2>1, AbovePredecessors
<1> QED
  BY <1>1, <1>7, <1>9, <1>14, <1>15, <1>16

\* The phis of a block are renamed, and each is pushed.
LEMMA SearchName ==
    ASSUME TauInv, TauInv', NameInv, Search
    PROVE  NameInv'
<1> DEFINE phis == ToSet(fn.phis[Called])
<1>1. /\ UNCHANGED <<fn, taus, operand, args, useOf, DT, visit, hasTau>>
      /\ pc = "search" /\ pc' = "rename" /\ it' = 1
      /\ phiOp' = [z \in Phis |->
                        IF z \in phis
                        THEN [u \in DOMAIN phiOp[z] |-> Renamed(phiOp[z][u])]
                        ELSE phiOp[z]]
      /\ stackmap' = Over([z \in phis |-> z], stackmap)
  BY DEF Search, walkVars
<1>2. Searching /\ Searching' /\ ~ Starting /\ ~ Starting' /\ Ground /\ Chain /\ visit # << >>
  BY <1>1 DEF Searching, Starting, TauInv, Chain
<1>3. Called \in Blocks
  BY <1>2, Calling
<1>4. /\ Above' = Above /\ Called' = Called /\ ToVisit' = ToVisit /\ Searched' = Searched
      /\ TauNames' = TauNames /\ Phis' = Phis /\ Insts' = Insts /\ LiveTaus' = LiveTaus
      /\ Reachable(fn)' = Reachable(fn)
  BY <1>1, <1>2, SameGround, SameSearched DEF LiveTaus, Called, ToVisit
<1>5. DOMAIN stackmap' = phis \cup DOMAIN stackmap
  BY <1>1 DEF Over
<1>6. \A z \in phis : z \in Phis /\ HomeOf(z) = Called
  BY <1>2, <1>3, PhiAtHome
<1>7. \A z \in Phis : \A u \in DOMAIN fn.op[z] :
        phiOp'[z][u] = IF z \in phis THEN Renamed(phiOp[z][u]) ELSE phiOp[z][u]
  BY <1>1 DEF TauInv, TextForm
<1>8. \A z \in Phis : \A u \in DOMAIN fn.op[z] : phiOp'[z][u] # phiOp[z][u] =>
        LET t == phiOp'[z][u]
        IN /\ phiOp[z][u] = fn.op[z][u] /\ fn.op[z][u] \in Phis
           /\ t \in LiveTaus /\ t.phi = fn.op[z][u] /\ t \in DOMAIN stackmap
           /\ u \in Reachable(fn) => t.at \in Above[u]
  BY <1>1, <1>6, <1>7, RenamedAtHome
<1>9. TausReachable' /\ TodoInOrder'
  BY <1>1, <1>2, <1>4 DEF NameInv, TausReachable, TodoInOrder
<1>10. Pushed'
  <2>1. \A t \in LiveTaus : t.at \in Searched => IsPushed(t)'
    BY <1>1, <1>2, <1>5 DEF NameInv, Pushed, IsPushed
  <2>2. \A k \in DOMAIN taus[Called] : ~ (k < 1)
    <3>1. taus[Called] \in Seq(TauNames)
      BY <1>3 DEF TauInv, TextForm, TausForm
    <3> QED
      BY <3>1
  <2> QED
    BY <1>1, <1>4, <2>1, <2>2 DEF Pushed
<1>11. Named'
  <2> SUFFICES ASSUME DistinctOperands(fn) PROVE BodyNamed' /\ EdgesNamed' /\ TausNamed'
    BY <1>1, <1>4 DEF Named, DistinctOperands
  <2>1. BodyNamed /\ EdgesNamed /\ TausNamed
    BY <1>2 DEF NameInv, Named
  <2>2. \A old, v, b : IsRenamed(old, v, b) => IsRenamed(old, v, b)'
    BY <1>4, SameRenamed
  <2>3. BodyNamed'
    BY <1>1, <1>4, <2>1, <2>2 DEF BodyNamed, IsRenamed
  <2>4. ASSUME NEW z \in Phis, NEW u \in DOMAIN fn.op[z], u \in Searched
        PROVE  IsRenamed(fn.op[z][u], phiOp[z][u], u)'
    <3>1. IsRenamed(fn.op[z][u], phiOp[z][u], u) /\ u \in Reachable(fn)
      BY <2>1, <2>4 DEF EdgesNamed, Searched
    <3>2. CASE phiOp'[z][u] = phiOp[z][u]
      BY <1>1, <1>4, <3>1, <3>2 DEF IsRenamed, IsNameOf
    <3>3. CASE phiOp'[z][u] # phiOp[z][u]
      <4>1. PICK t : t = phiOp'[z][u]
        OBVIOUS
      <4>2. /\ phiOp[z][u] = fn.op[z][u] /\ fn.op[z][u] \in Phis
            /\ t \in LiveTaus /\ t.phi = fn.op[z][u] /\ t.at \in Above[u]
        BY <1>8, <3>1, <3>3, <4>1
      <4>3. phiOp[z][u] \in LiveTaus
        BY <3>1, <4>2 DEF IsRenamed, IsNameOf
      <4> QED
        BY <1>2, <4>2, <4>3, LiveInBlock, ReadNoTau DEF TauInv, TextForm
    <3> QED
      BY <3>2, <3>3
  <2>5. ASSUME NEW z \in Phis, NEW u \in DOMAIN fn.op[z], u \notin Searched, phiOp'[z][u] \in TauNames
        PROVE  phiOp'[z][u] \in DOMAIN stackmap' /\ (u \in Reachable(fn) => phiOp'[z][u].at \in Above[u])
    <3>1. CASE phiOp'[z][u] = phiOp[z][u]
      BY <1>5, <2>1, <2>5, <3>1 DEF EdgesNamed
    <3>2. CASE phiOp'[z][u] # phiOp[z][u]
      BY <1>5, <1>8, <3>2
    <3> QED
      BY <3>1, <3>2
  <2>6. EdgesNamed'
    BY <1>1, <1>4, <2>4, <2>5 DEF EdgesNamed
  <2>7. TausNamed'
    <3>1. \A t \in LiveTaus : t \in DOMAIN stackmap' => t \in DOMAIN stackmap
      BY <1>2, <1>5, <1>6, LiveInBlock, ReadNoTau DEF TauInv, TextForm
    <3>2. \A t \in LiveTaus : t \in DOMAIN stackmap' => IsNameOf(operand[t], t.phi, DT[t.at])'
      BY <1>1, <1>4, <2>1, <3>1 DEF TausNamed, IsNameOf
    <3> QED
      BY <1>1, <1>4, <3>2 DEF TausNamed
  <2> QED
    BY <2>3, <2>6, <2>7
<1>12. InnermostTau'
  BY <1>1 DEF InnermostTau, renamed
<1> QED
  BY <1>9, <1>10, <1>11, <1>12 DEF NameInv

\* The tau at hand reads the innermost one above it, or its phi.
LEMMA NameOfTauHere ==
    ASSUME TauInv, NameInv, pc = "rename", it \in DOMAIN taus[Called]
    PROVE  LET t == taus[Called][it]
           IN /\ t \in LiveTaus /\ t.at = Called /\ operand[t] = t.phi
              /\ t.phi \in DOMAIN renaming_stack
              /\ Called \in DOMAIN DT
              /\ IsNameOf(Last(renaming_stack[t.phi]), t.phi, DT[Called])
<1>1. PICK t, z : t = taus[Called][it] /\ z = t.phi
  OBVIOUS
<1>2. Searching /\ Ground /\ Chain /\ visit # << >>
  BY DEF Searching, TauInv, Chain
<1>3. PICK depth \in [Blocks -> Nat] : VisitedOnce(depth) /\ Mapped(depth)
  BY DEF TauInv
<1>4. /\ t \in LiveTaus /\ t.at = Called /\ z \in Phis /\ operand[t] = z
      /\ z \in DOMAIN renaming_stack /\ <<Called, z>> \notin hasTau
  BY <1>1, <1>3, TauHere
<1>5. Called \in DOMAIN DT
  <2>1. PICK b \in Above[Called] : b \in Blocks /\ z \in ToSet(fn.phis[b])
    BY <1>1, <1>2, <1>4 DEF TauInv, BelowPhi
  <2>2. b # fn.entry
    BY <1>2, <1>4, <2>1, PhiAtHome, PhiPlace
  <2>3. Called # fn.entry
    BY <1>2, <2>1, <2>2, AboveEquation
  <2> QED
    BY <1>2, <2>3, Calling, GroundForm
<1>6. Above[Called] = {Called} \cup Above[DT[Called]] /\ Called \notin Above[DT[Called]]
  BY <1>2, <1>5, AboveParent
<1>7. \A s \in LiveTaus : s.phi = z /\ s.at \in Above[DT[Called]] => <<s.at, z>> \in hasTau
  <2> SUFFICES ASSUME NEW s \in LiveTaus, s.phi = z, s.at \in Above[DT[Called]]
               PROVE  <<s.at, z>> \in hasTau
    OBVIOUS
  <2>1. s.at \in Searched
    BY <1>2, <1>6, SearchedAbove
  <2> QED
    BY <1>2, <2>1 DEF NameInv, Pushed, IsPushed
<1>8. \A b \in Above[Called] : <<b, z>> \in hasTau => b \in Above[DT[Called]]
  BY <1>4, <1>6
<1>9. IsNameOf(Last(renaming_stack[z]), z, DT[Called])
  BY <1>2, <1>4, <1>6, <1>7, <1>8, TopIsName
<1> QED
  BY <1>1, <1>4, <1>5, <1>9

\* The tau at hand is renamed and pushed.
LEMMA SearchTauName ==
    ASSUME TauInv, TauInv', NameInv, SearchTau
    PROVE  NameInv'
<1>1. PICK t, z, q : t = taus[Called][it] /\ z = t.phi /\ q = Last(renaming_stack[z])
  OBVIOUS
<1>2. pc = "rename" /\ it \in DOMAIN taus[Called] /\ pc' = "rename"
  BY DEF SearchTau
<1>3. Searching /\ Searching' /\ ~ Starting /\ ~ Starting' /\ Ground /\ Chain /\ visit # << >>
  BY <1>2 DEF Searching, Starting, TauInv, Chain
<1>4. /\ t \in LiveTaus /\ t.at = Called /\ operand[t] = z /\ z \in DOMAIN renaming_stack
      /\ Called \in DOMAIN DT /\ IsNameOf(q, z, DT[Called])
  BY <1>1, <1>2, NameOfTauHere
<1>5. /\ UNCHANGED <<fn, taus, phiOp, useOf, DT, visit>> /\ it' = it + 1
      /\ operand' = [operand EXCEPT ![t] = q]
      /\ stackmap' = Over([v \in {t} |-> z], stackmap)
      /\ hasTau' = hasTau \cup {<<Called, z>>}
  <2>1. Renamed(operand[t]) = q
    BY <1>1, <1>4 DEF Renamed
  <2>2. stackmap[q] = z
    BY <1>1, <1>3, <1>4, TopMapped
  <2> QED
    BY <1>1, <2>1, <2>2 DEF SearchTau, walkVars
<1>6. /\ Above' = Above /\ Called' = Called /\ ToVisit' = ToVisit /\ Searched' = Searched
      /\ TauNames' = TauNames /\ Phis' = Phis /\ Insts' = Insts /\ LiveTaus' = LiveTaus
      /\ Reachable(fn)' = Reachable(fn)
  BY <1>2, <1>3, <1>5, SameGround, SameSearched DEF LiveTaus, Called, ToVisit
<1>7. DOMAIN stackmap' = {t} \cup DOMAIN stackmap
  BY <1>5 DEF Over
<1>8. /\ operand'[t] = q
      /\ \A s \in LiveTaus : s # t => operand'[s] = operand[s]
  BY <1>4, <1>5 DEF TauInv, TextForm
<1>9. TausReachable' /\ TodoInOrder'
  BY <1>2, <1>3, <1>5, <1>6 DEF NameInv, TausReachable, TodoInOrder
<1>10. Pushed'
  <2>1. \A s : IsPushed(s) => IsPushed(s)'
    BY <1>5, <1>7 DEF IsPushed
  <2>2. IsPushed(t)'
    BY <1>1, <1>4, <1>5, <1>7 DEF IsPushed
  <2>3. \A s \in LiveTaus : s.at \in Searched => IsPushed(s)'
    BY <1>3, <2>1 DEF NameInv, Pushed
  <2>4. ASSUME NEW k \in DOMAIN taus[Called], k < it + 1, NEW s, s = taus[Called][k]
        PROVE  s \in DOMAIN stackmap' /\ <<s.at, s.phi>> \in hasTau'
    <3>1. k \in Nat /\ it \in Nat
      <4>1. taus[Called] \in Seq(TauNames)
        BY <1>3, Calling DEF TauInv, TextForm, TausForm
      <4> QED
        BY <4>1 DEF TauInv, InsertedInOrder
    <3>2. k < it \/ k = it
      BY <2>4, <3>1
    <3>3. k < it => IsPushed(s)
      BY <1>2, <1>3, <2>4 DEF NameInv, Pushed
    <3> QED
      BY <1>1, <2>1, <2>2, <2>4, <3>2, <3>3 DEF IsPushed
  <2>5. \A k \in DOMAIN taus'[Called'] : k < it' =>
            taus'[Called'][k] \in DOMAIN stackmap'
            /\ <<taus'[Called'][k].at, taus'[Called'][k].phi>> \in hasTau'
    BY <1>5, <1>6, <2>4
  <2> QED
    BY <1>6, <2>3, <2>5 DEF Pushed, IsPushed
<1>11. Named'
  <2> SUFFICES ASSUME DistinctOperands(fn) PROVE BodyNamed' /\ EdgesNamed' /\ TausNamed'
    BY <1>5, <1>6 DEF Named, DistinctOperands
  <2>1. BodyNamed /\ EdgesNamed /\ TausNamed
    BY <1>3 DEF NameInv, Named
  <2>2. \A old, v, b : IsRenamed(old, v, b) => IsRenamed(old, v, b)'
    BY <1>6, SameRenamed
  <2>3. BodyNamed'
    BY <1>5, <1>6, <2>1, <2>2 DEF BodyNamed, IsRenamed
  <2>4. EdgesNamed'
    BY <1>5, <1>6, <1>7, <2>1, <2>2 DEF EdgesNamed, IsRenamed
  <2>5. \A s \in LiveTaus : s \in DOMAIN stackmap' => IsNameOf(operand'[s], s.phi, DT[s.at])
    BY <1>1, <1>4, <1>7, <1>8, <2>1 DEF TausNamed
  <2>6. TausNamed'
    BY <1>5, <1>6, <2>5 DEF TausNamed, IsNameOf
  <2> QED
    BY <2>3, <2>4, <2>6
<1>12. InnermostTau'
  BY <1>2 DEF InnermostTau, renamed
<1> QED
  BY <1>9, <1>10, <1>11, <1>12 DEF NameInv

\* When the taus of the block are pushed, the stack of a phi from above has its name here.
LEMMA NameHere ==
    ASSUME TauInv, NameInv, pc = "rename", it \notin DOMAIN taus[Called],
           NEW z \in Phis, DefinedAbove(fn, z, Called)
    PROVE  z \in DOMAIN renaming_stack /\ IsNameOf(Last(renaming_stack[z]), z, Called)
<1>1. Searching /\ Ground /\ Chain /\ visit # << >>
  BY DEF Searching, TauInv, Chain
<1>2. PICK depth \in [Blocks -> Nat] : VisitedOnce(depth) /\ Mapped(depth)
  BY DEF TauInv
<1>3. Called \in Blocks /\ Called \in Reachable(fn) /\ DOMAIN visit = 1..Len(visit) /\ Len(visit) \in Nat
  BY <1>1, Calling
<1>4. z \in DOMAIN renaming_stack
  <2>1. HomeOf(z) \in Above[Called] /\ z \in ToSet(fn.phis[HomeOf(z)])
    BY <1>1, <1>3, PhiReadAbove, PhiPlace
  <2>2. PICK k \in DOMAIN visit : visit[k].block = HomeOf(z)
    BY <1>1, <2>1, CallsAbove
  <2>3. depth[visit[k].block] # 0
    BY <1>1, <1>2, <1>3 DEF VisitedOnce
  <2> QED
    BY <1>1, <1>2, <2>1, <2>2, <2>3 DEF Mapped
<1>5. \A t \in LiveTaus : t.phi = z /\ t.at \in Above[Called] => <<t.at, z>> \in hasTau
  <2> SUFFICES ASSUME NEW t \in LiveTaus, t.phi = z, t.at \in Above[Called]
               PROVE  IsPushed(t)
    BY DEF IsPushed
  <2>1. CASE t.at # Called
    BY <1>1, <2>1, SearchedAbove DEF NameInv, Pushed
  <2>2. CASE t.at = Called
    <3>1. t \in ToSet(taus[Called]) /\ taus[Called] \in Seq(TauNames)
      BY <1>3, <2>2, LiveInBlock DEF TauInv, TextForm, TausForm
    <3>2. PICK k \in DOMAIN taus[Called] : t = taus[Called][k]
      BY <3>1 DEF ToSet
    <3>3. k < it
      <4>1. it \in Nat \ {0} /\ DOMAIN taus[Called] = 1..Len(taus[Called]) /\ Len(taus[Called]) \in Nat
        BY <3>1 DEF TauInv, InsertedInOrder
      <4> QED
        BY <4>1
    <3> QED
      BY <1>1, <3>2, <3>3 DEF NameInv, Pushed
  <2> QED
    BY <2>1, <2>2
<1> QED
  BY <1>1, <1>4, <1>5, TopIsName

\* When a block's uses are renamed, it is searched, and those below it are still to be.
LEMMA SearchesUses ==
    ASSUME TauInv, NameInv, SearchUses
    PROVE  Searched' = Searched \cup {Called}
<1>1. UNCHANGED <<fn, DT, visit>> /\ pc = "rename" /\ pc' = "searched"
  BY DEF SearchUses, walkVars
<1>2. Searching /\ Ground /\ Chain /\ visit # << >>
  BY <1>1 DEF Searching, TauInv, Chain
<1>3. Above' = Above /\ Reachable(fn)' = Reachable(fn)
  BY <1>1, SameAbove DEF Reachable
<1>4. /\ Called \in Reachable(fn) /\ ToVisit = visit[Len(visit)].todo /\ Len(visit) \in DOMAIN visit
      /\ ToVisit = {c \in DOMAIN DT : DT[c] = Called}
  BY <1>1, <1>2, Calling DEF NameInv, TodoInOrder
<1> DEFINE open(b) == \E k \in DOMAIN visit : \E c \in visit[k].todo : c \in Above[b]
<1>5. Searched' = {b \in Reachable(fn) : ~ open(b)}
  BY <1>1, <1>3 DEF Searched, Awaited
<1>6. ~ open(Called)
  <2> SUFFICES ASSUME NEW k \in DOMAIN visit, NEW c \in visit[k].todo, c \in Above[Called] PROVE FALSE
    OBVIOUS
  <2>1. PICK m \in DOMAIN visit : visit[m].block = c
    BY <1>2, CallsAbove
  <2> QED
    BY <1>2, <2>1 DEF Chain
<1>7. ASSUME NEW b \in Reachable(fn), b # Called, ~ open(b) PROVE b \in Searched
  <2> SUFFICES ASSUME Called \in Above[b] PROVE FALSE
    BY <1>7 DEF Searched, Awaited
  <2>1. PICK c \in Above[b] : c \in DOMAIN DT /\ DT[c] = Called
    BY <1>2, <1>7, ChildAbove
  <2> QED
    BY <1>4, <1>7, <2>1
<1>8. \A b \in Searched : b \in Reachable(fn) /\ ~ open(b)
  BY DEF Searched, Awaited
<1> HIDE DEF open
<1> QED
  BY <1>4, <1>5, <1>6, <1>7, <1>8

\* The uses in the block and on the edges out of it get their names, and no others change.
LEMMA UsesRenamed ==
    ASSUME TauInv, NameInv, SearchUses, DistinctOperands(fn)
    PROVE  /\ \A i \in ToSet(fn.body[Called]) : IsRenamed(fn.use[i], useOf'[i], Called)
           /\ \A i \in Insts : i \notin ToSet(fn.body[Called]) => useOf'[i] = useOf[i]
           /\ \A z \in Phis : Called \in DOMAIN fn.op[z] =>
                 IsRenamed(fn.op[z][Called], phiOp'[z][Called], Called)
           /\ \A z \in Phis : \A u \in DOMAIN fn.op[z] : u # Called => phiOp'[z][u] = phiOp[z][u]
<1>1. /\ pc = "rename" /\ it \notin DOMAIN taus[Called]
      /\ useOf' = [i \in Insts |-> IF i \in ToSet(fn.body[Called]) THEN Renamed(useOf[i])
                                   ELSE useOf[i]]
      /\ phiOp' = [z \in Phis |->
                    IF HomeOf(z) \in Succs(fn, Called)
                    THEN [u \in DOMAIN phiOp[z] |->
                             Sub(phiOp[z][Called], Outgoing(phiOp[z][Called]), phiOp[z][u])]
                    ELSE phiOp[z]]
  BY DEF SearchUses
<1>2. Searching /\ Ground /\ Chain /\ visit # << >> /\ BodyNamed /\ EdgesNamed
  BY <1>1 DEF Searching, TauInv, Chain, NameInv, Named
<1>3. Called \in Blocks /\ Called \in Reachable(fn) /\ Called \notin Searched
  BY <1>1, <1>2, Calling, SearchedAbove
<1>4. ASSUME NEW i \in ToSet(fn.body[Called]) PROVE IsRenamed(fn.use[i], useOf'[i], Called)
  <2>1. i \in Insts /\ DefinedAbove(fn, fn.use[i], Called) /\ useOf[i] = fn.use[i]
    BY <1>2, <1>3, InstPlace DEF BodyNamed
  <2>2. useOf'[i] = Renamed(fn.use[i])
    BY <1>1, <2>1
  <2>3. CASE fn.use[i] \in Phis
    BY <1>1, <2>1, <2>2, <2>3, NameHere DEF IsRenamed, Renamed
  <2>4. CASE fn.use[i] \notin Phis
    BY <2>2, <2>4 DEF IsRenamed, Renamed, TauInv, MapTypes
  <2> QED
    BY <2>3, <2>4
<1>5. \A i \in Insts : i \notin ToSet(fn.body[Called]) => useOf'[i] = useOf[i]
  BY <1>1
<1>6. ASSUME NEW z \in Phis, Called \in DOMAIN fn.op[z]
      PROVE  /\ IsRenamed(fn.op[z][Called], phiOp'[z][Called], Called)
             /\ \A u \in DOMAIN fn.op[z] : u # Called => phiOp'[z][u] = phiOp[z][u]
  <2>1. PICK old, v, w : old = fn.op[z][Called] /\ v = phiOp[z][Called] /\ w = Outgoing(v)
    OBVIOUS
  <2>2. HomeOf(z) \in Succs(fn, Called) /\ DefinedAbove(fn, old, Called)
    BY <1>2, <1>3, <1>6, <2>1, PhiPlace
  <2>3. \A u \in DOMAIN fn.op[z] : phiOp'[z][u] = Sub(v, w, phiOp[z][u])
    BY <1>1, <2>1, <2>2 DEF TauInv, TextForm
  <2>4. Stands(v, old) /\ old \notin TauNames
    BY <1>2, <1>6, <2>1, ReadNoTau DEF TauInv, ReadsOriginal
  <2>5. CASE old \notin Phis
    <3>1. v = old
      BY <2>4, <2>5, LiveInBlock DEF Stands, TauInv, TextForm
    <3>2. v \notin DOMAIN stackmap
      <4>1. PICK depth \in [Blocks -> Nat] : Mapped(depth)
        BY DEF TauInv
      <4> QED
        BY <1>2, <2>4, <2>5, <3>1, <4>1 DEF Mapped
    <3>3. w = v
      BY <2>1, <3>2 DEF Outgoing
    <3> QED
      BY <1>6, <2>1, <2>3, <2>5, <3>1, <3>3 DEF Sub, IsRenamed
  <2>6. CASE old \in Phis
    <3>1. old \in DOMAIN renaming_stack /\ IsNameOf(Last(renaming_stack[old]), old, Called)
      BY <1>1, <2>2, <2>6, NameHere
    <3>2. v \in DOMAIN stackmap /\ stackmap[v] = old
      <4>1. PICK depth \in [Blocks -> Nat] : Mapped(depth)
        BY DEF TauInv
      <4>2. CASE v = old
        BY <1>2, <2>4, <3>1, <4>1, <4>2 DEF Mapped
      <4>3. CASE v # old
        <5>1. v \in TauNames /\ v.phi = old
          BY <2>4, <4>3, LiveInBlock DEF Stands, TauInv, TextForm
        <5>2. v \in DOMAIN stackmap
          BY <1>2, <1>3, <1>6, <2>1, <5>1 DEF EdgesNamed
        <5> QED
          BY <1>2, <4>1, <5>1, <5>2, ReadNoTau DEF Mapped
      <4> QED
        BY <4>2, <4>3
    <3>3. w = Last(renaming_stack[old])
      BY <2>1, <3>2 DEF Outgoing
    <3>4. phiOp'[z][Called] = w
      BY <1>6, <2>1, <2>3 DEF Sub
    <3>5. ASSUME NEW u \in DOMAIN fn.op[z], u # Called PROVE phiOp[z][u] # v
      <4> SUFFICES ASSUME phiOp[z][u] = v PROVE FALSE
        OBVIOUS
      <4>1. Stands(v, fn.op[z][u]) /\ fn.op[z][u] \notin TauNames
        BY <1>2, ReadNoTau DEF TauInv, ReadsOriginal
      <4>2. fn.op[z][u] = old
        BY <2>4, <4>1, LiveInBlock DEF Stands, TauInv, TextForm
      <4> QED
        BY <1>6, <2>1, <2>6, <3>5, <4>2 DEF DistinctOperands, Phis
    <3> QED
      BY <2>1, <2>3, <2>6, <3>1, <3>3, <3>4, <3>5 DEF Sub, IsRenamed
  <2> QED
    BY <2>5, <2>6
<1>7. ASSUME NEW z \in Phis, Called \notin DOMAIN fn.op[z] PROVE phiOp'[z] = phiOp[z]
  BY <1>1, <1>2, <1>3, <1>7, PhiPlace
<1> QED
  BY <1>4, <1>5, <1>6, <1>7

LEMMA SearchUsesName ==
    ASSUME TauInv, TauInv', NameInv, SearchUses
    PROVE  NameInv'
<1>1. /\ UNCHANGED <<fn, taus, operand, args, DT, visit, stackmap, hasTau, it>>
      /\ pc = "rename" /\ pc' = "searched" /\ it \notin DOMAIN taus[Called]
  BY DEF SearchUses, walkVars, searchVars
<1>2. Searching /\ Searching' /\ ~ Starting /\ ~ Starting' /\ Ground /\ Chain /\ visit # << >>
  BY <1>1 DEF Searching, Starting, TauInv, Chain
<1>3. Called \in Blocks /\ Called \in Reachable(fn) /\ Called \notin Searched
  BY <1>1, <1>2, Calling, SearchedAbove
<1>4. /\ Above' = Above /\ Called' = Called /\ Searched' = Searched \cup {Called}
      /\ TauNames' = TauNames /\ Phis' = Phis /\ Insts' = Insts /\ LiveTaus' = LiveTaus
      /\ Reachable(fn)' = Reachable(fn)
  BY <1>1, <1>2, SameGround, SearchesUses DEF LiveTaus, Called, Reachable
<1>5. TausReachable' /\ TodoInOrder'
  BY <1>1, <1>2, <1>4 DEF NameInv, TausReachable, TodoInOrder
<1>6. Pushed'
  <2>1. ASSUME NEW t \in LiveTaus, t.at = Called PROVE IsPushed(t)
    <3>1. t \in ToSet(taus[Called]) /\ taus[Called] \in Seq(TauNames)
      BY <1>3, <2>1, LiveInBlock DEF TauInv, TextForm, TausForm
    <3>2. PICK k \in DOMAIN taus[Called] : t = taus[Called][k]
      BY <3>1 DEF ToSet
    <3>3. k < it
      <4>1. it \in Nat \ {0} /\ DOMAIN taus[Called] = 1..Len(taus[Called]) /\ Len(taus[Called]) \in Nat
        BY <3>1 DEF TauInv, InsertedInOrder
      <4> QED
        BY <1>1, <4>1
    <3> QED
      BY <1>1, <1>2, <3>2, <3>3 DEF NameInv, Pushed
  <2>2. \A t \in LiveTaus : t.at \in Searched' => IsPushed(t)
    BY <1>2, <1>4, <2>1 DEF NameInv, Pushed
  <2> QED
    BY <1>1, <1>4, <2>2 DEF Pushed, IsPushed
<1>7. Named'
  <2> SUFFICES ASSUME DistinctOperands(fn) PROVE BodyNamed' /\ EdgesNamed' /\ TausNamed'
    BY <1>1, <1>4 DEF Named, DistinctOperands
  <2>1. BodyNamed /\ EdgesNamed /\ TausNamed
    BY <1>2 DEF NameInv, Named
  <2>2. \A old, v, b : IsRenamed(old, v, b) => IsRenamed(old, v, b)'
    BY <1>4, SameRenamed
  <2>3. BodyNamed'
    <3>1. ASSUME NEW b \in Blocks, NEW i \in ToSet(fn.body[b])
          PROVE  IF b \in Searched \cup {Called} THEN IsRenamed(fn.use[i], useOf'[i], b)
                 ELSE useOf'[i] = fn.use[i]
      <4>1. i \in Insts /\ (b # Called => i \notin ToSet(fn.body[Called]))
        BY <1>2, <1>3, InstPlace
      <4>2. IF b \in Searched THEN IsRenamed(fn.use[i], useOf[i], b) ELSE useOf[i] = fn.use[i]
        BY <2>1 DEF BodyNamed
      <4>3. CASE b = Called
        BY <4>3, UsesRenamed
      <4>4. CASE b # Called
        <5>1. useOf'[i] = useOf[i]
          BY <4>1, <4>4, UsesRenamed
        <5> QED
          BY <4>2, <4>4, <5>1
      <4> QED
        BY <4>3, <4>4
    <3> QED
      BY <1>1, <1>4, <3>1 DEF BodyNamed, IsRenamed, IsNameOf
  <2>4. EdgesNamed'
    <3>1. ASSUME NEW z \in Phis, NEW u \in DOMAIN fn.op[z]
          PROVE  IF u \in Searched \cup {Called} THEN IsRenamed(fn.op[z][u], phiOp'[z][u], u)
                 ELSE phiOp'[z][u] \in TauNames =>
                         /\ phiOp'[z][u] \in DOMAIN stackmap
                         /\ u \in Reachable(fn) => phiOp'[z][u].at \in Above[u]
      <4>1. CASE u = Called
        BY <4>1, UsesRenamed
      <4>2. CASE u # Called
        <5>1. phiOp'[z][u] = phiOp[z][u]
          BY <4>2, UsesRenamed
        <5> QED
          BY <2>1, <4>2, <5>1 DEF EdgesNamed
      <4> QED
        BY <4>1, <4>2
    <3> QED
      BY <1>1, <1>4, <3>1 DEF EdgesNamed, IsRenamed, IsNameOf
  <2>5. TausNamed'
    BY <1>1, <1>4, <2>1 DEF TausNamed, IsNameOf
  <2> QED
    BY <2>3, <2>4, <2>5
<1>8. InnermostTau'
  BY <1>1 DEF InnermostTau, renamed
<1> QED
  BY <1>2, <1>5, <1>6, <1>7, <1>8 DEF NameInv

\* A step that renames nothing and searches no more blocks.
LEMMA GoingOnName ==
    ASSUME TauInv, NameInv, Searching, Searching', pc' # "rename",
           UNCHANGED <<fn, DT, textVars, stackmap, hasTau>>, Searched' = Searched, TodoInOrder'
    PROVE  NameInv'
<1>1. Ground /\ ~ Starting /\ ~ Starting'
  BY DEF Searching, Starting, TauInv
<1>2. /\ Above' = Above /\ TauNames' = TauNames /\ Phis' = Phis /\ LiveTaus' = LiveTaus
      /\ Reachable(fn)' = Reachable(fn)
  BY <1>1, SameGround, SameText DEF TauInv, Reachable
<1>3. UNCHANGED <<taus, operand, phiOp, useOf>>
  BY DEF textVars
<1>4. TausReachable'
  BY <1>1, <1>2 DEF NameInv, TausReachable
<1>5. Pushed'
  BY <1>2 DEF NameInv, Pushed, IsPushed
<1>6. Named'
  <2> SUFFICES ASSUME DistinctOperands(fn) PROVE BodyNamed' /\ EdgesNamed' /\ TausNamed'
    BY <1>2 DEF Named, DistinctOperands
  <2>1. BodyNamed /\ EdgesNamed /\ TausNamed
    BY DEF NameInv, Named
  <2>2. \A old, v, b : IsRenamed(old, v, b) => IsRenamed(old, v, b)'
    BY <1>2, SameRenamed
  <2>3. BodyNamed'
    BY <1>2, <1>3, <2>1, <2>2 DEF BodyNamed, IsRenamed
  <2>4. EdgesNamed'
    BY <1>2, <1>3, <2>1, <2>2 DEF EdgesNamed, IsRenamed
  <2>5. TausNamed'
    BY <1>2, <1>3, <2>1 DEF TausNamed, IsNameOf
  <2> QED
    BY <2>3, <2>4, <2>5
<1>7. InnermostTau'
  BY DEF Searching, InnermostTau, renamed
<1> QED
  BY <1>4, <1>5, <1>6, <1>7 DEF NameInv

\* The child was to be visited, and now is just being searched.
LEMMA SearchesChild ==
    ASSUME TauInv, NameInv, SearchChild
    PROVE  Searched' = Searched /\ TodoInOrder'
<1>1. UNCHANGED <<fn, DT, textVars, stackmap, hasTau>> /\ pc = "searched" /\ pc' = "search"
  BY DEF SearchChild, walkVars, searchVars
<1>2. PICK c \in ToVisit : VisitChild(c)
  BY DEF SearchChild
<1>3. Searching /\ Searching' /\ Ground /\ Chain /\ visit # << >>
  BY <1>1 DEF Searching, TauInv, Chain
<1>4. PICK n : n = Len(visit)
  OBVIOUS
<1>5. /\ n \in Nat \ {0} /\ DOMAIN visit = 1..n /\ n \in DOMAIN visit /\ ToVisit = visit[n].todo
      /\ \A k \in DOMAIN visit : visit[k].todo \subseteq DOMAIN DT
  BY <1>3, <1>4, Calling
<1>6. /\ Chain' /\ Len(visit') = n + 1 /\ DOMAIN visit' = 1..(n + 1)
      /\ c \in DOMAIN DT /\ DT[c] = Called
      /\ \A k \in DOMAIN visit : /\ k \in DOMAIN visit' /\ visit'[k].todo \subseteq visit[k].todo
                                 /\ visit[k].todo \subseteq visit'[k].todo \cup {c}
      /\ visit'[n + 1].block = c
      /\ visit'[n + 1].todo = {d \in DOMAIN DT : DT[d] = c}
  BY <1>1, <1>2, <1>3, <1>4, CallDown
<1>7. \A k \in DOMAIN visit' : k \in DOMAIN visit \/ k = n + 1
  BY <1>5, <1>6
<1>8. Above' = Above /\ Reachable(fn)' = Reachable(fn)
  BY <1>1, SameAbove DEF Reachable
<1>9. Called' = c /\ ToVisit' = {d \in DOMAIN DT' : DT'[d] = Called'}
  BY <1>1, <1>6 DEF Called, ToVisit, Last
<1>10. Searched' = Searched
  <2> SUFFICES ASSUME NEW b \in Reachable(fn) PROVE Awaited(b)' <=> Awaited(b)
    BY <1>8 DEF Searched
  <2>1. ASSUME NEW k \in DOMAIN visit', NEW d \in visit'[k].todo, d \in Above[b] PROVE Awaited(b)
    <3>1. CASE k \in DOMAIN visit
      BY <1>6, <2>1, <3>1 DEF Awaited
    <3>2. CASE k = n + 1
      <4>1. d \in DOMAIN DT /\ DT[d] = c
        BY <1>6, <2>1, <3>2
      <4>2. c \in Above[b]
        BY <1>3, <2>1, <4>1, AboveParent, AboveOrder
      <4> QED
        BY <1>2, <1>5, <4>2 DEF Awaited
    <3> QED
      BY <1>7, <3>1, <3>2
  <2>2. c \in Above[b] => Awaited(b)
    BY <1>2, <1>5 DEF Awaited
  <2>3. ASSUME NEW k \in DOMAIN visit, NEW d \in visit[k].todo, d \in Above[b]
        PROVE  c \in Above[b] \/ \E j \in DOMAIN visit' : \E e \in visit'[j].todo : e \in Above[b]
    BY <1>6, <2>3
  <2> QED
    BY <1>1, <1>8, <1>9, <2>1, <2>2, <2>3 DEF Awaited
<1>11. TodoInOrder'
  BY <1>1, <1>9 DEF TodoInOrder
<1> QED
  BY <1>10, <1>11

LEMMA SearchChildName ==
    ASSUME TauInv, NameInv, SearchChild
    PROVE  NameInv'
<1>1. UNCHANGED <<fn, DT, textVars, stackmap, hasTau>> /\ pc = "searched" /\ pc' = "search"
  BY DEF SearchChild, walkVars, searchVars
<1>2. Searching /\ Searching'
  BY <1>1 DEF Searching
<1> QED
  BY <1>1, <1>2, SearchesChild, GoingOnName

LEMMA SearchedChildrenName ==
    ASSUME TauInv, NameInv, SearchedChildren
    PROVE  NameInv'
<1>1. /\ UNCHANGED <<fn, DT, visit, textVars, stackmap, hasTau>>
      /\ pc = "searched" /\ pc' = "pop" /\ ToVisit = {}
  BY DEF SearchedChildren, walkVars
<1>2. Searching /\ Searching'
  BY <1>1 DEF Searching
<1>3. Searched' = Searched
  BY <1>1, SameSearched
<1>4. TodoInOrder'
  BY <1>1 DEF TodoInOrder, ToVisit
<1> QED
  BY <1>1, <1>2, <1>3, <1>4, GoingOnName

\* Nothing reads the tau that is erased.
LEMMA SearchPopName ==
    ASSUME TauInv, TauInv', NameInv, SearchPop
    PROVE  NameInv'
<1>1. UNCHANGED <<fn, phiOp, useOf, DT, visit, hasTau, stackmap>> /\ pc = "pop" /\ pc' = "pop"
  BY DEF SearchPop, walkVars
<1>2. PICK z \in varstack :
          LET t == Last(renaming_stack[z])
          IN \/ /\ Unused(t) /\ taus' = Without(t)
                /\ operand' = Restrict(operand, DOMAIN operand \ {t})
                /\ args' = Restrict(args, DOMAIN args \ {t})
             \/ UNCHANGED <<taus, operand, args>>
  BY DEF SearchPop
<1>3. Searching /\ Searching' /\ ~ Starting /\ ~ Starting' /\ Ground
  BY <1>1 DEF Searching, Starting, TauInv
<1>4. PICK t : t = Last(renaming_stack[z])
  OBVIOUS
<1>5. t \in LiveTaus
  BY <1>1, <1>4, PoppedHere
<1>6. /\ Above' = Above /\ TauNames' = TauNames /\ Phis' = Phis /\ Insts' = Insts
      /\ Searched' = Searched /\ Reachable(fn)' = Reachable(fn) /\ ToVisit' = ToVisit
  BY <1>1, <1>3, SameGround, SameSearched DEF ToVisit
<1>7. /\ LiveTaus' \subseteq LiveTaus /\ LiveTaus \ {t} \subseteq LiveTaus'
      /\ \A s \in LiveTaus' : operand'[s] = operand[s]
      /\ t \in LiveTaus' \/ Unused(t)
  <2>1. CASE UNCHANGED <<taus, operand, args>>
    BY <1>1, <1>5, <2>1 DEF LiveTaus
  <2>2. CASE /\ Unused(t) /\ taus' = Without(t)
             /\ operand' = Restrict(operand, DOMAIN operand \ {t})
             /\ args' = Restrict(args, DOMAIN args \ {t})
    BY <1>1, <1>5, <2>2, ErasingUnused DEF TauInv
  <2> QED
    BY <1>2, <1>4, <2>1, <2>2
<1>8. /\ \A y \in Phis : \A u \in DOMAIN fn.op[y] : phiOp[y][u] \in LiveTaus => phiOp[y][u] \in LiveTaus'
      /\ \A i \in Insts : useOf[i] \in LiveTaus => useOf[i] \in LiveTaus'
      /\ \A s \in LiveTaus : operand[s] \in LiveTaus => operand[s] \in LiveTaus'
  <2>1. CASE t \in LiveTaus'
    BY <1>7, <2>1
  <2>2. CASE Unused(t)
    BY <1>7, <2>2 DEF Unused, TauInv, TextForm
  <2> QED
    BY <1>7, <2>1, <2>2
<1>9. TausReachable' /\ TodoInOrder'
  BY <1>1, <1>3, <1>6, <1>7 DEF NameInv, TausReachable, TodoInOrder
<1>10. Pushed'
  BY <1>1, <1>3, <1>6, <1>7 DEF NameInv, Pushed, IsPushed
<1>11. Named'
  <2> SUFFICES ASSUME DistinctOperands(fn) PROVE BodyNamed' /\ EdgesNamed' /\ TausNamed'
    BY <1>1, <1>6 DEF Named, DistinctOperands
  <2>1. BodyNamed /\ EdgesNamed /\ TausNamed
    BY <1>3 DEF NameInv, Named
  <2>2. \A old, v, b : IsRenamed(old, v, b) /\ (v \in LiveTaus => v \in LiveTaus') => IsRenamed(old, v, b)'
    BY <1>6, <1>7, SameRenamed
  <2>3. BodyNamed'
    <3>1. \A b \in Blocks : \A i \in ToSet(fn.body[b]) : i \in Insts
      BY <1>3, InstPlace
    <3> QED
      BY <1>1, <1>6, <1>8, <2>1, <2>2, <3>1 DEF BodyNamed, IsRenamed
  <2>4. EdgesNamed'
    BY <1>1, <1>6, <1>8, <2>1, <2>2 DEF EdgesNamed, IsRenamed
  <2>5. ASSUME NEW s \in LiveTaus', s \in DOMAIN stackmap PROVE IsNameOf(operand[s], s.phi, DT[s.at])'
    <3>1. PICK v, d : v = operand[s] /\ v = operand'[s] /\ d = DT[s.at] /\ d = DT'[s.at]
      BY <1>1, <1>7, <2>5
    <3>2. IsNameOf(v, s.phi, d) /\ (v \in LiveTaus => v \in LiveTaus')
      BY <1>7, <1>8, <2>1, <2>5, <3>1 DEF TausNamed
    <3>3. IsNameOf(v, s.phi, d)'
      BY <1>6, <1>7, <3>2, SameName
    <3> QED
      BY <3>1, <3>3 DEF IsNameOf
  <2>6. TausNamed'
    BY <1>1, <2>5 DEF TausNamed, IsNameOf
  <2> QED
    BY <2>3, <2>4, <2>6
<1>12. InnermostTau'
  BY <1>1 DEF InnermostTau, renamed
<1> QED
  BY <1>3, <1>9, <1>10, <1>11, <1>12 DEF NameInv

\* When the call of the entry ends, every block is searched.
LEMMA AllSearched ==
    ASSUME TauInv, NameInv, pc = "pop", ~ (Len(visit) > 1)
    PROVE  Searched = Reachable(fn)
<1>1. Ground /\ Chain /\ visit # << >> /\ Searching
  BY DEF TauInv, Chain, Searching
<1>2. Len(visit) \in Nat \ {0} /\ Called = visit[Len(visit)].block /\ visit[1].block = fn.entry
  BY <1>1, Calling DEF Chain
<1>3. Called = fn.entry /\ ToVisit = {}
  BY <1>1, <1>2 DEF NameInv, TodoInOrder
<1>4. \A b \in Reachable(fn) : fn.entry \in Above[b]
  BY <1>1, AboveDominates, DominatorsOfEntry DEF Ground
<1> QED
  BY <1>3, <1>4, SearchedBelow DEF Searched

\* When another call ends, no more are searched.
LEMMA SearchesOn ==
    ASSUME TauInv, NameInv, SearchReturn, Len(visit) > 1
    PROVE  /\ Searched' = Searched
           /\ \A k \in DOMAIN visit' : k \in DOMAIN visit /\ visit'[k] = visit[k]
           /\ \A k \in DOMAIN visit : k # Len(visit) => k \in DOMAIN visit'
<1>1. UNCHANGED <<fn, DT>> /\ pc = "pop" /\ visit' = Front(visit) /\ pc' = "searched"
  BY DEF SearchReturn, walkVars
<1>2. Searching /\ Ground /\ Chain /\ visit # << >> /\ ToVisit = {}
  BY <1>1 DEF Searching, TauInv, Chain, NameInv, TodoInOrder
<1>3. Above' = Above /\ Reachable(fn)' = Reachable(fn)
  BY <1>1, SameAbove DEF Reachable
<1>4. /\ \A k \in DOMAIN visit' : k \in DOMAIN visit /\ visit'[k] = visit[k]
      /\ \A k \in DOMAIN visit : k # Len(visit) => k \in DOMAIN visit'
  <2>1. Len(visit) # 1
    BY <1>2, Calling
  <2> QED
    BY <1>1, <1>2, <2>1, CallUp
<1>5. visit[Len(visit)].todo = {}
  BY <1>2, Calling
<1>6. \A b : Awaited(b)' <=> Awaited(b)
  BY <1>1, <1>3, <1>4, <1>5 DEF Awaited
<1> QED
  BY <1>3, <1>4, <1>6 DEF Searched

LEMMA SearchReturnName ==
    ASSUME TauInv, TauInv', NameInv, SearchReturn
    PROVE  NameInv'
<1>1. /\ UNCHANGED <<fn, DT, textVars, stackmap, hasTau>> /\ pc = "pop"
      /\ \/ Len(visit) > 1 /\ visit' = Front(visit) /\ pc' = "searched"
         \/ ~ (Len(visit) > 1) /\ pc' = "allocate"
  BY DEF SearchReturn, walkVars, searchVars
<1>2. Searching /\ Ground /\ Chain /\ visit # << >> /\ ToVisit = {}
  BY <1>1 DEF Searching, TauInv, Chain, NameInv, TodoInOrder
<1>3. /\ Above' = Above /\ TauNames' = TauNames /\ Phis' = Phis /\ LiveTaus' = LiveTaus
      /\ Reachable(fn)' = Reachable(fn)
  BY <1>1, <1>2, SameGround, SameText DEF TauInv, Reachable
<1>4. CASE Len(visit) > 1 /\ visit' = Front(visit) /\ pc' = "searched"
  <2>1. Searching'
    BY <1>4 DEF Searching
  <2>2. Searched' = Searched
    BY <1>4, SearchesOn
  <2>3. TodoInOrder'
    BY <1>4 DEF TodoInOrder
  <2> QED
    BY <1>1, <1>2, <1>4, <2>1, <2>2, <2>3, GoingOnName
<1>5. CASE ~ (Len(visit) > 1) /\ pc' = "allocate"
  <2>1. ~ Starting' /\ ~ Searching'
    BY <1>5 DEF Starting, Searching
  <2>2. Searched = Reachable(fn)
    BY <1>1, <1>5, AllSearched
  <2>3. UNCHANGED <<taus, operand, phiOp, useOf>>
    BY <1>1 DEF textVars
  <2>4. ASSUME DistinctOperands(fn) PROVE InnermostTau'
    <3>1. BodyNamed /\ EdgesNamed /\ TausNamed
      BY <1>2, <2>4 DEF NameInv, Named
    <3>2. \A old, v, b : IsRenamed(old, v, b) => IsRenamed(old, v, b)'
      BY <1>3, SameRenamed
    <3>3. \A b \in Reachable(fn) : b \in Blocks
      BY <1>2, GroundForm
    <3>4. \A b \in Reachable(fn) : \A i \in ToSet(fn.body[b]) : IsRenamed(fn.use[i], useOf[i], b)
      BY <2>2, <3>1, <3>3 DEF BodyNamed
    <3>5. \A z \in Phis : \A u \in DOMAIN phiOp[z] \cap Reachable(fn) :
              IsRenamed(fn.op[z][u], phiOp[z][u], u)
      <4>1. \A z \in Phis : DOMAIN phiOp[z] = DOMAIN fn.op[z]
        BY DEF TauInv, TextForm
      <4> QED
        BY <2>2, <3>1, <4>1 DEF EdgesNamed
    <3>6. \A t \in LiveTaus : IsNameOf(operand[t], t.phi, DT[t.at])
      BY <1>2, <2>2, <3>1 DEF TausNamed, NameInv, Pushed, IsPushed, TausReachable
    <3> QED
      BY <1>1, <1>3, <2>3, <3>2, <3>4, <3>5, <3>6 DEF InnermostTau, IsRenamed, IsNameOf
  <2>5. InnermostTau'
    BY <1>1, <1>3, <2>4 DEF InnermostTau, DistinctOperands
  <2> QED
    BY <2>1, <2>5 DEF NameInv, TausReachable, Pushed, Named
<1> QED
  BY <1>1, <1>4, <1>5

\* After Search nothing is claimed but of the uses as Search left them.
LEMMA LaterName ==
    ASSUME ~ Starting', ~ Searching', InnermostTau'
    PROVE  NameInv'
BY DEF NameInv, TausReachable, Pushed, Named

\* A step that leaves the text alone leaves the names.
LEMMA SameTextName ==
    ASSUME NameInv, ~ Starting', ~ Searching', UNCHANGED <<fn, DT, textVars>>, renamed
    PROVE  NameInv'
<1>1. /\ Above' = Above /\ Phis' = Phis /\ LiveTaus' = LiveTaus /\ Reachable(fn)' = Reachable(fn)
      /\ UNCHANGED <<taus, operand, phiOp, useOf>>
  BY SameAbove, SameText DEF Reachable, textVars
<1>2. \A old, v, b : IsRenamed(old, v, b) => IsRenamed(old, v, b)'
  BY <1>1, SameRenamed
<1>3. ASSUME DistinctOperands(fn) PROVE InnermostTau'
  <2>1. /\ \A b \in Reachable(fn) : \A i \in ToSet(fn.body[b]) : IsRenamed(fn.use[i], useOf[i], b)
        /\ \A z \in Phis : \A u \in DOMAIN phiOp[z] \cap Reachable(fn) :
              IsRenamed(fn.op[z][u], phiOp[z][u], u)
        /\ \A t \in LiveTaus : IsNameOf(operand[t], t.phi, DT[t.at])
    BY <1>3 DEF NameInv, InnermostTau
  <2> QED
    BY <1>1, <1>2, <2>1 DEF InnermostTau, IsRenamed, IsNameOf
<1>4. InnermostTau'
  BY <1>1, <1>3 DEF InnermostTau, DistinctOperands
<1> QED
  BY <1>4, LaterName

\* The new tau is the name wherever the old one was.
LEMMA ReplacedIsName ==
    ASSUME TausForm, Above' = Above, NEW old, NEW new, Replaced(old, new),
           NEW v, NEW w, w = Sub(old, new, v), NEW z, z \notin TauNames, NEW b, IsNameOf(v, z, b)
    PROVE  IsNameOf(w, z, b)'
<1> DEFINE above == {t \in LiveTaus : t.phi = z /\ t.at \in Above[b]}
           above2 == {t \in LiveTaus' : t.phi = z /\ t.at \in Above[b]}
<1>1. /\ old \in LiveTaus /\ new.phi = old.phi /\ new.at = old.at
      /\ LiveTaus' = (LiveTaus \ {old}) \cup {new}
  BY DEF Replaced
<1>2. \A t \in above2 : \E s \in above : s.at = t.at
  BY <1>1
<1>3. old \in TauNames
  BY <1>1, LiveInBlock
<1>4. CASE above = {}
  <2>1. v = z /\ above2 = {}
    BY <1>2, <1>4 DEF IsNameOf
  <2>2. w = z
    BY <1>3, <2>1 DEF Sub
  <2> QED
    BY <2>1, <2>2 DEF IsNameOf
<1>5. CASE above # {}
  <2>1. v \in above /\ \A t \in above : t.at \in Above[v.at]
    BY <1>5 DEF IsNameOf
  <2>2. w \in above2 /\ w.at = v.at
    BY <1>1, <2>1 DEF Sub
  <2>3. \A t \in above2 : t.at \in Above[w.at]
    BY <1>2, <2>1, <2>2
  <2> QED
    BY <2>2, <2>3 DEF IsNameOf
<1> QED
  BY <1>4, <1>5

LEMMA AllocateTauName ==
    ASSUME TauInv, NameInv, AllocateTau
    PROVE  NameInv'
<1>1. UNCHANGED <<fn, DT, pc>> /\ pc = "taus"
  BY DEF AllocateTau, walkVars
<1>2. ~ Starting' /\ ~ Searching' /\ renamed /\ Ground /\ TextForm /\ TausForm
  BY <1>1 DEF Starting, Searching, renamed, TauInv, TextForm
<1>3. CASE UNCHANGED textVars
  BY <1>1, <1>2, <1>3, SameTextName
<1>4. CASE ~ UNCHANGED textVars
  <2>1. PICK old, new : Replaced(old, new)
    BY <1>4, AllocateTauText
  <2>2. /\ old \in LiveTaus /\ new.phi = old.phi /\ new.at = old.at /\ operand[old] # old
        /\ LiveTaus' = (LiveTaus \ {old}) \cup {new}
        /\ phiOp' = [z \in Phis |-> [u \in DOMAIN phiOp[z] |-> Sub(old, new, phiOp[z][u])]]
        /\ useOf' = [i \in Insts |-> Sub(old, new, useOf[i])]
        /\ operand' = [t \in LiveTaus' |-> IF t = new THEN operand[old] ELSE Sub(old, new, operand[t])]
    BY <2>1 DEF Replaced, PhiOpWith, UseOfWith
  <2>3. /\ Above' = Above /\ Phis' = Phis /\ TauNames' = TauNames /\ Reachable(fn)' = Reachable(fn)
    BY <1>1, <1>2, SameGround DEF Reachable
  <2>4. \A z \in Phis : z \notin TauNames
    BY <1>2, ReadNoTau
  <2>5. old \in TauNames /\ \A t \in LiveTaus : t.phi \in Phis
    BY <1>2, <2>2, LiveInBlock
  <2>6. ASSUME NEW r, r \notin TauNames, NEW v, NEW w, w = Sub(old, new, v), NEW b, IsRenamed(r, v, b)
        PROVE  IsRenamed(r, w, b)'
    <3>1. CASE r \in Phis
      BY <1>2, <2>1, <2>3, <2>6, <3>1, ReplacedIsName DEF IsRenamed
    <3>2. CASE r \notin Phis
      BY <2>3, <2>5, <2>6, <3>2 DEF IsRenamed, Sub
    <3> QED
      BY <3>1, <3>2
  <2>7. ASSUME DistinctOperands(fn) PROVE InnermostTau'
    <3>1. /\ \A b \in Reachable(fn) : \A i \in ToSet(fn.body[b]) : IsRenamed(fn.use[i], useOf[i], b)
          /\ \A z \in Phis : \A u \in DOMAIN phiOp[z] \cap Reachable(fn) :
                IsRenamed(fn.op[z][u], phiOp[z][u], u)
          /\ \A t \in LiveTaus : IsNameOf(operand[t], t.phi, DT[t.at])
      BY <1>2, <2>7 DEF NameInv, InnermostTau
    <3>2. ASSUME NEW b \in Reachable(fn), NEW i \in ToSet(fn.body[b])
          PROVE  IsRenamed(fn.use[i], useOf[i], b)'
      <4>1. i \in Insts
        BY <1>2, GroundForm, InstPlace
      <4>2. PICK r, v, w : r = fn.use[i] /\ v = useOf[i] /\ w = Sub(old, new, v)
        OBVIOUS
      <4>3. r \notin TauNames /\ IsRenamed(r, v, b) /\ w = useOf'[i]
        BY <1>2, <2>2, <3>1, <4>1, <4>2, ReadNoTau
      <4>4. IsRenamed(r, w, b)'
        BY <2>6, <4>2, <4>3
      <4> QED
        BY <1>1, <4>2, <4>3, <4>4 DEF IsRenamed, IsNameOf
    <3>3. ASSUME NEW z \in Phis, NEW u \in DOMAIN phiOp[z], u \in Reachable(fn)
          PROVE  IsRenamed(fn.op[z][u], phiOp[z][u], u)'
      <4>1. u \in DOMAIN fn.op[z]
        BY <1>2 DEF TextForm
      <4>2. PICK r, v, w : r = fn.op[z][u] /\ v = phiOp[z][u] /\ w = Sub(old, new, v)
        OBVIOUS
      <4>3. r \notin TauNames /\ IsRenamed(r, v, u) /\ w = phiOp'[z][u]
        BY <1>2, <2>2, <3>1, <3>3, <4>1, <4>2, ReadNoTau
      <4>4. IsRenamed(r, w, u)'
        BY <2>6, <4>2, <4>3
      <4> QED
        BY <1>1, <4>2, <4>3, <4>4 DEF IsRenamed, IsNameOf
    <3>4. ASSUME NEW t \in LiveTaus' PROVE IsNameOf(operand[t], t.phi, DT[t.at])'
      <4>1. PICK s \in LiveTaus : /\ s.phi = t.phi /\ s.at = t.at
                                  /\ operand'[t] = Sub(old, new, operand[s])
        BY <2>2 DEF Sub
      <4>2. PICK z, d, v, w : z = t.phi /\ d = DT[t.at] /\ v = operand[s] /\ w = Sub(old, new, v)
        OBVIOUS
      <4>3. z \notin TauNames /\ IsNameOf(v, z, d)
        BY <2>4, <2>5, <3>1, <4>1, <4>2
      <4>4. IsNameOf(w, z, d)'
        BY <1>2, <2>1, <2>3, <4>2, <4>3, ReplacedIsName
      <4> QED
        BY <1>1, <4>1, <4>2, <4>4 DEF IsNameOf
    <3>5. \A z \in Phis : DOMAIN phiOp'[z] = DOMAIN phiOp[z]
      BY <2>2
    <3> QED
      BY <1>1, <2>3, <3>2, <3>3, <3>4, <3>5 DEF InnermostTau
  <2>8. InnermostTau'
    BY <1>1, <2>3, <2>7 DEF InnermostTau, DistinctOperands
  <2> QED
    BY <1>2, <2>8, LaterName
<1> QED
  BY <1>3, <1>4

\* The other steps of AllocateArgs, and the end of the first pass.
LEMMA AllocateName ==
    ASSUME NameInv,
           AllocatePhis \/ AllocateSuccessors \/ AllocateChild \/ AllocateReturn \/ FirstReturn
    PROVE  NameInv'
<1>1. AllocatePhis \/ AllocateSuccessors =>
          UNCHANGED <<fn, DT, textVars>> /\ pc \in {"allocate", "taus"} /\ pc' \in {"taus", "allocated"}
  BY DEF AllocatePhis, AllocateSuccessors, walkVars
<1>2. AllocateChild \/ AllocateReturn =>
          UNCHANGED <<fn, DT, textVars>> /\ pc = "allocated" /\ pc' \in {"allocate", "allocated", "hpssa"}
  BY DEF AllocateChild, AllocateReturn, walkVars
<1>3. FirstReturn => UNCHANGED <<fn, DT, textVars>> /\ pc = "allocate" /\ pc' = "hpssa"
  BY DEF FirstReturn, walkVars
<1>4. renamed /\ ~ Starting' /\ ~ Searching' /\ UNCHANGED <<fn, DT, textVars>>
  BY <1>1, <1>2, <1>3 DEF renamed, Starting, Searching
<1> QED
  BY <1>4, SameTextName

LEMMA DestructionName ==
    ASSUME Collect \/ RemoveTau \/ AllRemoved
    PROVE  NameInv'
<1>1. pc' \in {"destroy", "done"}
  BY DEF Collect, RemoveTau, AllRemoved
<1> QED
  BY <1>1, LaterName DEF Starting, Searching, InnermostTau, renamed

LEMMA StutteringName ==
    ASSUME PipelineInv, NameInv, UNCHANGED pipelineVars
    PROVE  NameInv'
<1>1. UNCHANGED <<fn, DT, textVars, pc, visit, it>> /\ UNCHANGED <<hasTau, stackmap>>
  BY DEF pipelineVars, vars, walkVars, searchVars
<1>2. TauInv
  BY DEF PipelineInv
<1>3. CASE Starting
  <2>1. Starting' /\ LiveTaus' = LiveTaus /\ Reachable(fn)' = Reachable(fn)
    BY <1>1, <1>3, SameText DEF Starting, Reachable
  <2> QED
    BY <1>3, <2>1, InsertingName DEF NameInv, TausReachable
<1>4. CASE Searching /\ pc # "rename"
  <2>1. Searched' = Searched /\ Searching' /\ pc' # "rename"
    BY <1>1, <1>4, SameSearched DEF Searching
  <2>2. TodoInOrder'
    BY <1>1, <1>4 DEF NameInv, TodoInOrder, ToVisit, Called
  <2> QED
    BY <1>1, <1>2, <1>4, <2>1, <2>2, GoingOnName
<1>5. CASE pc = "rename"
  <2>1. /\ Searched' = Searched /\ Called' = Called /\ ToVisit' = ToVisit /\ Above' = Above
        /\ LiveTaus' = LiveTaus /\ TauNames' = TauNames /\ Phis' = Phis
        /\ Reachable(fn)' = Reachable(fn) /\ UNCHANGED <<taus, operand, phiOp, useOf>>
    BY <1>1, <1>2, <1>5, SameSearched, SameGround, SameText DEF TauInv, Called, ToVisit, textVars
  <2>2. Searching /\ Searching' /\ ~ Starting /\ ~ Starting'
    BY <1>1, <1>5 DEF Searching, Starting
  <2>3. TausReachable' /\ TodoInOrder'
    BY <1>1, <2>1, <2>2 DEF NameInv, TausReachable, TodoInOrder
  <2>4. Pushed'
    BY <1>1, <2>1, <2>2 DEF NameInv, Pushed, IsPushed
  <2>5. Named'
    <3> SUFFICES ASSUME DistinctOperands(fn) PROVE BodyNamed' /\ EdgesNamed' /\ TausNamed'
      BY <1>1 DEF Named, DistinctOperands
    <3>1. BodyNamed /\ EdgesNamed /\ TausNamed
      BY <2>2 DEF NameInv, Named
    <3>2. \A old, v, b : IsRenamed(old, v, b) => IsRenamed(old, v, b)'
      BY <2>1, SameRenamed
    <3>3. BodyNamed'
      BY <1>1, <2>1, <3>1, <3>2 DEF BodyNamed, IsRenamed
    <3>4. EdgesNamed'
      BY <1>1, <2>1, <3>1, <3>2 DEF EdgesNamed, IsRenamed
    <3>5. TausNamed'
      BY <1>1, <2>1, <3>1 DEF TausNamed, IsNameOf
    <3> QED
      BY <3>3, <3>4, <3>5
  <2>6. InnermostTau'
    BY <1>1, <1>5 DEF InnermostTau, renamed
  <2> QED
    BY <2>3, <2>4, <2>5, <2>6 DEF NameInv
<1>6. CASE ~ Starting /\ ~ Searching
  <2>1. ~ Starting' /\ ~ Searching' /\ (renamed' <=> renamed)
    BY <1>1, <1>6 DEF Starting, Searching, renamed
  <2>2. CASE renamed
    BY <1>1, <2>1, <2>2, SameTextName
  <2>3. CASE ~ renamed
    BY <2>1, <2>3, LaterName DEF InnermostTau
  <2> QED
    BY <2>2, <2>3
<1> QED
  BY <1>3, <1>4, <1>5, <1>6 DEF Searching

\* A step of HPSSAPass::run of HPSSA_new.cpp that Search takes, or one before it.
LEMMA SearchesName ==
    ASSUME TauInv, TauInv', NameInv,
           \/ Inserted \/ Search \/ SearchTau \/ SearchUses \/ SearchChild
           \/ SearchedChildren \/ SearchPop \/ SearchReturn
    PROVE  NameInv'
BY InsertedName, SearchName, SearchTauName, SearchUsesName, SearchChildName,
   SearchedChildrenName, SearchPopName, SearchReturnName

LEMMA PipelineNameStep ==
    ASSUME PipelineInv, pc # "walk", NameInv, [PipelineNext]_pipelineVars
    PROVE  NameInv'
<1>1. TauInv /\ TauInv'
  BY PipelineStep DEF PipelineInv
<1>2. CASE Next
  <2>1. Connect \/ Connected \/ InsertTaus \/ NextBlock => NameInv'
    BY <1>1, ConnectName, InsertName
  <2>2. Inserted \/ Search \/ SearchTau \/ SearchUses \/ SearchChild => NameInv'
    BY <1>1, SearchesName
  <2>3. SearchedChildren \/ SearchPop \/ SearchReturn => NameInv'
    BY <1>1, SearchesName
  <2>4. AllocatePhis \/ AllocateTau \/ AllocateSuccessors => NameInv'
    BY <1>1, AllocateName, AllocateTauName
  <2>5. AllocateChild \/ AllocateReturn => NameInv'
    BY AllocateName
  <2> QED
    BY <1>2, <2>1, <2>2, <2>3, <2>4, <2>5 DEF Next
<1>3. CASE Collect \/ RemoveTau \/ AllRemoved
  BY <1>3, DestructionName
<1>4. CASE UNCHANGED pipelineVars
  BY <1>4, StutteringName
<1> QED
  BY <1>2, <1>3, <1>4 DEF PipelineNext

LEMMA FirstNameStep ==
    ASSUME PipelineInv, NameInv, [FirstNext]_firstVars
    PROVE  NameInv'
<1>1. TauInv /\ TauInv'
  BY FirstStep DEF PipelineInv
<1>2. CASE FirstPhi \/ FirstInsertTau \/ WalkEnds
  BY <1>1, <1>2, ConnectName, FirstInsertName
<1>3. CASE FirstConnect \/ NextBlock
  BY <1>3, ConnectName DEF FirstConnect
<1>4. CASE FirstSearch
  BY <1>1, <1>4, SearchesName DEF FirstSearch
<1>5. CASE FirstReturn
  BY <1>5, AllocateName
<1>6. CASE Collect \/ RemoveTau \/ AllRemoved
  BY <1>6, DestructionName
<1>7. CASE UNCHANGED firstVars
  BY <1>7, StutteringName DEF firstVars
<1> QED
  BY <1>2, <1>3, <1>4, <1>5, <1>6, <1>7 DEF FirstNext

\* Neither pass has inserted a tau at first.
LEMMA InitName == Init => NameInv
<1> SUFFICES ASSUME Init PROVE NameInv
  OBVIOUS
<1>1. pc = "connect" /\ LiveTaus = {}
  BY DEF Init, Original, LiveTaus, ToSet
<1> QED
  BY <1>1 DEF NameInv, TausReachable, Searching, Starting, Pushed, Named, InnermostTau, renamed

LEMMA PipelineNames == PipelineSpec => []NameInv
<1>1. PipelineInit => PipelineInv /\ pc # "walk" /\ NameInv
  BY InitPipeline, InitName DEF PipelineInit
<1>2. PipelineInv /\ pc # "walk" /\ NameInv /\ [PipelineNext]_pipelineVars
          => (PipelineInv /\ pc # "walk" /\ NameInv)'
  BY PipelineStep, PipelineNameStep
<1> QED
  BY <1>1, <1>2, PTL DEF PipelineSpec

LEMMA FirstNames == FirstSpec => []NameInv
<1>1. FirstInit => PipelineInv /\ NameInv
  BY InitPipeline, InitName DEF FirstInit, PipelineInit
<1>2. PipelineInv /\ NameInv /\ [FirstNext]_firstVars => (PipelineInv /\ NameInv)'
  BY FirstStep, FirstNameStep
<1> QED
  BY <1>1, <1>2, PTL DEF FirstSpec

\* HPSSA_new.cpp: after Search and throughout AllocateArgs every use of a phi reads the
\* tau nearest above it, or the phi where no tau is.
THEOREM UsesInnermost == PipelineSpec => []InnermostTau
BY PipelineNames, PTL DEF NameInv

\* HPSSA.cpp: so it does after the Search of the first pass.
THEOREM FirstUsesInnermost == FirstSpec => []InnermostTau
BY FirstNames, PTL DEF NameInv

----------------------------------------------------------------------------
(* No tau stays that nothing reads, in a step of HPSSA_new.cpp.            *)

\* Before Search nothing is claimed but that the taus have no arguments.
LEMMA StartingKept ==
    ASSUME TauInv, KeptInv, Starting, Connect \/ Connected \/ InsertTaus \/ NextBlock
    PROVE  KeptInv'
<1>1. pc' \in {"connect", "insert"}
  BY DEF Connect, Connected, InsertTaus, NextBlock
<1>2. ~ Searching' /\ ~ renamed' /\ \A t \in LiveTaus : args[t] = {}
  BY <1>1 DEF Searching, renamed, KeptInv, NoArguments
<1>3. \A t \in LiveTaus' : args'[t] = {}
  <2>1. CASE Connect \/ Connected \/ NextBlock
    <3>1. UNCHANGED <<taus, args>>
      BY <2>1 DEF Connect, Connected, NextBlock, textVars
    <3> QED
      BY <1>2, <3>1 DEF LiveTaus
  <2>2. CASE InsertTaus
    <3>1. PICK z, hot : z = fn.phis[fn.rpo[pos]][it] /\ hot = [c \in Refining(fn.rpo[pos]) |-> {}]
      OBVIOUS
    <3>2. Insert(z, hot)
      BY <2>2, <3>1 DEF InsertTaus
    <3>3. PICK new : new = {Tau(z, c) : c \in DOMAIN hot}
      OBVIOUS
    <3>4. PICK g : g = [t \in new |-> hot[t.at]]
      OBVIOUS
    <3>5. /\ args' = Over(g, args)
          /\ taus' = [c \in Blocks |-> IF c \in DOMAIN hot THEN <<Tau(z, c)>> \o taus[c] ELSE taus[c]]
      BY <3>2, <3>3, <3>4 DEF Insert
    <3>6. \A t \in new : g[t] = {}
      BY <3>1, <3>3, <3>4 DEF Tau
    <3>7. DOMAIN args = LiveTaus
      BY DEF TauInv, TextForm
    <3>8. ASSUME NEW t \in LiveTaus' PROVE t \in new \cup LiveTaus
      <4>1. PICK c \in Blocks : t \in ToSet(taus'[c])
        BY <3>8 DEF LiveTaus
      <4>2. CASE c \notin DOMAIN hot
        BY <3>5, <4>1, <4>2 DEF LiveTaus
      <4>3. CASE c \in DOMAIN hot
        <5>1. taus[c] \in Seq(TauNames)
          BY DEF TauInv, TextForm, TausForm
        <5>2. t \in ToSet(<<Tau(z, c)>> \o taus[c])
          BY <3>5, <4>1, <4>3
        <5>3. t = Tau(z, c) \/ t \in ToSet(taus[c])
          BY <5>1, <5>2 DEF ToSet
        <5> QED
          BY <3>3, <4>3, <5>3 DEF LiveTaus
      <4> QED
        BY <4>2, <4>3
    <3> QED
      BY <1>2, <3>4, <3>5, <3>6, <3>7, <3>8 DEF Over
  <2> QED
    BY <2>1, <2>2
<1> QED
  BY <1>2, <1>3 DEF KeptInv, NoArguments, Kept, NoSpuriousTau

LEMMA InsertedKept ==
    ASSUME TauInv, KeptInv, Inserted
    PROVE  KeptInv'
<1>1. UNCHANGED <<taus, args>> /\ pc = "insert" /\ pc' = "search" /\ Searched' = {}
  BY NothingSearched DEF Inserted, textVars
<1>2. NoArguments'
  BY <1>1 DEF KeptInv, NoArguments, Starting, LiveTaus
<1>3. Kept' /\ NoSpuriousTau'
  BY <1>1 DEF Kept, NoSpuriousTau, renamed
<1> QED
  BY <1>2, <1>3 DEF KeptInv

\* In Search a tau that was popped and kept must stay read.
LEMMA SearchingKept ==
    ASSUME Searching, Searching', KeptInv, fn' = fn, NoArguments',
           DistinctOperands(fn) =>
               \A t \in LiveTaus' : t.at \in Searched' /\ ~ Waiting(t)' =>
                   \/ Read(t)'
                   \/ t \in LiveTaus /\ t.at \in Searched /\ ~ Waiting(t) /\ (Read(t) => Read(t)')
    PROVE  KeptInv'
<1>1. Kept'
  BY DEF KeptInv, Kept, DistinctOperands
<1> QED
  BY <1>1 DEF KeptInv, Searching, NoSpuriousTau, renamed

\* So it does if no text changes.
LEMMA GoingOnKept ==
    ASSUME TauInv, KeptInv, Searching, Searching', UNCHANGED <<fn, textVars>>, Searched' = Searched,
           \A t \in LiveTaus : t.at \in Searched /\ Waiting(t) => Waiting(t)'
    PROVE  KeptInv'
<1>1. LiveTaus' = LiveTaus /\ Phis' = Phis /\ Insts' = Insts /\ Reachable(fn)' = Reachable(fn)
      /\ UNCHANGED <<args, operand, phiOp, useOf>>
  BY SameText DEF Reachable, textVars
<1>2. NoArguments'
  BY <1>1 DEF KeptInv, NoArguments, Starting, Searching
<1>3. \A t : Read(t) => Read(t)'
  BY <1>1 DEF Read
<1> QED
  BY <1>1, <1>2, <1>3, SearchingKept

\* Renaming the phis of a block takes no use of a tau away.
LEMMA SearchKept ==
    ASSUME TauInv, KeptInv, Search
    PROVE  KeptInv'
<1> DEFINE phis == ToSet(fn.phis[Called])
<1>1. /\ UNCHANGED <<fn, taus, operand, args, useOf, DT, visit>>
      /\ pc = "search" /\ pc' = "rename"
      /\ phiOp' = [z \in Phis |->
                        IF z \in phis
                        THEN [u \in DOMAIN phiOp[z] |-> Renamed(phiOp[z][u])]
                        ELSE phiOp[z]]
  BY DEF Search, walkVars
<1>2. Searching /\ Searching' /\ Ground /\ Chain /\ visit # << >>
  BY <1>1 DEF Searching, TauInv, Chain
<1>3. /\ LiveTaus' = LiveTaus /\ Phis' = Phis /\ Insts' = Insts
      /\ Reachable(fn)' = Reachable(fn) /\ Searched' = Searched
  BY <1>1, SameSearched DEF LiveTaus, Phis, Insts
<1>4. NoArguments'
  BY <1>1, <1>2, <1>3 DEF KeptInv, NoArguments
<1>5. \A t \in LiveTaus : Waiting(t)' <=> Waiting(t)
  BY <1>1 DEF Waiting, Unpopped
<1>6. \A z \in phis : HomeOf(z) = Called
  BY <1>2, Calling, PhiAtHome
<1>7. ASSUME NEW z \in Phis, NEW u \in DOMAIN fn.op[z], NEW t \in LiveTaus, phiOp[z][u] = t
      PROVE  phiOp'[z][u] = t
  <2>1. t \in TauNames /\ u \in DOMAIN phiOp[z]
    BY LiveInBlock DEF TauInv, TextForm
  <2>2. CASE z \in phis
    <3>1. phiOp'[z][u] = Renamed(phiOp[z][u])
      BY <1>1, <2>1, <2>2
    <3>2. Renamed(phiOp[z][u]) = phiOp[z][u]
      <4> SUFFICES ASSUME Renamed(phiOp[z][u]) # phiOp[z][u] PROVE FALSE
        OBVIOUS
      <4>1. phiOp[z][u] \in Phis
        BY <1>1, <1>6, <2>2, RenamedAtHome
      <4> QED
        BY <1>2, <1>7, <2>1, <4>1, ReadNoTau
    <3> QED
      BY <1>7, <3>1, <3>2
  <2>3. CASE z \notin phis
    BY <1>1, <1>7, <2>3
  <2> QED
    BY <2>2, <2>3
<1>8. \A t \in LiveTaus : Read(t) => Read(t)'
  BY <1>1, <1>3, <1>7 DEF Read
<1> QED
  BY <1>1, <1>2, <1>3, <1>4, <1>5, <1>8, SearchingKept

\* Nor does renaming a tau, which read its phi.
LEMMA SearchTauKept ==
    ASSUME TauInv, NameInv, KeptInv, SearchTau
    PROVE  KeptInv'
<1>1. PICK t0 : t0 = taus[Called][it]
  OBVIOUS
<1>2. /\ UNCHANGED <<fn, taus, phiOp, useOf, DT, visit>>
      /\ pc = "rename" /\ pc' = "rename" /\ it \in DOMAIN taus[Called]
      /\ \A s : s # t0 => operand'[s] = operand[s]
      /\ args' = [args EXCEPT ![t0] = {Renamed(v) : v \in args[t0]}]
  BY <1>1 DEF SearchTau, walkVars
<1>3. Searching /\ Searching' /\ Ground
  BY <1>2 DEF Searching, TauInv
<1>4. /\ LiveTaus' = LiveTaus /\ Phis' = Phis /\ Insts' = Insts
      /\ Reachable(fn)' = Reachable(fn) /\ Searched' = Searched
  BY <1>2, SameSearched DEF LiveTaus, Phis, Insts
<1>5. t0 \in LiveTaus /\ operand[t0] = t0.phi
  BY <1>1, <1>2, NameOfTauHere
<1>6. NoArguments'
  <2>1. \A t \in LiveTaus : args[t] = {}
    BY <1>3 DEF KeptInv, NoArguments
  <2>2. {Renamed(v) : v \in args[t0]} = {}
    BY <1>5, <2>1
  <2>3. \A t \in LiveTaus : args'[t] = {}
    BY <1>2, <1>5, <2>1, <2>2 DEF TauInv, TextForm
  <2> QED
    BY <1>4, <2>3 DEF NoArguments
<1>7. \A t \in LiveTaus : Waiting(t)' <=> Waiting(t)
  BY <1>2 DEF Waiting, Unpopped
<1>8. \A t \in LiveTaus : \A s \in LiveTaus : operand[s] = t => operand'[s] = t
  <2>1. \A t \in LiveTaus : t # t0.phi
    BY <1>3, <1>5, LiveInBlock, ReadNoTau DEF TauInv, TextForm
  <2> QED
    BY <1>2, <1>5, <2>1
<1>9. \A t \in LiveTaus : Read(t) => Read(t)'
  BY <1>2, <1>4, <1>8 DEF Read
<1> QED
  BY <1>2, <1>3, <1>4, <1>6, <1>7, <1>9, SearchingKept

\* Nor does renaming the uses of the block at hand, which was not searched; its own taus
\* wait on their stacks.
LEMMA SearchUsesKept ==
    ASSUME TauInv, NameInv, KeptInv, SearchUses
    PROVE  KeptInv'
<1>1. UNCHANGED <<fn, taus, operand, args, DT, visit>> /\ pc = "rename" /\ pc' = "searched"
  BY DEF SearchUses, walkVars
<1>2. Searching /\ Searching' /\ Ground /\ Chain /\ visit # << >>
  BY <1>1 DEF Searching, TauInv, Chain
<1>3. /\ LiveTaus' = LiveTaus /\ Phis' = Phis /\ Insts' = Insts
      /\ Reachable(fn)' = Reachable(fn) /\ Searched' = Searched \cup {Called}
  BY <1>1, SearchesUses DEF LiveTaus, Phis, Insts, Reachable
<1>4. Called \in Reachable(fn) \ Searched /\ Called \in Blocks
      /\ Len(visit) \in DOMAIN visit /\ visit[Len(visit)].block = Called
  BY <1>1, <1>2, Calling, SearchedAbove
<1>5. NoArguments'
  BY <1>1, <1>2, <1>3 DEF KeptInv, NoArguments
<1>6. \A t \in LiveTaus : (Waiting(t) => Waiting(t)') /\ (t.at = Called => Waiting(t)')
  BY <1>1, <1>4 DEF Waiting, Unpopped
<1>7. ASSUME DistinctOperands(fn), NEW t \in LiveTaus, Read(t) PROVE Read(t)'
  <2>1. CASE \E z \in Phis : \E u \in DOMAIN fn.op[z] : phiOp[z][u] = t /\ u \notin Reachable(fn) \ Searched
    <3> PICK z \in Phis : \E u \in DOMAIN fn.op[z] : phiOp[z][u] = t /\ u \notin Reachable(fn) \ Searched
      BY <2>1
    <3>1. PICK u \in DOMAIN fn.op[z] : phiOp[z][u] = t /\ u \notin Reachable(fn) \ Searched
      OBVIOUS
    <3>2. u # Called /\ phiOp'[z][u] = t
      BY <1>4, <1>7, <3>1, UsesRenamed
    <3> QED
      BY <1>1, <1>3, <3>1, <3>2 DEF Read
  <2>2. CASE \E i \in Insts : useOf[i] = t
    <3>1. PICK i \in Insts : useOf[i] = t
      BY <2>2
    <3>2. i \notin ToSet(fn.body[Called])
      <4> SUFFICES ASSUME i \in ToSet(fn.body[Called]) PROVE FALSE
        OBVIOUS
      <4>1. useOf[i] = fn.use[i]
        BY <1>2, <1>4, <1>7 DEF NameInv, Named, BodyNamed
      <4> QED
        BY <1>2, <3>1, <4>1, LiveInBlock, ReadNoTau DEF TauInv, TextForm
    <3>3. useOf'[i] = t
      BY <1>7, <3>1, <3>2, UsesRenamed
    <3> QED
      BY <1>3, <3>3 DEF Read
  <2>3. CASE \E s \in LiveTaus : operand[s] = t
    BY <1>1, <1>3, <2>3 DEF Read
  <2> QED
    BY <1>7, <2>1, <2>2, <2>3 DEF Read
<1> QED
  BY <1>1, <1>2, <1>3, <1>5, <1>6, <1>7, SearchingKept

LEMMA SearchChildKept ==
    ASSUME TauInv, NameInv, KeptInv, SearchChild
    PROVE  KeptInv'
<1>1. UNCHANGED <<fn, DT, textVars>> /\ pc = "searched" /\ pc' = "search"
  BY DEF SearchChild, walkVars
<1>2. Searching /\ Searching' /\ Ground /\ Chain /\ visit # << >>
  BY <1>1 DEF Searching, TauInv, Chain
<1>3. PICK c \in ToVisit : VisitChild(c)
  BY DEF SearchChild
<1>4. \A k \in DOMAIN visit : k \in DOMAIN visit' /\ visit'[k].block = visit[k].block
  BY <1>1, <1>2, <1>3, CallDown
<1>5. \A t \in LiveTaus : Waiting(t) => Waiting(t)'
  BY <1>1, <1>4 DEF Waiting, Unpopped
<1> QED
  BY <1>1, <1>2, <1>5, SearchesChild, GoingOnKept

\* All taus of the block are to be popped.
LEMMA SearchedChildrenKept ==
    ASSUME TauInv, NameInv, KeptInv, SearchedChildren
    PROVE  KeptInv'
<1>1. /\ UNCHANGED <<fn, DT, visit, textVars>> /\ pc = "searched" /\ pc' = "pop"
      /\ varstack' = {z \in DOMAIN renaming_stack : <<Called, z>> \in hasTau}
  BY DEF SearchedChildren, walkVars, PoppedAt
<1>2. Searching /\ Searching' /\ Ground /\ Chain /\ visit # << >>
  BY <1>1 DEF Searching, TauInv, Chain
<1>3. Searched' = Searched
  BY <1>1, SameSearched
<1>4. ASSUME NEW t \in LiveTaus, t.at \in Searched, Waiting(t) PROVE Waiting(t)'
  <2>1. PICK k \in DOMAIN visit : visit[k].block = t.at
    BY <1>4 DEF Waiting
  <2>2. CASE k # Len(visit)
    BY <1>1, <2>1, <2>2 DEF Waiting, Unpopped
  <2>3. CASE k = Len(visit)
    <3>1. t.at = Called
      BY <1>2, <2>1, <2>3, Calling
    <3>2. <<Called, t.phi>> \in hasTau
      BY <1>2, <1>4, <3>1 DEF NameInv, Pushed, IsPushed
    <3>3. t.phi \in DOMAIN renaming_stack
      <4>1. PICK depth \in [Blocks -> Nat] : Mapped(depth)
        BY DEF TauInv
      <4>2. PICK e \in hasTau : e = <<Called, t.phi>>
        BY <3>2
      <4>3. e[2] \in DOMAIN renaming_stack
        BY <1>2, <4>1 DEF Mapped
      <4> QED
        BY <4>2, <4>3
    <3>4. t.phi \in varstack'
      BY <1>1, <3>2, <3>3
    <3> QED
      BY <1>1, <2>1, <3>4 DEF Waiting, Unpopped
  <2> QED
    BY <2>2, <2>3
<1> QED
  BY <1>1, <1>2, <1>3, <1>4, GoingOnKept

\* What a tau read that was named, if a tau, stands above the tau's block, and so waits on
\* its stack until that block's call has ended.
LEMMA ReadWaits ==
    ASSUME TauInv, NameInv, Searching, DistinctOperands(fn),
           NEW s \in LiveTaus, s.at = Called, Called \in Searched,
           NEW t \in LiveTaus, operand[s] = t
    PROVE  \E k \in DOMAIN visit : k # Len(visit) /\ visit[k].block = t.at
<1>1. Ground /\ Chain /\ visit # << >> /\ Called \in Reachable(fn)
  BY Calling DEF Searching, TauInv, Chain
<1>2. IsNameOf(t, s.phi, DT[Called])
  BY DEF NameInv, Named, TausNamed, Pushed, IsPushed
<1>3. t # s.phi
  BY <1>1, LiveInBlock, ReadNoTau DEF TauInv, TextForm
<1>4. t.at \in Above[DT[Called]]
  BY <1>2, <1>3 DEF IsNameOf
<1>5. Called \in DOMAIN DT
  <2>1. s.phi \in Phis
    BY LiveInBlock DEF TauInv, TextForm
  <2>2. PICK b \in Above[Called] : b \in Blocks /\ s.phi \in ToSet(fn.phis[b])
    BY DEF TauInv, BelowPhi
  <2>3. b # fn.entry
    BY <1>1, <2>1, <2>2, PhiAtHome, PhiPlace
  <2>4. Called # fn.entry
    BY <1>1, <2>2, <2>3, AboveEquation
  <2> QED
    BY <1>1, <2>4, GroundForm
<1>6. t.at \in Above[Called] /\ t.at # Called
  BY <1>1, <1>4, <1>5, AboveParent
<1> QED
  BY <1>6, CallsAbove

\* A tau is popped when all below its block is searched; if it is kept, it is read.  The
\* one that is erased read none that was popped before.
LEMMA SearchPopKept ==
    ASSUME TauInv, NameInv, KeptInv, SearchPop
    PROVE  KeptInv'
<1>1. UNCHANGED <<fn, phiOp, useOf, DT, visit>> /\ pc = "pop" /\ pc' = "pop"
  BY DEF SearchPop, walkVars
<1>2. PICK z \in varstack :
          LET t == Last(renaming_stack[z])
          IN /\ IF Unused(t)
                THEN /\ taus' = Without(t)
                     /\ operand' = Restrict(operand, DOMAIN operand \ {t})
                     /\ args' = Restrict(args, DOMAIN args \ {t})
                ELSE UNCHANGED <<taus, operand, args>>
             /\ varstack' = varstack \ {z}
  BY DEF SearchPop
<1>3. PICK t0 : t0 = Last(renaming_stack[z])
  OBVIOUS
<1>4. /\ Unused(t0) => /\ taus' = Without(t0)
                       /\ operand' = Restrict(operand, DOMAIN operand \ {t0})
                       /\ args' = Restrict(args, DOMAIN args \ {t0})
      /\ ~ Unused(t0) => UNCHANGED <<taus, operand, args>>
      /\ varstack' = varstack \ {z}
  BY <1>2, <1>3
<1>5. /\ Searching /\ Searching' /\ ~ Starting' /\ Ground /\ Chain /\ visit # << >>
      /\ TextForm /\ TausForm /\ ReadsOriginal
  BY <1>1 DEF Searching, Starting, TauInv, Chain, TextForm
<1>6. t0 \in LiveTaus /\ t0.phi = z /\ t0.at = Called
  BY <1>1, <1>3, PoppedHere
<1>7. /\ LiveTaus' = IF Unused(t0) THEN LiveTaus \ {t0} ELSE LiveTaus
      /\ \A s \in LiveTaus' : operand'[s] = operand[s] /\ args'[s] = args[s]
  <2>1. CASE ~ Unused(t0)
    BY <1>4, <2>1 DEF LiveTaus
  <2>2. CASE Unused(t0)
    <3>1. LiveTaus' = LiveTaus \ {t0}
      BY <1>1, <1>4, <1>5, <1>6, <2>2, WithoutTau
    <3>2. DOMAIN operand = LiveTaus /\ DOMAIN args = LiveTaus
      BY <1>5 DEF TextForm
    <3> QED
      BY <1>4, <2>2, <3>1, <3>2 DEF Restrict
  <2> QED
    BY <2>1, <2>2
<1>8. /\ Phis' = Phis /\ Insts' = Insts /\ Reachable(fn)' = Reachable(fn) /\ Searched' = Searched
  BY <1>1, SameSearched DEF Phis, Insts
<1>9. NoArguments'
  BY <1>5, <1>7 DEF KeptInv, NoArguments
<1>10. Called \in Searched
  BY <1>1, <1>5, Calling, SearchedAbove
<1>11. ASSUME NEW t \in LiveTaus', t = t0, DistinctOperands(fn) PROVE Read(t)'
  <2>1. ~ Unused(t0) /\ LiveTaus' = LiveTaus
    BY <1>7, <1>11
  <2>2. \/ \E y \in Phis : \E u \in DOMAIN fn.op[y] : phiOp[y][u] = t0
        \/ \E i \in Insts : useOf[i] = t0
        \/ \E s \in LiveTaus : operand[s] = t0
    <3>1. \A s \in LiveTaus : t0 \notin args[s]
      BY <1>5 DEF KeptInv, NoArguments
    <3>2. \A y \in Phis : DOMAIN phiOp[y] = DOMAIN fn.op[y]
      BY <1>5 DEF TextForm
    <3> QED
      BY <2>1, <3>1, <3>2 DEF Unused
  <2>3. ASSUME NEW y \in Phis, NEW u \in DOMAIN fn.op[y], phiOp[y][u] = t0
        PROVE  u \notin Reachable(fn) \ Searched
    <3> SUFFICES ASSUME u \in Reachable(fn), u \notin Searched PROVE FALSE
      OBVIOUS
    <3>1. t0 \in TauNames
      BY <1>5, <1>6, LiveInBlock
    <3>2. Called \in Above[u]
      BY <1>5, <1>6, <1>11, <2>3, <3>1 DEF NameInv, Named, EdgesNamed
    <3>3. ToVisit = {}
      BY <1>1, <1>5 DEF NameInv, TodoInOrder
    <3> QED
      BY <1>1, <3>2, <3>3, SearchedBelow
  <2>4. \A s \in LiveTaus : operand'[s] = operand[s]
    BY <1>7, <2>1
  <2> QED
    BY <1>1, <1>8, <1>11, <2>1, <2>2, <2>3, <2>4 DEF Read
<1>12. ASSUME NEW t \in LiveTaus', t # t0, ~ Waiting(t)' PROVE ~ Waiting(t)
  <2> SUFFICES ASSUME NEW k \in DOMAIN visit, visit[k].block = t.at, Unpopped(k, t.phi) PROVE FALSE
    BY DEF Waiting
  <2>1. k = Len(visit) /\ t.phi \notin varstack \ {z}
    BY <1>1, <1>4, <1>12 DEF Waiting, Unpopped
  <2>2. t.phi = z
    BY <1>1, <2>1 DEF Unpopped
  <2>3. t.at = Called
    BY <1>5, <2>1, Calling
  <2>4. t \in LiveTaus
    BY <1>7
  <2> QED
    BY <1>5, <1>6, <1>12, <2>2, <2>3, <2>4, OneTauOfPhi
<1>13. ASSUME NEW t \in LiveTaus', DistinctOperands(fn), ~ Waiting(t)', Read(t) PROVE Read(t)'
  <2>1. CASE \E s \in LiveTaus : operand[s] = t
    <3>1. PICK s \in LiveTaus : operand[s] = t
      BY <2>1
    <3>2. CASE s \in LiveTaus'
      <4>1. operand'[s] = t
        BY <1>7, <3>1, <3>2
      <4> QED
        BY <3>2, <4>1 DEF Read
    <3>3. CASE s \notin LiveTaus'
      <4>1. s = t0 /\ t \in LiveTaus
        BY <1>7, <3>3
      <4>2. PICK k \in DOMAIN visit : k # Len(visit) /\ visit[k].block = t.at
        BY <1>5, <1>6, <1>10, <1>13, <3>1, <4>1, ReadWaits
      <4> QED
        BY <1>1, <1>13, <4>2 DEF Waiting, Unpopped
    <3> QED
      BY <3>2, <3>3
  <2>2. CASE ~ \E s \in LiveTaus : operand[s] = t
    BY <1>1, <1>8, <1>13, <2>2 DEF Read
  <2> QED
    BY <2>1, <2>2
<1>14. \A t \in LiveTaus' : t \in LiveTaus
  BY <1>7
<1> QED
  BY <1>1, <1>5, <1>8, <1>9, <1>11, <1>12, <1>13, <1>14, SearchingKept

\* After Search every tau was popped.
LEMMA SearchReturnKept ==
    ASSUME TauInv, NameInv, KeptInv, SearchReturn
    PROVE  KeptInv'
<1>1. /\ UNCHANGED <<fn, DT, textVars>> /\ pc = "pop" /\ varstack = {}
      /\ pc' = IF Len(visit) > 1 THEN "searched" ELSE "allocate"
  BY DEF SearchReturn, walkVars
<1>2. Searching /\ Ground /\ Chain /\ visit # << >> /\ ~ Starting
  BY <1>1 DEF Searching, Starting, TauInv, Chain
<1>3. \A t : Waiting(t) => \E k \in DOMAIN visit : k # Len(visit) /\ visit[k].block = t.at
  BY <1>1 DEF Waiting, Unpopped
<1>4. CASE Len(visit) > 1
  <2>1. Searching' /\ pc' = "searched"
    BY <1>1, <1>4 DEF Searching
  <2>2. \A t : Waiting(t) => Waiting(t)'
    BY <1>3, <1>4, <2>1, SearchesOn DEF Waiting, Unpopped
  <2>3. Searched' = Searched
    BY <1>4, SearchesOn
  <2> QED
    BY <1>1, <1>2, <2>1, <2>2, <2>3, GoingOnKept
<1>5. CASE ~ (Len(visit) > 1)
  <2>1. ~ Starting' /\ ~ Searching'
    BY <1>1, <1>5 DEF Starting, Searching
  <2>2. \A k \in DOMAIN visit : k = Len(visit)
    BY <1>2, <1>5, Calling
  <2>3. ASSUME DistinctOperands(fn), NEW t \in LiveTaus PROVE Read(t)
    <3>1. t.at \in Searched
      BY <1>1, <1>2, <1>5, AllSearched DEF NameInv, TausReachable
    <3> QED
      BY <1>2, <1>3, <2>2, <2>3, <3>1 DEF KeptInv, Kept
  <2>4. UNCHANGED <<taus, operand, phiOp, useOf>> /\ LiveTaus' = LiveTaus /\ Phis' = Phis /\ Insts' = Insts
    BY <1>1, SameText DEF textVars
  <2>5. \A z \in Phis : DOMAIN phiOp[z] = DOMAIN fn.op[z]
    BY DEF TauInv, TextForm
  <2>6. NoSpuriousTau'
    BY <1>1, <2>3, <2>4, <2>5 DEF NoSpuriousTau, Read, DistinctOperands
  <2> QED
    BY <2>1, <2>6 DEF KeptInv, NoArguments, Kept
<1> QED
  BY <1>4, <1>5

\* After Search nothing is claimed but that the taus are read.
LEMMA LaterKept ==
    ASSUME ~ Starting', ~ Searching', NoSpuriousTau'
    PROVE  KeptInv'
BY DEF KeptInv, NoArguments, Kept

LEMMA SameTextKept ==
    ASSUME KeptInv, ~ Starting', ~ Searching', UNCHANGED <<fn, textVars>>, renamed
    PROVE  KeptInv'
<1>1. UNCHANGED <<operand, phiOp, useOf>> /\ LiveTaus' = LiveTaus /\ Phis' = Phis /\ Insts' = Insts
  BY SameText DEF textVars
<1>2. NoSpuriousTau'
  BY <1>1 DEF KeptInv, NoSpuriousTau, DistinctOperands
<1> QED
  BY <1>2, LaterKept

\* What read the old tau reads the new one.
LEMMA AllocateTauKept ==
    ASSUME TauInv, KeptInv, AllocateTau
    PROVE  KeptInv'
<1>1. UNCHANGED <<fn, pc>> /\ pc = "taus"
  BY DEF AllocateTau, walkVars
<1>2. ~ Starting' /\ ~ Searching' /\ renamed
  BY <1>1 DEF Starting, Searching, renamed
<1>3. CASE UNCHANGED textVars
  BY <1>1, <1>2, <1>3, SameTextKept
<1>4. CASE ~ UNCHANGED textVars
  <2>1. PICK old, new : Replaced(old, new)
    BY <1>4, AllocateTauText
  <2>2. /\ old \in LiveTaus /\ operand[old] # old
        /\ LiveTaus' = (LiveTaus \ {old}) \cup {new}
        /\ \A t \in LiveTaus : t # old => t # new
        /\ phiOp' = [z \in Phis |-> [u \in DOMAIN phiOp[z] |-> Sub(old, new, phiOp[z][u])]]
        /\ useOf' = [i \in Insts |-> Sub(old, new, useOf[i])]
        /\ operand' = [t \in LiveTaus' |-> IF t = new THEN operand[old] ELSE Sub(old, new, operand[t])]
    BY <2>1 DEF Replaced, PhiOpWith, UseOfWith
  <2>3. Phis' = Phis /\ Insts' = Insts
    BY <1>1 DEF Phis, Insts
  <2>4. ASSUME DistinctOperands(fn), NEW t \in LiveTaus'
        PROVE  \/ \E z \in Phis : \E u \in DOMAIN phiOp'[z] : phiOp'[z][u] = t
               \/ \E i \in Insts : useOf'[i] = t
               \/ \E s \in LiveTaus' : operand'[s] = t
    <3>1. PICK s \in LiveTaus : t = Sub(old, new, s)
      BY <2>2 DEF Sub
    <3>2. \/ \E z \in Phis : \E u \in DOMAIN phiOp[z] : phiOp[z][u] = s
          \/ \E i \in Insts : useOf[i] = s
          \/ \E r \in LiveTaus : operand[r] = s
      BY <1>2, <2>4 DEF KeptInv, NoSpuriousTau
    <3>3. CASE \E z \in Phis : \E u \in DOMAIN phiOp[z] : phiOp[z][u] = s
      BY <2>2, <3>1, <3>3
    <3>4. CASE \E i \in Insts : useOf[i] = s
      BY <2>2, <3>1, <3>4
    <3>5. CASE \E r \in LiveTaus : operand[r] = s
      <4>1. PICK r \in LiveTaus : operand[r] = s
        BY <3>5
      <4>2. CASE r = old
        <5>1. operand'[new] = s /\ new \in LiveTaus'
          BY <2>2, <4>1, <4>2
        <5>2. t = s
          BY <2>2, <3>1, <4>1, <4>2 DEF Sub
        <5> QED
          BY <5>1, <5>2
      <4>3. CASE r # old
        <5>1. r \in LiveTaus' /\ r # new
          BY <2>2, <4>3
        <5>2. operand'[r] = t
          BY <2>2, <3>1, <4>1, <5>1
        <5> QED
          BY <5>1, <5>2
      <4> QED
        BY <4>2, <4>3
    <3> QED
      BY <3>2, <3>3, <3>4, <3>5
  <2>5. NoSpuriousTau'
    BY <1>1, <2>3, <2>4 DEF NoSpuriousTau, DistinctOperands
  <2> QED
    BY <1>2, <2>5, LaterKept
<1> QED
  BY <1>3, <1>4

LEMMA AllocateKept ==
    ASSUME KeptInv, AllocatePhis \/ AllocateSuccessors \/ AllocateChild \/ AllocateReturn
    PROVE  KeptInv'
<1>1. AllocatePhis \/ AllocateSuccessors =>
          UNCHANGED <<fn, textVars>> /\ pc \in {"allocate", "taus"} /\ pc' \in {"taus", "allocated"}
  BY DEF AllocatePhis, AllocateSuccessors, walkVars
<1>2. AllocateChild \/ AllocateReturn =>
          UNCHANGED <<fn, textVars>> /\ pc = "allocated" /\ pc' \in {"allocate", "allocated", "hpssa"}
  BY DEF AllocateChild, AllocateReturn, walkVars
<1>3. renamed /\ ~ Starting' /\ ~ Searching' /\ UNCHANGED <<fn, textVars>>
  BY <1>1, <1>2 DEF renamed, Starting, Searching
<1> QED
  BY <1>3, SameTextKept

LEMMA StutteringKept ==
    ASSUME TauInv, KeptInv, UNCHANGED pipelineVars
    PROVE  KeptInv'
<1>1. UNCHANGED <<fn, DT, textVars, args, pc, visit, varstack>>
  BY DEF pipelineVars, vars, walkVars, searchVars, textVars
<1>2. CASE Searching
  <2>1. Searched' = Searched /\ Searching'
    BY <1>1, <1>2, SameSearched DEF Searching
  <2>2. \A t : Waiting(t) => Waiting(t)'
    BY <1>1 DEF Waiting, Unpopped
  <2> QED
    BY <1>1, <1>2, <2>1, <2>2, GoingOnKept
<1>3. CASE ~ Searching
  <2>1. ~ Searching' /\ (renamed' <=> renamed) /\ (Starting' <=> Starting)
    BY <1>1, <1>3 DEF Searching, renamed, Starting
  <2>2. LiveTaus' = LiveTaus
    BY <1>1, SameText
  <2>3. CASE Starting
    <3>1. ~ renamed'
      BY <1>1, <2>3 DEF renamed, Starting
    <3> QED
      BY <1>1, <2>1, <2>2, <2>3, <3>1 DEF KeptInv, NoArguments, Kept, NoSpuriousTau
  <2>4. CASE ~ Starting /\ renamed
    BY <1>1, <2>1, <2>4, SameTextKept
  <2>5. CASE ~ Starting /\ ~ renamed
    BY <2>1, <2>5, LaterKept DEF NoSpuriousTau
  <2> QED
    BY <2>3, <2>4, <2>5
<1> QED
  BY <1>2, <1>3

LEMMA PipelineKeptStep ==
    ASSUME PipelineInv, NameInv, KeptInv, [PipelineNext]_pipelineVars
    PROVE  KeptInv'
<1>1. TauInv
  BY DEF PipelineInv
<1>2. CASE Next
  <2>1. Connect \/ Connected \/ InsertTaus \/ NextBlock => Starting
    BY DEF Connect, Connected, InsertTaus, NextBlock, Starting
  <2>2. Connect \/ Connected \/ InsertTaus \/ NextBlock \/ Inserted => KeptInv'
    BY <1>1, <2>1, StartingKept, InsertedKept
  <2>3. Search \/ SearchTau \/ SearchUses \/ SearchChild => KeptInv'
    BY <1>1, SearchKept, SearchTauKept, SearchUsesKept, SearchChildKept
  <2>4. SearchedChildren \/ SearchPop \/ SearchReturn => KeptInv'
    BY <1>1, SearchedChildrenKept, SearchPopKept, SearchReturnKept
  <2>5. AllocatePhis \/ AllocateTau \/ AllocateSuccessors => KeptInv'
    BY <1>1, AllocateKept, AllocateTauKept
  <2>6. AllocateChild \/ AllocateReturn => KeptInv'
    BY AllocateKept
  <2> QED
    BY <1>2, <2>2, <2>3, <2>4, <2>5, <2>6 DEF Next
<1>3. CASE Collect \/ RemoveTau \/ AllRemoved
  <2>1. pc' \in {"destroy", "done"}
    BY <1>3 DEF Collect, RemoveTau, AllRemoved
  <2> QED
    BY <2>1, LaterKept DEF Starting, Searching, NoSpuriousTau, renamed
<1>4. CASE UNCHANGED pipelineVars
  BY <1>1, <1>4, StutteringKept
<1> QED
  BY <1>2, <1>3, <1>4 DEF PipelineNext

LEMMA InitKept == Init => KeptInv
<1> SUFFICES ASSUME Init PROVE KeptInv
  OBVIOUS
<1>1. pc = "connect" /\ LiveTaus = {}
  BY DEF Init, Original, LiveTaus, ToSet
<1> QED
  BY <1>1 DEF KeptInv, NoArguments, Kept, NoSpuriousTau, Searching, renamed

\* HPSSA_new.cpp: after Search and throughout AllocateArgs every tau left is read by an
\* instruction, by a phi or as the first argument of another tau.
THEOREM NoTauSpurious == PipelineSpec => []NoSpuriousTau
<1>1. PipelineInit => PipelineInv /\ pc # "walk" /\ NameInv /\ KeptInv
  BY InitPipeline, InitName, InitKept DEF PipelineInit
<1>2. PipelineInv /\ pc # "walk" /\ NameInv /\ KeptInv /\ [PipelineNext]_pipelineVars
          => (PipelineInv /\ pc # "walk" /\ NameInv /\ KeptInv)'
  BY PipelineStep, PipelineNameStep, PipelineKeptStep
<1>3. KeptInv => NoSpuriousTau
  BY DEF KeptInv
<1> QED
  BY <1>1, <1>2, <1>3, PTL DEF PipelineSpec

----------------------------------------------------------------------------
(* The definitions that the walks of HPSSA.cpp carry.                      *)

\* What phi z of block b gets on edges from blocks of these paths.
ValuesOn(z, b, paths) ==
    UNION {{<<fn.op[z][u], p>> : p \in paths \cap HotPathSet[u]} : u \in Preds(fn, b)}

\* Phi z has a tau in block c exactly if it should.
Placed(z, c) ==
    (Tau(z, c) \in LiveTaus) <=> /\ HomeOf(z) \in Above[c]
                                 /\ ~ CutOff(HomeOf(z), c)
                                 /\ ReachingDefs(z, c) # {}

\* Block c comes before place j of the traversal.
Passes(j, c) == \E k \in DOMAIN fn.rpo : k < j /\ fn.rpo[k] = c

Profiles == HotPathSet = ProfileOf(fn) /\ isCaloric \subseteq Reachable(fn)

\* Each tau has the values of the paths through it.
ArgsFlow == \A t \in LiveTaus : {Root(v) : v \in args[t]} = ReachingDefs(t.phi, t.at)

\* What has been walked is below the block at hand; a hot path of this block has been
\* followed to each block below it that it comes to from a block that was walked.
WalkedFrom(b, z) ==
    /\ pos <= J
    /\ \A k \in DOMAIN fn.rpo : pos <= k /\ k < J => b \in Above[fn.rpo[k]]
    /\ \A c \in Blocks : currPaths[c] \subseteq HotPathSet[b] \cap HotPathSet[c]
    /\ currPaths[b] = HotPathSet[b]
    /\ \A c \in Blocks : defAccumulator[c] = ValuesOn(z, b, currPaths[c])
    /\ \A c \in Reachable(fn) \ {b} : \A x \in Reachable(fn) :
          b \in Above[c] /\ b \in Above[x] /\ c \in Succs(fn, x) /\ Passes(J, x)
              => HotPathSet[b] \cap HotPathSet[x] \cap HotPathSet[c] \subseteq currPaths[c]

\* The taus of a phi are placed when its walk is over, and those of the phi at hand as far
\* as its walk has come.
PlacedSoFar ==
    /\ pc \in {"insert", "walk"} =>
          \A c \in isCaloric : \A p \in DOMAIN fn.rpo : \A k \in DOMAIN fn.phis[fn.rpo[p]] :
              \/ p < pos \/ (p = pos /\ k < it)
              \/ pc = "walk" /\ p = pos /\ k = it /\ Passes(J, c)
              => Placed(fn.phis[fn.rpo[p]][k], c)
    /\ Searching /\ DOMAIN renaming_stack = {} =>
          \A z \in Phis : \A c \in isCaloric : Placed(z, c)

FlowInv ==
    /\ Profiles
    /\ PathsConnected =>
        /\ ArgsFlow
        /\ pc = "walk" => WalkedFrom(BB, fn.phis[BB][it])
        /\ PlacedSoFar

----------------------------------------------------------------------------
(* Hot paths go forward in the traversal.                                  *)

LEMMA BeforeTransitive ==
    ASSUME Ground, NEW a, NEW b, NEW c, Before(fn, a, b), Before(fn, b, c)
    PROVE  Before(fn, a, c)
<1>1. PICK k, l \in DOMAIN fn.rpo : k < l /\ fn.rpo[k] = a /\ fn.rpo[l] = b
  BY DEF Before
<1>2. PICK m, n \in DOMAIN fn.rpo : m < n /\ fn.rpo[m] = b /\ fn.rpo[n] = c
  BY DEF Before
<1>3. l = m /\ \A j \in DOMAIN fn.rpo : j \in Nat
  BY <1>1, <1>2, GroundForm DEF WellFormedGraph
<1>4. k < n
  BY <1>1, <1>2, <1>3
<1> QED
  BY <1>1, <1>2, <1>4 DEF Before

\* No block comes before itself.
LEMMA BeforeOnce ==
    ASSUME Ground, NEW a, NEW b, Before(fn, a, b)
    PROVE  /\ a \in Reachable(fn) /\ b \in Reachable(fn)
           /\ a # b /\ ~ Before(fn, b, a)
<1>1. ASSUME NEW c, Before(fn, c, c) PROVE FALSE
  <2>1. PICK k, l \in DOMAIN fn.rpo : k < l /\ fn.rpo[k] = c /\ fn.rpo[l] = c
    BY <1>1 DEF Before
  <2>2. k = l /\ k \in Nat
    BY <2>1, GroundForm DEF WellFormedGraph
  <2> QED
    BY <2>1, <2>2
<1>2. a \in Reachable(fn) /\ b \in Reachable(fn)
  BY DEF Before, Reachable
<1> QED
  BY <1>1, <1>2, BeforeTransitive

\* What is above a block comes before it in the traversal.
LEMMA AboveBefore ==
    ASSUME Ground, NEW c \in Reachable(fn), NEW b \in Above[c], b # c
    PROVE  Before(fn, b, c)
<1> DEFINE S == {n \in Nat : n \in DOMAIN fn.rpo /\ b \in Above[fn.rpo[n]] /\ b # fn.rpo[n]
                                => Before(fn, b, fn.rpo[n])}
<1>1. WellFormedGraph(fn) /\ DOMAIN fn.rpo = 1..Len(fn.rpo) /\ Len(fn.rpo) \in Nat
  BY GroundForm DEF WellFormedGraph
<1>2. ASSUME NEW n \in Nat, \A m \in Nat : m < n => m \in S PROVE n \in S
  <2> SUFFICES ASSUME n \in DOMAIN fn.rpo, b \in Above[fn.rpo[n]], b # fn.rpo[n]
               PROVE  Before(fn, b, fn.rpo[n])
    OBVIOUS
  <2>1. n > 1
    BY <1>1, AboveEquation DEF WellFormedGraph
  <2>2. PICK m \in 1..(n - 1) : fn.rpo[n] \in Succs(fn, fn.rpo[m])
    BY <1>1, <2>1 DEF WellFormedGraph
  <2>3. m \in Nat /\ m < n /\ m \in DOMAIN fn.rpo
    BY <1>1, <2>2
  <2>4. fn.rpo[m] \in Reachable(fn) /\ fn.rpo[n] \in Reachable(fn)
    BY <2>3 DEF Reachable
  <2>5. b \in Above[fn.rpo[m]]
    BY <2>2, <2>4, AbovePredecessors
  <2>6. Before(fn, fn.rpo[m], fn.rpo[n])
    BY <2>3 DEF Before
  <2>7. b # fn.rpo[m] => Before(fn, b, fn.rpo[m])
    BY <1>2, <2>3, <2>5
  <2> QED
    BY <2>6, <2>7, BeforeTransitive
<1>3. \A n \in Nat : n \in S
  <2> HIDE DEF S
  <2> QED
    BY <1>2, StrongInduction
<1>4. PICK n \in DOMAIN fn.rpo : fn.rpo[n] = c
  BY DEF Reachable
<1> QED
  BY <1>1, <1>3, <1>4

\* One step of a path.
LEMMA PathStep ==
    ASSUME Ground, PathsConnected, NEW p \in DOMAIN fn.paths,
           NEW n \in 1..(Len(fn.paths[p]) - 1)
    PROVE  /\ fn.paths[p][n + 1] \in Succs(fn, fn.paths[p][n])
           /\ Before(fn, fn.paths[p][n], fn.paths[p][n + 1])
<1> DEFINE u == fn.paths[p][n]
           v == fn.paths[p][n + 1]
<1>1. WellFormedGraph(fn) /\ TraversalForm(fn) /\ WellFormedPath(fn, fn.paths[p])
  BY GroundForm, ProgramsAssumption, TraversalAssumption DEF Ground
<1>2. v \in Succs(fn, u)
  BY DEF PathsConnected
<1>3. CASE Forward(fn, u, v)
  BY <1>2, <1>3 DEF Forward
<1>4. CASE u = fn.entry
  <2>1. u \in Blocks /\ u \in Reachable(fn) /\ 1 \in DOMAIN fn.rpo /\ fn.rpo[1] = u
    BY <1>1, <1>4, GroundForm DEF WellFormedGraph
  <2>2. v \in Reachable(fn)
    BY <1>1, <1>2, <2>1 DEF TraversalForm
  <2>3. v # u
    <3> SUFFICES ASSUME v = u PROVE FALSE
      OBVIOUS
    <3>1. PICK m \in DOMAIN fn.succ[u] : fn.succ[u][m] = u
      BY <1>2 DEF Succs
    <3>2. <<u, m>> \in PredEdges(fn, u)
      BY <2>1, <3>1 DEF PredEdges, Edges
    <3> QED
      BY <1>1, <1>4, <3>2 DEF WellFormedGraph
  <2>4. PICK k \in DOMAIN fn.rpo : fn.rpo[k] = v
    BY <2>2 DEF Reachable
  <2>5. k \in Nat /\ k > 1
    BY <1>1, <2>1, <2>3, <2>4 DEF WellFormedGraph
  <2> QED
    BY <1>2, <2>1, <2>4, <2>5 DEF Before
<1>5. CASE Leaves(fn, u) /\ fn.succ[v] = << >>
  <2>1. fn.succ[u] # << >>
    BY <1>2 DEF Succs
  <2>2. u \in Reachable(fn)
    BY <1>1, <1>5, <2>1 DEF Leaves, TraversalForm
  <2>3. <<u, v>> \notin fn.back
    BY <1>1, <1>5 DEF TraversalForm
  <2> QED
    BY <1>1, <1>2, <2>2, <2>3 DEF TraversalForm
<1> QED
  BY <1>1, <1>3, <1>4, <1>5 DEF WellFormedPath

\* And all of them.
LEMMA PathOrder ==
    ASSUME Ground, PathsConnected, NEW p \in DOMAIN fn.paths,
           NEW m \in DOMAIN fn.paths[p], NEW n \in DOMAIN fn.paths[p], m < n
    PROVE  Before(fn, fn.paths[p][m], fn.paths[p][n])
<1> DEFINE path == fn.paths[p]
           S == {k \in Nat : k \in DOMAIN path /\ m < k => Before(fn, path[m], path[k])}
<1>1. path \in Seq(Blocks)
  BY ProgramsAssumption DEF Ground, WellFormedPath
<1>2. Len(path) \in Nat /\ DOMAIN path = 1..Len(path) /\ m \in Nat /\ n \in Nat
  BY <1>1
<1>3. ASSUME NEW k \in Nat, \A j \in Nat : j < k => j \in S PROVE k \in S
  <2> SUFFICES ASSUME k \in DOMAIN path, m < k PROVE Before(fn, path[m], path[k])
    OBVIOUS
  <2>1. k - 1 \in 1..(Len(path) - 1) /\ k - 1 \in Nat /\ k - 1 < k /\ (k - 1) + 1 = k
        /\ k - 1 \in DOMAIN path /\ (m = k - 1 \/ m < k - 1)
    BY <1>2
  <2>2. Before(fn, path[k - 1], path[k])
    BY <2>1, PathStep
  <2>3. m < k - 1 => Before(fn, path[m], path[k - 1])
    BY <1>3, <2>1
  <2> QED
    BY <2>1, <2>2, <2>3, BeforeTransitive
<1>4. \A k \in Nat : k \in S
  <2> HIDE DEF S
  <2> QED
    BY <1>3, StrongInduction
<1> QED
  BY <1>2, <1>4

\* A hot path of a block and of one below it comes to the latter from a block between.
LEMMA ComesFromAbove ==
    ASSUME Ground, PathsConnected, HotPathSet = ProfileOf(fn),
           NEW c \in Reachable(fn), NEW b \in Above[c], b # c,
           NEW p \in HotPathSet[b] \cap HotPathSet[c]
    PROVE  \E x \in Reachable(fn) : /\ c \in Succs(fn, x) /\ Before(fn, x, c)
                                    /\ b \in Above[x] /\ p \in HotPathSet[x]
<1> DEFINE path == fn.paths[p]
<1>1. b \in Reachable(fn) /\ b \in Blocks /\ c \in Blocks
  BY AboveOrder, GroundForm
<1>2. p \in DOMAIN fn.paths /\ b \in BlocksOf(path) /\ c \in BlocksOf(path)
  BY <1>1 DEF ProfileOf
<1>3. PICK m, n \in DOMAIN path : path[m] = b /\ path[n] = c
  BY <1>2 DEF BlocksOf
<1>4. path \in Seq(Blocks)
  BY <1>2, ProgramsAssumption DEF Ground, WellFormedPath
<1>5. Len(path) \in Nat /\ DOMAIN path = 1..Len(path) /\ m \in Nat /\ n \in Nat
  BY <1>3, <1>4
<1>6. Before(fn, b, c)
  BY AboveBefore
<1>7. m < n
  <2>1. ~ (n < m)
    BY <1>2, <1>3, <1>6, PathOrder, BeforeOnce
  <2>2. m # n
    BY <1>3
  <2> QED
    BY <1>5, <2>1, <2>2
<1>8. n - 1 \in 1..(Len(path) - 1) /\ (n - 1) + 1 = n /\ n - 1 \in DOMAIN path
  BY <1>3, <1>5, <1>7
<1>9. PICK x : x = path[n - 1]
  OBVIOUS
<1>10. c \in Succs(fn, x) /\ Before(fn, x, c)
  BY <1>2, <1>3, <1>8, <1>9, PathStep
<1>11. x \in Reachable(fn)
  BY <1>10, BeforeOnce
<1>12. b \in Above[x]
  BY <1>10, <1>11, AbovePredecessors
<1>13. p \in HotPathSet[x]
  <2>1. x \in BlocksOf(path) /\ x \in Blocks
    BY <1>8, <1>9, <1>11, GroundForm DEF BlocksOf
  <2> QED
    BY <1>2, <2>1 DEF ProfileOf
<1> QED
  BY <1>10, <1>11, <1>12, <1>13

----------------------------------------------------------------------------
(* The walk.                                                               *)

\* The phi at hand and the block the walk has come to.
LEMMA WalkPlace ==
    ASSUME PipelineInv, pc \in {"insert", "walk"}, pos \in DOMAIN fn.rpo,
           it \in DOMAIN fn.phis[BB]
    PROVE  /\ Ground /\ phiOp = fn.op
           /\ fn.phis[BB][it] \in Phis /\ HomeOf(fn.phis[BB][it]) = BB
           /\ BB \in Reachable(fn) /\ BB \in Blocks /\ BB \in Above[BB] /\ BB = fn.rpo[pos]
           /\ pos \in Nat /\ it \in Nat
<1>1. Ground /\ phiOp = fn.op
  BY DEF PipelineInv, TauInv, Untouched, Starting
<1>2. /\ fn.phis[BB][it] \in Phis /\ fn.phis[BB][it] \in ToSet(fn.phis[BB])
      /\ BB \in Reachable(fn) /\ BB \in Blocks /\ BB = fn.rpo[pos]
  BY <1>1, PhiHere DEF BB
<1>3. HomeOf(fn.phis[BB][it]) = BB
  BY <1>1, <1>2, PhiAtHome
<1>4. pos \in Nat /\ it \in Nat
  BY DEF PipelineInv, TauInv, InsertedInOrder
<1> QED
  BY <1>1, <1>2, <1>3, <1>4, AboveItself

\* A block is at one place of the traversal.
LEMMA OnePlace ==
    ASSUME Ground, NEW j \in DOMAIN fn.rpo, NEW n
    PROVE  /\ j \in Nat
           /\ fn.rpo[j] \in Reachable(fn) /\ fn.rpo[j] \in Blocks
           /\ Passes(n, fn.rpo[j]) <=> j < n
<1>1. WellFormedGraph(fn)
  BY GroundForm
<1>2. j \in Nat /\ fn.rpo[j] \in Reachable(fn) /\ fn.rpo[j] \in Blocks
  BY <1>1 DEF WellFormedGraph, Reachable
<1>3. Passes(n, fn.rpo[j]) <=> j < n
  BY <1>1 DEF WellFormedGraph, Passes
<1> QED
  BY <1>2, <1>3

\* When the walk comes to a block, all hot paths from the phi have.
LEMMA WalkHere ==
    ASSUME PipelineInv, FlowInv, PathsConnected, pc = "walk", ~ BreaksOff
    PROVE  /\ curr \in Reachable(fn) /\ curr \in Blocks /\ J \in DOMAIN fn.rpo /\ J \in Nat
           /\ BB \in Above[curr] /\ curr = fn.rpo[J]
           /\ currPaths[curr] = HotPathSet[BB] \cap HotPathSet[curr]
<1>1. /\ pos \in DOMAIN fn.rpo /\ it \in DOMAIN fn.phis[BB] /\ J \in Nat
  BY DEF PipelineInv, TauInv, InsertedInOrder, BB
<1>2. Ground /\ BB \in Reachable(fn) /\ BB \in Above[BB]
  BY <1>1, WalkPlace
<1>3. /\ J \in DOMAIN fn.rpo /\ curr = fn.rpo[J] /\ BB \in Above[curr]
  BY <1>2 DEF BreaksOff, dominates, curr
<1>4. curr \in Reachable(fn) /\ curr \in Blocks
  BY <1>2, <1>3, OnePlace
<1>5. WalkedFrom(BB, fn.phis[BB][it]) /\ HotPathSet = ProfileOf(fn)
  BY DEF FlowInv, Profiles
<1>6. currPaths[curr] \subseteq HotPathSet[BB] \cap HotPathSet[curr]
  BY <1>4, <1>5 DEF WalkedFrom
<1>7. CASE curr = BB
  <2>1. currPaths[BB] = HotPathSet[BB]
    BY <1>5 DEF WalkedFrom
  <2> QED
    BY <1>1, <1>3, <1>4, <1>7, <2>1
<1>8. CASE curr # BB
  <2>1. ASSUME NEW p \in HotPathSet[BB] \cap HotPathSet[curr] PROVE p \in currPaths[curr]
    <3>1. PICK x \in Reachable(fn) : /\ curr \in Succs(fn, x) /\ Before(fn, x, curr)
                                     /\ BB \in Above[x] /\ p \in HotPathSet[x]
      BY <1>2, <1>3, <1>4, <1>5, <1>8, ComesFromAbove
    <3>2. Passes(J, x)
      <4>1. PICK k, j \in DOMAIN fn.rpo : k < j /\ fn.rpo[k] = x /\ fn.rpo[j] = curr
        BY <3>1 DEF Before
      <4>2. j = J
        BY <1>2, <1>3, <4>1, GroundForm DEF WellFormedGraph
      <4> QED
        BY <4>1, <4>2 DEF Passes
    <3> QED
      BY <1>3, <1>4, <1>5, <1>8, <3>1, <3>2 DEF WalkedFrom
  <2> QED
    BY <1>1, <1>3, <1>4, <1>6, <2>1
<1> QED
  BY <1>7, <1>8

\* So the tau it places has the values it should have.
LEMMA WalkFinds ==
    ASSUME PipelineInv, FlowInv, PathsConnected, pc = "walk", ~ BreaksOff
    PROVE  /\ {d[1] : d \in defAccumulator[curr]} = ReachingDefs(fn.phis[BB][it], curr)
           /\ ~ CutOff(BB, curr)
<1> DEFINE z == fn.phis[BB][it]
<1>1. /\ curr \in Reachable(fn) /\ curr \in Blocks /\ J \in DOMAIN fn.rpo /\ J \in Nat
      /\ BB \in Above[curr] /\ curr = fn.rpo[J]
      /\ currPaths[curr] = HotPathSet[BB] \cap HotPathSet[curr]
  BY WalkHere
<1>2. pos \in DOMAIN fn.rpo /\ it \in DOMAIN fn.phis[BB]
  BY DEF PipelineInv, TauInv, InsertedInOrder, BB
<1>3. Ground /\ HomeOf(z) = BB /\ BB = fn.rpo[pos]
  BY <1>2, WalkPlace
<1>4. WalkedFrom(BB, z)
  BY DEF FlowInv
<1>5. defAccumulator[curr] = ValuesOn(z, BB, HotPathSet[BB] \cap HotPathSet[curr])
  BY <1>1, <1>4 DEF WalkedFrom
<1>6. {d[1] : d \in defAccumulator[curr]} = ReachingDefs(z, curr)
  <2> HIDE DEF z
  <2>1. ASSUME NEW d \in defAccumulator[curr] PROVE d[1] \in ReachingDefs(z, curr)
    <3>1. PICK u \in Preds(fn, BB) :
              \E p \in (HotPathSet[BB] \cap HotPathSet[curr]) \cap HotPathSet[u] :
                  d = <<fn.op[z][u], p>>
      BY <1>5, <2>1 DEF ValuesOn
    <3>2. d[1] = fn.op[z][u] /\ HotPathSet[u] \cap HotPathSet[BB] \cap HotPathSet[curr] # {}
      BY <3>1
    <3> QED
      BY <1>3, <3>1, <3>2 DEF ReachingDefs
  <2>2. ASSUME NEW v \in ReachingDefs(z, curr) PROVE \E d \in defAccumulator[curr] : v = d[1]
    <3>1. PICK u \in Preds(fn, BB) :
              v = fn.op[z][u] /\ HotPathSet[u] \cap HotPathSet[BB] \cap HotPathSet[curr] # {}
      BY <1>3, <2>2 DEF ReachingDefs
    <3>2. PICK p : p \in (HotPathSet[BB] \cap HotPathSet[curr]) \cap HotPathSet[u]
      BY <3>1
    <3>3. <<fn.op[z][u], p>> \in defAccumulator[curr]
      BY <1>5, <3>1, <3>2 DEF ValuesOn
    <3>4. v = <<fn.op[z][u], p>>[1]
      BY <3>1
    <3> QED
      BY <3>3, <3>4
  <2> QED
    BY <2>1, <2>2
<1>7. ~ CutOff(BB, curr)
  <2> SUFFICES ASSUME NEW j \in DOMAIN fn.rpo, NEW k \in DOMAIN fn.rpo, NEW n \in DOMAIN fn.rpo,
                      fn.rpo[j] = BB, fn.rpo[n] = curr, j < k, k <= n
               PROVE  BB \in Above[fn.rpo[k]]
    BY DEF CutOff
  <2>1. j = pos /\ n = J /\ k \in Nat /\ pos \in Nat
    BY <1>1, <1>2, <1>3, GroundForm DEF WellFormedGraph
  <2>2. \A m \in DOMAIN fn.rpo : pos <= m /\ m < J => BB \in Above[fn.rpo[m]]
    BY <1>4 DEF WalkedFrom
  <2>3. k = J \/ (pos <= k /\ k < J)
    BY <1>1, <2>1
  <2> QED
    BY <1>1, <2>2, <2>3
<1> QED
  BY <1>6, <1>7

\* What hangs on the function and its paths alone stays.
LEMMA SameFlow ==
    ASSUME fn' = fn, DT' = DT, HotPathSet' = HotPathSet
    PROVE  /\ PathsConnected' <=> PathsConnected
           /\ Above' = Above /\ Phis' = Phis
           /\ \A z : HomeOf(z)' = HomeOf(z)
           /\ \A z, c : ReachingDefs(z, c)' = ReachingDefs(z, c)
           /\ \A b, c : CutOff(b, c)' <=> CutOff(b, c)
           /\ \A j, c : Passes(j, c)' <=> Passes(j, c)
           /\ \A v : Root(v)' = Root(v)
           /\ isCaloric' = isCaloric /\ Profiles => Profiles'
<1>1. Above' = Above /\ Phis' = Phis /\ TauNames' = TauNames
  BY SameAbove DEF Phis, TauNames, TauNamesOf
<1>2. \A z : HomeOf(z)' = HomeOf(z)
  BY DEF HomeOf
<1>3. \A z, c : ReachingDefs(z, c)' = ReachingDefs(z, c)
  BY <1>2 DEF ReachingDefs
<1>4. \A b, c : CutOff(b, c)' <=> CutOff(b, c)
  BY <1>1 DEF CutOff
<1> QED
  BY <1>1, <1>2, <1>3, <1>4 DEF PathsConnected, Passes, Root, Profiles, Reachable

\* Taus of other phis and blocks aside, a phi is as well placed as before.
LEMMA SamePlaced ==
    ASSUME fn' = fn, DT' = DT, HotPathSet' = HotPathSet, NEW z, NEW c,
           Tau(z, c) \in LiveTaus' <=> Tau(z, c) \in LiveTaus
    PROVE  Placed(z, c)' <=> Placed(z, c)
<1>1. /\ Above' = Above /\ HomeOf(z)' = HomeOf(z) /\ ReachingDefs(z, c)' = ReachingDefs(z, c)
      /\ CutOff(HomeOf(z), c)' <=> CutOff(HomeOf(z), c)
  BY SameFlow
<1>2. Tau(z, c)' = Tau(z, c)
  BY DEF Tau
<1> QED
  BY <1>1, <1>2 DEF Placed

\* A set of pairs for two sets of paths.
LEMMA ValuesJoin ==
    ASSUME NEW z, NEW b, NEW P, NEW Q
    PROVE  ValuesOn(z, b, P \cup Q) = ValuesOn(z, b, P) \cup ValuesOn(z, b, Q)
BY DEF ValuesOn

LEMMA ValuesPart ==
    ASSUME NEW z, NEW b, NEW P, NEW Q, Q \subseteq P
    PROVE  {d \in ValuesOn(z, b, P) : d[2] \in Q} = ValuesOn(z, b, Q)
<1>1. ASSUME NEW d \in ValuesOn(z, b, P), d[2] \in Q PROVE d \in ValuesOn(z, b, Q)
  <2>1. PICK u \in Preds(fn, b) : \E p \in P \cap HotPathSet[u] : d = <<fn.op[z][u], p>>
    BY DEF ValuesOn
  <2>3. PICK p \in P \cap HotPathSet[u] : d = <<fn.op[z][u], p>>
    BY <2>1
  <2>2. d[2] = p
    BY <2>3
  <2> QED
    BY <1>1, <2>2, <2>3 DEF ValuesOn
<1>2. ASSUME NEW d \in ValuesOn(z, b, Q) PROVE d \in ValuesOn(z, b, P) /\ d[2] \in Q
  <2>1. PICK u \in Preds(fn, b) : \E p \in Q \cap HotPathSet[u] : d = <<fn.op[z][u], p>>
    BY DEF ValuesOn
  <2>3. PICK p \in Q \cap HotPathSet[u] : d = <<fn.op[z][u], p>>
    BY <2>1
  <2>2. d[2] = p
    BY <2>3
  <2> QED
    BY <2>2, <2>3 DEF ValuesOn
<1> QED
  BY <1>1, <1>2

\* The walk goes on from one more block.
LEMMA WalkGoesOn ==
    ASSUME PipelineInv, FlowInv, PathsConnected, FirstInsertTau
    PROVE  WalkedFrom(BB, fn.phis[BB][it])'
<1>1. /\ UNCHANGED <<fn, HotPathSet, pos, it, DT>> /\ pc = "walk" /\ ~ BreaksOff /\ J' = J + 1
      /\ currPaths' = [s \in Blocks |-> currPaths[s] \cup onward(s)]
      /\ defAccumulator' = [s \in Blocks |-> defAccumulator[s] \cup flowing(s)]
  BY DEF FirstInsertTau, walkVars, Arrived
<1>2. /\ curr \in Reachable(fn) /\ curr \in Blocks /\ J \in DOMAIN fn.rpo /\ J \in Nat
      /\ BB \in Above[curr] /\ curr = fn.rpo[J]
      /\ currPaths[curr] = HotPathSet[BB] \cap HotPathSet[curr]
  BY <1>1, WalkHere
<1>3. pos \in DOMAIN fn.rpo /\ it \in DOMAIN fn.phis[BB]
  BY <1>1 DEF PipelineInv, TauInv, InsertedInOrder, BB
<1>4. Ground /\ BB \in Blocks /\ pos \in Nat
  BY <1>1, <1>3, WalkPlace
<1>5. PICK b, z : b = BB /\ z = fn.phis[BB][it]
  OBVIOUS
<1>6. BB' = BB /\ (fn.phis[BB][it])' = z /\ Above' = Above
  BY <1>1, <1>5, SameFlow DEF BB
<1>7. WalkedFrom(b, z)
  BY <1>1, <1>5 DEF FlowInv
<1>8. \A s : onward(s) \subseteq currPaths[curr] /\ onward(s) \subseteq HotPathSet[s]
  BY DEF onward
<1>9. pos <= J + 1
  BY <1>2, <1>4, <1>7 DEF WalkedFrom
<1>10. ASSUME NEW k \in DOMAIN fn.rpo, pos <= k, k < J + 1 PROVE b \in Above[fn.rpo[k]]
  <2>1. k \in Nat
    BY <1>4, OnePlace
  <2>2. k = J \/ k < J
    BY <1>2, <1>10, <2>1
  <2> QED
    BY <1>2, <1>5, <1>7, <1>10, <2>2 DEF WalkedFrom
<1>11. ASSUME NEW c \in Blocks PROVE currPaths'[c] \subseteq HotPathSet[b] \cap HotPathSet[c]
  <2>1. currPaths[c] \subseteq HotPathSet[b] \cap HotPathSet[c]
    BY <1>7 DEF WalkedFrom
  <2> QED
    BY <1>1, <1>2, <1>5, <1>8, <2>1
<1>12. currPaths'[b] = HotPathSet[b]
  <2>1. onward(b) = {}
    BY <1>5 DEF onward, dominates
  <2> QED
    BY <1>1, <1>4, <1>5, <1>7, <2>1 DEF WalkedFrom
<1>13. ASSUME NEW c \in Blocks PROVE defAccumulator'[c] = ValuesOn(z, b, currPaths'[c])
  <2>1. defAccumulator[c] = ValuesOn(z, b, currPaths[c])
        /\ defAccumulator[curr] = ValuesOn(z, b, currPaths[curr])
    BY <1>2, <1>7 DEF WalkedFrom
  <2>2. flowing(c) = ValuesOn(z, b, onward(c))
    BY <1>8, <2>1, ValuesPart DEF flowing
  <2> QED
    BY <1>1, <2>1, <2>2, ValuesJoin
<1>14. ASSUME NEW c \in Reachable(fn) \ {b}, NEW x \in Reachable(fn), b \in Above[c], b \in Above[x],
              c \in Succs(fn, x), Passes(J + 1, x),
              NEW p \in HotPathSet[b] \cap HotPathSet[x] \cap HotPathSet[c]
       PROVE  p \in currPaths'[c]
  <2>1. c \in Blocks
    BY <1>4, GroundForm
  <2>2. CASE Passes(J, x)
    <3>1. p \in currPaths[c]
      BY <1>7, <1>14, <2>2 DEF WalkedFrom
    <3> QED
      BY <1>1, <2>1, <3>1
  <2>3. CASE ~ Passes(J, x)
    <3>1. PICK k \in DOMAIN fn.rpo : k < J + 1 /\ fn.rpo[k] = x /\ ~ (k < J)
      BY <1>14, <2>3 DEF Passes
    <3>2. k = J
      BY <1>2, <1>4, <3>1, OnePlace
    <3>3. x = curr
      BY <1>2, <3>1, <3>2
    <3>4. p \in onward(c)
      BY <1>2, <1>5, <1>14, <3>3 DEF onward, dominates
    <3> QED
      BY <1>1, <2>1, <3>4
  <2> QED
    BY <2>2, <2>3
<1>15. WalkedFrom(b, z)'
  <2>2. \A c : Passes(J, c)' <=> Passes(J + 1, c)
    BY <1>1 DEF Passes
  <2>3. /\ pos' <= J'
        /\ \A k \in DOMAIN fn'.rpo : pos' <= k /\ k < J' => b \in Above'[fn'.rpo[k]]
    BY <1>1, <1>6, <1>9, <1>10
  <2>4. \A c \in Blocks : defAccumulator'[c] = ValuesOn(z, b, currPaths[c])'
    BY <1>1, <1>13 DEF ValuesOn
  <2>5. Reachable(fn)' = Reachable(fn) /\ \A x : Succs(fn, x)' = Succs(fn, x)
    BY <1>1 DEF Reachable, Succs
  <2>6. \A c \in Reachable(fn)' \ {b} : \A x \in Reachable(fn)' :
            b \in Above'[c] /\ b \in Above'[x] /\ c \in Succs(fn, x)' /\ Passes(J, x)'
                => HotPathSet'[b] \cap HotPathSet'[x] \cap HotPathSet'[c] \subseteq currPaths'[c]
    BY <1>1, <1>6, <1>14, <2>2, <2>5
  <2>7. /\ \A c \in Blocks : currPaths'[c] \subseteq HotPathSet'[b] \cap HotPathSet'[c]
        /\ currPaths'[b] = HotPathSet'[b]
    BY <1>1, <1>11, <1>12
  <2> QED
    BY <2>3, <2>4, <2>6, <2>7 DEF WalkedFrom
<1> QED
  BY <1>5, <1>6, <1>15

\* No block before a block's walk is below it.
LEMMA NotBelow ==
    ASSUME Ground, NEW j \in DOMAIN fn.rpo, NEW c \in Reachable(fn), Passes(j, c)
    PROVE  fn.rpo[j] \notin Above[c]
<1> SUFFICES ASSUME fn.rpo[j] \in Above[c] PROVE FALSE
  OBVIOUS
<1>1. PICK k \in DOMAIN fn.rpo : k < j /\ fn.rpo[k] = c
  BY DEF Passes
<1>2. Before(fn, c, fn.rpo[j])
  BY <1>1 DEF Before
<1> QED
  BY <1>2, AboveBefore, BeforeOnce

\* Before its walk a phi has no tau.
LEMMA NoTauYet ==
    ASSUME PipelineInv, pc = "insert", pos \in DOMAIN fn.rpo, it \in DOMAIN fn.phis[BB], NEW c
    PROVE  Tau(fn.phis[BB][it], c) \notin LiveTaus
<1>1. Tau(fn.phis[BB][it], c).phi = fn.phis[fn.rpo[pos]][it]
  BY DEF Tau, BB
<1> QED
  BY <1>1, NewHere DEF PipelineInv, BB

LEMMA WalkBegins ==
    ASSUME PipelineInv, Profiles, FirstPhi, pc' = "walk"
    PROVE  WalkedFrom(BB, fn.phis[BB][it])'
<1>1. /\ UNCHANGED <<fn, HotPathSet, pos, it, DT>> /\ pc = "insert" /\ J' = pos
      /\ pos \in DOMAIN fn.rpo /\ it \in DOMAIN fn.phis[BB]
      /\ currPaths' = [c \in Blocks |-> IF c = BB THEN HotPathSet[BB] ELSE {}]
      /\ defAccumulator' = [c \in Blocks |->
                IF c = BB THEN Accumulated(fn.phis[BB][it], BB) ELSE {}]
  BY DEF FirstPhi, walkVars
<1>2. /\ Ground /\ phiOp = fn.op /\ BB \in Blocks /\ BB = fn.rpo[pos]
      /\ pos \in Nat
  BY <1>1, WalkPlace
<1>3. PICK b, z : b = BB /\ z = fn.phis[BB][it]
  OBVIOUS
<1>4. BB' = BB /\ (fn.phis[BB][it])' = z
  BY <1>1, <1>3 DEF BB
<1>5. /\ Above' = Above
      /\ \A j, c : Passes(j, c)' <=> Passes(j, c)
      /\ Reachable(fn)' = Reachable(fn)
  BY <1>1, SameAbove DEF Passes, Reachable
<1>6. /\ currPaths'[b] = HotPathSet[b]
      /\ \A c \in Blocks : c # b => currPaths'[c] = {}
  BY <1>1, <1>2, <1>3
<1>7. ASSUME NEW c \in Blocks PROVE defAccumulator'[c] = ValuesOn(z, b, currPaths'[c])
  <2>1. CASE c = b
    <3>1. Accumulated(z, b) = ValuesOn(z, b, HotPathSet[b])
      BY <1>2 DEF Accumulated, ValuesOn
    <3> QED
      BY <1>1, <1>3, <1>6, <2>1, <3>1
  <2>2. CASE c # b
    <3>1. ValuesOn(z, b, {}) = {}
      BY DEF ValuesOn
    <3> QED
      BY <1>1, <1>3, <1>6, <2>2, <3>1
  <2> QED
    BY <2>1, <2>2
<1>8. \A c \in Blocks : defAccumulator'[c] = ValuesOn(z, b, currPaths[c])'
  BY <1>1, <1>7 DEF ValuesOn
<1>9. \A x \in Reachable(fn) : Passes(pos, x) => b \notin Above[x]
  BY <1>1, <1>2, <1>3, NotBelow
<1>10. \A k \in DOMAIN fn.rpo : ~ (pos <= k /\ k < pos)
  BY <1>2, OnePlace
<1>11. /\ pos' <= J'
       /\ \A k \in DOMAIN fn'.rpo : pos' <= k /\ k < J' => b \in Above'[fn'.rpo[k]]
  BY <1>1, <1>2, <1>10
<1>12. \A x \in Reachable(fn)' : Passes(J, x)' => b \notin Above'[x]
  <2>1. \A x : Passes(J, x)' <=> Passes(pos, x)
    BY <1>1 DEF Passes
  <2> QED
    BY <1>5, <1>9, <2>1
<1>13. WalkedFrom(b, z)'
  <2>1. /\ \A c \in Blocks : currPaths'[c] \subseteq HotPathSet'[b] \cap HotPathSet'[c]
        /\ currPaths'[b] = HotPathSet'[b]
    BY <1>1, <1>6
  <2> QED
    BY <1>8, <1>11, <1>12, <2>1 DEF WalkedFrom
<1> QED
  BY <1>3, <1>4, <1>13

LEMMA FirstPhiFlow ==
    ASSUME PipelineInv, FlowInv, FirstPhi
    PROVE  FlowInv'
<1>1. /\ UNCHANGED <<fn, HotPathSet, isCaloric, pos, DT, textVars>> /\ pc = "insert"
      /\ pos \in DOMAIN fn.rpo /\ it \in DOMAIN fn.phis[BB]
      /\ \/ HotPathSet[BB] = {} /\ it' = it + 1 /\ pc' = "insert"
         \/ pc' = "walk" /\ it' = it /\ J' = pos
  BY DEF FirstPhi, walkVars
<1>2. /\ Ground /\ BB = fn.rpo[pos] /\ HomeOf(fn.phis[BB][it]) = BB
      /\ it \in Nat /\ pos \in Nat
  BY <1>1, WalkPlace
<1>3. Profiles' /\ (PathsConnected' <=> PathsConnected) /\ ~ Searching'
  BY <1>1, SameFlow DEF FlowInv, Searching
<1> SUFFICES ASSUME PathsConnected
             PROVE  ArgsFlow' /\ (pc' = "walk" => WalkedFrom(BB, fn.phis[BB][it])') /\ PlacedSoFar'
  BY <1>3 DEF FlowInv
<1>4. taus' = taus /\ args' = args /\ LiveTaus' = LiveTaus
  BY <1>1 DEF textVars, LiveTaus
<1>5. ArgsFlow'
  BY <1>1, <1>4, SameFlow DEF FlowInv, ArgsFlow
<1>6. pc' = "walk" => WalkedFrom(BB, fn.phis[BB][it])'
  BY WalkBegins DEF FlowInv
<1>7. ASSUME NEW c \in isCaloric, NEW p \in DOMAIN fn.rpo, NEW k \in DOMAIN fn.phis[fn.rpo[p]],
             \/ p < pos \/ (p = pos /\ k < it')
             \/ pc' = "walk" /\ p = pos /\ k = it /\ Passes(pos, c)
      PROVE  Placed(fn.phis[fn.rpo[p]][k], c)
  <2>1. CASE p < pos \/ (p = pos /\ k < it)
    BY <1>1, <2>1 DEF FlowInv, PlacedSoFar
  <2>2. CASE p = pos /\ k = it
    <3>1. Tau(fn.phis[BB][it], c) \notin LiveTaus
      BY <1>1, NoTauYet
    <3>2. c \in Reachable(fn)
      BY DEF FlowInv, Profiles
    <3>3. HotPathSet[BB] = {} => ReachingDefs(fn.phis[BB][it], c) = {}
      BY <1>2 DEF ReachingDefs
    <3>4. Passes(pos, c) => BB \notin Above[c]
      BY <1>1, <1>2, <3>2, NotBelow
    <3>5. Placed(fn.phis[BB][it], c)
      BY <1>1, <1>2, <1>7, <2>2, <3>1, <3>3, <3>4 DEF Placed
    <3> QED
      BY <1>2, <2>2, <3>5
  <2>3. p = pos /\ k < it + 1 => k < it \/ k = it
    <3>1. fn.phis[fn.rpo[p]] \in Seq(Phis)
      BY <1>2, OnePlace, GroundForm DEF ValuesForm, Phis
    <3>2. k \in Nat
      BY <3>1
    <3> QED
      BY <1>2, <3>2
  <2> QED
    BY <1>1, <1>7, <2>1, <2>2, <2>3
<1>8. \A z, c : Placed(z, c)' <=> Placed(z, c)
  BY <1>1, <1>4, SamePlaced
<1>9. \A c : Passes(J, c)' /\ pc' = "walk" => Passes(pos, c)
  BY <1>1 DEF Passes
<1>10. PlacedSoFar'
  BY <1>1, <1>3, <1>7, <1>8, <1>9 DEF PlacedSoFar
<1> QED
  BY <1>5, <1>6, <1>10

\* In its walk a phi has taus in the blocks walked alone.
LEMMA TausWalked ==
    ASSUME PipelineInv, pc = "walk", NEW c, Tau(fn.phis[BB][it], c) \in LiveTaus
    PROVE  Passes(J, c)
<1>1. /\ Tau(fn.phis[BB][it], c).phi = fn.phis[fn.rpo[pos]][it]
      /\ Tau(fn.phis[BB][it], c).at = c
  BY DEF Tau, BB
<1>2. pos \in DOMAIN fn.rpo /\ it \in DOMAIN fn.phis[fn.rpo[pos]]
  BY DEF PipelineInv, TauInv, InsertedInOrder
<1>3. \E j \in DOMAIN fn.rpo : j < J /\ c = fn.rpo[j]
  BY <1>1, <1>2, NewHere DEF PipelineInv
<1> QED
  BY <1>3 DEF Passes

\* The one tau that a step of the walk may insert.
LEMMA WalkInserts ==
    ASSUME PipelineInv, FlowInv, PathsConnected, FirstInsertTau,
           NEW z, z = fn.phis[BB][it], NEW new, new = Tau(z, curr), NEW defs,
           defs = {d[1] : d \in defAccumulator[curr]}
    PROVE  IF curr \in isCaloric /\ defs # {}
           THEN /\ LiveTaus' = LiveTaus \cup {new} /\ new \notin LiveTaus
                /\ args'[new] = defs /\ \A t \in LiveTaus : args'[t] = args[t]
           ELSE LiveTaus' = LiveTaus /\ args' = args /\ new \notin LiveTaus
<1>1. /\ UNCHANGED <<fn, phiOp, useOf>> /\ pc = "walk" /\ ~ BreaksOff
      /\ IF curr \in isCaloric /\ defAccumulator[curr] # {}
         THEN Insert(z, [c \in {curr} |-> defs])
         ELSE UNCHANGED <<taus, operand, args>>
  BY DEF FirstInsertTau, walkVars
<1>2. defs # {} <=> defAccumulator[curr] # {}
  OBVIOUS
<1>3. curr \in Blocks /\ J \in DOMAIN fn.rpo /\ J \in Nat /\ curr = fn.rpo[J]
  BY <1>1, WalkHere
<1>4. pos \in DOMAIN fn.rpo /\ it \in DOMAIN fn.phis[BB]
  BY <1>1 DEF PipelineInv, TauInv, InsertedInOrder, BB
<1>5. Ground /\ z \in Phis
  BY <1>1, <1>4, WalkPlace
<1>6. ~ Passes(J, curr)
  BY <1>3, <1>5, OnePlace
<1>7. new \notin LiveTaus
  BY <1>1, <1>6, TausWalked
<1>8. CASE ~ (curr \in isCaloric /\ defs # {})
  BY <1>1, <1>2, <1>7, <1>8 DEF LiveTaus
<1>9. CASE curr \in isCaloric /\ defs # {}
  <2>1. PICK hot : hot = [c \in {curr} |-> defs]
    OBVIOUS
  <2>2. DOMAIN hot = {curr} /\ hot[curr] = defs /\ Insert(z, hot)
    BY <1>1, <1>2, <1>9, <2>1
  <2>3. \A t \in LiveTaus : t.phi = z => t.at \notin DOMAIN hot
    <3> SUFFICES ASSUME NEW t \in LiveTaus, t.phi = z, t.at = curr PROVE FALSE
      BY <2>2
    <3>1. pc = "walk" /\ \E j \in DOMAIN fn.rpo : j < J /\ t.at = fn.rpo[j]
      BY <1>1, <1>4, NewHere DEF PipelineInv, BB
    <3> QED
      BY <1>6, <3>1 DEF Passes
  <2>4. TextForm /\ DOMAIN hot \subseteq Blocks
    BY <1>3, <2>2 DEF PipelineInv, TauInv
  <2>5. /\ LiveTaus' = LiveTaus \cup {Tau(z, c) : c \in DOMAIN hot}
        /\ \A t \in LiveTaus : args'[t] = args[t]
        /\ \A c \in DOMAIN hot : args'[Tau(z, c)] = hot[c]
    BY <1>1, <1>5, <2>2, <2>3, <2>4, Inserting
  <2> QED
    BY <1>7, <1>9, <2>2, <2>5
<1> QED
  BY <1>8, <1>9

LEMMA FirstInsertTauFlow ==
    ASSUME PipelineInv, FlowInv, ArgumentsAlive, FirstInsertTau
    PROVE  FlowInv'
<1>1. /\ UNCHANGED <<fn, HotPathSet, isCaloric, pos, it, DT, pc>> /\ pc = "walk" /\ ~ BreaksOff
      /\ J' = J + 1
  BY DEF FirstInsertTau, walkVars
<1>2. Profiles' /\ (PathsConnected' <=> PathsConnected) /\ ~ Searching'
  BY <1>1, SameFlow DEF FlowInv, Searching
<1> SUFFICES ASSUME PathsConnected
             PROVE  ArgsFlow' /\ WalkedFrom(BB, fn.phis[BB][it])' /\ PlacedSoFar'
  BY <1>2 DEF FlowInv
<1>3. pos \in DOMAIN fn.rpo /\ it \in DOMAIN fn.phis[BB]
  BY <1>1 DEF PipelineInv, TauInv, InsertedInOrder, BB
<1>4. PICK z : z = fn.phis[BB][it]
  OBVIOUS
<1>5. Ground /\ BB = fn.rpo[pos] /\ HomeOf(z) = BB /\ z \in Phis /\ pos \in Nat /\ it \in Nat
  BY <1>1, <1>3, <1>4, WalkPlace
<1>6. /\ curr \in Reachable(fn) /\ curr \in Blocks /\ J \in DOMAIN fn.rpo /\ J \in Nat
      /\ BB \in Above[curr] /\ curr = fn.rpo[J]
  BY <1>1, WalkHere
<1>7. PICK defs : defs = {d[1] : d \in defAccumulator[curr]}
  OBVIOUS
<1>8. defs = ReachingDefs(z, curr) /\ ~ CutOff(BB, curr)
  BY <1>1, <1>4, <1>7, WalkFinds
<1>9. PICK new, here : here = curr /\ new = Tau(z, here)
  OBVIOUS
<1>10. /\ here = curr /\ new = Tau(z, curr)
      /\ new = Tau(z, here) /\ new.phi = z /\ new.at = here
  BY <1>9 DEF Tau
<1>11. IF curr \in isCaloric /\ defs # {}
       THEN /\ LiveTaus' = LiveTaus \cup {new} /\ new \notin LiveTaus
            /\ args'[new] = defs /\ \A t \in LiveTaus : args'[t] = args[t]
       ELSE LiveTaus' = LiveTaus /\ args' = args /\ new \notin LiveTaus
  BY <1>4, <1>7, <1>10, WalkInserts
<1>12. ArgsFlow'
  <2>1. ASSUME NEW t \in LiveTaus' PROVE {Root(v) : v \in args'[t]} = ReachingDefs(t.phi, t.at)
    <3>1. CASE t \in LiveTaus
      <4>1. args'[t] = args[t]
        BY <1>11, <3>1
      <4> QED
        BY <3>1, <4>1 DEF FlowInv, ArgsFlow
    <3>2. CASE t \notin LiveTaus
      <4>1. t = new /\ args'[t] = defs
        BY <1>11, <2>1, <3>2
      <4>2. \A v \in defs : v \notin TauNames
        BY <1>1, <1>6, <1>7 DEF ArgumentsAlive
      <4>3. {Root(v) : v \in defs} = defs
        BY <4>2 DEF Root
      <4> QED
        BY <1>8, <1>10, <4>1, <4>3
    <3> QED
      BY <3>1, <3>2
  <2> QED
    BY <1>1, <2>1, SameFlow DEF ArgsFlow
<1>13. WalkedFrom(BB, fn.phis[BB][it])'
  BY WalkGoesOn
<1>14. ASSUME NEW y, NEW c, <<y, c>> # <<z, here>> PROVE Placed(y, c)' <=> Placed(y, c)
  <2>1. Tau(y, c) # new
    BY <1>10, <1>14 DEF Tau
  <2>2. Tau(y, c) \in LiveTaus' <=> Tau(y, c) \in LiveTaus
    BY <1>11, <2>1
  <2> QED
    BY <1>1, <2>2, SamePlaced
<1>15. here \in isCaloric => Placed(z, here)'
  <2>1. here \in isCaloric => (Tau(z, here) \in LiveTaus' <=> defs # {})
    BY <1>10, <1>11
  <2>2. /\ Above' = Above /\ HomeOf(z)' = BB /\ ReachingDefs(z, here)' = ReachingDefs(z, here)
        /\ CutOff(HomeOf(z), here)' <=> CutOff(BB, here)
    BY <1>1, <1>5, SameFlow
  <2>3. Tau(z, here)' = Tau(z, here)
    BY DEF Tau
  <2> QED
    BY <1>6, <1>8, <1>10, <2>1, <2>2, <2>3 DEF Placed
<1>16. ASSUME NEW c \in isCaloric, NEW p \in DOMAIN fn.rpo, NEW k \in DOMAIN fn.phis[fn.rpo[p]],
              \/ p < pos \/ (p = pos /\ k < it)
              \/ p = pos /\ k = it /\ Passes(J + 1, c),
              NEW y, y = fn.phis[fn.rpo[p]][k]
       PROVE  Placed(y, c)'
  <2>1. CASE p < pos \/ (p = pos /\ k < it) \/ (p = pos /\ k = it /\ Passes(J, c))
    <3>1. Placed(y, c)
      BY <1>1, <1>16, <2>1 DEF FlowInv, PlacedSoFar
    <3>2. <<y, c>> = <<z, here>> => y = z /\ c = here
      OBVIOUS
    <3> QED
      BY <1>14, <1>15, <3>1, <3>2
  <2>2. CASE p = pos /\ k = it /\ ~ Passes(J, c)
    <3>1. PICK j \in DOMAIN fn.rpo : j < J + 1 /\ fn.rpo[j] = c /\ ~ (j < J)
      <4>1. Passes(J + 1, c)
        BY <1>5, <1>16, <2>2
      <4> QED
        BY <2>2, <4>1 DEF Passes
    <3>2. j = J
      BY <1>5, <1>6, <3>1, OnePlace
    <3>3. c = here /\ y = z
      BY <1>4, <1>5, <1>6, <1>10, <1>16, <2>2, <3>1, <3>2
    <3> QED
      BY <1>15, <1>16, <3>3
  <2> QED
    BY <1>16, <2>1, <2>2
<1>17. PlacedSoFar'
  <2>1. \A c : Passes(J, c)' <=> Passes(J + 1, c)
    BY <1>1 DEF Passes
  <2> QED
    BY <1>1, <1>2, <1>16, <2>1 DEF PlacedSoFar
<1> QED
  BY <1>12, <1>13, <1>17

\* A walk that breaks off leaves the blocks that are cut off.
LEMMA WalkEndsFlow ==
    ASSUME PipelineInv, FlowInv, WalkEnds
    PROVE  FlowInv'
<1>1. /\ UNCHANGED <<fn, HotPathSet, isCaloric, pos, DT, textVars>>
      /\ pc = "walk" /\ pc' = "insert" /\ it' = it + 1 /\ BreaksOff
  BY DEF WalkEnds, walkVars
<1>2. pos \in DOMAIN fn.rpo /\ it \in DOMAIN fn.phis[BB] /\ J \in Nat \ {0}
  BY <1>1 DEF PipelineInv, TauInv, InsertedInOrder, BB
<1>3. PICK z : z = fn.phis[BB][it]
  OBVIOUS
<1>4. /\ Ground /\ BB = fn.rpo[pos] /\ HomeOf(z) = BB
      /\ it \in Nat /\ pos \in Nat /\ BB \in Above[BB]
  BY <1>1, <1>2, <1>3, WalkPlace
<1>5. Profiles' /\ (PathsConnected' <=> PathsConnected) /\ ~ Searching'
  BY <1>1, SameFlow DEF FlowInv, Searching
<1> SUFFICES ASSUME PathsConnected PROVE ArgsFlow' /\ PlacedSoFar'
  BY <1>1, <1>5 DEF FlowInv
<1>6. taus' = taus /\ args' = args /\ LiveTaus' = LiveTaus
  BY <1>1 DEF textVars, LiveTaus
<1>7. ArgsFlow'
  BY <1>1, <1>6, SameFlow DEF FlowInv, ArgsFlow
<1>8. ASSUME NEW c \in isCaloric, ~ Passes(J, c) PROVE Placed(z, c)
  <2>1. Tau(z, c) \notin LiveTaus
    BY <1>1, <1>3, <1>8, TausWalked
  <2>2. PICK n \in DOMAIN fn.rpo : fn.rpo[n] = c
    BY DEF FlowInv, Profiles, Reachable
  <2>3. n \in Nat /\ J <= n
    BY <1>2, <1>4, <1>8, <2>2, OnePlace
  <2>4. J \in DOMAIN fn.rpo
    <3>1. fn.rpo \in Seq(Blocks)
      BY <1>4, GroundForm DEF WellFormedGraph
    <3> QED
      BY <1>2, <2>2, <2>3, <3>1
  <2>5. BB # fn.rpo[J] /\ BB \notin Above[fn.rpo[J]]
    BY <1>1, <1>4, <2>4 DEF BreaksOff, dominates, curr
  <2>6. pos <= J
    BY <1>1 DEF FlowInv, WalkedFrom
  <2>7. pos < J
    BY <1>2, <1>4, <2>5, <2>6
  <2>8. CutOff(BB, c)
    BY <1>2, <1>4, <2>2, <2>3, <2>4, <2>5, <2>7 DEF CutOff
  <2> QED
    BY <1>4, <2>1, <2>8 DEF Placed
<1>9. ASSUME NEW c \in isCaloric, NEW p \in DOMAIN fn.rpo, NEW k \in DOMAIN fn.phis[fn.rpo[p]],
             p < pos \/ (p = pos /\ k < it + 1)
      PROVE  Placed(fn.phis[fn.rpo[p]][k], c)
  <2>1. CASE p < pos \/ (p = pos /\ k < it)
    BY <1>1, <2>1 DEF FlowInv, PlacedSoFar
  <2>2. CASE p = pos /\ k = it
    <3>1. fn.phis[fn.rpo[p]][k] = z
      BY <1>3, <1>4, <2>2
    <3>2. Passes(J, c) => Placed(fn.phis[fn.rpo[p]][k], c)
      BY <1>1, <2>2 DEF FlowInv, PlacedSoFar
    <3> QED
      BY <1>8, <3>1, <3>2
  <2>3. p = pos /\ k < it + 1 => k < it \/ k = it
    <3>1. fn.phis[fn.rpo[p]] \in Seq(Phis)
      BY <1>4, OnePlace, GroundForm DEF ValuesForm, Phis
    <3>2. k \in Nat
      BY <3>1
    <3> QED
      BY <1>4, <3>2
  <2> QED
    BY <1>9, <2>1, <2>2, <2>3
<1>10. \A y, c : Placed(y, c)' <=> Placed(y, c)
  BY <1>1, <1>6, SamePlaced
<1>11. PlacedSoFar'
  BY <1>1, <1>5, <1>9, <1>10 DEF PlacedSoFar
<1> QED
  BY <1>7, <1>11

LEMMA NextBlockFlow ==
    ASSUME PipelineInv, FlowInv, NextBlock
    PROVE  FlowInv'
<1>1. /\ UNCHANGED <<fn, HotPathSet, isCaloric, DT, textVars, pc>>
      /\ pc = "insert" /\ pos' = pos + 1 /\ it' = 1
      /\ pos \in DOMAIN fn.rpo /\ it \notin DOMAIN fn.phis[fn.rpo[pos]]
  BY DEF NextBlock
<1>2. Ground /\ pos \in Nat /\ it \in Nat \ {0}
  BY DEF PipelineInv, TauInv, InsertedInOrder
<1>3. Profiles' /\ (PathsConnected' <=> PathsConnected) /\ ~ Searching'
  BY <1>1, SameFlow DEF FlowInv, Searching
<1> SUFFICES ASSUME PathsConnected PROVE ArgsFlow' /\ PlacedSoFar'
  BY <1>1, <1>3 DEF FlowInv
<1>4. taus' = taus /\ args' = args /\ LiveTaus' = LiveTaus
  BY <1>1 DEF textVars, LiveTaus
<1>5. ArgsFlow'
  BY <1>1, <1>4, SameFlow DEF FlowInv, ArgsFlow
<1>6. ASSUME NEW c \in isCaloric, NEW p \in DOMAIN fn.rpo, NEW k \in DOMAIN fn.phis[fn.rpo[p]],
             p < pos + 1 \/ (p = pos + 1 /\ k < 1)
      PROVE  Placed(fn.phis[fn.rpo[p]][k], c)
  <2>1. fn.phis[fn.rpo[p]] \in Seq(Phis) /\ p \in Nat
    BY <1>2, OnePlace, GroundForm DEF ValuesForm, Phis
  <2>2. k \in Nat \ {0} /\ DOMAIN fn.phis[fn.rpo[p]] = 1..Len(fn.phis[fn.rpo[p]])
        /\ Len(fn.phis[fn.rpo[p]]) \in Nat
    BY <2>1
  <2>3. p < pos \/ p = pos
    BY <1>2, <1>6, <2>1, <2>2
  <2>4. p = pos => k < it
    BY <1>1, <1>2, <2>2
  <2> QED
    BY <1>1, <2>3, <2>4 DEF FlowInv, PlacedSoFar
<1>7. \A y, c : Placed(y, c)' <=> Placed(y, c)
  BY <1>1, <1>4, SamePlaced
<1>8. PlacedSoFar'
  BY <1>1, <1>3, <1>6, <1>7 DEF PlacedSoFar
<1> QED
  BY <1>5, <1>8

\* Before there are taus, and when all of them are there.
LEMMA InitFlow == FirstInit => FlowInv
<1> SUFFICES ASSUME FirstInit PROVE FlowInv
  OBVIOUS
<1>1. /\ HotPathSet = ProfileOf(fn) /\ isCaloric = {} /\ pc = "connect" /\ LiveTaus = {}
  BY DEF FirstInit, PipelineInit, Init, WalkInit, Original, LiveTaus, ToSet
<1> QED
  BY <1>1 DEF FlowInv, Profiles, ArgsFlow, PlacedSoFar, Searching

LEMMA ConnectFlow ==
    ASSUME PipelineInv, FlowInv, Connect
    PROVE  FlowInv'
<1>1. /\ UNCHANGED <<fn, HotPathSet, DT, textVars, pc>> /\ pc = "connect"
      /\ isCaloric' \subseteq isCaloric \cup Reachable(fn)
  <2>1. PICK b \in Blocks : Block(b)
    BY DEF Connect, WalkNext
  <2>2. /\ UNCHANGED <<fn, HotPathSet>> /\ b \in Reachable(fn)
        /\ isCaloric' = isCaloric \/ isCaloric' = isCaloric \cup {b}
    BY <2>1 DEF Block, Reachable
  <2> QED
    BY <2>2 DEF Connect
<1>2. LiveTaus = {}
  BY <1>1 DEF PipelineInv, TauInv, InsertedInOrder
<1>3. LiveTaus' = {}
  BY <1>1, <1>2 DEF LiveTaus, textVars
<1>4. Profiles'
  BY <1>1 DEF FlowInv, Profiles, Reachable
<1> QED
  BY <1>1, <1>3, <1>4 DEF FlowInv, ArgsFlow, PlacedSoFar, Searching

LEMMA ConnectedFlow ==
    ASSUME PipelineInv, FlowInv, Connected
    PROVE  FlowInv'
<1>1. /\ UNCHANGED <<fn, HotPathSet, isCaloric, DT, textVars, it>>
      /\ pc = "connect" /\ pc' = "insert" /\ pos' = 1
  BY DEF Connected
<1>2. LiveTaus = {} /\ it = 1 /\ Ground
  BY <1>1 DEF PipelineInv, TauInv, InsertedInOrder
<1>3. LiveTaus' = {}
  BY <1>1, <1>2 DEF LiveTaus, textVars
<1>4. Profiles'
  BY <1>1 DEF FlowInv, Profiles, Reachable
<1>5. ASSUME NEW p \in DOMAIN fn.rpo, NEW k \in DOMAIN fn.phis[fn.rpo[p]]
      PROVE  ~ (p < 1 \/ (p = 1 /\ k < 1))
  <2>1. fn.phis[fn.rpo[p]] \in Seq(Phis) /\ fn.rpo \in Seq(Blocks)
    BY <1>2, OnePlace, GroundForm DEF ValuesForm, Phis, WellFormedGraph
  <2>2. k \in Nat \ {0} /\ p \in Nat \ {0}
    BY <2>1
  <2> QED
    BY <2>2
<1> QED
  BY <1>1, <1>2, <1>3, <1>4, <1>5 DEF FlowInv, ArgsFlow, PlacedSoFar, Searching

\* When all blocks are done, all phis are.
LEMMA InsertedFlow ==
    ASSUME PipelineInv, FlowInv, Inserted
    PROVE  FlowInv'
<1>1. /\ UNCHANGED <<fn, HotPathSet, isCaloric, DT, textVars>>
      /\ pc = "insert" /\ pc' = "search" /\ pos \notin DOMAIN fn.rpo
  BY DEF Inserted, walkVars
<1>2. Ground /\ pos \in Nat \ {0} /\ WellFormedGraph(fn)
  BY GroundForm DEF PipelineInv, TauInv, InsertedInOrder
<1>3. Profiles' /\ (PathsConnected' <=> PathsConnected)
  BY <1>1, SameFlow DEF FlowInv
<1> SUFFICES ASSUME PathsConnected PROVE ArgsFlow' /\ PlacedSoFar'
  BY <1>1, <1>3 DEF FlowInv
<1>4. taus' = taus /\ args' = args /\ LiveTaus' = LiveTaus
  BY <1>1 DEF textVars, LiveTaus
<1>5. ArgsFlow'
  BY <1>1, <1>4, SameFlow DEF FlowInv, ArgsFlow
<1>6. \A p \in DOMAIN fn.rpo : p < pos
  <2>1. DOMAIN fn.rpo = 1..Len(fn.rpo) /\ Len(fn.rpo) \in Nat
    BY <1>2 DEF WellFormedGraph
  <2> QED
    BY <1>1, <1>2, <2>1
<1>7. ASSUME NEW z \in Phis, NEW c \in isCaloric PROVE Placed(z, c)
  <2>1. HomeOf(z) \in Blocks /\ z \in ToSet(fn.phis[HomeOf(z)])
    BY <1>2, PhiPlace
  <2>2. CASE HomeOf(z) \in Reachable(fn)
    <3>1. PICK p \in DOMAIN fn.rpo : fn.rpo[p] = HomeOf(z)
      BY <2>2 DEF Reachable
    <3>2. PICK k \in DOMAIN fn.phis[fn.rpo[p]] : z = fn.phis[fn.rpo[p]][k]
      BY <2>1, <3>1 DEF ToSet
    <3> QED
      BY <1>1, <1>6, <3>2 DEF FlowInv, PlacedSoFar
  <2>3. CASE HomeOf(z) \notin Reachable(fn)
    <3>1. HomeOf(z) \notin Above[c]
      BY <1>2, <2>3, AboveOrder DEF FlowInv, Profiles
    <3>2. ASSUME Tau(z, c) \in LiveTaus PROVE FALSE
      <4>1. InsertedBefore(Tau(z, c))
        BY <1>1, <3>2 DEF PipelineInv, TauInv, InsertedInOrder
      <4>2. PICK p \in DOMAIN fn.rpo : \E k \in DOMAIN fn.phis[fn.rpo[p]] :
                Tau(z, c).phi = fn.phis[fn.rpo[p]][k]
        BY <4>1 DEF InsertedBefore
      <4>3. PICK k \in DOMAIN fn.phis[fn.rpo[p]] : z = fn.phis[fn.rpo[p]][k]
        BY <4>2 DEF Tau
      <4>4. fn.rpo[p] \in Blocks /\ fn.rpo[p] \in Reachable(fn)
        BY <1>2, OnePlace
      <4>5. HomeOf(z) = fn.rpo[p]
        BY <1>2, <4>3, <4>4, PhiAtHome DEF ToSet
      <4> QED
        BY <2>3, <4>4, <4>5
    <3> QED
      BY <3>1, <3>2 DEF Placed
  <2> QED
    BY <2>2, <2>3
<1>8. \A y, c : Placed(y, c)' <=> Placed(y, c)
  BY <1>1, <1>4, SamePlaced
<1>9. PlacedSoFar'
  BY <1>1, <1>7, <1>8, SameFlow DEF PlacedSoFar
<1> QED
  BY <1>5, <1>9

----------------------------------------------------------------------------
(* From Search on, the taus that remain keep their arguments.              *)

LEMMA LaterFlow ==
    ASSUME FlowInv, UNCHANGED <<fn, HotPathSet, isCaloric, DT>>, pc' \notin {"insert", "walk"},
           \A t \in LiveTaus' : /\ t \in LiveTaus
                                /\ {Root(v) : v \in args'[t]} = {Root(v) : v \in args[t]},
           Searching' /\ DOMAIN renaming_stack' = {}
               => Searching /\ DOMAIN renaming_stack = {} /\ LiveTaus' = LiveTaus
    PROVE  FlowInv'
<1>1. /\ Profiles' /\ (PathsConnected' <=> PathsConnected) /\ Phis' = Phis
      /\ \A z, c : ReachingDefs(z, c)' = ReachingDefs(z, c)
      /\ \A v : Root(v)' = Root(v)
  BY SameFlow DEF FlowInv
<1> SUFFICES ASSUME PathsConnected PROVE ArgsFlow' /\ PlacedSoFar'
  BY <1>1 DEF FlowInv
<1>2. ArgsFlow'
  BY <1>1 DEF FlowInv, ArgsFlow
<1>3. LiveTaus' = LiveTaus => \A y, c : Placed(y, c)' <=> Placed(y, c)
  BY SamePlaced
<1>4. PlacedSoFar'
  BY <1>1, <1>3 DEF FlowInv, PlacedSoFar
<1> QED
  BY <1>2, <1>4

\* Steps that leave the taus alone.
LEMMA SameTausFlow ==
    ASSUME FlowInv, UNCHANGED <<fn, HotPathSet, isCaloric, DT, taus, args>>,
           pc' \notin {"insert", "walk"},
           Searching' => Searching /\ DOMAIN renaming_stack \subseteq DOMAIN renaming_stack'
    PROVE  FlowInv'
<1>1. LiveTaus' = LiveTaus
  BY DEF LiveTaus
<1> QED
  BY <1>1, LaterFlow

\* A value is renamed to one that stands for the same value of the program.
LEMMA RootRenamed ==
    ASSUME PipelineInv, Searching, NEW v
    PROVE  Root(Renamed(v)) = Root(v)
<1>1. CASE v \notin DOMAIN renaming_stack
  BY <1>1 DEF Renamed
<1>2. CASE v \in DOMAIN renaming_stack
  <2>1. Stands(Last(renaming_stack[v]), v) /\ v \notin TauNames
    BY <1>2, TopStands DEF PipelineInv
  <2>2. TausForm
    BY DEF PipelineInv, TauInv, TextForm
  <2>3. Last(renaming_stack[v]) \in LiveTaus => Last(renaming_stack[v]) \in TauNames
    BY <2>2, LiveInBlock
  <2> QED
    BY <1>2, <2>1, <2>3 DEF Renamed, Stands, Root
<1> QED
  BY <1>1, <1>2

LEMMA SearchTauFlow ==
    ASSUME PipelineInv, FlowInv, SearchTau
    PROVE  FlowInv'
<1>1. /\ UNCHANGED <<fn, HotPathSet, isCaloric, DT, taus>> /\ pc = "rename" /\ pc' = "rename"
      /\ args' = [args EXCEPT ![taus[Called][it]] = {Renamed(v) : v \in @}]
      /\ DOMAIN renaming_stack' = DOMAIN renaming_stack
  BY DEF SearchTau, walkVars
<1>2. Searching
  BY <1>1 DEF Searching
<1>3. LiveTaus' = LiveTaus /\ DOMAIN args = LiveTaus
  BY <1>1 DEF LiveTaus, PipelineInv, TauInv, TextForm
<1>4. ASSUME NEW t \in LiveTaus
      PROVE  {Root(v) : v \in args'[t]} = {Root(v) : v \in args[t]}
  <2>1. args'[t] = args[t] \/ args'[t] = {Renamed(v) : v \in args[t]}
    BY <1>1, <1>3
  <2>2. \A v : Root(Renamed(v)) = Root(v)
    BY <1>2, RootRenamed
  <2>3. {Root(v) : v \in {Renamed(w) : w \in args[t]}} = {Root(v) : v \in args[t]}
    BY <2>2
  <2> QED
    BY <2>1, <2>3
<1> QED
  BY <1>1, <1>2, <1>3, <1>4, LaterFlow

LEMMA SearchPopFlow ==
    ASSUME PipelineInv, FlowInv, SearchPop
    PROVE  FlowInv'
<1>1. /\ UNCHANGED <<fn, HotPathSet, isCaloric, DT>> /\ pc = "pop" /\ pc' = "pop"
  BY DEF SearchPop, walkVars
<1>2. PICK z \in varstack :
          /\ LET t == Last(renaming_stack[z])
             IN \/ Unused(t) /\ taus' = Without(t) /\ args' = Restrict(args, DOMAIN args \ {t})
                \/ UNCHANGED <<taus, args>>
          /\ renaming_stack' = [renaming_stack EXCEPT ![z] = Front(@)]
  BY DEF SearchPop
<1>3. PICK t : t = Last(renaming_stack[z])
  OBVIOUS
<1>4. t \in LiveTaus /\ TausForm /\ DOMAIN args = LiveTaus
  BY <1>1, <1>3, PoppedHere DEF PipelineInv, TauInv, TextForm
<1>5. z \in DOMAIN renaming_stack
  <2>1. PICK depth : Mapped(depth)
    BY DEF PipelineInv, TauInv
  <2> QED
    BY <1>1, <2>1 DEF Mapped, Searching
<1>6. DOMAIN renaming_stack' # {}
  BY <1>2, <1>5
<1>7. \A s \in LiveTaus' : s \in LiveTaus /\ args'[s] = args[s]
  <2>1. CASE UNCHANGED <<taus, args>>
    BY <2>1 DEF LiveTaus
  <2>2. CASE taus' = Without(t) /\ args' = Restrict(args, DOMAIN args \ {t})
    <3>1. LiveTaus' = LiveTaus \ {t}
      BY <1>1, <1>4, <2>2, WithoutTau
    <3> QED
      BY <1>4, <2>2, <3>1 DEF Restrict
  <2> QED
    BY <1>2, <1>3, <2>1, <2>2
<1> QED
  BY <1>1, <1>6, <1>7, LaterFlow

LEMMA RemoveTauFlow ==
    ASSUME PipelineInv, FlowInv, RemoveTau
    PROVE  FlowInv'
<1>1. UNCHANGED <<fn, HotPathSet, isCaloric, DT>> /\ pc = "destroy" /\ pc' = "destroy"
  BY DEF RemoveTau, hpssaVars, walkVars
<1>2. PICK t \in toBeRemoved :
          taus' = Without(t) /\ args' = Restrict(ArgsWith(t, operand[t]), DOMAIN operand \ {t})
  BY DEF RemoveTau, replaceTAU
<1>3. /\ t \in LiveTaus /\ TausForm /\ Ground /\ ReadsOriginal
      /\ DOMAIN args = LiveTaus /\ DOMAIN operand = LiveTaus
  BY <1>1 DEF PipelineInv, Collected, TauInv, TextForm
<1>4. LiveTaus' = LiveTaus \ {t}
  BY <1>1, <1>2, <1>3, WithoutTau
<1>5. PICK w : w = operand[t]
  OBVIOUS
<1>6. Root(w) = t.phi /\ Root(t) = t.phi
  <2>1. w = t.phi \/ (w \in LiveTaus /\ w.phi = t.phi)
    BY <1>3, <1>5 DEF ReadsOriginal, Stands
  <2>2. t \in TauNames /\ t.phi \notin TauNames
    BY <1>3, LiveInBlock, ReadNoTau
  <2>3. w \in LiveTaus => w \in TauNames
    BY <1>3, LiveInBlock
  <2> QED
    BY <2>1, <2>2, <2>3 DEF Root
<1>7. \A x : Root(Sub(t, w, x)) = Root(x)
  BY <1>6 DEF Sub
<1>8. ASSUME NEW s \in LiveTaus'
      PROVE  /\ s \in LiveTaus
             /\ {Root(v) : v \in args'[s]} = {Root(v) : v \in args[s]}
  <2>1. s \in LiveTaus /\ args'[s] = {Sub(t, w, x) : x \in args[s]}
    BY <1>2, <1>3, <1>4, <1>5, <1>8 DEF Restrict, ArgsWith
  <2> QED
    BY <1>7, <2>1
<1>9. ~ Searching'
  BY <1>1 DEF Searching
<1> QED
  BY <1>1, <1>8, <1>9, LaterFlow

\* A stuttering step.
LEMMA StutteringFlow ==
    ASSUME FlowInv, UNCHANGED firstVars
    PROVE  FlowInv'
<1>1. /\ UNCHANGED <<fn, HotPathSet, isCaloric, DT, pos, it, pc, taus, args, renaming_stack>>
      /\ UNCHANGED <<defAccumulator, currPaths, J>>
  BY DEF firstVars, accVars, pipelineVars, vars, walkVars, textVars, searchVars
<1>2. /\ Profiles' /\ (PathsConnected' <=> PathsConnected) /\ LiveTaus' = LiveTaus
      /\ (Searching' <=> Searching) /\ Phis' = Phis /\ Above' = Above
      /\ BB' = BB
  BY <1>1, SameFlow DEF FlowInv, LiveTaus, Searching, BB
<1> SUFFICES ASSUME PathsConnected
             PROVE  ArgsFlow' /\ (pc = "walk" => WalkedFrom(BB, fn.phis[BB][it])') /\ PlacedSoFar'
  BY <1>1, <1>2 DEF FlowInv
<1>3. ArgsFlow'
  BY <1>1, <1>2, SameFlow DEF FlowInv, ArgsFlow
<1>4. \A y, c : Placed(y, c)' <=> Placed(y, c)
  BY <1>1, <1>2, SamePlaced
<1>5. \A j, c : Passes(j, c)' <=> Passes(j, c)
  BY <1>1, SameFlow
<1>6. PlacedSoFar'
  BY <1>1, <1>2, <1>4, <1>5 DEF FlowInv, PlacedSoFar, Passes
<1>7. ASSUME pc = "walk" PROVE WalkedFrom(BB, fn.phis[BB][it])'
  <2>1. PICK b, z : b = BB /\ z = fn.phis[BB][it]
    OBVIOUS
  <2>2. WalkedFrom(b, z)
    BY <1>7, <2>1 DEF FlowInv
  <2>3. WalkedFrom(b, z)'
    BY <1>1, <1>2, <2>2 DEF WalkedFrom, ValuesOn, Passes, Reachable, Succs, Preds, PredEdges, Edges
  <2> QED
    BY <1>1, <1>2, <2>1, <2>3
<1> QED
  BY <1>3, <1>6, <1>7

LEMMA FlowStep ==
    ASSUME PipelineInv, ArgumentsAlive, FlowInv, [FirstNext]_firstVars
    PROVE  FlowInv'
<1>1. CASE FirstPhi \/ FirstInsertTau \/ WalkEnds
  BY <1>1, FirstPhiFlow, FirstInsertTauFlow, WalkEndsFlow
<1>2. CASE Connect \/ Connected \/ NextBlock \/ Inserted
  BY <1>2, ConnectFlow, ConnectedFlow, NextBlockFlow, InsertedFlow
<1>3. CASE SearchTau \/ SearchPop \/ RemoveTau
  BY <1>3, SearchTauFlow, SearchPopFlow, RemoveTauFlow
<1>4. CASE Search \/ SearchUses \/ SearchChild
  <2>1. /\ UNCHANGED <<fn, HotPathSet, isCaloric, DT, taus, args>> /\ Searching
        /\ pc' \notin {"insert", "walk"}
    BY <1>4 DEF Search, SearchUses, SearchChild, walkVars, textVars, Searching
  <2>2. DOMAIN renaming_stack \subseteq DOMAIN renaming_stack'
    BY <1>4 DEF Search, SearchUses, SearchChild, searchVars, Over
  <2> QED
    BY <2>1, <2>2, SameTausFlow
<1>5. CASE SearchedChildren \/ SearchReturn
  <2>1. /\ UNCHANGED <<fn, HotPathSet, isCaloric, DT, taus, args>> /\ Searching
        /\ pc' \notin {"insert", "walk"} /\ renaming_stack' = renaming_stack
    BY <1>5 DEF SearchedChildren, SearchReturn, walkVars, textVars, searchVars, Searching
  <2> QED
    BY <2>1, SameTausFlow
<1>6. CASE FirstReturn \/ Collect \/ AllRemoved
  <2>1. /\ UNCHANGED <<fn, HotPathSet, isCaloric, DT, taus, args>> /\ ~ Searching'
        /\ pc' \notin {"insert", "walk"}
    BY <1>6 DEF FirstReturn, Collect, AllRemoved, hpssaVars, walkVars, textVars, Searching
  <2> QED
    BY <2>1, SameTausFlow
<1>7. CASE UNCHANGED firstVars
  BY <1>7, StutteringFlow
<1> QED
  BY <1>1, <1>2, <1>3, <1>4, <1>5, <1>6, <1>7 DEF FirstNext, FirstSearch, FirstConnect

\* In the pass of HPSSA.cpp, where hot paths go along edges of the function, the walk of a
\* phi gives a tau to exactly the caloric connectors below it that its values reach on hot
\* paths, up to where it breaks off; each tau has exactly the values that the phi gets on
\* the hot paths through it, and keeps them, under their newest names, until it is erased.
THEOREM DefinitionsFlow == FirstSpec => []DefsFlow
<1>1. FirstInit => PipelineInv /\ ArgumentsAlive /\ FlowInv
  BY InitPipeline, InitArguments, InitFlow DEF FirstInit
<1>2. PipelineInv /\ ArgumentsAlive /\ FlowInv /\ [FirstNext]_firstVars
          => (PipelineInv /\ ArgumentsAlive /\ FlowInv)'
  BY FirstStep, ArgumentsStep, FlowStep
<1>3. FlowInv => DefsFlow
  <2> SUFFICES ASSUME FlowInv, PathsConnected
               PROVE  /\ \A t \in LiveTaus : {Root(v) : v \in args[t]} = ReachingDefs(t.phi, t.at)
                      /\ pc = "search" /\ renaming_stack = << >> =>
                            \A z \in Phis : \A c \in isCaloric : Placed(z, c)
    BY DEF DefsFlow, Placed
  <2>1. renaming_stack = << >> => DOMAIN renaming_stack = {}
    OBVIOUS
  <2> QED
    BY <2>1 DEF FlowInv, ArgsFlow, PlacedSoFar, Searching
<1> QED
  BY <1>1, <1>2, <1>3, PTL DEF FirstSpec
=============================================================================

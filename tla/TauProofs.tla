----------------------------- MODULE TauProofs -----------------------------
(***************************************************************************)
(* Proofs about HPSSAPass::run of src/HPSSA_new.cpp and of src/HPSSA.cpp,  *)
(* each followed by TDSTRPass::run.  Both runs search the dominator tree   *)
(* with the same stacks and take out the same taus, so the two share one   *)
(* invariant and one lemma for each action they share.                     *)
(***************************************************************************)
EXTENDS FirstHpssa, ListProofs

----------------------------------------------------------------------------
(* The dominators, from the definition of what is reached around a block.  *)

\* What the entry reaches around c in n steps at most is what it reaches in one step less,
\* and the successors of that.
Widened(f, c, T) == T \cup ((UNION {Succs(f, u) : u \in T}) \ {c})

LEMMA AroundGrows ==
    ASSUME NEW f \in Programs, NEW c
    PROVE  \E w \in [0..Cardinality(Blocks) -> SUBSET Blocks] :
               /\ w[0] = {f.entry} \ {c}
               /\ \A n \in 1..Cardinality(Blocks) : w[n] = Widened(f, c, w[n - 1])
               /\ ReachableAround(f, c) = w[Cardinality(Blocks)]
<1> DEFINE N == Cardinality(Blocks)
           Turn(w) == [n \in 0..N |-> IF n = 0 THEN {f.entry} \ {c} ELSE Widened(f, c, w[n - 1])]
           step == [x \in (1..N) \X SUBSET Blocks |-> Widened(f, c, x[2])]
<1>1. WellFormedGraph(f) /\ N \in Nat
  BY ProgramsAssumption, FS_CardinalityType
<1>2. \A T \in SUBSET Blocks : Widened(f, c, T) \in SUBSET Blocks
  BY <1>1 DEF Widened, Succs, WellFormedGraph
<1>3. {f.entry} \ {c} \in SUBSET Blocks
  BY <1>1 DEF WellFormedGraph
<1>4. step \in [(1..N) \X SUBSET Blocks -> SUBSET Blocks]
  BY <1>2
<1>5. PICK g \in [0..N -> SUBSET Blocks] : Recurs(g, N, {f.entry} \ {c}, step)
  <2> HIDE DEF step, N
  <2> QED
    BY <1>1, <1>3, <1>4, Recursion
<1>6. g = Turn(g)
  <2>1. \A n \in 0..N : g[n] = IF n = 0 THEN {f.entry} \ {c} ELSE Widened(f, c, g[n - 1])
    <3> SUFFICES ASSUME NEW n \in 0..N, n # 0 PROVE g[n] = Widened(f, c, g[n - 1])
      BY <1>5 DEF Recurs
    <3>1. n \in 1..N /\ n - 1 \in 0..N
      BY <1>1
    <3>2. <<n, g[n - 1]>> \in (1..N) \X SUBSET Blocks
      BY <3>1
    <3> QED
      BY <1>5, <3>1, <3>2 DEF Recurs
  <2> QED
    BY <2>1
<1> DEFINE w == CHOOSE v : v = Turn(v)
<1>7. w = Turn(w)
  BY <1>6
<1>8. ReachableAround(f, c) = w[N]
  BY DEF ReachableAround, Widened
<1> HIDE DEF w
<1>9. w[0] = {f.entry} \ {c} /\ \A n \in 1..N : w[n] = Widened(f, c, w[n - 1])
  <2>1. \A n \in 0..N : w[n] = IF n = 0 THEN {f.entry} \ {c} ELSE Widened(f, c, w[n - 1])
    BY <1>7
  <2> QED
    BY <1>1, <2>1
<1>10. DOMAIN w = 0..N
  BY <1>7
<1>11. \A n \in 0..N : w[n] \in SUBSET Blocks
  <2> DEFINE S == {n \in Nat : n <= N => w[n] \in SUBSET Blocks}
  <2>1. 0 \in S
    BY <1>3, <1>9
  <2>2. ASSUME NEW n \in Nat, n \in S PROVE n + 1 \in S
    <3> SUFFICES ASSUME n + 1 <= N PROVE w[n + 1] \in SUBSET Blocks
      OBVIOUS
    <3>1. n + 1 \in 1..N /\ (n + 1) - 1 = n
      BY <1>1
    <3>2. w[n + 1] = Widened(f, c, w[n])
      BY <1>9, <3>1
    <3>3. w[n] \in SUBSET Blocks
      BY <1>1, <2>2
    <3> HIDE DEF N, S
    <3> QED
      BY <1>2, <3>2, <3>3
  <2>3. \A n \in Nat : n \in S
    <3> HIDE DEF S
    <3> QED
      BY <2>1, <2>2, SetInduction
  <2> QED
    BY <1>1, <2>3
<1>12. w = [n \in 0..N |-> w[n]]
  BY <1>7
<1>13. w \in [0..N -> SUBSET Blocks]
  BY <1>11, <1>12
<1> HIDE DEF N
<1> QED
  BY <1>8, <1>9, <1>13 DEF N

\* What is reached around c: the entry and, with a block, its successors, all but c; and
\* it is the least such set.
LEMMA AroundLeast ==
    ASSUME NEW f \in Programs, NEW c
    PROVE  /\ ReachableAround(f, c) \subseteq Blocks
           /\ c \notin ReachableAround(f, c)
           /\ f.entry # c => f.entry \in ReachableAround(f, c)
           /\ \A u \in ReachableAround(f, c) : Succs(f, u) \ {c} \subseteq ReachableAround(f, c)
           /\ \A T : /\ f.entry # c => f.entry \in T
                     /\ \A u \in T : Succs(f, u) \ {c} \subseteq T
                     => ReachableAround(f, c) \subseteq T
<1> DEFINE N == Cardinality(Blocks)
           R == ReachableAround(f, c)
<1>1. WellFormedGraph(f) /\ N \in Nat /\ IsFiniteSet(Blocks)
  BY ProgramsAssumption, FS_CardinalityType
<1>2. PICK w \in [0..N -> SUBSET Blocks] : /\ w[0] = {f.entry} \ {c}
                                           /\ \A n \in 1..N : w[n] = Widened(f, c, w[n - 1])
                                           /\ R = w[N]
  BY AroundGrows
<1> HIDE DEF N, R
\* What holds for w[0], and for each w[n] with w[n - 1], holds for all.
<1>3. ASSUME NEW S, 0 \in S, \A n \in 1..N : n - 1 \in S => n \in S PROVE \A n \in 0..N : n \in S
  <2> DEFINE U == {n \in Nat : n <= N => n \in S}
  <2>1. 0 \in U
    BY <1>3
  <2>2. ASSUME NEW n \in Nat, n \in U PROVE n + 1 \in U
    <3> SUFFICES ASSUME n + 1 <= N PROVE n + 1 \in S
      OBVIOUS
    <3>1. n + 1 \in 1..N /\ (n + 1) - 1 = n /\ n <= N
      BY <1>1
    <3> QED
      BY <1>3, <2>2, <3>1
  <2>3. \A n \in Nat : n \in U
    <3> HIDE DEF U
    <3> QED
      BY <2>1, <2>2, SetInduction
  <2> QED
    BY <1>1, <2>3
<1>4. \A n \in 1..N : n - 1 \in 0..N /\ n \in 0..N
  BY <1>1
<1>5. \A n \in 0..N : c \notin w[n]
  <2> DEFINE S == {n \in 0..N : c \notin w[n]}
  <2>1. 0 \in S
    BY <1>1, <1>2
  <2>2. ASSUME NEW n \in 1..N, n - 1 \in S PROVE n \in S
    <3>1. w[n] = Widened(f, c, w[n - 1]) /\ c \notin w[n - 1]
      BY <1>2, <2>2
    <3>2. c \notin w[n]
      BY <3>1 DEF Widened
    <3> QED
      BY <1>4, <3>2
  <2> HIDE DEF S
  <2>3. \A n \in 0..N : n \in S
    BY <1>3, <2>1, <2>2
  <2> QED
    BY <2>3 DEF S
<1>6. \A n \in 1..N : w[n - 1] \subseteq w[n]
  BY <1>2 DEF Widened
<1>7. f.entry # c => \A n \in 0..N : f.entry \in w[n]
  <2> SUFFICES ASSUME f.entry # c PROVE \A n \in 0..N : f.entry \in w[n]
    OBVIOUS
  <2> DEFINE S == {n \in 0..N : f.entry \in w[n]}
  <2>1. 0 \in S
    BY <1>1, <1>2
  <2>2. \A n \in 1..N : n - 1 \in S => n \in S
    BY <1>4, <1>6
  <2> HIDE DEF S
  <2>3. \A n \in 0..N : n \in S
    BY <1>3, <2>1, <2>2
  <2> QED
    BY <2>3 DEF S
\* It is least.
<1>8. ASSUME NEW T, f.entry # c => f.entry \in T, \A u \in T : Succs(f, u) \ {c} \subseteq T
      PROVE  R \subseteq T
  <2> DEFINE S == {n \in 0..N : w[n] \subseteq T}
  <2>1. 0 \in S
    BY <1>1, <1>2, <1>8
  <2>2. ASSUME NEW n \in 1..N, n - 1 \in S PROVE n \in S
    <3>1. w[n] = Widened(f, c, w[n - 1]) /\ w[n - 1] \subseteq T
      BY <1>2, <2>2
    <3>2. \A u \in w[n - 1] : Succs(f, u) \ {c} \subseteq T
      BY <1>8, <3>1
    <3>3. w[n] \subseteq T
      BY <3>1, <3>2 DEF Widened
    <3> QED
      BY <1>4, <3>3
  <2> HIDE DEF S
  <2>3. \A n \in 0..N : n \in S
    BY <1>3, <2>1, <2>2
  <2>4. N \in 0..N
    BY <1>1
  <2> QED
    BY <1>2, <2>3, <2>4 DEF S
\* Some step adds nothing, or there were more blocks than there are.
<1>9. ASSUME NEW n \in 1..N, w[n] = w[n - 1] PROVE \A m \in n..N : w[m] = w[n]
  <2> DEFINE S == {m \in 0..N : m >= n => w[m] = w[n]}
  <2>1. 0 \in S
    BY <1>1
  <2>2. ASSUME NEW m \in 1..N, m - 1 \in S PROVE m \in S
    <3>1. CASE m < n
      BY <1>4, <3>1
    <3>2. CASE m = n
      BY <1>4, <3>2
    <3>3. CASE m > n
      <4>1. m - 1 >= n /\ m - 1 \in 0..N /\ m \in 0..N
        BY <1>4, <3>3
      <4>2. w[m - 1] = w[n - 1] /\ w[m - 1] = w[n]
        BY <1>9, <2>2, <4>1
      <4>3. w[m] = w[n]
        BY <1>2, <4>2
      <4> QED
        BY <4>1, <4>3
    <3> QED
      BY <1>1, <3>1, <3>2, <3>3
  <2>3. \A m \in 0..N : m \in S
    <3> HIDE DEF S
    <3> QED
      BY <1>3, <2>1, <2>2
  <2> QED
    BY <1>1, <2>3
<1>10. \A T \in SUBSET Blocks : IsFiniteSet(T) /\ Cardinality(T) \in Nat /\ Cardinality(T) <= N
  BY <1>1, FS_Subset, FS_CardinalityType DEF N
<1>11. CASE f.entry = c
  <2>1. R = {}
    <3>1. \A u \in {} : Succs(f, u) \ {c} \subseteq {}
      OBVIOUS
    <3> QED
      BY <1>8, <1>11, <3>1
  <2>2. N \in 0..N
    BY <1>1
  <2> HIDE DEF Succs
  <2> QED
    BY <1>8, <1>11, <2>1 DEF R
<1>12. CASE f.entry # c
  <2>1. \E n \in 1..N : w[n] = w[n - 1]
    <3> SUFFICES ASSUME \A n \in 1..N : w[n] # w[n - 1] PROVE FALSE
      OBVIOUS
    <3> DEFINE S == {n \in 0..N : Cardinality(w[n]) > n}
    <3>1. 0 \in S
      <4>1. f.entry \in w[0] /\ 0 \in 0..N
        BY <1>1, <1>7, <1>12
      <4>2. Cardinality(w[0]) # 0
        BY <1>10, <4>1, FS_EmptySet
      <4> QED
        BY <1>10, <4>1, <4>2
    <3>2. ASSUME NEW n \in 1..N, n - 1 \in S PROVE n \in S
      <4>1. w[n - 1] \in SUBSET Blocks /\ w[n] \in SUBSET Blocks /\ w[n - 1] \subseteq w[n]
            /\ w[n - 1] # w[n]
        BY <1>4, <1>6
      <4>2. Cardinality(w[n - 1]) < Cardinality(w[n])
        BY <1>10, <4>1, FS_Subset
      <4> QED
        BY <1>4, <1>10, <3>2, <4>1, <4>2
    <3>3. \A n \in 0..N : n \in S
      <4> HIDE DEF S
      <4> QED
        BY <1>3, <3>1, <3>2
    <3>4. N \in 0..N
      BY <1>1
    <3>5. Cardinality(w[N]) > N /\ w[N] \in SUBSET Blocks
      BY <3>3, <3>4
    <3> QED
      BY <1>1, <1>10, <3>5
  <2>2. PICK n \in 1..N : w[n] = w[n - 1]
    BY <2>1
  <2>3. w[N] = w[n - 1] /\ w[N] = w[n]
    BY <1>1, <1>9, <2>2
  <2>4. R = Widened(f, c, R)
    BY <1>2, <2>2, <2>3
  <2>5. N \in 0..N
    BY <1>1
  <2>6. R \subseteq Blocks /\ c \notin R /\ f.entry \in R
    BY <1>2, <1>5, <1>7, <1>12, <2>5
  <2>7. \A u \in R : Succs(f, u) \ {c} \subseteq R
    BY <2>4 DEF Widened
  <2> QED
    BY <1>8, <2>6, <2>7 DEF R
<1> QED
  BY <1>11, <1>12

\* A set that has the entry and the successors of each of its blocks has all blocks of the
\* traversal.
LEMMA ReachesAll ==
    ASSUME NEW f \in Programs, NEW T, f.entry \in T, \A u \in T : Succs(f, u) \subseteq T
    PROVE  Reachable(f) \subseteq T
<1>1. WellFormedGraph(f)
  BY ProgramsAssumption
<1> DEFINE S == {n \in Nat : n \in DOMAIN f.rpo => f.rpo[n] \in T}
<1>2. ASSUME NEW n \in Nat, \A m \in Nat : m < n => m \in S PROVE n \in S
  <2> SUFFICES ASSUME n \in DOMAIN f.rpo PROVE f.rpo[n] \in T
    OBVIOUS
  <2>1. DOMAIN f.rpo = 1..Len(f.rpo) /\ Len(f.rpo) \in Nat
    BY <1>1 DEF WellFormedGraph
  <2>2. CASE n = 1
    BY <1>1, <2>2 DEF WellFormedGraph
  <2>3. CASE n # 1
    <3>1. n > 1
      BY <2>1, <2>3
    <3>2. PICK m \in 1..(n - 1) : f.rpo[n] \in Succs(f, f.rpo[m])
      BY <1>1, <3>1 DEF WellFormedGraph
    <3>3. m \in Nat /\ m < n /\ m \in DOMAIN f.rpo
      BY <2>1, <3>2
    <3>4. f.rpo[m] \in T
      BY <1>2, <3>3
    <3> QED
      BY <3>2, <3>4
  <2> QED
    BY <2>2, <2>3
<1>3. \A n \in Nat : n \in S
  <2> HIDE DEF S
  <2> QED
    BY <1>2, StrongInduction
<1>4. \A n \in DOMAIN f.rpo : n \in Nat
  BY <1>1 DEF WellFormedGraph
<1> QED
  BY <1>3, <1>4 DEF Reachable

\* Each block dominates itself; the entry dominates all and is dominated by none.
LEMMA DominatorsOfEntry ==
    ASSUME NEW f \in Programs
    PROVE  /\ f.entry \in Reachable(f) /\ Reachable(f) \subseteq Blocks
           /\ \A b \in Reachable(f) : b \in Dominators(f)[b] /\ f.entry \in Dominators(f)[b]
           /\ Dominators(f)[f.entry] = {f.entry}
<1>1. WellFormedGraph(f)
  BY ProgramsAssumption
<1>2. f.entry \in Reachable(f) /\ Reachable(f) \subseteq Blocks
  BY <1>1 DEF WellFormedGraph, Reachable
<1>3. \A b \in Reachable(f) :
        Dominators(f)[b] = {c \in Reachable(f) : b \notin ReachableAround(f, c)}
  BY DEF Dominators
<1>4. ReachableAround(f, f.entry) = {}
  <2>1. PICK T : T = {}
    OBVIOUS
  <2>2. \A u \in T : Succs(f, u) \ {f.entry} \subseteq T
    BY <2>1
  <2>3. ReachableAround(f, f.entry) \subseteq T
    BY <2>2, AroundLeast
  <2> QED
    BY <2>1, <2>3
<1>5. \A c \in Reachable(f) : c # f.entry => f.entry \in ReachableAround(f, c)
  BY AroundLeast
<1>6. \A b \in Reachable(f) : b \notin ReachableAround(f, b)
  BY AroundLeast
<1> QED
  BY <1>2, <1>3, <1>4, <1>5, <1>6

\* Dominance is transitive and, but for a block itself, goes one way.
LEMMA DominatorsAbove ==
    ASSUME NEW f \in Programs, NEW b \in Reachable(f), NEW d \in Dominators(f)[b]
    PROVE  /\ d \in Reachable(f)
           /\ Dominators(f)[d] \subseteq Dominators(f)[b]
           /\ d # b => b \notin Dominators(f)[d]
<1>1. \A x \in Reachable(f) :
        Dominators(f)[x] = {c \in Reachable(f) : x \notin ReachableAround(f, c)}
  BY DEF Dominators
<1>2. d \in Reachable(f) /\ b \notin ReachableAround(f, d)
  BY <1>1
<1>3. ASSUME NEW c \in Dominators(f)[d] PROVE c \in Dominators(f)[b]
  <2>1. c \in Reachable(f) /\ d \notin ReachableAround(f, c)
    BY <1>1, <1>2
  <2> SUFFICES ASSUME b \in ReachableAround(f, c) PROVE FALSE
    BY <1>1, <2>1
  <2> DEFINE T == ReachableAround(f, c) \cap ReachableAround(f, d)
  <2>2. f.entry # c
    BY DominatorsOfEntry, AroundLeast, <1>1
  <2>3. f.entry \in ReachableAround(f, c) /\ f.entry # d
    BY <2>1, <2>2, AroundLeast
  <2>4. f.entry \in T
    BY <2>3, AroundLeast
  <2>5. \A u \in T : Succs(f, u) \ {c} \subseteq T
    <3> SUFFICES ASSUME NEW u \in T, NEW s \in Succs(f, u), s # c PROVE s \in T
      OBVIOUS
    <3>1. s \in ReachableAround(f, c)
      BY AroundLeast
    <3>2. s # d
      BY <2>1, <3>1
    <3>3. s \in ReachableAround(f, d)
      BY <3>2, AroundLeast
    <3> QED
      BY <3>1, <3>3
  <2>6. ReachableAround(f, c) \subseteq T
    <3> HIDE DEF T
    <3> QED
      BY <2>4, <2>5, AroundLeast
  <2> QED
    BY <1>2, <2>6
<1>4. ASSUME d # b, b \in Dominators(f)[d] PROVE FALSE
  <2>1. d \notin ReachableAround(f, b)
    BY <1>1, <1>2, <1>4
  <2> DEFINE T == ReachableAround(f, b) \cap ReachableAround(f, d)
  <2>2. f.entry # b /\ f.entry # d
    <3>1. f.entry # b
      BY <1>2, <1>4, AroundLeast, DominatorsOfEntry
    <3>2. f.entry # d
      BY <2>1, <3>1, AroundLeast
    <3> QED
      BY <3>1, <3>2
  <2>3. f.entry \in T
    BY <2>2, AroundLeast
  <2>4. \A u \in T : Succs(f, u) \subseteq T
    <3> SUFFICES ASSUME NEW u \in T, NEW s \in Succs(f, u) PROVE s \in T
      OBVIOUS
    <3>1. s # d
      <4>1. s # b => s \in ReachableAround(f, b)
        BY AroundLeast
      <4> QED
        BY <1>4, <2>1, <4>1
    <3>2. s \in ReachableAround(f, d)
      BY <3>1, AroundLeast
    <3>3. s # b
      BY <1>2, <3>2
    <3> QED
      BY <3>2, <3>3, AroundLeast
  <2>5. Reachable(f) \subseteq T
    <3> HIDE DEF T
    <3> QED
      BY <2>3, <2>4, ReachesAll
  <2> QED
    BY <2>5, <1>2
<1> QED
  BY <1>2, <1>3, <1>4

\* Of two blocks that dominate a third one dominates the other.
LEMMA DominatorsInOrder ==
    ASSUME NEW f \in Programs, NEW b \in Reachable(f),
           NEW c \in Dominators(f)[b], NEW d \in Dominators(f)[b]
    PROVE  c \in Dominators(f)[d] \/ d \in Dominators(f)[c]
<1>1. \A x \in Reachable(f) :
        Dominators(f)[x] = {y \in Reachable(f) : x \notin ReachableAround(f, y)}
  BY DEF Dominators
<1>2. /\ c \in Reachable(f) /\ b \notin ReachableAround(f, c)
      /\ d \in Reachable(f) /\ b \notin ReachableAround(f, d)
  BY <1>1
<1> SUFFICES ASSUME d \in ReachableAround(f, c), c \in ReachableAround(f, d) PROVE FALSE
  BY <1>1, <1>2
<1> DEFINE T == ReachableAround(f, c) \cup ReachableAround(f, d)
<1>3. f.entry \in T
  BY AroundLeast
<1>4. \A u \in T : Succs(f, u) \subseteq T
  <2> SUFFICES ASSUME NEW u \in T, NEW s \in Succs(f, u), s # c, s # d PROVE s \in T
    OBVIOUS
  <2> QED
    BY AroundLeast
<1>5. Reachable(f) \subseteq T
  <2> HIDE DEF T
  <2> QED
    BY <1>3, <1>4, ReachesAll
<1> QED
  BY <1>2, <1>5

\* What dominates a block, itself apart, dominates each of its predecessors.
LEMMA DominatesPredecessors ==
    ASSUME NEW f \in Programs, NEW u \in Reachable(f), NEW b \in Succs(f, u), b \in Reachable(f),
           NEW d \in Dominators(f)[b], d # b
    PROVE  d \in Dominators(f)[u]
<1>1. \A x \in Reachable(f) :
        Dominators(f)[x] = {y \in Reachable(f) : x \notin ReachableAround(f, y)}
  BY DEF Dominators
<1>2. u \in ReachableAround(f, d) => b \in ReachableAround(f, d)
  BY AroundLeast
<1> QED
  BY <1>1, <1>2

\* Each block but the entry has an immediate dominator, the one that has the most.
LEMMA ImmediateDominator ==
    ASSUME NEW f \in Programs, NEW b \in Reachable(f), b # f.entry
    PROVE  /\ DominatorTree(f)[b] \in Dominators(f)[b] \ {b}
           /\ Dominators(f)[DominatorTree(f)[b]] = Dominators(f)[b] \ {b}
<1> DEFINE doms == Dominators(f)
           N == Cardinality(Blocks)
<1>1. IsFiniteSet(Blocks) /\ N \in Nat
  BY ProgramsAssumption, FS_CardinalityType
<1>2. \A x \in Reachable(f) : doms[x] \in SUBSET Blocks
  BY DominatorsOfEntry DEF Dominators
<1>3. \A T \in SUBSET Blocks : IsFiniteSet(T) /\ Cardinality(T) \in 0..N
  <2> SUFFICES ASSUME NEW T \in SUBSET Blocks PROVE IsFiniteSet(T) /\ Cardinality(T) \in 0..N
    OBVIOUS
  <2>1. IsFiniteSet(T) /\ Cardinality(T) <= N
    BY <1>1, FS_Subset
  <2>2. Cardinality(T) \in Nat
    BY <2>1, FS_CardinalityType
  <2> QED
    BY <1>1, <2>1, <2>2
<1>4. \A x \in doms[b] : x \in Reachable(f) /\ Cardinality(doms[x]) \in 0..N
  <2> HIDE DEF N
  <2> QED
    BY <1>2, <1>3, DominatorsAbove
<1> DEFINE Sizes == {Cardinality(doms[x]) : x \in doms[b] \ {b}}
<1>5. f.entry \in doms[b] \ {b}
  BY DominatorsOfEntry
<1>6. Sizes \in SUBSET (0..N) /\ Sizes # {}
  BY <1>4, <1>5
<1>7. PICK n \in Sizes : \A m \in Sizes : m <= n
  <2> HIDE DEF Sizes
  <2> QED
    BY <1>1, <1>6, GreatestNumber
<1>8. PICK d \in doms[b] \ {b} : n = Cardinality(doms[d])
  BY <1>7
<1>9. \A x \in doms[b] \ {b} : Cardinality(doms[x]) <= Cardinality(doms[d])
  BY <1>7, <1>8
<1>10. doms[d] \subseteq doms[b] \ {b} /\ d \in Reachable(f)
  BY DominatorsAbove, <1>8
<1>11. ASSUME NEW c \in doms[b] \ {b} PROVE c \in doms[d]
  <2>1. c \in doms[d] \/ d \in doms[c]
    BY <1>8, DominatorsInOrder
  <2>2. CASE d \in doms[c]
    <3>1. c \in Reachable(f) /\ doms[d] \subseteq doms[c]
      BY <1>4, <2>2, DominatorsAbove
    <3>2. doms[c] \in SUBSET Blocks /\ doms[d] \in SUBSET Blocks
      BY <1>2, <1>10, <3>1
    <3>3. /\ IsFiniteSet(doms[c]) /\ Cardinality(doms[c]) \in Nat /\ Cardinality(doms[d]) \in Nat
          /\ Cardinality(doms[c]) <= Cardinality(doms[d])
      BY <1>1, <1>3, <1>9, <3>2
    <3>4. doms[c] = doms[d]
      <4> HIDE DEF doms
      <4> QED
        BY <3>1, <3>3, FS_Subset
    <3> QED
      BY <3>1, <3>4, DominatorsOfEntry
  <2> QED
    BY <2>1, <2>2
<1>12. doms[d] = doms[b] \ {b}
  BY <1>10, <1>11
<1>13. DominatorTree(f)[b] = CHOOSE x \in doms[b] \ {b} : doms[x] = doms[b] \ {b}
  BY DEF DominatorTree
<1> QED
  BY <1>8, <1>12, <1>13

----------------------------------------------------------------------------
(* The function and its dominator tree.                                    *)

\* What the assumptions say of the function at hand.
Ground ==
    /\ fn \in Programs
    /\ DT = DominatorTree(fn)

\* The traversal lists blocks, the entry first.
LEMMA GroundForm ==
    ASSUME Ground
    PROVE  /\ WellFormedGraph(fn) /\ ValuesForm(fn)
           /\ DT \in [Reachable(fn) \ {fn.entry} -> Reachable(fn)]
           /\ fn.entry \in Reachable(fn)
           /\ Reachable(fn) \subseteq Blocks
<1>1. WellFormedGraph(fn) /\ ValuesForm(fn)
  BY ProgramsAssumption, ValuesAssumption DEF Ground
<1>2. DT \in [Reachable(fn) \ {fn.entry} -> Reachable(fn)]
  <2>1. \A b \in Reachable(fn) \ {fn.entry} : DominatorTree(fn)[b] \in Reachable(fn)
    BY ImmediateDominator, DominatorsAbove DEF Ground
  <2>2. DominatorTree(fn) = [b \in Reachable(fn) \ {fn.entry} |-> DominatorTree(fn)[b]]
    BY DEF DominatorTree
  <2> QED
    BY <2>1, <2>2 DEF Ground
<1>3. fn.entry \in Reachable(fn) /\ Reachable(fn) \subseteq Blocks
  BY <1>1 DEF WellFormedGraph, Reachable
<1>4. QED
  BY <1>1, <1>2, <1>3

\* The equation that defines Above has a solution: the blocks in every set that holds b
\* and the immediate dominators of its members.
LEMMA AboveEquation ==
    ASSUME Ground
    PROVE  /\ Above[fn.entry] = {fn.entry}
           /\ \A b \in DOMAIN DT : Above[b] = {b} \cup Above[DT[b]]
<1> DEFINE S == {fn.entry} \cup DOMAIN DT
           Closed(T) == \A x \in T : x # fn.entry => DT[x] \in T
           C == {T \in SUBSET S : Closed(T)}
           top(b) == {a \in S : \A T \in C : b \in T => a \in T}
           f == [b \in S |-> top(b)]
           Turn(g) == [b \in S |-> IF b = fn.entry THEN {b} ELSE {b} \cup g[DT[b]]]
<1>1. /\ S = Reachable(fn) /\ fn.entry \notin DOMAIN DT
      /\ \A b \in S \ {fn.entry} : DT[b] \in S
  BY GroundForm
<1>2. top(fn.entry) = {fn.entry}
  <2>1. {fn.entry} \in C
    OBVIOUS
  <2>2. QED
    BY <2>1
<1>3. ASSUME NEW b \in S, b # fn.entry PROVE top(b) = {b} \cup top(DT[b])
  <2>1. DT[b] \in S
    BY <1>1, <1>3
  <2>2. ASSUME NEW a \in top(DT[b]) PROVE a \in top(b)
    <3>1. \A T \in C : b \in T => DT[b] \in T
      BY <1>3
    <3>2. QED
      BY <2>2, <3>1
  <2>3. ASSUME NEW a \in top(b), a # b PROVE a \in top(DT[b])
    <3>1. SUFFICES ASSUME NEW T \in C, DT[b] \in T PROVE a \in T
      BY <2>3
    <3>2. T \cup {b} \in C
      BY <3>1
    <3>3. a \in T \cup {b}
      BY <2>3, <3>2
    <3>4. QED
      BY <2>3, <3>3
  <2>4. b \in top(b)
    OBVIOUS
  <2>5. QED
    BY <2>2, <2>3, <2>4
<1>4. f = Turn(f)
  <2>1. \A b \in S : top(b) = IF b = fn.entry THEN {b} ELSE {b} \cup f[DT[b]]
    BY <1>1, <1>2, <1>3
  <2>2. QED
    BY <2>1
<1>5. Above = Turn(Above)
  <2>1. Above = CHOOSE up : up = Turn(up)
    BY DEF Above
  <2>2. QED
    BY <1>4, <2>1
<1>6. QED
  BY <1>1, <1>5

\* A phi stands in the block that lists it.
LEMMA PhiAtHome ==
    ASSUME Ground, NEW b \in Blocks, NEW z \in ToSet(fn.phis[b])
    PROVE  z \in Phis /\ HomeOf(z) = b
<1>1. ValuesForm(fn)
  BY GroundForm
<1>2. \A c \in Blocks : fn.phis[c] \in Seq(Phis) /\ fn.body[c] \in Seq(Insts)
  BY <1>1 DEF ValuesForm, Phis, Insts
<1>3. z \in Phis /\ z \notin Insts
  BY <1>1, <1>2 DEF ValuesForm, Phis, Insts, ToSet
<1>4. \A c \in Blocks : z \notin ToSet(fn.body[c])
  BY <1>2, <1>3 DEF ToSet
<1>5. \A c \in Blocks : z \in ToSet(fn.phis[c]) => c = b
  BY <1>1 DEF ValuesForm, ToSet
<1>6. QED
  BY <1>3, <1>4, <1>5 DEF HomeOf

\* Above, which hangs on the function and its dominator tree alone, stays.
LEMMA SameAbove ==
    ASSUME fn' = fn, DT' = DT
    PROVE  Above' = Above
BY DEF Above

----------------------------------------------------------------------------
(* The text of the function.                                               *)

\* The taus of a block stand under its name, one for each phi at most.
TausForm ==
    /\ taus \in [Blocks -> Seq(TauNames)]
    /\ \A b \in Blocks : \A k \in DOMAIN taus[b] : taus[b][k].at = b
    /\ \A b \in Blocks : \A m, n \in DOMAIN taus[b] : taus[b][m].phi = taus[b][n].phi => m = n

\* What the text consists of.
TextForm ==
    /\ TausForm
    /\ operand = [t \in LiveTaus |-> operand[t]]
    /\ args = [t \in LiveTaus |-> args[t]]
    /\ phiOp = [z \in Phis |-> [u \in DOMAIN fn.op[z] |-> phiOp[z][u]]]
    /\ useOf = [i \in Insts |-> useOf[i]]

\* v is w or a tau, not erased, of the phi w.
Stands(v, w) == v = w \/ (v \in LiveTaus /\ v.phi = w)

\* Each use reads what it read in the program, or a tau of it.
ReadsOriginal ==
    /\ \A z \in Phis : \A u \in DOMAIN fn.op[z] : Stands(phiOp[z][u], fn.op[z][u])
    /\ \A i \in Insts : Stands(useOf[i], fn.use[i])
    /\ \A t \in LiveTaus : Stands(operand[t], t.phi)

\* A sequence without one of its elements.
LEMMA RemovedAt ==
    ASSUME NEW X, NEW s \in Seq(X), NEW k \in DOMAIN s
    PROVE  /\ RemoveAt(s, k) \in Seq(X)
           /\ DOMAIN RemoveAt(s, k) = 1..(Len(s) - 1)
           /\ \A n \in 1..(Len(s) - 1) : RemoveAt(s, k)[n] = IF n < k THEN s[n] ELSE s[n + 1]
<1> DEFINE p == SubSeq(s, 1, k - 1)
           q == SubSeq(s, k + 1, Len(s))
<1>1. Len(s) \in Nat /\ k \in 1..Len(s)
  OBVIOUS
<1>2. p \in Seq(X) /\ Len(p) = k - 1 /\ \A n \in 1..(k - 1) : p[n] = s[n]
  BY <1>1
<1>3. q \in Seq(X) /\ Len(q) = Len(s) - k /\ \A n \in 1..(Len(s) - k) : q[n] = s[k + n]
  BY <1>1
<1>4. RemoveAt(s, k) = p \o q
  BY DEF RemoveAt
<1> HIDE DEF p, q
<1>5. Len(p \o q) = Len(s) - 1 /\ p \o q \in Seq(X)
  BY <1>1, <1>2, <1>3
<1>6. ASSUME NEW n \in 1..(Len(s) - 1) PROVE (p \o q)[n] = IF n < k THEN s[n] ELSE s[n + 1]
  <2>1. CASE n < k
    BY <1>1, <1>2, <1>3, <2>1
  <2>2. CASE ~ (n < k)
    <3>1. n > Len(p) /\ n \in 1..(Len(p) + Len(q)) /\ n - (k - 1) \in 1..(Len(s) - k)
      BY <1>1, <1>2, <1>3, <2>2
    <3>4. (p \o q)[n] = q[n - Len(p)]
      <4>1. \A i \in 1..(Len(p) + Len(q)) :
                (p \o q)[i] = IF i <= Len(p) THEN p[i] ELSE q[i - Len(p)]
        BY <1>2, <1>3, ConcatProperties
      <4>2. Len(p) \in Nat /\ n \in Nat
        BY <1>1, <1>2
      <4>3. QED
        BY <3>1, <4>1, <4>2
    <3>5. \A i \in 1..(Len(s) - k) : q[i] = s[k + i]
      BY <1>3
    <3>2. q[n - (k - 1)] = s[k + (n - (k - 1))] /\ k + (n - (k - 1)) = n + 1
      <4>1. k + (n - (k - 1)) = n + 1
        BY <1>1
      <4>2. QED
        BY <3>1, <3>5, <4>1
    <3>3. QED
      BY <1>2, <2>2, <3>2, <3>4
  <2>3. QED
    BY <2>1, <2>2
<1>7. DOMAIN (p \o q) = 1..(Len(s) - 1)
  BY <1>5
<1>8. QED
  BY ONLY <1>4, <1>5, <1>6, <1>7

\* A tau that is not erased stands in its block.
LEMMA LiveInBlock ==
    ASSUME TausForm, NEW t \in LiveTaus
    PROVE  /\ t \in TauNames /\ t.at \in Blocks /\ t.phi \in Phis
           /\ t \in ToSet(taus[t.at])
<1>1. PICK b \in Blocks : t \in ToSet(taus[b])
  BY DEF LiveTaus
<1>2. t \in TauNames /\ t.at = b
  BY <1>1 DEF TausForm, ToSet
<1>3. QED
  BY <1>1, <1>2 DEF TauNames, TauNamesOf, Phis

\* And what stands in a block is not erased.
LEMMA StandingIsLive ==
    ASSUME TausForm, NEW b \in Blocks, NEW k \in DOMAIN taus[b]
    PROVE  taus[b][k] \in LiveTaus /\ taus[b][k] \in TauNames /\ taus[b][k].at = b
BY DEF LiveTaus, TausForm, ToSet

\* Two taus of one phi that are not erased stand in different blocks.
LEMMA OneTauOfPhi ==
    ASSUME TausForm, NEW s \in LiveTaus, NEW t \in LiveTaus, s.phi = t.phi, s.at = t.at
    PROVE  s = t
<1>1. s \in ToSet(taus[s.at]) /\ t \in ToSet(taus[s.at]) /\ s.at \in Blocks
  BY LiveInBlock
<1>2. QED
  BY <1>1 DEF TausForm, ToSet

\* Erasing a tau takes away this one and no other.
LEMMA WithoutTau ==
    ASSUME TausForm, NEW t \in LiveTaus, fn' = fn, taus' = Without(t)
    PROVE  /\ TausForm'
           /\ LiveTaus' = LiveTaus \ {t}
<1> DEFINE b == t.at
           k == CHOOSE n \in DOMAIN taus[b] : taus[b][n] = t
<1>1. b \in Blocks /\ t \in ToSet(taus[b]) /\ taus \in [Blocks -> Seq(TauNames)]
  BY LiveInBlock DEF TausForm
<1>2. k \in DOMAIN taus[b] /\ taus[b][k] = t
  BY <1>1 DEF ToSet
<1>3. /\ taus' = [taus EXCEPT ![b] = RemoveAt(taus[b], k)]
  BY DEF Without
<1>4. TauNames' = TauNames
  BY DEF TauNames
<1> HIDE DEF k
<1>5. /\ taus' \in [Blocks -> Seq(TauNames)]
      /\ \A c \in Blocks : c # b => taus'[c] = taus[c]
      /\ DOMAIN taus'[b] = 1..(Len(taus[b]) - 1)
      /\ \A n \in 1..(Len(taus[b]) - 1) :
            taus'[b][n] = IF n < k THEN taus[b][n] ELSE taus[b][n + 1]
  BY <1>1, <1>2, <1>3, RemovedAt
<1>6. Len(taus[b]) \in Nat /\ DOMAIN taus[b] = 1..Len(taus[b])
  BY <1>1
<1> DEFINE from(n) == IF n < k THEN n ELSE n + 1
<1>11. ASSUME NEW n \in DOMAIN taus'[b]
       PROVE  from(n) \in DOMAIN taus[b] /\ from(n) # k /\ taus'[b][n] = taus[b][from(n)]
  <2>1. n \in 1..(Len(taus[b]) - 1) /\ k \in 1..Len(taus[b])
    BY <1>2, <1>5, <1>6, <1>11
  <2>2. taus'[b][n] = taus[b][from(n)]
    BY <1>5, <2>1
  <2>3. from(n) \in 1..Len(taus[b]) /\ from(n) # k
    BY <1>6, <2>1
  <2>4. QED
    BY <1>6, <2>2, <2>3
<1>7. TausForm'
  <2>1. \A c \in Blocks : \A n \in DOMAIN taus'[c] :
            \E m \in DOMAIN taus[c] : taus'[c][n] = taus[c][m]
    BY <1>5, <1>11
  <2>2. \A c \in Blocks : \A n \in DOMAIN taus'[c] : taus'[c][n].at = c
    BY <2>1 DEF TausForm
  <2>3. ASSUME NEW c \in Blocks, NEW m \in DOMAIN taus'[c], NEW n \in DOMAIN taus'[c],
               taus'[c][m].phi = taus'[c][n].phi
        PROVE  m = n
    <3>1. CASE c # b
      BY <1>5, <2>3, <3>1 DEF TausForm
    <3>2. CASE c = b
      <4>1. m \in 1..(Len(taus[b]) - 1) /\ n \in 1..(Len(taus[b]) - 1)
        BY <1>5, <3>2
      <4>2. from(m) = from(n)
        BY <1>1, <1>11, <2>3, <3>2 DEF TausForm
      <4>3. QED
        BY <1>2, <1>6, <4>1, <4>2
    <3>3. QED
      BY <3>1, <3>2
  <2>4. QED
    BY <1>4, <1>5, <2>2, <2>3 DEF TausForm
<1>8. ASSUME NEW s \in LiveTaus, s # t PROVE s \in LiveTaus'
  <2>1. s.at \in Blocks /\ s \in ToSet(taus[s.at])
    BY LiveInBlock
  <2>2. PICK m \in DOMAIN taus[s.at] : taus[s.at][m] = s
    BY <2>1 DEF ToSet
  <2>3. CASE s.at # b
    BY <1>5, <2>1, <2>2, <2>3 DEF LiveTaus, ToSet
  <2>4. CASE s.at = b
    <3>1. m # k
      BY <1>2, <1>8, <2>2, <2>4
    <3>2. PICK n \in 1..(Len(taus[b]) - 1) : taus'[b][n] = s
      <4>1. CASE m < k
        <5>1. m \in 1..(Len(taus[b]) - 1)
          BY <1>2, <1>6, <2>2, <2>4, <4>1
        <5>2. QED
          BY <1>5, <2>2, <2>4, <4>1, <5>1
      <4>2. CASE m > k
        <5>1. m - 1 \in 1..(Len(taus[b]) - 1) /\ ~ (m - 1 < k) /\ (m - 1) + 1 = m
          BY <1>2, <1>6, <2>2, <2>4, <4>2
        <5>2. QED
          BY <1>5, <2>2, <2>4, <5>1
      <4>3. QED
        BY <1>2, <1>6, <2>2, <2>4, <3>1, <4>1, <4>2
    <3>3. QED
      BY <1>1, <1>5, <3>2 DEF LiveTaus, ToSet
  <2>5. QED
    BY <2>3, <2>4
<1>9. ASSUME NEW s \in LiveTaus' PROVE s \in LiveTaus /\ s # t
  <2>1. PICK c \in Blocks : \E n \in DOMAIN taus'[c] : taus'[c][n] = s
    BY <1>9 DEF LiveTaus, ToSet
  <2>2. PICK m \in DOMAIN taus[c] : taus[c][m] = s /\ (c = b => m # k)
    <3>1. PICK n \in DOMAIN taus'[c] : taus'[c][n] = s
      BY <2>1
    <3>2. CASE c = b
      BY <1>11, <3>1, <3>2
    <3>3. CASE c # b
      BY <1>5, <2>1, <3>1, <3>3
    <3>4. QED
      BY <3>2, <3>3
  <2>3. s \in LiveTaus /\ s.at = c
    BY <2>2, StandingIsLive
  <2>4. s # t
    BY <1>2, <2>2, <2>3 DEF TausForm
  <2>5. QED
    BY <2>3, <2>4
<1>10. QED
  BY <1>7, <1>8, <1>9

\* Inserting taus of phi z, in blocks that have none of z, adds these and leaves what the
\* others read.
LEMMA Inserting ==
    ASSUME TextForm, fn' = fn, phiOp' = phiOp, useOf' = useOf,
           NEW z \in Phis, NEW hot, DOMAIN hot \subseteq Blocks, Insert(z, hot),
           \A t \in LiveTaus : t.phi = z => t.at \notin DOMAIN hot
    PROVE  /\ TextForm'
           /\ LiveTaus' = LiveTaus \cup {Tau(z, c) : c \in DOMAIN hot}
           /\ \A t \in LiveTaus : operand'[t] = operand[t] /\ args'[t] = args[t]
           /\ \A c \in DOMAIN hot : operand'[Tau(z, c)] = z /\ args'[Tau(z, c)] = hot[c]
<1> DEFINE new == {Tau(z, c) : c \in DOMAIN hot}
<1>1. /\ \A c \in DOMAIN hot : Tau(z, c) \in TauNames /\ Tau(z, c).at = c /\ Tau(z, c).phi = z
      /\ TauNames' = TauNames /\ Phis' = Phis /\ Insts' = Insts
  BY DEF Tau, TauNames, TauNamesOf, Phis, Insts
<1>2. TausForm /\ taus \in [Blocks -> Seq(TauNames)]
  BY DEF TextForm, TausForm
<1>3. \A c \in Blocks : taus'[c] = IF c \in DOMAIN hot THEN <<Tau(z, c)>> \o taus[c] ELSE taus[c]
  BY DEF Insert
<1>4. ASSUME NEW c \in DOMAIN hot
      PROVE  /\ taus'[c] \in Seq(TauNames)
             /\ DOMAIN taus'[c] = 1..(Len(taus[c]) + 1)
             /\ taus'[c][1] = Tau(z, c)
             /\ \A n \in DOMAIN taus'[c] : n # 1 => n - 1 \in DOMAIN taus[c]
                                                    /\ taus'[c][n] = taus[c][n - 1]
             /\ \A n \in DOMAIN taus[c] : n + 1 \in DOMAIN taus'[c]
                                                    /\ taus'[c][n + 1] = taus[c][n]
  <2> DEFINE s == taus[c]
             x == Tau(z, c)
  <2>1. s \in Seq(TauNames) /\ x \in TauNames /\ taus'[c] = <<x>> \o s
    BY <1>1, <1>2, <1>3
  <2> HIDE DEF s, x
  <2>2. /\ <<x>> \o s \in Seq(TauNames)
        /\ DOMAIN (<<x>> \o s) = 1..(Len(s) + 1)
        /\ (<<x>> \o s)[1] = x
        /\ \A n \in 2..(Len(s) + 1) : (<<x>> \o s)[n] = s[n - 1]
    BY <2>1
  <2>3. Len(s) \in Nat /\ DOMAIN s = 1..Len(s)
    BY <2>1
  <2>4. \A n \in DOMAIN s : n + 1 \in 2..(Len(s) + 1) /\ (n + 1) - 1 = n
    BY <2>3
  <2>5. QED
    BY <2>1, <2>2, <2>3, <2>4 DEF s, x
<1>5. taus' \in [Blocks -> Seq(TauNames)]
  BY <1>2, <1>3, <1>4 DEF Insert
<1>6. \A c \in Blocks : ToSet(taus'[c]) = ToSet(taus[c]) \cup {Tau(z, d) : d \in DOMAIN hot \cap {c}}
  <2>1. ASSUME NEW c \in DOMAIN hot PROVE ToSet(taus'[c]) = ToSet(taus[c]) \cup {Tau(z, c)}
    <3>1. 1 \in DOMAIN taus'[c]
      BY <1>2, <1>4
    <3>2. QED
      BY <1>4, <3>1 DEF ToSet
  <2>2. QED
    BY <1>3, <2>1
<1>7. LiveTaus' = LiveTaus \cup new
  BY <1>6 DEF LiveTaus
<1>8. TausForm'
  <2>1. ASSUME NEW c \in Blocks, NEW k \in DOMAIN taus'[c] PROVE taus'[c][k].at = c
    <3>1. CASE c \in DOMAIN hot /\ k = 1
      BY <1>1, <1>4, <3>1
    <3>2. CASE c \in DOMAIN hot /\ k # 1
      BY <1>2, <1>4, <3>2 DEF TausForm
    <3>3. CASE c \notin DOMAIN hot
      BY <1>2, <1>3, <3>3 DEF TausForm
    <3>4. QED
      BY <3>1, <3>2, <3>3
  <2>2. ASSUME NEW c \in Blocks, NEW m \in DOMAIN taus'[c], NEW n \in DOMAIN taus'[c],
               taus'[c][m].phi = taus'[c][n].phi
        PROVE  m = n
    <3>1. CASE c \notin DOMAIN hot
      BY <1>2, <1>3, <2>2, <3>1 DEF TausForm
    <3>2. CASE c \in DOMAIN hot
      <4>1. \A k \in DOMAIN taus[c] : taus[c][k].phi # z
        BY <1>2, <3>2, StandingIsLive
      <4>2. \A k \in DOMAIN taus'[c] : k = 1 \/ taus'[c][k].phi # z
        BY <1>4, <3>2, <4>1
      <4>3. CASE m = 1 \/ n = 1
        BY <1>1, <1>4, <2>2, <3>2, <4>2, <4>3
      <4>4. CASE m # 1 /\ n # 1
        <5>1. m - 1 = n - 1
          BY <1>2, <1>4, <2>2, <3>2, <4>4 DEF TausForm
        <5>2. m \in Nat /\ n \in Nat
          BY <1>2, <1>4, <3>2
        <5>3. QED
          BY <5>1, <5>2
      <4>5. QED
        BY <4>3, <4>4
    <3>3. QED
      BY <3>1, <3>2
  <2>3. QED
    BY <1>1, <1>5, <2>1, <2>2 DEF TausForm
<1>9. \A t \in LiveTaus : t \notin new
  BY <1>1
<1>10. /\ operand' = [t \in LiveTaus' |-> IF t \in new THEN z ELSE operand[t]]
       /\ args' = [t \in LiveTaus' |-> IF t \in new THEN hot[t.at] ELSE args[t]]
  <2>1. DOMAIN operand = LiveTaus /\ DOMAIN args = LiveTaus
    BY DEF TextForm
  <2>2. new \cup LiveTaus = LiveTaus'
    BY <1>7
  <2>3. QED
    BY <2>1, <2>2 DEF Insert, Over
<1>11. QED
  BY <1>1, <1>7, <1>8, <1>9, <1>10 DEF TextForm

\* What the program reads is no tau, and a phi is none.
LEMMA ReadNoTau ==
    ASSUME Ground
    PROVE  /\ \A z \in Phis : z \notin TauNames
           /\ \A z \in Phis : \A u \in DOMAIN fn.op[z] : fn.op[z][u] \notin TauNames
           /\ \A i \in Insts : fn.use[i] \notin TauNames
BY GroundForm DEF ValuesForm, Phis, Insts, TauNames

\* replaceAllUsesWith(v, w), where v is a tau that goes and w stands for its phi: each use
\* still stands for what it stood for.
LEMMA Replacing ==
    ASSUME Ground, TextForm, ReadsOriginal, fn' = fn,
           NEW v \in LiveTaus, NEW w, LiveTaus \ {v} \subseteq LiveTaus', Stands(w, v.phi)',
           phiOp' = PhiOpWith(v, w), useOf' = UseOfWith(v, w)
    PROVE  /\ phiOp' = [z \in Phis |-> [u \in DOMAIN fn.op[z] |-> phiOp'[z][u]]]
           /\ useOf' = [i \in Insts |-> useOf'[i]]
           /\ \A z \in Phis : \A u \in DOMAIN fn.op[z] : Stands(phiOp[z][u], fn.op[z][u])'
           /\ \A i \in Insts : Stands(useOf[i], fn.use[i])'
           /\ \A t \in LiveTaus : \/ Sub(v, w, operand[t]) = t.phi
                                  \/ Sub(v, w, operand[t]) \in LiveTaus'
                                     /\ Sub(v, w, operand[t]).phi = t.phi
<1>1. v \in TauNames
  BY LiveInBlock DEF TextForm
<1>2. w = v.phi \/ (w \in LiveTaus' /\ w.phi = v.phi)
  BY DEF Stands
<1>3. ASSUME NEW x, NEW y, Stands(x, y), y \notin TauNames
      PROVE  Sub(v, w, x) = y \/ (Sub(v, w, x) \in LiveTaus' /\ Sub(v, w, x).phi = y)
  BY <1>1, <1>2, <1>3 DEF Stands, Sub
<1>4. \A z \in Phis : DOMAIN phiOp[z] = DOMAIN fn.op[z]
  BY DEF TextForm
<1>5. /\ phiOp' = [z \in Phis |-> [u \in DOMAIN fn.op[z] |-> Sub(v, w, phiOp[z][u])]]
      /\ useOf' = [i \in Insts |-> Sub(v, w, useOf[i])]
  BY <1>4 DEF PhiOpWith, UseOfWith
<1>6. \A t \in LiveTaus : t.phi \notin TauNames
  BY LiveInBlock, ReadNoTau DEF TextForm
<1>7. ASSUME NEW z \in Phis, NEW u \in DOMAIN fn.op[z] PROVE Stands(phiOp[z][u], fn.op[z][u])'
  <2>1. phiOp'[z][u] = Sub(v, w, phiOp[z][u]) /\ Stands(phiOp[z][u], fn.op[z][u])
    BY <1>5 DEF ReadsOriginal
  <2>2. fn.op[z][u] \notin TauNames
    BY ReadNoTau
  <2>3. QED
    BY <1>3, <2>1, <2>2 DEF Stands
<1>8. ASSUME NEW i \in Insts PROVE Stands(useOf[i], fn.use[i])'
  <2>1. useOf'[i] = Sub(v, w, useOf[i]) /\ Stands(useOf[i], fn.use[i])
    BY <1>5 DEF ReadsOriginal
  <2>2. fn.use[i] \notin TauNames
    BY ReadNoTau
  <2>3. QED
    BY <1>3, <2>1, <2>2 DEF Stands
<1>9. \A t \in LiveTaus : \/ Sub(v, w, operand[t]) = t.phi
                          \/ Sub(v, w, operand[t]) \in LiveTaus'
                             /\ Sub(v, w, operand[t]).phi = t.phi
  BY <1>3, <1>6 DEF ReadsOriginal
<1>10. QED
  BY <1>5, <1>7, <1>8, <1>9

\* The taus read by taus are those of blocks searched before.
Ranked(depth) ==
    \A t \in LiveTaus : operand[t] \in LiveTaus =>
        0 < depth[operand[t].at] /\ depth[operand[t].at] < depth[t.at]

\* TDestruction takes out one tau.
LEMMA RemovingTau ==
    ASSUME Ground, TextForm, ReadsOriginal, NEW depth \in [Blocks -> Nat], Ranked(depth),
           fn' = fn, NEW t \in LiveTaus,
           phiOp' = PhiOpWith(t, operand[t]), useOf' = UseOfWith(t, operand[t]),
           operand' = Restrict(OperandWith(t, operand[t]), DOMAIN operand \ {t}),
           args' = Restrict(ArgsWith(t, operand[t]), DOMAIN operand \ {t}),
           taus' = Without(t)
    PROVE  /\ TextForm' /\ ReadsOriginal' /\ Ranked(depth)'
           /\ LiveTaus' = LiveTaus \ {t}
<1>0. PICK w : w = operand[t]
  OBVIOUS
<1>1. TausForm /\ \A s \in LiveTaus : s.at \in Blocks
  BY LiveInBlock DEF TextForm
<1>2. TausForm' /\ LiveTaus' = LiveTaus \ {t}
  BY <1>1, WithoutTau
<1>3. w \in LiveTaus => w # t
  BY <1>0, <1>1 DEF Ranked
<1>4. Stands(w, t.phi)'
  BY <1>0, <1>2, <1>3 DEF ReadsOriginal, Stands
<1>5. DOMAIN operand = LiveTaus /\ DOMAIN args = LiveTaus /\ Phis' = Phis /\ Insts' = Insts
  BY DEF TextForm, Phis, Insts
<1>6. /\ operand' = [s \in LiveTaus' |-> Sub(t, w, operand[s])]
      /\ args' = [s \in LiveTaus' |-> {Sub(t, w, x) : x \in args[s]}]
  BY <1>0, <1>2, <1>5 DEF Restrict, OperandWith, ArgsWith
<1>7. /\ phiOp' = [z \in Phis |-> [u \in DOMAIN fn.op[z] |-> phiOp'[z][u]]]
      /\ useOf' = [i \in Insts |-> useOf'[i]]
      /\ \A z \in Phis : \A u \in DOMAIN fn.op[z] : Stands(phiOp[z][u], fn.op[z][u])'
      /\ \A i \in Insts : Stands(useOf[i], fn.use[i])'
      /\ \A s \in LiveTaus : \/ Sub(t, w, operand[s]) = s.phi
                             \/ Sub(t, w, operand[s]) \in LiveTaus'
                                /\ Sub(t, w, operand[s]).phi = s.phi
  BY <1>0, <1>2, <1>4, Replacing
<1>8. TextForm'
  BY <1>2, <1>5, <1>6, <1>7 DEF TextForm
<1>9. ReadsOriginal'
  <2>1. ASSUME NEW s \in LiveTaus' PROVE Stands(operand[s], s.phi)'
    <3>1. s \in LiveTaus /\ operand'[s] = Sub(t, w, operand[s])
      BY <1>2, <1>6
    <3>2. operand'[s] = s.phi \/ (operand'[s] \in LiveTaus' /\ operand'[s].phi = s.phi)
      BY <1>7, <3>1
    <3>3. QED
      BY <3>2 DEF Stands
  <2>2. QED
    BY <1>5, <1>7, <2>1 DEF ReadsOriginal
<1>10. Ranked(depth)'
  <2>1. SUFFICES ASSUME NEW s \in LiveTaus', operand'[s] \in LiveTaus'
                 PROVE  0 < depth[operand'[s].at] /\ depth[operand'[s].at] < depth[s.at]
    BY DEF Ranked
  <2>2. s \in LiveTaus /\ operand'[s] \in LiveTaus /\ operand'[s] = Sub(t, w, operand[s])
    BY <1>2, <1>6, <2>1
  <2>3. CASE operand[s] # t
    BY <2>2, <2>3 DEF Ranked, Sub
  <2>4. CASE operand[s] = t
    <3>1. operand'[s] = w /\ w \in LiveTaus
      BY <1>0, <2>2, <2>4 DEF Sub
    <3>2. 0 < depth[w.at] /\ depth[w.at] < depth[t.at] /\ depth[t.at] < depth[s.at]
      BY <1>0, <2>2, <2>4, <3>1 DEF Ranked
    <3>3. depth[w.at] \in Nat /\ depth[t.at] \in Nat /\ depth[s.at] \in Nat
      BY <1>1, <2>2, <3>1
    <3>4. QED
      BY <3>1, <3>2, <3>3
  <2>5. QED
    BY <2>3, <2>4
<1>11. QED
  BY <1>2, <1>8, <1>9, <1>10

\* Tau new with arguments g and h goes in the place of old, the k-th tau of block b.
Replaces(b, k, old, new, g, h) ==
    /\ b \in Blocks /\ k \in DOMAIN taus[b]
    /\ old = taus[b][k] /\ new = [old EXCEPT !.gen = 2]
    /\ DOMAIN g = {new} /\ g[new] = operand[old] /\ DOMAIN h = {new}
    /\ taus' = [taus EXCEPT ![b][k] = new]
    /\ phiOp' = PhiOpWith(old, new) /\ useOf' = UseOfWith(old, new)
    /\ operand' = Over(g, Restrict(OperandWith(old, new), DOMAIN operand \ {old}))
    /\ args' = Over(h, Restrict(ArgsWith(old, new), DOMAIN operand \ {old}))

\* Then new stands where old stood, and is read where old was.
Replaced(old, new) ==
    /\ old \in LiveTaus /\ new.phi = old.phi /\ new.at = old.at /\ operand[old] # old
    /\ LiveTaus' = (LiveTaus \ {old}) \cup {new}
    /\ \A t \in LiveTaus : t # old => t # new
    /\ phiOp' = PhiOpWith(old, new) /\ useOf' = UseOfWith(old, new)
    /\ operand' = [t \in LiveTaus' |-> IF t = new THEN operand[old] ELSE Sub(old, new, operand[t])]

\* AllocateArgs puts a tau with all its arguments in the place of one.
LEMMA ReplacingTau ==
    ASSUME Ground, TextForm, ReadsOriginal, NEW depth \in [Blocks -> Nat], Ranked(depth),
           fn' = fn, NEW b, NEW k, NEW old, NEW new, NEW g, NEW h, Replaces(b, k, old, new, g, h)
    PROVE  TextForm' /\ ReadsOriginal' /\ Ranked(depth)' /\ Replaced(old, new)
<1> USE DEF Replaces
<1>1. TausForm /\ taus \in [Blocks -> Seq(TauNames)]
  BY DEF TextForm, TausForm
<1>2. old \in LiveTaus /\ old \in TauNames /\ old.at = b
  BY <1>1, StandingIsLive
<1>3. new \in TauNames /\ new.at = b /\ new.phi = old.phi
  BY <1>2 DEF TauNames, TauNamesOf
<1>4. TauNames' = TauNames /\ Phis' = Phis /\ Insts' = Insts
  BY DEF TauNames, TauNamesOf, Phis, Insts
<1>5. /\ taus' \in [Blocks -> Seq(TauNames)]
      /\ \A c \in Blocks : /\ DOMAIN taus'[c] = DOMAIN taus[c]
                           /\ \A n \in DOMAIN taus[c] :
                                 taus'[c][n] = IF c = b /\ n = k THEN new ELSE taus[c][n]
  BY <1>1, <1>3
<1>6. TausForm'
  <2>1. \A c \in Blocks : \A n \in DOMAIN taus[c] :
            taus'[c][n].at = c /\ taus'[c][n].phi = taus[c][n].phi
    BY <1>1, <1>3, <1>5 DEF TausForm
  <2>2. QED
    BY <1>1, <1>4, <1>5, <2>1 DEF TausForm
<1>7. LiveTaus' = (LiveTaus \ {old}) \cup {new}
  <2>1. ASSUME NEW t \in LiveTaus, t # old PROVE t \in LiveTaus'
    <3>1. t.at \in Blocks /\ t \in ToSet(taus[t.at])
      BY <1>1, LiveInBlock
    <3>2. PICK n \in DOMAIN taus[t.at] : taus[t.at][n] = t
      BY <3>1 DEF ToSet
    <3>3. taus'[t.at][n] = t
      BY <1>5, <2>1, <3>1, <3>2
    <3>4. QED
      BY <1>5, <3>1, <3>2, <3>3 DEF LiveTaus, ToSet
  <2>2. new \in LiveTaus'
    BY <1>5 DEF LiveTaus, ToSet
  <2>3. ASSUME NEW t \in LiveTaus' PROVE t = new \/ (t \in LiveTaus /\ t # old)
    <3>1. PICK c \in Blocks : t \in ToSet(taus'[c])
      BY <2>3 DEF LiveTaus
    <3>2. PICK n \in DOMAIN taus[c] : taus'[c][n] = t
      BY <1>5, <3>1 DEF ToSet
    <3>3. CASE c = b /\ n = k
      BY <1>5, <3>2, <3>3
    <3>4. CASE ~ (c = b /\ n = k)
      <4>1. t = taus[c][n] /\ t \in LiveTaus /\ t.at = c
        BY <1>1, <1>5, <3>2, <3>4, StandingIsLive
      <4>2. t # old
        BY <1>1, <1>2, <3>4, <4>1 DEF TausForm
      <4>3. QED
        BY <4>1, <4>2
    <3>5. QED
      BY <3>3, <3>4
  <2>4. QED
    BY <2>1, <2>2, <2>3
<1>8. \A t \in LiveTaus : t # old => t # new
  <2>1. SUFFICES ASSUME new \in LiveTaus PROVE new = old
    OBVIOUS
  <2>2. QED
    BY ONLY <1>1, <1>2, <1>3, <2>1, OneTauOfPhi
<1>9. PICK w : w = operand[old]
  OBVIOUS
<1>10. w \in LiveTaus => w # old
  BY <1>1, <1>2, <1>9, LiveInBlock DEF Ranked
<1>11. DOMAIN operand = LiveTaus /\ DOMAIN args = LiveTaus
  BY DEF TextForm
<1>12. /\ operand' = [t \in LiveTaus' |-> IF t = new THEN w ELSE Sub(old, new, operand[t])]
       /\ args' = [t \in LiveTaus' |-> IF t = new THEN h[t]
                                       ELSE {Sub(old, new, x) : x \in args[t]}]
  <2>1. {new} \cup (LiveTaus \ {old}) = LiveTaus'
    BY <1>7
  <2>2. /\ DOMAIN Restrict(OperandWith(old, new), DOMAIN operand \ {old}) = LiveTaus \ {old}
        /\ \A t \in LiveTaus \ {old} :
              Restrict(OperandWith(old, new), DOMAIN operand \ {old})[t] = Sub(old, new, operand[t])
        /\ DOMAIN Restrict(ArgsWith(old, new), DOMAIN operand \ {old}) = LiveTaus \ {old}
        /\ \A t \in LiveTaus \ {old} :
              Restrict(ArgsWith(old, new), DOMAIN operand \ {old})[t]
                  = {Sub(old, new, x) : x \in args[t]}
    BY <1>11 DEF Restrict, OperandWith, ArgsWith
  <2>3. operand' = [t \in LiveTaus' |-> IF t = new THEN w ELSE Sub(old, new, operand[t])]
    BY <1>9, <2>1, <2>2 DEF Over
  <2>4. args' = [t \in LiveTaus' |-> IF t = new THEN h[t] ELSE {Sub(old, new, x) : x \in args[t]}]
    BY <2>1, <2>2 DEF Over
  <2>5. QED
    BY <2>3, <2>4
<1>13. Stands(new, old.phi)'
  BY <1>3, <1>7 DEF Stands
<1>14. /\ phiOp' = [z \in Phis |-> [u \in DOMAIN fn.op[z] |-> phiOp'[z][u]]]
       /\ useOf' = [i \in Insts |-> useOf'[i]]
       /\ \A z \in Phis : \A u \in DOMAIN fn.op[z] : Stands(phiOp[z][u], fn.op[z][u])'
       /\ \A i \in Insts : Stands(useOf[i], fn.use[i])'
       /\ \A t \in LiveTaus : \/ Sub(old, new, operand[t]) = t.phi
                              \/ Sub(old, new, operand[t]) \in LiveTaus'
                                 /\ Sub(old, new, operand[t]).phi = t.phi
  <2>1. LiveTaus \ {old} \subseteq LiveTaus'
    BY <1>7
  <2>2. fn' = fn /\ phiOp' = PhiOpWith(old, new) /\ useOf' = UseOfWith(old, new)
    OBVIOUS
  <2>3. QED
    BY ONLY Ground, TextForm, ReadsOriginal, <1>2, <1>13, <2>1, <2>2, Replacing
<1>15. TextForm'
  BY <1>4, <1>6, <1>12, <1>14 DEF TextForm
<1>16. ReadsOriginal'
  <2>1. ASSUME NEW t \in LiveTaus' PROVE Stands(operand[t], t.phi)'
    <3>1. CASE t = new
      <4>1. operand'[t] = w /\ t.phi = old.phi
        BY <1>3, <1>12, <3>1
      <4>2. Stands(w, old.phi)
        BY <1>2, <1>9 DEF ReadsOriginal
      <4>3. w = t.phi \/ (w \in LiveTaus' /\ w.phi = t.phi)
        BY <1>7, <1>10, <4>1, <4>2 DEF Stands
      <4>4. QED
        BY <4>1, <4>3 DEF Stands
    <3>2. CASE t # new
      <4>1. t \in LiveTaus /\ operand'[t] = Sub(old, new, operand[t])
        BY <1>7, <1>12, <3>2
      <4>2. operand'[t] = t.phi \/ (operand'[t] \in LiveTaus' /\ operand'[t].phi = t.phi)
        BY <1>14, <4>1
      <4>3. QED
        BY <4>2 DEF Stands
    <3>3. QED
      BY <3>1, <3>2
  <2>2. QED
    BY <1>4, <1>14, <2>1 DEF ReadsOriginal
<1>17. Ranked(depth)'
  <2>1. SUFFICES ASSUME NEW t \in LiveTaus', operand'[t] \in LiveTaus'
                 PROVE  0 < depth[operand'[t].at] /\ depth[operand'[t].at] < depth[t.at]
    BY DEF Ranked
  <2>2. PICK s \in LiveTaus : s.at = t.at /\ operand'[t] = Sub(old, new, operand[s])
    <3>1. CASE t = new
      <4>1. operand'[t] = w /\ w \in LiveTaus' /\ w # old
        <5>1. operand'[t] = w /\ w \in LiveTaus'
          BY <1>12, <2>1, <3>1
        <5>2. w # old
          BY <1>8, <1>7, <1>10, <1>2
        <5>3. QED
          BY <5>1, <5>2
      <4>2. w = Sub(old, new, w)
        BY <4>1 DEF Sub
      <4>3. QED
        BY <1>2, <1>3, <1>9, <3>1, <4>1, <4>2
    <3>2. CASE t # new
      BY <1>7, <1>12, <3>2
    <3>3. QED
      BY <3>1, <3>2
  <2>3. operand[s] \in LiveTaus /\ operand[s].at = operand'[t].at
    <3>1. CASE operand[s] = old
      BY <1>2, <1>3, <2>2, <3>1 DEF Sub
    <3>2. CASE operand[s] # old
      <4>1. operand'[t] = operand[s]
        BY <2>2, <3>2 DEF Sub
      <4>2. CASE operand'[t] \in LiveTaus
        BY <4>1, <4>2
      <4>3. CASE operand'[t] \notin LiveTaus
        <5>1. operand[s] = new /\ new \notin LiveTaus
          BY <1>7, <2>1, <4>1, <4>3
        <5>2. operand[s] = s.phi \/ operand[s] \in LiveTaus
          BY DEF ReadsOriginal, Stands
        <5>3. s.phi \notin TauNames
          BY <1>1, LiveInBlock, ReadNoTau
        <5>4. QED
          BY <1>3, <5>1, <5>2, <5>3
      <4>4. QED
        BY <4>2, <4>3
    <3>3. QED
      BY <3>1, <3>2
  <2>4. QED
    BY <2>2, <2>3 DEF Ranked
<1>18. Replaced(old, new)
  BY <1>2, <1>3, <1>7, <1>8, <1>9, <1>10, <1>12 DEF Replaced
<1>19. QED
  BY <1>15, <1>16, <1>17, <1>18

----------------------------------------------------------------------------
(* The invariant.                                                          *)

Starting  == pc \in {"connect", "insert", "walk"}
Searching == pc \in {"search", "rename", "searched", "pop"}

\* Before Search every use reads what it read in the program.
Untouched ==
    Starting =>
        /\ phiOp = fn.op /\ useOf = fn.use
        /\ \A t \in LiveTaus : operand[t] = t.phi
        /\ visit = << >>
        /\ renaming_stack = << >> /\ hasTau = {} /\ stackmap = << >> /\ varstack = {}

\* The taus inserted so far are those of phis before the one at hand, and of this one
\* those in blocks before the one at hand.
InsertedBefore(t) ==
    \E p \in DOMAIN fn.rpo : \E k \in DOMAIN fn.phis[fn.rpo[p]] :
        /\ t.phi = fn.phis[fn.rpo[p]][k]
        /\ \/ p < pos
           \/ p = pos /\ k < it
           \/ pc = "walk" /\ p = pos /\ k = it /\ \E j \in DOMAIN fn.rpo : j < J /\ t.at = fn.rpo[j]

InsertedInOrder ==
    /\ it \in Nat \ {0} /\ pos \in Nat \ {0}
    /\ pc = "connect" => LiveTaus = {} /\ it = 1
    /\ pc \in {"insert", "walk"} => \A t \in LiveTaus : InsertedBefore(t)
    /\ pc = "walk" => /\ pos \in DOMAIN fn.rpo /\ it \in DOMAIN fn.phis[fn.rpo[pos]]
                      /\ J \in Nat \ {0}

\* A tau stands below its phi.
BelowPhi ==
    Starting \/ Searching =>
        \A t \in LiveTaus : \E b \in Above[t.at] : b \in Blocks /\ t.phi \in ToSet(fn.phis[b])

\* The calls in progress go down the dominator tree.
Chain ==
    /\ visit \in Seq([block : Reachable(fn), todo : SUBSET DOMAIN DT])
    /\ visit # << >> => visit[1].block = fn.entry
    /\ \A j, k \in DOMAIN visit : k = j + 1 =>
          visit[k].block \in DOMAIN DT /\ DT[visit[k].block] = visit[j].block
    /\ \A k \in DOMAIN visit : \A c \in visit[k].todo : DT[c] = visit[k].block
    /\ \A j, k \in DOMAIN visit : visit[j].block = visit[k].block => j = k
    /\ \A j, k \in DOMAIN visit : visit[j].block \notin visit[k].todo
    /\ Searching \/ pc \in {"allocate", "taus", "allocated"} => visit # << >>

\* depth is the depth of each block that Search has come to, and 0 for the others: it
\* comes to each block once.
VisitedOnce(depth) ==
    Searching =>
        /\ \A k \in DOMAIN visit : Above[visit[k].block] \subseteq {visit[m].block : m \in 1..k}
        /\ \A k \in DOMAIN visit :
              depth[visit[k].block] = IF pc = "search" /\ k = Len(visit) THEN 0 ELSE k
        /\ \A k \in DOMAIN visit : \A c \in visit[k].todo : depth[c] = 0
        /\ \A b \in DOMAIN DT : depth[b] # 0 => depth[DT[b]] # 0

\* What the maps of Search have: the phis and taus of the blocks it has come to.
Mapped(depth) ==
    Searching =>
        /\ \A k \in DOMAIN visit : depth[visit[k].block] # 0 =>
              ToSet(fn.phis[visit[k].block]) \subseteq DOMAIN renaming_stack
        /\ \A z \in DOMAIN renaming_stack :
              \E b \in Blocks : z \in ToSet(fn.phis[b]) /\ depth[b] # 0
        /\ DOMAIN renaming_stack \subseteq DOMAIN stackmap
        /\ \A v \in DOMAIN stackmap :
              /\ stackmap[v] \in DOMAIN renaming_stack
              /\ \/ v \in Phis /\ stackmap[v] = v
                 \/ v \in TauNames /\ stackmap[v] = v.phi /\ depth[v.at] # 0
        /\ \A t \in LiveTaus : t \notin DOMAIN stackmap => operand[t] = t.phi
        /\ \A e \in hasTau : e[2] \in DOMAIN renaming_stack /\ depth[e[1]] # 0
        /\ varstack \subseteq {z \in DOMAIN renaming_stack : pc = "pop" /\ <<Called, z>> \in hasTau}

\* Of the block at hand the taus before the one at hand are pushed.
PushedInOrder ==
    pc = "rename" =>
        /\ \A z \in Phis : <<Called, z>> \in hasTau =>
              \E k \in DOMAIN taus[Called] : k < it /\ taus[Called][k].phi = z
        /\ \A t \in DOMAIN stackmap : t \in TauNames /\ t.at = Called =>
              \E k \in DOMAIN taus[Called] : k < it /\ taus[Called][k].phi = t.phi

\* The tau of phi z in the block of call k has not been popped yet.
Unpopped(k, z) == pc = "pop" /\ k = Len(visit) => z \in varstack

\* What is on the stack of phi z: the phi, and above it its taus in the blocks of the
\* calls in progress, those of inner calls on top.
OnStack(z, s) ==
    /\ s[1] = z
    /\ \A n \in DOMAIN s : n # 1 =>
          /\ s[n] \in LiveTaus /\ s[n].phi = z /\ s[n] \in DOMAIN stackmap
          /\ \E k \in DOMAIN visit : /\ visit[k].block = s[n].at
                                     /\ <<s[n].at, z>> \in hasTau /\ Unpopped(k, z)
    /\ \A m, n \in DOMAIN s : \A j, k \in DOMAIN visit :
          m # 1 /\ m < n /\ visit[j].block = s[m].at /\ visit[k].block = s[n].at => j < k
    /\ \A k \in DOMAIN visit : <<visit[k].block, z>> \in hasTau /\ Unpopped(k, z) =>
          \E n \in DOMAIN s : n # 1 /\ s[n].at = visit[k].block

Stacked == Searching => \A z \in DOMAIN renaming_stack : OnStack(z, renaming_stack[z])

\* The types of the maps of Search.
MapTypes ==
    /\ DOMAIN renaming_stack \subseteq Phis
    /\ renaming_stack \in [DOMAIN renaming_stack -> Seq(Phis \cup TauNames) \ {<< >>}]
    /\ \A z \in DOMAIN renaming_stack : renaming_stack[z][1] = z
    /\ hasTau \subseteq Blocks \X Phis
    /\ \A v \in DOMAIN stackmap : stackmap[v] \in Phis
    /\ ~ (Starting \/ Searching) => \A z \in DOMAIN renaming_stack : renaming_stack[z] = <<z>>

\* The frames on the stack of a phi are of the blocks of calls of AllocateArgs in
\* progress, those of inner calls on top.
Framed ==
    /\ DOMAIN phiStack = Phis
    /\ \A z \in Phis : phiStack[z] \in Seq(ToSet(phiStack[z]))
    /\ \A z \in Phis : \A n \in DOMAIN phiStack[z] :
          \E k \in DOMAIN visit : visit[k].block = phiStack[z][n][2]
    /\ \A z \in Phis : \A m, n \in DOMAIN phiStack[z] : \A j, k \in DOMAIN visit :
          m < n /\ visit[j].block = phiStack[z][m][2] /\ visit[k].block = phiStack[z][n][2]
              => j <= k
    /\ Starting \/ Searching => \A z \in Phis : phiStack[z] = << >>

Accumulators ==
    /\ DOMAIN defAcc = Blocks \X Phis
    /\ \A x \in Blocks \X Phis : \A d \in defAcc[x] : d[2] \in HotPathSet[x[1]]

PcType == pc \in {"connect", "insert", "walk", "search", "rename", "searched", "pop",
                  "allocate", "taus", "allocated", "hpssa", "destroy", "done"}

\* The invariant of both passes and of TDestruction.
TauInv ==
    /\ Ground /\ PcType
    /\ TextForm /\ ReadsOriginal
    /\ Untouched /\ InsertedInOrder /\ BelowPhi
    /\ Chain /\ PushedInOrder /\ Stacked /\ MapTypes
    /\ Framed /\ Accumulators
    /\ \E depth \in [Blocks -> Nat] : Ranked(depth) /\ VisitedOnce(depth) /\ Mapped(depth)

\* What hangs on the text alone stays with it.
LEMMA SameText ==
    ASSUME fn' = fn, UNCHANGED textVars
    PROVE  /\ LiveTaus' = LiveTaus /\ TauNames' = TauNames /\ Phis' = Phis /\ Insts' = Insts
           /\ TextForm => TextForm'
           /\ ReadsOriginal => ReadsOriginal'
           /\ \A depth : Ranked(depth) => Ranked(depth)'
<1>1. LiveTaus' = LiveTaus /\ TauNames' = TauNames /\ Phis' = Phis /\ Insts' = Insts
  BY DEF textVars, LiveTaus, TauNames, TauNamesOf, Phis, Insts
<1>2. TextForm => TextForm'
  BY <1>1 DEF textVars, TextForm, TausForm
<1>3. ReadsOriginal => ReadsOriginal'
  BY <1>1 DEF textVars, ReadsOriginal, Stands
<1>4. \A depth : Ranked(depth) => Ranked(depth)'
  BY <1>1 DEF textVars, Ranked
<1>5. QED
  BY <1>1, <1>2, <1>3, <1>4

\* The function and its tree stay, so what is known of them does.
LEMMA SameGround ==
    ASSUME Ground, fn' = fn, DT' = DT
    PROVE  /\ Ground' /\ Above' = Above
           /\ TauNames' = TauNames /\ Phis' = Phis /\ Insts' = Insts
BY SameAbove DEF Ground, TauNames, TauNamesOf, Phis, Insts

\* A step before Search keeps the invariant if the taus it inserts are in order, stand
\* below their phis and read them.
LEMMA StartingStep ==
    ASSUME TauInv, Starting, pc' \in {"connect", "insert", "walk"},
           UNCHANGED <<fn, DT, HotPathSet, phiOp, useOf, visit, searchVars, allocVars>>,
           TextForm', InsertedInOrder',
           \A t \in LiveTaus' : operand'[t] = t.phi,
           \A t \in LiveTaus' : \E b \in Above[t.at] : b \in Blocks /\ t.phi \in ToSet(fn.phis[b])
    PROVE  TauInv'
<1>1. /\ Ground' /\ Above' = Above
      /\ TauNames' = TauNames /\ Phis' = Phis /\ Insts' = Insts
  BY SameGround DEF TauInv
<1>2. Starting' /\ PcType'
  BY DEF Starting, PcType
<1>3. Untouched'
  BY <1>2 DEF TauInv, Untouched, searchVars
<1>4. \A t \in LiveTaus' : t.phi \in Phis /\ t.phi \notin TauNames /\ t \in TauNames
  <2>1. ASSUME NEW t \in LiveTaus' PROVE t.phi \in Phis /\ t \in TauNames
    <3>1. taus' \in [Blocks -> Seq(TauNames)]
      BY <1>1 DEF TextForm, TausForm
    <3>2. PICK b \in Blocks : t \in ToSet(taus'[b])
      BY DEF LiveTaus
    <3>3. t \in TauNames
      BY <3>1, <3>2 DEF ToSet
    <3>4. QED
      BY <3>3 DEF TauNames, TauNamesOf, Phis
  <2>2. QED
    BY <1>1, <2>1, ReadNoTau DEF TauInv
<1>5. ReadsOriginal'
  BY <1>1, <1>2, <1>3 DEF ReadsOriginal, Stands, Untouched
<1>6. BelowPhi'
  BY <1>1 DEF BelowPhi
<1>7. Chain' /\ PushedInOrder' /\ Stacked'
  BY <1>1, <1>2 DEF TauInv, Chain, PushedInOrder, Stacked, Starting, Searching, Untouched
<1>8. MapTypes' /\ Framed' /\ Accumulators'
  BY <1>1, <1>2 DEF TauInv, MapTypes, Framed, Accumulators, searchVars, allocVars
<1>9. PICK depth \in [Blocks -> Nat] : TRUE
  <2>1. [b \in Blocks |-> 0] \in [Blocks -> Nat]
    OBVIOUS
  <2>2. QED
    BY <2>1
<1>10. Ranked(depth)' /\ VisitedOnce(depth)' /\ Mapped(depth)'
  <2>1. Ranked(depth)'
    BY <1>4 DEF Ranked
  <2>2. VisitedOnce(depth)' /\ Mapped(depth)'
    BY <1>2 DEF VisitedOnce, Mapped, Starting, Searching
  <2>3. QED
    BY <2>1, <2>2
<1>11. QED
  BY <1>1, <1>2, <1>3, <1>5, <1>6, <1>7, <1>8, <1>10 DEF TauInv

\* A step after Search keeps the invariant if it keeps what stands for what.
LEMMA LaterStep ==
    ASSUME TauInv, ~ Starting, ~ Searching,
           pc' \in {"allocate", "taus", "allocated", "hpssa", "destroy", "done"},
           UNCHANGED <<fn, DT, HotPathSet, pos, searchVars>>, it' \in Nat \ {0},
           TextForm', ReadsOriginal',
           \A depth \in [Blocks -> Nat] : Ranked(depth) => Ranked(depth)',
           Chain', Framed', Accumulators'
    PROVE  TauInv'
<1>1. /\ Ground' /\ Above' = Above
      /\ TauNames' = TauNames /\ Phis' = Phis /\ Insts' = Insts
  BY SameGround DEF TauInv
<1>2. ~ Starting' /\ ~ Searching' /\ PcType'
  BY DEF Starting, Searching, PcType
<1>3. Untouched' /\ BelowPhi' /\ PushedInOrder' /\ Stacked'
  BY <1>2 DEF Untouched, BelowPhi, PushedInOrder, Stacked, Searching
<1>4. InsertedInOrder'
  BY DEF TauInv, InsertedInOrder
<1>5. MapTypes'
  BY <1>1 DEF TauInv, MapTypes, searchVars
<1>6. PICK depth \in [Blocks -> Nat] : Ranked(depth)
  BY DEF TauInv
<1>7. VisitedOnce(depth)' /\ Mapped(depth)'
  BY <1>2 DEF VisitedOnce, Mapped
<1>8. Ranked(depth)'
  BY <1>6
<1>9. QED
  BY <1>1, <1>2, <1>3, <1>4, <1>5, <1>7, <1>8 DEF TauInv

----------------------------------------------------------------------------
(* One lemma for each action of the insertion.                             *)

\* The invariant holds at first.
LEMMA InitTau == Init => TauInv
<1> SUFFICES ASSUME Init PROVE TauInv
  OBVIOUS
<1>1. Ground /\ pc = "connect" /\ fn \in Programs
  BY DEF Ground, Init, WalkInit
<1>2. LiveTaus = {}
  BY DEF Init, Original, LiveTaus, ToSet
<1>3. ValuesForm(fn) /\ WellFormedGraph(fn)
  BY <1>1, GroundForm
<1>4. TextForm
  <2>1. TausForm
    BY DEF TausForm, Init, Original
  <2>2. operand = [t \in LiveTaus |-> operand[t]] /\ args = [t \in LiveTaus |-> args[t]]
    BY <1>2 DEF Init, Original
  <2>3. phiOp = [z \in Phis |-> [u \in DOMAIN fn.op[z] |-> phiOp[z][u]]]
    BY <1>3 DEF Init, Original, ValuesForm, Phis
  <2>4. useOf = [i \in Insts |-> useOf[i]]
    BY <1>3 DEF Init, Original, ValuesForm, Insts
  <2>5. QED
    BY <2>1, <2>2, <2>3, <2>4 DEF TextForm
<1>5. ReadsOriginal
  BY <1>2 DEF ReadsOriginal, Stands, Init, Original
<1>6. Untouched /\ BelowPhi
  BY <1>2 DEF Untouched, BelowPhi, Init, Original
<1>7. InsertedInOrder
  BY <1>1, <1>2 DEF InsertedInOrder, Init, WalkInit
<1>8. Chain
  BY <1>1 DEF Chain, Searching, Init
<1>9. PushedInOrder /\ Stacked
  BY <1>1 DEF PushedInOrder, Stacked, Searching
<1>10. MapTypes
  BY <1>1 DEF MapTypes, Starting, Init
<1>11. Framed
  BY DEF Framed, Init
<1>12. Accumulators
  BY DEF Accumulators, Init
<1>13. PICK depth \in [Blocks -> Nat] : TRUE
  <2>1. [b \in Blocks |-> 0] \in [Blocks -> Nat]
    OBVIOUS
  <2>2. QED
    BY <2>1
<1>14. Ranked(depth) /\ VisitedOnce(depth) /\ Mapped(depth)
  BY <1>1, <1>2 DEF Ranked, VisitedOnce, Mapped, Searching
<1>15. QED
  BY <1>1, <1>4, <1>5, <1>6, <1>7, <1>8, <1>9, <1>10, <1>11, <1>12, <1>14 DEF TauInv, PcType

LEMMA ConnectTau == TauInv /\ Connect => TauInv'
<1> SUFFICES ASSUME TauInv, Connect PROVE TauInv'
  OBVIOUS
<1>1. /\ UNCHANGED <<fn, HotPathSet, textVars, pc, DT, visit, searchVars, allocVars, it>>
      /\ pc = "connect" /\ pos' = pos + 1
  BY DEF Connect, WalkNext, Block
<1>2. Starting
  BY <1>1 DEF Starting
<1>3. LiveTaus = {} /\ LiveTaus' = {} /\ TextForm'
  BY <1>1, SameText DEF TauInv, InsertedInOrder
<1>4. InsertedInOrder'
  BY <1>1, <1>3 DEF TauInv, InsertedInOrder
<1>5. QED
  BY <1>1, <1>2, <1>3, <1>4, StartingStep DEF textVars

LEMMA ConnectedTau == TauInv /\ Connected => TauInv'
<1> SUFFICES ASSUME TauInv, Connected PROVE TauInv'
  OBVIOUS
<1>1. /\ UNCHANGED <<fn, HotPathSet, textVars, DT, visit, searchVars, allocVars, it>>
      /\ pc = "connect" /\ pos' = 1 /\ pc' = "insert"
  BY DEF Connected
<1>2. Starting
  BY <1>1 DEF Starting
<1>3. LiveTaus = {} /\ LiveTaus' = {} /\ TextForm'
  BY <1>1, SameText DEF TauInv, InsertedInOrder
<1>4. InsertedInOrder'
  BY <1>1, <1>3 DEF TauInv, InsertedInOrder
<1>5. QED
  BY <1>1, <1>2, <1>3, <1>4, StartingStep DEF textVars

\* A step that inserts no tau, and is after those inserted, keeps the invariant.
LEMMA StandingStep ==
    ASSUME TauInv, Starting, pc' \in {"connect", "insert", "walk"},
           UNCHANGED <<fn, DT, HotPathSet, textVars, visit, searchVars, allocVars>>,
           InsertedInOrder'
    PROVE  TauInv'
<1>1. LiveTaus' = LiveTaus /\ TextForm' /\ Above' = Above
  BY SameText, SameGround DEF TauInv
<1>2. /\ \A t \in LiveTaus' : operand'[t] = t.phi
      /\ \A t \in LiveTaus' : \E b \in Above[t.at] : b \in Blocks /\ t.phi \in ToSet(fn.phis[b])
  BY <1>1 DEF TauInv, Untouched, BelowPhi, textVars
<1>3. QED
  BY <1>1, <1>2, StartingStep DEF textVars

LEMMA NextBlockTau == TauInv /\ NextBlock => TauInv'
<1> SUFFICES ASSUME TauInv, NextBlock PROVE TauInv'
  OBVIOUS
<1>1. /\ UNCHANGED <<fn, HotPathSet, textVars, pc, DT, visit, searchVars, allocVars>>
      /\ pc = "insert" /\ pos' = pos + 1 /\ it' = 1 /\ pos \in DOMAIN fn.rpo
      /\ it \notin DOMAIN fn.phis[fn.rpo[pos]]
  BY DEF NextBlock
<1>2. Starting
  BY <1>1 DEF Starting
<1>3. InsertedInOrder'
  <2>1. ASSUME NEW t \in LiveTaus' PROVE InsertedBefore(t)'
    <3>1. PICK p \in DOMAIN fn.rpo : \E k \in DOMAIN fn.phis[fn.rpo[p]] :
              t.phi = fn.phis[fn.rpo[p]][k] /\ (p < pos \/ (p = pos /\ k < it))
      BY <1>1, <2>1, SameText DEF TauInv, InsertedInOrder, InsertedBefore
    <3>2. p < pos + 1
      <4>1. p \in Nat /\ pos \in Nat
        BY GroundForm DEF TauInv, InsertedInOrder, WellFormedGraph
      <4>2. QED
        BY <3>1, <4>1
    <3>3. QED
      BY <1>1, <3>1, <3>2 DEF InsertedBefore
  <2>2. QED
    BY <1>1, <2>1 DEF TauInv, InsertedInOrder
<1>4. QED
  BY <1>1, <1>2, <1>3, StandingStep

\* A tau of the phi at hand in a block where there is none of this phi yet comes after all
\* others.
LEMMA NewHere ==
    ASSUME TauInv, pc \in {"insert", "walk"}, pos \in DOMAIN fn.rpo,
           it \in DOMAIN fn.phis[fn.rpo[pos]],
           NEW t \in LiveTaus, t.phi = fn.phis[fn.rpo[pos]][it]
    PROVE  pc = "walk" /\ \E j \in DOMAIN fn.rpo : j < J /\ t.at = fn.rpo[j]
<1>1. ValuesForm(fn) /\ WellFormedGraph(fn)
  BY GroundForm DEF TauInv
<1>2. PICK p \in DOMAIN fn.rpo : \E k \in DOMAIN fn.phis[fn.rpo[p]] :
          /\ t.phi = fn.phis[fn.rpo[p]][k]
          /\ \/ p < pos
             \/ p = pos /\ k < it
             \/ pc = "walk" /\ p = pos /\ k = it /\ \E j \in DOMAIN fn.rpo : j < J /\ t.at = fn.rpo[j]
  BY DEF TauInv, InsertedInOrder, InsertedBefore
<1>3. PICK k \in DOMAIN fn.phis[fn.rpo[p]] :
          /\ t.phi = fn.phis[fn.rpo[p]][k]
          /\ \/ p < pos
             \/ p = pos /\ k < it
             \/ pc = "walk" /\ p = pos /\ k = it /\ \E j \in DOMAIN fn.rpo : j < J /\ t.at = fn.rpo[j]
  BY <1>2
<1>4. fn.rpo[p] \in Blocks /\ fn.rpo[pos] \in Blocks /\ p \in Nat /\ pos \in Nat
  BY <1>1 DEF WellFormedGraph
<1>5. fn.rpo[p] = fn.rpo[pos] /\ k = it
  <2>1. \A b, c \in Blocks : \A m \in DOMAIN fn.phis[b] : \A n \in DOMAIN fn.phis[c] :
            fn.phis[b][m] = fn.phis[c][n] => b = c /\ m = n
    BY <1>1 DEF ValuesForm
  <2>2. fn.phis[fn.rpo[p]][k] = fn.phis[fn.rpo[pos]][it]
    BY <1>3
  <2>3. PICK b \in Blocks, c \in Blocks : b = fn.rpo[p] /\ c = fn.rpo[pos]
    BY <1>4
  <2>4. k \in DOMAIN fn.phis[b] /\ it \in DOMAIN fn.phis[c]
    BY <2>3
  <2>5. b = c /\ k = it
    BY <2>1, <2>2, <2>3, <2>4
  <2>6. QED
    BY <2>3, <2>5
<1>6. p = pos
  BY <1>1, <1>5 DEF WellFormedGraph
<1>7. it \in Nat
  BY DEF TauInv, InsertedInOrder
<1>8. QED
  BY <1>3, <1>4, <1>5, <1>6, <1>7

\* The phi at hand stands in the block at hand.
LEMMA PhiHere ==
    ASSUME Ground, pos \in DOMAIN fn.rpo, it \in DOMAIN fn.phis[fn.rpo[pos]]
    PROVE  /\ fn.rpo[pos] \in Blocks /\ fn.rpo[pos] \in Reachable(fn)
           /\ fn.phis[fn.rpo[pos]][it] \in Phis
           /\ fn.phis[fn.rpo[pos]][it] \in ToSet(fn.phis[fn.rpo[pos]])
<1>1. ValuesForm(fn) /\ WellFormedGraph(fn)
  BY GroundForm
<1>2. fn.rpo[pos] \in Blocks /\ fn.rpo[pos] \in Reachable(fn)
  BY <1>1 DEF WellFormedGraph, Reachable
<1>3. fn.phis[fn.rpo[pos]] \in Seq(Phis)
  BY <1>1, <1>2 DEF ValuesForm, Phis
<1>4. QED
  BY <1>2, <1>3 DEF ToSet

LEMMA InsertTausTau == TauInv /\ InsertTaus => TauInv'
<1> SUFFICES ASSUME TauInv, InsertTaus PROVE TauInv'
  OBVIOUS
<1> DEFINE b == fn.rpo[pos]
           hot == [c \in Refining(b) |-> {}]
<1>1. /\ UNCHANGED <<fn, HotPathSet, phiOp, useOf, pc, pos, DT, visit, searchVars, allocVars>>
      /\ pc = "insert" /\ it' = it + 1 /\ pos \in DOMAIN fn.rpo /\ it \in DOMAIN fn.phis[b]
      /\ Insert(fn.phis[b][it], hot)
  BY DEF InsertTaus, walkVars
<1>2. Starting /\ Ground
  BY <1>1 DEF Starting, TauInv
<1>3. PICK z \in Phis : z = fn.phis[b][it] /\ z \in ToSet(fn.phis[b])
  BY <1>1, <1>2, PhiHere
<1>4. /\ DOMAIN hot = Refining(b) /\ Refining(b) \subseteq Blocks
      /\ \A c \in Refining(b) : b \in Above[c]
      /\ b \in Blocks
  BY <1>1, <1>2, PhiHere, GroundForm DEF Refining
<1>5. \A t \in LiveTaus : t.phi # z
  BY <1>1, <1>3, NewHere
<1> HIDE DEF hot, b
<1>6. /\ TextForm'
      /\ LiveTaus' = LiveTaus \cup {Tau(z, c) : c \in DOMAIN hot}
      /\ \A t \in LiveTaus : operand'[t] = operand[t]
      /\ \A c \in DOMAIN hot : operand'[Tau(z, c)] = z
  BY <1>1, <1>3, <1>4, <1>5, Inserting DEF TauInv
<1>7. \A t \in LiveTaus' : operand'[t] = t.phi
  BY <1>2, <1>6 DEF TauInv, Untouched, Tau
<1>8. ASSUME NEW t \in LiveTaus' PROVE \E c \in Above[t.at] : c \in Blocks /\ t.phi \in ToSet(fn.phis[c])
  <2>1. CASE t \in LiveTaus
    BY <1>2, <2>1 DEF TauInv, BelowPhi
  <2>2. CASE t \notin LiveTaus
    <3>1. PICK c \in DOMAIN hot : t = Tau(z, c)
      BY <1>6, <2>2
    <3>2. t.at = c /\ t.phi = z
      BY <3>1 DEF Tau
    <3>3. QED
      BY <1>3, <1>4, <3>1, <3>2
  <2>3. QED
    BY <2>1, <2>2
<1>9. it \in Nat /\ pos \in Nat
  BY DEF TauInv, InsertedInOrder
<1>10. InsertedInOrder'
  <2>1. ASSUME NEW t \in LiveTaus' PROVE InsertedBefore(t)'
    <3>1. CASE t \in LiveTaus
      <4>1. PICK p \in DOMAIN fn.rpo : \E k \in DOMAIN fn.phis[fn.rpo[p]] :
                t.phi = fn.phis[fn.rpo[p]][k] /\ (p < pos \/ (p = pos /\ k < it))
        BY <1>1, <3>1 DEF TauInv, InsertedInOrder, InsertedBefore
      <4>2. PICK k \in DOMAIN fn.phis[fn.rpo[p]] :
                t.phi = fn.phis[fn.rpo[p]][k] /\ (p < pos \/ (p = pos /\ k < it))
        BY <4>1
      <4>3. k < it => k < it + 1
        <5>1. fn.rpo[p] \in Blocks /\ fn.phis \in [Blocks -> Seq(Phis)]
          BY <1>2, GroundForm DEF WellFormedGraph, ValuesForm, Phis
        <5>2. k \in Nat
          BY <5>1
        <5>3. QED
          BY <1>9, <5>2
      <4>4. QED
        BY <1>1, <4>2, <4>3 DEF InsertedBefore
    <3>2. CASE t \notin LiveTaus
      <4>1. t.phi = fn.phis[fn.rpo[pos]][it]
        BY <1>3, <1>6, <3>2 DEF Tau, b
      <4>2. it < it + 1
        BY <1>9
      <4>3. QED
        BY <1>1, <4>1, <4>2 DEF InsertedBefore, b
    <3>3. QED
      BY <3>1, <3>2
  <2>2. QED
    <3>1. it' \in Nat \ {0} /\ pos' \in Nat \ {0}
      BY <1>1, <1>9 DEF TauInv, InsertedInOrder
    <3>2. pc' = "insert"
      BY <1>1
    <3>3. QED
      BY <2>1, <3>1, <3>2 DEF InsertedInOrder
<1>11. QED
  BY <1>1, <1>2, <1>6, <1>7, <1>8, <1>10, StartingStep

\* A block is above itself.
LEMMA AboveItself ==
    ASSUME Ground, NEW b \in Reachable(fn)
    PROVE  b \in Above[b]
BY GroundForm, AboveEquation

\* A tau inserted before is inserted before whatever comes next.
LEMMA StillBefore ==
    ASSUME TauInv, fn' = fn, pos' = pos, NEW t, InsertedBefore(t),
           \/ it' = it /\ (pc # "walk" \/ (pc' = "walk" /\ J \in Nat /\ J' = J + 1))
           \/ it' = it + 1
    PROVE  InsertedBefore(t)'
<1>1. PICK p \in DOMAIN fn.rpo : \E k \in DOMAIN fn.phis[fn.rpo[p]] :
          /\ t.phi = fn.phis[fn.rpo[p]][k]
          /\ \/ p < pos
             \/ p = pos /\ k < it
             \/ pc = "walk" /\ p = pos /\ k = it /\ \E j \in DOMAIN fn.rpo : j < J /\ t.at = fn.rpo[j]
  BY DEF InsertedBefore
<1>2. PICK k \in DOMAIN fn.phis[fn.rpo[p]] :
          /\ t.phi = fn.phis[fn.rpo[p]][k]
          /\ \/ p < pos
             \/ p = pos /\ k < it
             \/ pc = "walk" /\ p = pos /\ k = it /\ \E j \in DOMAIN fn.rpo : j < J /\ t.at = fn.rpo[j]
  BY <1>1
<1>3. k \in Nat /\ it \in Nat /\ \A j \in DOMAIN fn.rpo : j \in Nat
  <2>1. fn.rpo[p] \in Blocks /\ fn.phis \in [Blocks -> Seq(Phis)] /\ fn.rpo \in Seq(Blocks)
    BY GroundForm DEF TauInv, WellFormedGraph, ValuesForm, Phis
  <2>2. it \in Nat
    BY DEF TauInv, InsertedInOrder
  <2>3. k \in Nat /\ \A j \in DOMAIN fn.rpo : j \in Nat
    BY <2>1
  <2>4. QED
    BY <2>2, <2>3
<1>4. CASE it' = it + 1
  <2>1. k <= it => k < it'
    BY <1>3, <1>4
  <2>2. k < it \/ k = it => k <= it
    BY <1>3
  <2>3. QED
    BY <1>2, <2>1, <2>2 DEF InsertedBefore
<1>5. CASE it' = it /\ pc # "walk"
  BY <1>2, <1>5 DEF InsertedBefore
<1>6. CASE it' = it /\ pc' = "walk" /\ J \in Nat /\ J' = J + 1
  <2>1. \A j \in DOMAIN fn.rpo : j < J => j < J'
    BY <1>3, <1>6
  <2>2. CASE p < pos \/ (p = pos /\ k < it)
    BY <1>2, <1>6, <2>2 DEF InsertedBefore
  <2>3. CASE p = pos /\ k = it /\ \E j \in DOMAIN fn.rpo : j < J /\ t.at = fn.rpo[j]
    <3>1. \E j \in DOMAIN fn.rpo : j < J' /\ t.at = fn.rpo[j]
      BY <2>1, <2>3
    <3>2. t.phi = fn.phis[fn.rpo[p]][k]
      BY <1>2
    <3>3. QED
      BY <1>6, <2>3, <3>1, <3>2 DEF InsertedBefore
  <2>4. QED
    BY <1>2, <2>2, <2>3
<1>7. QED
  BY <1>4, <1>5, <1>6

LEMMA FirstPhiTau == TauInv /\ FirstPhi => TauInv'
<1> SUFFICES ASSUME TauInv, FirstPhi PROVE TauInv'
  OBVIOUS
<1>1. /\ UNCHANGED <<fn, HotPathSet, pos, textVars, DT, visit, searchVars, allocVars>>
      /\ pc = "insert" /\ pos \in DOMAIN fn.rpo /\ it \in DOMAIN fn.phis[fn.rpo[pos]]
      /\ \/ it' = it + 1 /\ pc' = pc
         \/ it' = it /\ pc' = "walk" /\ J' = pos
  BY DEF FirstPhi, walkVars, BB
<1>2. Starting
  BY <1>1 DEF Starting
<1>3. \A t \in LiveTaus' : InsertedBefore(t)'
  <2>1. ASSUME NEW t \in LiveTaus' PROVE InsertedBefore(t)'
    <3>1. InsertedBefore(t)
      BY <1>1, SameText DEF TauInv, InsertedInOrder
    <3>2. it' = it \/ it' = it + 1
      BY <1>1
    <3>3. QED
      BY <1>1, <3>1, <3>2, StillBefore
  <2>2. QED
    BY <2>1
<1>4. it \in Nat \ {0} /\ pos \in Nat \ {0}
  BY DEF TauInv, InsertedInOrder
<1>5. it' \in Nat \ {0} /\ pos' \in Nat \ {0}
  BY <1>1, <1>4
<1>6. pc' = "walk" => /\ pos' \in DOMAIN fn'.rpo /\ it' \in DOMAIN fn'.phis[fn'.rpo[pos']]
                      /\ J' \in Nat \ {0}
  BY <1>1, <1>4
<1>7. InsertedInOrder'
  BY <1>1, <1>3, <1>5, <1>6 DEF InsertedInOrder
<1>8. QED
  BY <1>1, <1>2, <1>7, StandingStep

LEMMA WalkEndsTau == TauInv /\ WalkEnds => TauInv'
<1> SUFFICES ASSUME TauInv, WalkEnds PROVE TauInv'
  OBVIOUS
<1>1. /\ UNCHANGED <<fn, HotPathSet, pos, textVars, DT, visit, searchVars, allocVars>>
      /\ pc = "walk" /\ pc' = "insert" /\ it' = it + 1
  BY DEF WalkEnds, walkVars
<1>2. Starting
  BY <1>1 DEF Starting
<1>3. \A t \in LiveTaus' : InsertedBefore(t)'
  BY <1>1, SameText, StillBefore DEF TauInv, InsertedInOrder
<1>4. it \in Nat \ {0} /\ pos \in Nat \ {0}
  BY DEF TauInv, InsertedInOrder
<1>5. it' \in Nat \ {0} /\ pos' \in Nat \ {0}
  BY <1>1, <1>4
<1>6. InsertedInOrder'
  BY <1>1, <1>3, <1>5 DEF InsertedInOrder
<1>7. QED
  BY <1>1, <1>2, <1>6, StandingStep

LEMMA FirstInsertTauTau == TauInv /\ FirstInsertTau => TauInv'
<1> SUFFICES ASSUME TauInv, FirstInsertTau PROVE TauInv'
  OBVIOUS
<1>1. /\ UNCHANGED <<fn, HotPathSet, phiOp, useOf, pc, pos, it, DT, visit, searchVars, allocVars>>
      /\ pc = "walk" /\ J' = J + 1
      /\ J \in DOMAIN fn.rpo /\ (curr = BB \/ dominates(BB, curr))
      /\ \/ \E hot : DOMAIN hot = {curr} /\ Insert(fn.phis[BB][it], hot)
         \/ UNCHANGED <<taus, operand, args>>
  BY DEF FirstInsertTau, walkVars, BreaksOff
<1>2. Starting /\ Ground
  BY <1>1 DEF Starting, TauInv
<1>3. /\ pos \in DOMAIN fn.rpo /\ it \in DOMAIN fn.phis[fn.rpo[pos]] /\ J \in Nat \ {0}
      /\ it \in Nat \ {0} /\ pos \in Nat \ {0}
  BY <1>1 DEF TauInv, InsertedInOrder
<1>4. BB = fn.rpo[pos] /\ curr = fn.rpo[J]
  BY DEF BB, curr
<1>5. PICK z \in Phis : z = fn.phis[BB][it] /\ z \in ToSet(fn.phis[BB]) /\ BB \in Blocks
  BY <1>2, <1>3, <1>4, PhiHere
<1>6. \A t \in LiveTaus : InsertedBefore(t)'
  BY <1>1, <1>3, StillBefore DEF TauInv, InsertedInOrder
<1>7. J + 1 \in Nat \ {0} /\ J < J + 1
  BY <1>3
<1>8. CASE UNCHANGED <<taus, operand, args>>
  <2>1. UNCHANGED textVars
    BY <1>1, <1>8 DEF textVars
  <2>2. LiveTaus' = LiveTaus
    BY <1>1, <2>1, SameText
  <2>3. InsertedInOrder'
    BY <1>1, <1>3, <1>6, <1>7, <2>2 DEF InsertedInOrder
  <2>4. QED
    BY <1>1, <1>2, <2>1, <2>3, StandingStep
<1>9. CASE \E hot : DOMAIN hot = {curr} /\ Insert(fn.phis[BB][it], hot)
  <2>1. PICK hot : DOMAIN hot = {curr} /\ Insert(fn.phis[BB][it], hot)
    BY <1>9
  <2>2. curr \in Blocks /\ BB \in Above[curr]
    <3>1. WellFormedGraph(fn)
      BY <1>2, GroundForm
    <3>2. curr \in Blocks /\ curr \in Reachable(fn)
      BY <1>1, <1>4, <3>1 DEF WellFormedGraph, Reachable
    <3>3. QED
      BY <1>1, <1>2, <3>2, AboveItself DEF dominates
  <2>3. \A t \in LiveTaus : t.phi = z => t.at # curr
    <3>1. SUFFICES ASSUME NEW t \in LiveTaus, t.phi = z, t.at = curr PROVE FALSE
      OBVIOUS
    <3>2. PICK j \in DOMAIN fn.rpo : j < J /\ t.at = fn.rpo[j]
      BY <1>1, <1>3, <1>4, <1>5, <3>1, NewHere
    <3>3. j = J
      BY <1>1, <1>2, <1>4, <3>1, <3>2, GroundForm DEF WellFormedGraph
    <3>4. QED
      BY <1>3, <3>2, <3>3
  <2>4. /\ TextForm'
        /\ LiveTaus' = LiveTaus \cup {Tau(z, c) : c \in DOMAIN hot}
        /\ \A t \in LiveTaus : operand'[t] = operand[t]
        /\ \A c \in DOMAIN hot : operand'[Tau(z, c)] = z
    <3>1. \A t \in LiveTaus : t.phi = z => t.at \notin DOMAIN hot
      BY <2>1, <2>3
    <3>2. DOMAIN hot \subseteq Blocks /\ Insert(z, hot) /\ TextForm
      BY <1>5, <2>1, <2>2 DEF TauInv
    <3>3. QED
      BY <1>1, <3>1, <3>2, Inserting
  <2>5. /\ \A t \in LiveTaus' : t \notin LiveTaus => t = Tau(z, curr)
        /\ Tau(z, curr).at = curr /\ Tau(z, curr).phi = z /\ operand'[Tau(z, curr)] = z
    BY <2>1, <2>4 DEF Tau
  <2>6. \A t \in LiveTaus' : operand'[t] = t.phi
    BY <1>2, <2>4, <2>5 DEF TauInv, Untouched
  <2>7. \A t \in LiveTaus' : \E c \in Above[t.at] : c \in Blocks /\ t.phi \in ToSet(fn.phis[c])
    BY <1>2, <1>5, <2>2, <2>5 DEF TauInv, BelowPhi
  <2>8. ASSUME NEW t, t = Tau(z, curr) PROVE InsertedBefore(t)'
    <3>1. t.phi = fn.phis[fn.rpo[pos]][it] /\ t.at = fn.rpo[J]
      BY <1>4, <1>5, <2>5, <2>8
    <3>2. \E j \in DOMAIN fn.rpo : j < J + 1 /\ t.at = fn.rpo[j]
      BY <1>1, <1>7, <3>1
    <3>3. QED
      BY <1>1, <1>3, <3>1, <3>2 DEF InsertedBefore
  <2>9. InsertedInOrder'
    <3>1. ASSUME NEW t \in LiveTaus' PROVE InsertedBefore(t)'
      BY <1>6, <2>5, <2>8, <3>1
    <3>2. QED
      BY <1>1, <1>3, <1>7, <3>1 DEF InsertedInOrder
  <2>10. QED
    BY <1>1, <1>2, <2>4, <2>6, <2>7, <2>9, StartingStep
<1>10. QED
  BY <1>1, <1>8, <1>9

----------------------------------------------------------------------------
(* The calls in progress.                                                  *)

\* The call in progress is the last one.
LEMMA Calling ==
    ASSUME Ground, Chain, visit # << >>
    PROVE  /\ Len(visit) \in Nat \ {0} /\ DOMAIN visit = 1..Len(visit)
           /\ Called = visit[Len(visit)].block /\ ToVisit = visit[Len(visit)].todo
           /\ Called \in Reachable(fn) /\ Called \in Blocks
           /\ ToVisit \subseteq DOMAIN DT
           /\ \A k \in DOMAIN visit : visit[k].block \in Reachable(fn) /\ visit[k].block \in Blocks
                                      /\ visit[k].todo \subseteq DOMAIN DT
<1>1. visit \in Seq([block : Reachable(fn), todo : SUBSET DOMAIN DT])
  BY DEF Chain
<1>2. Len(visit) \in Nat \ {0} /\ DOMAIN visit = 1..Len(visit)
  BY <1>1
<1>3. \A k \in DOMAIN visit : visit[k] \in [block : Reachable(fn), todo : SUBSET DOMAIN DT]
  <2> DEFINE R == [block : Reachable(fn), todo : SUBSET DOMAIN DT]
  <2> HIDE DEF R
  <2>1. visit \in Seq(R)
    BY <1>1 DEF R
  <2>2. \A k \in DOMAIN visit : visit[k] \in R
    BY <2>1
  <2>3. QED
    BY <2>2 DEF R
<1>4. Reachable(fn) \subseteq Blocks
  BY GroundForm
<1>5. QED
  BY <1>2, <1>3, <1>4 DEF Called, ToVisit, Last

\* The first call is that of the entry.
LEMMA FirstCall ==
    ASSUME Ground, fn' = fn, DT' = DT, visit' = <<Call(fn.entry)>>
    PROVE  Chain' /\ Len(visit') = 1 /\ visit'[1].block = fn.entry
           /\ \A c \in visit'[1].todo : c \in DOMAIN DT /\ DT[c] = fn.entry
<1>1. /\ DT \in [Reachable(fn) \ {fn.entry} -> Reachable(fn)] /\ fn.entry \in Reachable(fn)
  BY GroundForm
<1>2. PICK r : r = Call(fn.entry)
  OBVIOUS
<1>3. /\ r.block = fn.entry /\ r.todo = {c \in DOMAIN DT : DT[c] = fn.entry}
      /\ r \in [block : Reachable(fn), todo : SUBSET DOMAIN DT]
  BY <1>1, <1>2 DEF Call
<1>4. visit' = <<r>>
  BY <1>2
<1>5. Reachable(fn)' = Reachable(fn)
  BY DEF Reachable
<1>6. <<r>> \in Seq([block : Reachable(fn), todo : SUBSET DOMAIN DT])
  BY <1>3
<1>7. DOMAIN <<r>> = {1} /\ <<r>>[1] = r /\ Len(<<r>>) = 1
  OBVIOUS
<1>8. \A j, k \in DOMAIN <<r>> : j = 1 /\ k = 1
  BY <1>7
<1>9. Chain'
  BY <1>1, <1>3, <1>4, <1>5, <1>6, <1>7, <1>8 DEF Chain
<1>10. QED
  BY <1>3, <1>4, <1>7, <1>9

\* A call of itself goes one block down.
LEMMA CallDown ==
    ASSUME Ground, Chain, visit # << >>, fn' = fn, DT' = DT, NEW c \in ToVisit, VisitChild(c)
    PROVE  /\ Chain' /\ Len(visit') = Len(visit) + 1 /\ DOMAIN visit' = 1..(Len(visit) + 1)
           /\ c \in DOMAIN DT /\ DT[c] = Called
           /\ \A k \in DOMAIN visit : /\ k \in DOMAIN visit' /\ visit'[k].block = visit[k].block
                                      /\ visit'[k].todo \subseteq visit[k].todo
                                      /\ visit[k].todo \subseteq visit'[k].todo \cup {c}
                                      /\ visit[k].block # c
           /\ visit'[Len(visit) + 1].block = c
           /\ visit'[Len(visit) + 1].todo = {d \in DOMAIN DT : DT[d] = c}
<1> DEFINE n == Len(visit)
           R == [block : Reachable(fn), todo : SUBSET DOMAIN DT]
<1>1. /\ n \in Nat \ {0} /\ DOMAIN visit = 1..n /\ Called = visit[n].block
      /\ ToVisit = visit[n].todo /\ visit \in Seq(R)
      /\ \A k \in DOMAIN visit : visit[k].block \in Reachable(fn) /\ visit[k].todo \subseteq DOMAIN DT
  BY Calling DEF Chain
<1>2. /\ c \in DOMAIN DT /\ DT[c] = Called /\ c \in Reachable(fn) /\ fn.entry \notin DOMAIN DT
      /\ \A k \in DOMAIN visit : visit[k].block # c
  BY <1>1, GroundForm DEF Chain
<1>3. PICK r : r = Call(c)
  OBVIOUS
<1>4. r.block = c /\ r.todo = {d \in DOMAIN DT : DT[d] = c} /\ r \in R
  BY <1>2, <1>3 DEF Call
<1>5. PICK v \in Seq(R) : v = [visit EXCEPT ![n].todo = @ \ {c}]
  <2> DEFINE q == [visit[n] EXCEPT !.todo = visit[n].todo \ {c}]
  <2>1. [visit EXCEPT ![n].todo = @ \ {c}] = [visit EXCEPT ![n] = q]
    OBVIOUS
  <2>2. n \in 1..n /\ visit[n] \in R
    <3> HIDE DEF R
    <3>1. QED
      BY <1>1, ElementOfSeq
  <2>3. q \in R
    BY <2>2
  <2> HIDE DEF q, R
  <2>4. [visit EXCEPT ![n] = q] \in Seq(R)
    BY <1>1, <2>2, <2>3, ExceptSeq
  <2>5. QED
    BY <2>1, <2>4
<1>6. /\ Len(v) = n /\ DOMAIN v = 1..n
      /\ \A k \in 1..n : /\ v[k].block = visit[k].block /\ v[k].todo \subseteq visit[k].todo
                       /\ visit[k].todo \subseteq v[k].todo \cup {c}
      /\ c \notin v[n].todo
  BY <1>1, <1>5
<1> HIDE DEF R, n
<1>7. visit' = Append(v, r)
  BY <1>3, <1>5 DEF VisitChild, n
<1>8. /\ visit' \in Seq(R) /\ Len(visit') = n + 1 /\ DOMAIN visit' = 1..(n + 1)
      /\ \A k \in 1..n : visit'[k] = v[k]
      /\ visit'[n + 1] = r
  BY <1>1, <1>4, <1>6, <1>7, AppendProperties
<1>9. \A k \in 1..n : k \in 1..(n + 1) /\ k # n + 1
  BY <1>1
<1>10. \A k \in DOMAIN visit' : k \in 1..n \/ k = n + 1
  BY <1>1, <1>8
<1>11. Reachable(fn)' = Reachable(fn)
  BY DEF Reachable
<1>12. Chain'
  <2>1. visit' \in Seq([block : Reachable(fn), todo : SUBSET DOMAIN DT])'
    BY <1>8, <1>11 DEF R
  <2>2. visit'[1].block = fn.entry
    BY <1>1, <1>6, <1>8 DEF Chain
  <2>3. ASSUME NEW j \in DOMAIN visit', NEW k \in DOMAIN visit', k = j + 1
        PROVE  visit'[k].block \in DOMAIN DT /\ DT[visit'[k].block] = visit'[j].block
    <3>1. CASE k \in 1..n
      <4>1. j \in 1..n
        BY <1>1, <1>8, <2>3, <3>1
      <4>2. QED
        BY <1>1, <1>6, <1>8, <2>3, <3>1, <4>1 DEF Chain
    <3>2. CASE k = n + 1
      <4>1. j = n
        BY <1>1, <1>8, <2>3, <3>2
      <4>2. n \in 1..n
        BY <1>1
      <4>3. QED
        BY <1>1, <1>2, <1>4, <1>6, <1>8, <3>2, <4>1, <4>2
    <3>3. QED
      BY <1>10, <3>1, <3>2
  <2>4. ASSUME NEW k \in DOMAIN visit', NEW d \in visit'[k].todo PROVE DT[d] = visit'[k].block
    <3>1. CASE k \in 1..n
      BY <1>1, <1>6, <1>8, <2>4, <3>1 DEF Chain
    <3>2. CASE k = n + 1
      BY <1>4, <1>8, <2>4, <3>2
    <3>3. QED
      BY <1>10, <3>1, <3>2
  <2>5. ASSUME NEW j \in DOMAIN visit', NEW k \in DOMAIN visit', visit'[j].block = visit'[k].block
        PROVE  j = k
    <3>1. CASE j \in 1..n /\ k \in 1..n
      BY <1>1, <1>6, <1>8, <2>5, <3>1 DEF Chain
    <3>2. CASE j = n + 1 \/ k = n + 1
      BY <1>1, <1>2, <1>4, <1>6, <1>8, <1>10, <2>5, <3>2
    <3>3. QED
      BY <1>10, <3>1, <3>2
  <2>6. ASSUME NEW j \in DOMAIN visit', NEW k \in DOMAIN visit', visit'[j].block \in visit'[k].todo
        PROVE  FALSE
    <3>1. CASE j \in 1..n /\ k \in 1..n
      BY <1>1, <1>6, <1>8, <2>6, <3>1 DEF Chain
    <3>2. CASE j = n + 1 /\ k \in 1..n
      <4>1. c \in v[k].todo /\ c \in visit[k].todo
        BY <1>4, <1>6, <1>8, <2>6, <3>2
      <4>2. visit[k].block = visit[n].block
        BY <1>1, <1>2, <3>2, <4>1 DEF Chain
      <4>3. k = n
        BY <1>1, <3>2, <4>2 DEF Chain
      <4>4. QED
        BY <1>6, <4>1, <4>3
    <3>3. CASE k = n + 1
      <4>1. visit'[j].block \in DOMAIN DT /\ DT[visit'[j].block] = c
        BY <1>4, <1>8, <2>6, <3>3
      <4>2. j # 1
        BY <1>2, <2>2, <4>1
      <4>3. j - 1 \in 1..n /\ j - 1 \in DOMAIN visit' /\ j = (j - 1) + 1
        BY <1>1, <1>8, <4>2
      <4>4. visit'[j - 1].block = c
        BY <2>3, <4>1, <4>3
      <4>5. QED
        BY <1>1, <1>2, <1>6, <1>8, <4>3, <4>4
    <3>4. QED
      BY <1>10, <2>6, <3>1, <3>2, <3>3
  <2>7. visit' # << >>
    BY <1>1, <1>8
  <2>8. QED
    BY <2>1, <2>2, <2>3, <2>4, <2>5, <2>6, <2>7 DEF Chain
<1>13. \A k \in 1..n : /\ visit'[k].block = visit[k].block /\ visit'[k].todo \subseteq visit[k].todo
                       /\ visit[k].todo \subseteq visit'[k].todo \cup {c}
  BY <1>6, <1>8
<1>14. visit'[n + 1].block = c /\ visit'[n + 1].todo = {d \in DOMAIN DT : DT[d] = c}
  BY <1>4, <1>8
<1>15. QED
  BY <1>1, <1>2, <1>8, <1>9, <1>12, <1>13, <1>14 DEF n

\* A return takes the last call away.
LEMMA CallUp ==
    ASSUME Ground, Chain, visit # << >>, fn' = fn, DT' = DT, visit' = Front(visit),
           Searching' \/ pc' \in {"allocate", "taus", "allocated"} => Len(visit) # 1
    PROVE  /\ Chain' /\ Len(visit') = Len(visit) - 1 /\ DOMAIN visit' = 1..(Len(visit) - 1)
           /\ \A k \in DOMAIN visit' : k \in DOMAIN visit /\ k < Len(visit) /\ visit'[k] = visit[k]
           /\ \A k \in DOMAIN visit : k # Len(visit) => k \in DOMAIN visit'
<1> DEFINE n == Len(visit)
           R == [block : Reachable(fn), todo : SUBSET DOMAIN DT]
<1>1. n = Len(visit) /\ n \in Nat \ {0} /\ DOMAIN visit = 1..n /\ visit \in Seq(R)
  BY Calling DEF Chain
<1> HIDE DEF R, n
<1>2. /\ visit' \in Seq(R) /\ Len(visit') = n - 1 /\ DOMAIN visit' = 1..(n - 1)
      /\ \A k \in 1..(n - 1) : visit'[k] = visit[k]
  BY <1>1 DEF Front
<1>3. /\ \A k \in 1..(n - 1) : k \in 1..n /\ k < n
      /\ \A k \in 1..n : k # n => k \in 1..(n - 1)
  BY <1>1
<1>4. Reachable(fn)' = Reachable(fn)
  BY DEF Reachable
<1>5. \A k \in DOMAIN visit' : k \in DOMAIN visit /\ visit'[k] = visit[k]
  BY <1>1, <1>2, <1>3
<1>6. visit' # << >> => 1 \in DOMAIN visit'
  BY <1>1, <1>2
<1>7. Searching' \/ pc' \in {"allocate", "taus", "allocated"} => visit' # << >>
  BY <1>1, <1>2
<1>8. visit' \in Seq([block : Reachable(fn), todo : SUBSET DOMAIN DT])'
  BY <1>2, <1>4 DEF R
<1>9. Chain'
  <2>1. visit # << >> => visit[1].block = fn.entry
    BY DEF Chain
  <2>2. QED
    BY <1>5, <1>6, <1>7, <1>8, <2>1 DEF Chain
<1>10. QED
  BY <1>1, <1>2, <1>3, <1>5, <1>9

----------------------------------------------------------------------------
(* Search: what a name on a stack stands for.                              *)

\* The name on top of the stack of a phi stands for it.
LEMMA TopStands ==
    ASSUME TauInv, Searching, NEW z \in DOMAIN renaming_stack
    PROVE  /\ z \in Phis /\ z \notin TauNames
           /\ renaming_stack[z] \in Seq(Phis \cup TauNames)
           /\ Len(renaming_stack[z]) \in Nat \ {0}
           /\ DOMAIN renaming_stack[z] = 1..Len(renaming_stack[z])
           /\ Len(renaming_stack[z]) \in DOMAIN renaming_stack[z]
           /\ Last(renaming_stack[z]) = renaming_stack[z][Len(renaming_stack[z])]
           /\ OnStack(z, renaming_stack[z])
           /\ Stands(Last(renaming_stack[z]), z)
<1>1. z \in Phis /\ z \notin TauNames
  BY ReadNoTau DEF TauInv, MapTypes
<1>2. renaming_stack[z] \in Seq(Phis \cup TauNames) /\ renaming_stack[z] # << >>
  BY DEF TauInv, MapTypes
<1>3. PICK s : s = renaming_stack[z]
  OBVIOUS
<1>4. Len(s) \in Nat \ {0} /\ DOMAIN s = 1..Len(s) /\ Len(s) \in DOMAIN s
  BY <1>2, <1>3
<1>5. OnStack(z, s)
  BY <1>3 DEF TauInv, Stacked
<1>6. Last(s) = s[Len(s)]
  BY DEF Last
<1>7. Stands(Last(s), z)
  <2>1. CASE Len(s) = 1
    BY <1>5, <1>6, <2>1 DEF OnStack, Stands
  <2>2. CASE Len(s) # 1
    BY <1>4, <1>5, <1>6, <2>2 DEF OnStack, Stands
  <2>3. QED
    BY <2>1, <2>2
<1>8. QED
  BY <1>1, <1>2, <1>3, <1>4, <1>5, <1>6, <1>7

\* And it is known as one of its names.
LEMMA TopMapped ==
    ASSUME TauInv, Searching, NEW z \in DOMAIN renaming_stack
    PROVE  Last(renaming_stack[z]) \in DOMAIN stackmap /\ stackmap[Last(renaming_stack[z])] = z
<1>1. PICK s, q : s = renaming_stack[z] /\ q = Last(s)
  OBVIOUS
<1>2. /\ Len(s) \in Nat \ {0} /\ Len(s) \in DOMAIN s /\ q = s[Len(s)] /\ OnStack(z, s)
      /\ z \in Phis
  BY <1>1, TopStands
<1>3. PICK depth \in [Blocks -> Nat] : Mapped(depth)
  BY DEF TauInv
<1>4. CASE Len(s) = 1
  <2>1. q = z /\ z \in DOMAIN stackmap
    BY <1>2, <1>3, <1>4 DEF OnStack, Mapped
  <2>2. z \notin TauNames
    BY <1>2, ReadNoTau DEF TauInv
  <2> QED
    BY <1>1, <1>3, <2>1, <2>2 DEF Mapped
<1>5. CASE Len(s) # 1
  <2>1. q \in LiveTaus /\ q.phi = z /\ q \in DOMAIN stackmap
    BY <1>2, <1>5 DEF OnStack
  <2>2. q \in TauNames
    BY <2>1, LiveInBlock DEF TauInv, TextForm
  <2>3. q \notin Phis
    BY <2>2, ReadNoTau DEF TauInv
  <2> QED
    BY <1>1, <1>3, <2>1, <2>2, <2>3 DEF Mapped
<1> QED
  BY <1>4, <1>5

\* Renaming a use leaves what it stands for.
LEMMA RenamedStands ==
    ASSUME TauInv, Searching, NEW v, NEW w, Stands(v, w)
    PROVE  Stands(Renamed(v), w)
<1>1. CASE v \notin DOMAIN renaming_stack
  BY <1>1 DEF Renamed
<1>2. CASE v \in DOMAIN renaming_stack
  <2>1. v \notin TauNames /\ Stands(Last(renaming_stack[v]), v)
    BY <1>2, TopStands
  <2>2. v = w
    BY <2>1, LiveInBlock DEF Stands, TauInv, TextForm
  <2>3. QED
    BY <1>2, <2>1, <2>2 DEF Renamed
<1>3. QED
  BY <1>1, <1>2

\* So does renaming the operand on an edge.
LEMMA OutgoingStands ==
    ASSUME TauInv, Searching, NEW v, NEW w, Stands(v, w), w \notin TauNames
    PROVE  Stands(Outgoing(v), w)
<1>1. CASE v \notin DOMAIN stackmap
  BY <1>1 DEF Outgoing
<1>2. CASE v \in DOMAIN stackmap
  <2>1. PICK depth \in [Blocks -> Nat] : Mapped(depth)
    BY DEF TauInv
  <2>2. /\ stackmap[v] \in DOMAIN renaming_stack
        /\ (v \in Phis /\ stackmap[v] = v) \/ (v \in TauNames /\ stackmap[v] = v.phi)
    BY <1>2, <2>1 DEF Mapped
  <2>3. stackmap[v] = w
    <3>1. CASE v \in Phis /\ stackmap[v] = v
      <4>1. v \notin TauNames
        BY <3>1, ReadNoTau DEF TauInv
      <4>2. QED
        BY <3>1, <4>1, LiveInBlock DEF Stands, TauInv, TextForm
    <3>2. CASE v \in TauNames /\ stackmap[v] = v.phi
      BY <3>2 DEF Stands
    <3>3. QED
      BY <2>2, <3>1, <3>2
  <2>4. Stands(Last(renaming_stack[w]), w)
    BY <2>2, <2>3, TopStands
  <2>5. QED
    BY <1>2, <2>3, <2>4 DEF Outgoing
<1>3. QED
  BY <1>1, <1>2

\* A step of Search keeps the invariant if it keeps what stands for what and the maps.
LEMMA SearchingStep ==
    ASSUME TauInv, Starting \/ Searching, pc' \in {"search", "rename", "searched", "pop"},
           UNCHANGED <<fn, DT, HotPathSet, pos, allocVars>>, it' \in Nat \ {0},
           TextForm', ReadsOriginal', LiveTaus' \subseteq LiveTaus,
           Chain', PushedInOrder', Stacked', MapTypes',
           NEW depth \in [Blocks -> Nat], Ranked(depth)', VisitedOnce(depth)', Mapped(depth)'
    PROVE  TauInv'
<1>1. /\ Ground' /\ Above' = Above
      /\ TauNames' = TauNames /\ Phis' = Phis /\ Insts' = Insts
  BY SameGround DEF TauInv
<1>2. ~ Starting' /\ PcType' /\ Untouched'
  BY DEF Starting, PcType, Untouched
<1>3. InsertedInOrder'
  BY DEF TauInv, InsertedInOrder
<1>4. BelowPhi'
  BY <1>1 DEF TauInv, BelowPhi
<1>5. Framed' /\ Accumulators'
  <2>1. phiStack' = phiStack /\ defAcc' = defAcc /\ \A z \in Phis : phiStack[z] = << >>
    BY DEF TauInv, Framed, allocVars
  <2>2. Accumulators'
    BY <1>1, <2>1 DEF TauInv, Accumulators
  <2>3. DOMAIN phiStack = Phis /\ \A z \in Phis : phiStack[z] \in Seq(ToSet(phiStack[z]))
    BY DEF TauInv, Framed
  <2>4. Framed'
    BY <1>1, <2>1, <2>3 DEF Framed
  <2>5. QED
    BY <2>2, <2>4
<1>6. QED
  BY <1>1, <1>2, <1>3, <1>4, <1>5 DEF TauInv

----------------------------------------------------------------------------
(* One lemma for each action of Search.                                    *)

LEMMA InsertedTau == TauInv /\ Inserted => TauInv'
<1> SUFFICES ASSUME TauInv, Inserted PROVE TauInv'
  OBVIOUS
<1>1. /\ UNCHANGED <<fn, HotPathSet, pos, textVars, DT, searchVars, allocVars, it>>
      /\ pc = "insert" /\ pc' = "search" /\ visit' = <<Call(fn.entry)>>
  BY DEF Inserted, walkVars
<1>2. Starting /\ Ground
  BY <1>1 DEF Starting, TauInv
<1>3. /\ Ground' /\ Above' = Above
      /\ TauNames' = TauNames /\ Phis' = Phis /\ Insts' = Insts /\ LiveTaus' = LiveTaus
      /\ TextForm' /\ ReadsOriginal'
  BY <1>1, <1>2, SameGround, SameText DEF TauInv
<1>4. /\ Chain' /\ Len(visit') = 1 /\ visit'[1].block = fn.entry
      /\ \A c \in visit'[1].todo : c \in DOMAIN DT
  BY <1>1, <1>2, FirstCall
<1>5. DOMAIN visit' = {1}
  BY <1>1
<1>6. /\ renaming_stack' = << >> /\ hasTau' = {} /\ stackmap' = << >> /\ varstack' = {}
      /\ \A t \in LiveTaus : operand'[t] = t.phi
  BY <1>1, <1>2 DEF TauInv, Untouched, searchVars, textVars
<1>7. DOMAIN renaming_stack' = {} /\ DOMAIN stackmap' = {}
  BY <1>6
<1>8. PushedInOrder' /\ Stacked' /\ Searching'
  BY <1>1, <1>7 DEF PushedInOrder, Stacked, Searching
<1>9. MapTypes'
  BY <1>1, <1>2, <1>3, <1>8 DEF TauInv, MapTypes, searchVars
<1>10. PICK depth : depth = [b \in Blocks |-> 0]
  OBVIOUS
<1>11. depth \in [Blocks -> Nat] /\ \A b \in Blocks : depth[b] = 0
  BY <1>10
<1>12. Ranked(depth)'
  <2>1. \A t \in LiveTaus : t.phi \notin LiveTaus
    BY <1>2, LiveInBlock, ReadNoTau DEF TauInv, TextForm
  <2>2. QED
    BY <1>3, <1>6, <2>1 DEF Ranked
<1>13. /\ fn.entry \in Blocks /\ Above[fn.entry] = {fn.entry}
       /\ \A c \in DOMAIN DT : c \in Blocks /\ DT[c] \in Blocks
  BY <1>2, GroundForm, AboveEquation
<1>14. VisitedOnce(depth)'
  <2>1. Above'[fn'.entry] \subseteq {visit'[m].block : m \in 1..1}
    BY <1>1, <1>3, <1>4, <1>13
  <2>2. QED
    BY <1>1, <1>4, <1>5, <1>11, <1>13, <2>1, <1>3 DEF VisitedOnce
<1>15. Mapped(depth)'
  <2>1. \A k \in DOMAIN visit' : depth[visit'[k].block] = 0
    BY <1>4, <1>5, <1>11, <1>13
  <2>2. QED
    BY <1>3, <1>6, <1>7, <2>1 DEF Mapped
<1>16. it' \in Nat \ {0}
  BY <1>1 DEF TauInv, InsertedInOrder
<1>17. QED
  BY <1>1, <1>2, <1>3, <1>4, <1>8, <1>9, <1>11, <1>12, <1>14, <1>15, <1>16, SearchingStep

\* What stands on a stack still does in a step in which no tau is pushed or popped.
LEMMA SameStack ==
    ASSUME pc # "pop", pc' # "pop", visit' = visit, hasTau' = hasTau, LiveTaus' = LiveTaus,
           DOMAIN stackmap \subseteq DOMAIN stackmap', NEW z, NEW s, OnStack(z, s)
    PROVE  OnStack(z, s)'
BY DEF OnStack, Unpopped

LEMMA SearchStep == TauInv /\ Search => TauInv'
<1> SUFFICES ASSUME TauInv, Search PROVE TauInv'
  OBVIOUS
<1> DEFINE n == Len(visit)
           phis == ToSet(fn.phis[Called])
<1>1. /\ UNCHANGED <<fn, HotPathSet, pos, taus, operand, args, useOf, DT, visit, hasTau,
                     varstack, allocVars>>
      /\ pc = "search" /\ pc' = "rename" /\ it' = 1
      /\ phiOp' = [z \in Phis |->
                        IF z \in phis
                        THEN [u \in DOMAIN phiOp[z] |-> Renamed(phiOp[z][u])]
                        ELSE phiOp[z]]
      /\ renaming_stack' = Over([z \in phis |-> <<z>>], renaming_stack)
      /\ stackmap' = Over([z \in phis |-> z], stackmap)
  BY DEF Search, walkVars
<1>2. Searching /\ Ground /\ Chain /\ visit # << >>
  BY <1>1 DEF Searching, TauInv, Chain
<1>3. /\ n \in Nat \ {0} /\ DOMAIN visit = 1..n /\ n \in DOMAIN visit /\ Called = visit[n].block
      /\ Called \in Blocks /\ Called' = Called
      /\ \A k \in DOMAIN visit : visit[k].block \in Blocks /\ visit[k].todo \subseteq DOMAIN DT
  BY <1>1, <1>2, Calling DEF Called
<1>4. /\ Ground' /\ Above' = Above
      /\ TauNames' = TauNames /\ Phis' = Phis /\ Insts' = Insts /\ LiveTaus' = LiveTaus
  BY <1>1, <1>2, SameGround DEF LiveTaus
<1>5. \A z \in phis : z \in Phis /\ z \notin TauNames /\ HomeOf(z) = Called
  BY <1>2, <1>3, PhiAtHome, ReadNoTau
<1>6. PICK depth \in [Blocks -> Nat] : Ranked(depth) /\ VisitedOnce(depth) /\ Mapped(depth)
  BY DEF TauInv
<1>7. PICK deeper : deeper = [depth EXCEPT ![Called] = n]
  OBVIOUS
<1>8. /\ deeper \in [Blocks -> Nat] /\ deeper[Called] = n
      /\ \A b \in Blocks : b # Called => deeper[b] = depth[b]
      /\ depth[Called] = 0
      /\ \A b \in Blocks : depth[b] # 0 => deeper[b] = depth[b] /\ deeper[b] # 0
  <2>1. deeper \in [Blocks -> Nat] /\ deeper[Called] = n /\ \A b \in Blocks : b # Called => deeper[b] = depth[b]
    BY <1>3, <1>6, <1>7
  <2>2. depth[Called] = 0
    BY <1>1, <1>2, <1>3, <1>6 DEF VisitedOnce
  <2>3. QED
    BY <2>1, <2>2
<1> HIDE DEF n, phis
<1>9. /\ DOMAIN renaming_stack' = phis \cup DOMAIN renaming_stack
      /\ DOMAIN stackmap' = phis \cup DOMAIN stackmap
      /\ \A z \in phis : renaming_stack'[z] = <<z>> /\ stackmap'[z] = z
      /\ \A z \in DOMAIN renaming_stack : z \notin phis => renaming_stack'[z] = renaming_stack[z]
      /\ \A v \in DOMAIN stackmap : v \notin phis => stackmap'[v] = stackmap[v]
  BY <1>1 DEF Over
<1>10. TextForm'
  <2>1. phiOp' = [z \in Phis |-> [u \in DOMAIN fn.op[z] |-> phiOp'[z][u]]]
    <3>1. phiOp = [z \in Phis |-> [u \in DOMAIN fn.op[z] |-> phiOp[z][u]]]
      BY DEF TauInv, TextForm
    <3>2. \A z \in Phis : phiOp'[z] = [u \in DOMAIN fn.op[z] |-> phiOp'[z][u]]
      BY <1>1, <3>1
    <3>3. QED
      BY <1>1, <3>2
  <2>2. QED
    BY <1>1, <1>4, <2>1 DEF TauInv, TextForm, TausForm
<1>11. ReadsOriginal'
  <2>1. ASSUME NEW z \in Phis, NEW u \in DOMAIN fn.op[z] PROVE Stands(phiOp'[z][u], fn.op[z][u])
    <3>1. Stands(phiOp[z][u], fn.op[z][u])
      BY DEF TauInv, ReadsOriginal
    <3>2. u \in DOMAIN phiOp[z]
      BY DEF TauInv, TextForm
    <3>3. phiOp'[z][u] = Renamed(phiOp[z][u]) \/ phiOp'[z][u] = phiOp[z][u]
      BY <1>1, <3>2
    <3>4. Stands(Renamed(phiOp[z][u]), fn.op[z][u])
      BY <1>2, <3>1, RenamedStands
    <3>5. QED
      BY <3>1, <3>3, <3>4
  <2>2. ASSUME NEW z \in Phis, NEW u \in DOMAIN fn.op[z] PROVE Stands(phiOp[z][u], fn.op[z][u])'
    <3>1. fn' = fn /\ LiveTaus' = LiveTaus
      BY <1>1, <1>4
    <3>2. QED
      BY ONLY <2>1, <3>1 DEF Stands
  <2>3. \A i \in Insts : Stands(useOf[i], fn.use[i])'
    BY <1>1, <1>4 DEF TauInv, ReadsOriginal, Stands
  <2>4. \A t \in LiveTaus : Stands(operand[t], t.phi)'
    BY <1>1, <1>4 DEF TauInv, ReadsOriginal, Stands
  <2>5. QED
    BY <1>1, <1>4, <2>2, <2>3, <2>4 DEF ReadsOriginal
<1>12. Chain'
  BY <1>1, <1>2 DEF Chain, Reachable
<1>13. Ranked(deeper)'
  <2>1. \A t \in LiveTaus : t.at \in Blocks
    BY LiveInBlock DEF TauInv, TextForm
  <2>2. ASSUME NEW t \in LiveTaus, operand[t] \in LiveTaus
        PROVE  0 < deeper[operand[t].at] /\ deeper[operand[t].at] < deeper[t.at]
    <3>1. PICK b \in Blocks, c \in Blocks : b = operand[t].at /\ c = t.at
      BY <2>1, <2>2
    <3>2. 0 < depth[b] /\ depth[b] < depth[c]
      BY <1>6, <2>2, <3>1 DEF Ranked
    <3>3. depth[b] # 0 /\ depth[c] # 0
      BY <1>6, <3>2
    <3>4. QED
      BY <1>8, <3>1, <3>2, <3>3
  <2>3. QED
    BY <1>1, <1>4, <2>2 DEF Ranked
<1>14. VisitedOnce(deeper)'
  <2>1. \A k \in DOMAIN visit : Above[visit[k].block] \subseteq {visit[m].block : m \in 1..k}
    BY <1>2, <1>6 DEF VisitedOnce
  <2>2. ASSUME NEW k \in DOMAIN visit PROVE deeper[visit[k].block] = k
    <3>1. CASE k = n
      BY <1>3, <1>8, <3>1
    <3>2. CASE k # n
      <4>1. visit[k].block # Called
        BY <1>2, <1>3, <3>2 DEF Chain
      <4>2. depth[visit[k].block] = k
        BY <1>1, <1>2, <1>6, <3>2 DEF VisitedOnce, n
      <4>3. QED
        BY <1>3, <1>8, <4>1, <4>2
    <3>3. QED
      BY <3>1, <3>2
  <2>3. ASSUME NEW k \in DOMAIN visit, NEW c \in visit[k].todo PROVE deeper[c] = 0
    <3>1. depth[c] = 0 /\ c # Called
      BY <1>2, <1>3, <1>6 DEF VisitedOnce, Chain
    <3>2. c \in Blocks
      BY <1>2, <1>3, GroundForm
    <3>3. QED
      BY <1>8, <3>1, <3>2
  <2>4. ASSUME NEW b \in DOMAIN DT, deeper[b] # 0 PROVE deeper[DT[b]] # 0
    <3>1. b \in Blocks /\ DT[b] \in Blocks /\ fn.entry \notin DOMAIN DT
      BY <1>2, GroundForm
    <3>2. CASE b # Called
      <4>1. depth[DT[b]] # 0
        BY <1>2, <1>6, <1>8, <2>4, <3>1, <3>2 DEF VisitedOnce
      <4>2. QED
        BY <1>8, <3>1, <4>1
    <3>3. CASE b = Called
      <4>1. n # 1
        BY <1>2, <1>3, <3>1, <3>3 DEF Chain
      <4>2. n - 1 \in DOMAIN visit /\ n = (n - 1) + 1 /\ n - 1 # 0
        BY <1>3, <4>1
      <4>3. DT[b] = visit[n - 1].block
        BY <1>2, <1>3, <3>3, <4>2 DEF Chain
      <4>4. QED
        BY <2>2, <4>2, <4>3
    <3>4. QED
      BY <3>2, <3>3
  <2>5. QED
    BY <1>1, <1>4, <2>1, <2>2, <2>3, <2>4 DEF VisitedOnce
<1>15. Mapped(deeper)'
  <2>1. ASSUME NEW k \in DOMAIN visit PROVE ToSet(fn.phis[visit[k].block]) \subseteq DOMAIN renaming_stack'
    <3>1. CASE visit[k].block = Called
      BY <1>9, <3>1 DEF phis
    <3>2. CASE visit[k].block # Called
      <4>1. k # n /\ k # 0
        BY <1>3, <3>2
      <4>2. depth[visit[k].block] # 0
        BY <1>1, <1>2, <1>6, <4>1 DEF VisitedOnce, n
      <4>3. QED
        BY <1>2, <1>6, <1>9, <4>2 DEF Mapped
    <3>3. QED
      BY <3>1, <3>2
  <2>2. ASSUME NEW z \in DOMAIN renaming_stack'
        PROVE  \E b \in Blocks : z \in ToSet(fn.phis[b]) /\ deeper[b] # 0
    <3>1. CASE z \in phis
      BY <1>3, <1>8, <3>1 DEF phis
    <3>2. CASE z \notin phis
      BY <1>2, <1>6, <1>8, <1>9, <3>2 DEF Mapped
    <3>3. QED
      BY <3>1, <3>2
  <2>3. DOMAIN renaming_stack' \subseteq DOMAIN stackmap'
    BY <1>2, <1>6, <1>9 DEF Mapped
  <2>4. ASSUME NEW v \in DOMAIN stackmap'
        PROVE  /\ stackmap'[v] \in DOMAIN renaming_stack'
               /\ \/ v \in Phis /\ stackmap'[v] = v
                  \/ v \in TauNames /\ stackmap'[v] = v.phi /\ deeper[v.at] # 0
    <3>1. CASE v \in phis
      BY <1>5, <1>9, <3>1
    <3>2. CASE v \notin phis
      <4>1. v \in DOMAIN stackmap /\ stackmap'[v] = stackmap[v]
        BY <1>9, <3>2
      <4>2. v \in TauNames => v.at \in Blocks
        BY DEF TauNames, TauNamesOf
      <4>3. QED
        BY <1>2, <1>6, <1>8, <1>9, <4>1, <4>2 DEF Mapped
    <3>3. QED
      BY <3>1, <3>2
  <2>5. \A t \in LiveTaus : t \notin DOMAIN stackmap' => operand[t] = t.phi
    BY <1>2, <1>6, <1>9 DEF Mapped
  <2>6. \A e \in hasTau : e[2] \in DOMAIN renaming_stack' /\ deeper[e[1]] # 0
    <3>1. \A e \in hasTau : e[1] \in Blocks
      BY DEF TauInv, MapTypes
    <3>2. QED
      BY <1>2, <1>6, <1>8, <1>9, <3>1 DEF Mapped
  <2>7. varstack' = {}
    BY <1>1, <1>2, <1>6 DEF Mapped
  <2>8. QED
    BY <1>1, <1>4, <2>1, <2>2, <2>3, <2>4, <2>5, <2>6, <2>7 DEF Mapped
<1>16. PushedInOrder'
  <2>1. \A z \in Phis : <<Called, z>> \notin hasTau
    BY <1>2, <1>6, <1>8 DEF Mapped
  <2>2. \A t \in DOMAIN stackmap' : t \in TauNames => t.at # Called
    BY <1>2, <1>5, <1>6, <1>8, <1>9, ReadNoTau DEF Mapped
  <2>3. QED
    BY <1>1, <1>3, <1>4, <2>1, <2>2 DEF PushedInOrder
<1>17. Stacked'
  <2>1. ASSUME NEW z \in DOMAIN renaming_stack' PROVE OnStack(z, renaming_stack[z])'
    <3>1. PICK s : s = renaming_stack'[z]
      OBVIOUS
    <3>2. CASE z \notin phis
      <4>1. OnStack(z, s)
        BY <1>2, <1>9, <3>1, <3>2 DEF TauInv, Stacked
      <4>2. DOMAIN stackmap \subseteq DOMAIN stackmap' /\ pc # "pop" /\ pc' # "pop"
        BY <1>1, <1>9
      <4>3. OnStack(z, s)'
        BY <1>1, <1>4, <4>1, <4>2, SameStack
      <4>4. QED
        BY <3>1, <4>3 DEF OnStack
    <3>3. CASE z \in phis
      <4>1. s = <<z>>
        BY <1>9, <3>1, <3>3
      <4>2. DOMAIN s = {1} /\ s[1] = z
        BY <4>1
      <4>3. \A b : <<b, z>> \notin hasTau
        <5>1. SUFFICES ASSUME NEW b, <<b, z>> \in hasTau PROVE FALSE
          OBVIOUS
        <5>2. z \in DOMAIN renaming_stack
          BY <1>2, <1>6, <5>1 DEF Mapped
        <5>3. PICK c \in Blocks : z \in ToSet(fn.phis[c]) /\ depth[c] # 0
          BY <1>2, <1>6, <5>2 DEF Mapped
        <5>4. c = Called
          BY <1>2, <1>5, <3>3, <5>3, PhiAtHome
        <5>5. QED
          BY <1>8, <5>3, <5>4
      <4>4. OnStack(z, s)'
        BY <1>1, <4>2, <4>3 DEF OnStack
      <4>5. QED
        BY <3>1, <4>4 DEF OnStack
    <3>4. QED
      BY <3>2, <3>3
  <2>2. QED
    BY <2>1 DEF Stacked
<1>18. MapTypes'
  <2>1. \A z \in DOMAIN renaming_stack' : /\ z \in Phis
                                          /\ renaming_stack'[z] \in Seq(Phis \cup TauNames) \ {<< >>}
                                          /\ renaming_stack'[z][1] = z
    <3>1. \A z \in phis : <<z>> \in Seq(Phis \cup TauNames) \ {<< >>} /\ <<z>>[1] = z
      BY <1>5
    <3>2. \A z \in DOMAIN renaming_stack : /\ z \in Phis
                                           /\ renaming_stack[z] \in Seq(Phis \cup TauNames) \ {<< >>}
                                           /\ renaming_stack[z][1] = z
      BY DEF TauInv, MapTypes
    <3>3. SUFFICES ASSUME NEW z \in DOMAIN renaming_stack'
                   PROVE  /\ z \in Phis
                          /\ renaming_stack'[z] \in Seq(Phis \cup TauNames) \ {<< >>}
                          /\ renaming_stack'[z][1] = z
      OBVIOUS
    <3>4. CASE z \in phis
      BY <1>5, <1>9, <3>1, <3>4
    <3>5. CASE z \notin phis
      <4>1. z \in DOMAIN renaming_stack /\ renaming_stack'[z] = renaming_stack[z]
        BY <1>9, <3>5
      <4>2. QED
        BY <3>2, <4>1
    <3>6. QED
      BY <3>4, <3>5
  <2>2. renaming_stack' = [z \in DOMAIN renaming_stack' |-> renaming_stack'[z]]
    BY <1>1 DEF Over
  <2>3. \A v \in DOMAIN stackmap' : stackmap'[v] \in Phis
    BY <1>5, <1>9 DEF TauInv, MapTypes
  <2>4. Searching'
    BY <1>1 DEF Searching
  <2>5. renaming_stack' \in [DOMAIN renaming_stack' -> Seq(Phis \cup TauNames) \ {<< >>}]
    BY <2>1, <2>2
  <2>6. hasTau' \subseteq Blocks \X Phis
    BY <1>1 DEF TauInv, MapTypes
  <2>7. QED
    BY <1>4, <2>1, <2>3, <2>4, <2>5, <2>6 DEF MapTypes
<1>19. QED
  BY <1>1, <1>2, <1>4, <1>8, <1>10, <1>11, <1>12, <1>13, <1>14, <1>15, <1>16, <1>17, <1>18,
     SearchingStep

\* The tau at hand has not been pushed, and the stack of its phi is there.
LEMMA TauHere ==
    ASSUME TauInv, pc = "rename", it \in DOMAIN taus[Called],
           NEW depth \in [Blocks -> Nat], VisitedOnce(depth), Mapped(depth)
    PROVE  LET t == taus[Called][it]
           IN /\ t \in LiveTaus /\ t \in TauNames /\ t.at = Called /\ t.phi \in Phis
              /\ t \notin DOMAIN stackmap /\ <<Called, t.phi>> \notin hasTau
              /\ operand[t] = t.phi /\ t.phi \in DOMAIN renaming_stack
              /\ depth[Called] = Len(visit)
<1>1. Searching /\ Ground /\ Chain /\ visit # << >> /\ TausForm
  BY DEF Searching, TauInv, Chain, TextForm
<1>2. /\ Len(visit) \in DOMAIN visit /\ Len(visit) \in Nat \ {0} /\ Called = visit[Len(visit)].block
      /\ Called \in Blocks /\ DOMAIN visit = 1..Len(visit)
  BY <1>1, Calling
<1>3. PICK t : t = taus[Called][it]
  OBVIOUS
<1>4. t \in LiveTaus /\ t \in TauNames /\ t.at = Called
  BY <1>1, <1>2, <1>3, StandingIsLive
<1>5. t.phi \in Phis
  BY <1>1, <1>4, LiveInBlock
<1>6. it \in Nat
  BY DEF TauInv, InsertedInOrder
<1>7. \A k \in DOMAIN taus[Called] : taus[Called][k].phi = t.phi => ~ (k < it)
  <2>1. \A k \in DOMAIN taus[Called] : taus[Called][k].phi = t.phi => k = it
    BY <1>1, <1>2, <1>3 DEF TausForm
  <2>2. ~ (it < it)
    BY <1>6
  <2>3. QED
    BY <2>1, <2>2
<1>8. t \notin DOMAIN stackmap /\ <<Called, t.phi>> \notin hasTau
  BY <1>4, <1>5, <1>7 DEF TauInv, PushedInOrder
<1>9. operand[t] = t.phi
  BY <1>1, <1>4, <1>8 DEF Mapped
<1>10. \A k \in DOMAIN visit : depth[visit[k].block] = k
  BY <1>1 DEF VisitedOnce
<1>11. t.phi \in DOMAIN renaming_stack
  <2>1. PICK b \in Above[Called] : b \in Blocks /\ t.phi \in ToSet(fn.phis[b])
    BY <1>1, <1>4 DEF TauInv, BelowPhi
  <2>2. PICK m \in 1..Len(visit) : b = visit[m].block
    BY <1>1, <1>2, <2>1 DEF VisitedOnce
  <2>3. depth[visit[m].block] # 0
    BY <1>2, <1>10, <2>2
  <2>4. QED
    BY <1>1, <1>2, <2>1, <2>2, <2>3 DEF Mapped
<1>12. QED
  BY <1>2, <1>3, <1>4, <1>5, <1>8, <1>9, <1>10, <1>11

LEMMA SearchTauTau == TauInv /\ SearchTau => TauInv'
<1> SUFFICES ASSUME TauInv, SearchTau PROVE TauInv'
  OBVIOUS
<1>1. pc = "rename" /\ it \in DOMAIN taus[Called]
  BY DEF SearchTau
<1>2. Searching /\ Ground /\ Chain /\ visit # << >> /\ TausForm
  BY <1>1 DEF Searching, TauInv, Chain, TextForm
<1>3. PICK depth \in [Blocks -> Nat] : Ranked(depth) /\ VisitedOnce(depth) /\ Mapped(depth)
  BY DEF TauInv
<1>4. PICK t : t = taus[Called][it]
  OBVIOUS
<1>5. PICK z : z = t.phi
  OBVIOUS
<1>6. /\ t \in LiveTaus /\ t \in TauNames /\ t.at = Called /\ z \in Phis
      /\ t \notin DOMAIN stackmap /\ <<Called, z>> \notin hasTau
      /\ operand[t] = z /\ z \in DOMAIN renaming_stack
      /\ depth[Called] = Len(visit)
  BY <1>1, <1>3, <1>4, <1>5, TauHere
<1>7. PICK s : s = renaming_stack[z]
  OBVIOUS
<1>8. PICK q : q = Last(s)
  OBVIOUS
<1>9. PICK n : n = Len(visit)
  OBVIOUS
<1>10. /\ n \in Nat \ {0} /\ DOMAIN visit = 1..n /\ Called = visit[n].block /\ Called \in Blocks
  BY <1>2, <1>9, Calling
<1>11. /\ s \in Seq(Phis \cup TauNames) /\ Len(s) \in Nat \ {0} /\ DOMAIN s = 1..Len(s)
       /\ q = s[Len(s)] /\ OnStack(z, s) /\ Stands(q, z) /\ z \notin TauNames
  BY <1>2, <1>6, <1>7, <1>8, TopStands
<1>12. \A m \in DOMAIN s : m # 1 => \E k \in DOMAIN visit : k < n /\ visit[k].block = s[m].at
  <2>1. SUFFICES ASSUME NEW m \in DOMAIN s, m # 1
                 PROVE  \E k \in DOMAIN visit : k < n /\ visit[k].block = s[m].at
    OBVIOUS
  <2>2. PICK k \in DOMAIN visit : visit[k].block = s[m].at /\ <<s[m].at, z>> \in hasTau
    BY <1>11, <2>1 DEF OnStack
  <2>3. k # n
    BY <1>6, <1>10, <2>2
  <2>4. QED
    BY <1>10, <2>2, <2>3
<1>13. q \in DOMAIN stackmap /\ stackmap[q] = z
  BY <1>2, <1>6, <1>7, <1>8, TopMapped
<1>14. /\ UNCHANGED <<fn, HotPathSet, pos, taus, phiOp, useOf, pc, DT, visit, varstack, allocVars>>
       /\ it' = it + 1
       /\ operand' = [operand EXCEPT ![t] = q]
       /\ args' = [args EXCEPT ![t] = {Renamed(v) : v \in @}]
       /\ renaming_stack' = [renaming_stack EXCEPT ![z] = Append(s, t)]
       /\ stackmap' = Over([v \in {t} |-> z], stackmap)
       /\ hasTau' = hasTau \cup {<<Called, z>>}
  <2>1. Renamed(operand[t]) = q
    BY <1>6, <1>7, <1>8 DEF Renamed
  <2>2. QED
    BY <1>4, <1>7, <1>13, <2>1 DEF SearchTau, walkVars
<1>15. /\ Ground' /\ Above' = Above /\ Called' = Called
       /\ TauNames' = TauNames /\ Phis' = Phis /\ Insts' = Insts /\ LiveTaus' = LiveTaus
  BY <1>2, <1>14, SameGround DEF LiveTaus, Called
<1>16. /\ DOMAIN stackmap' = {t} \cup DOMAIN stackmap
       /\ stackmap'[t] = z /\ \A v \in DOMAIN stackmap : stackmap'[v] = stackmap[v]
  BY <1>6, <1>14 DEF Over
<1>17. DOMAIN operand = LiveTaus /\ DOMAIN args = LiveTaus
  BY DEF TauInv, TextForm
<1>18. /\ operand' = [x \in LiveTaus |-> operand'[x]] /\ args' = [x \in LiveTaus |-> args'[x]]
       /\ operand'[t] = q /\ \A x \in LiveTaus : x # t => operand'[x] = operand[x]
  BY <1>6, <1>14, <1>17
<1>19. TextForm'
  BY <1>14, <1>15, <1>18 DEF TauInv, TextForm, TausForm
<1>20. ReadsOriginal'
  <2>1. \A x \in LiveTaus : Stands(operand[x], x.phi)'
    BY <1>5, <1>11, <1>15, <1>18 DEF TauInv, ReadsOriginal, Stands
  <2>2. \A x \in Phis : \A u \in DOMAIN fn.op[x] : Stands(phiOp[x][u], fn.op[x][u])'
    BY <1>14, <1>15 DEF TauInv, ReadsOriginal, Stands
  <2>3. \A i \in Insts : Stands(useOf[i], fn.use[i])'
    BY <1>14, <1>15 DEF TauInv, ReadsOriginal, Stands
  <2>4. QED
    BY <1>14, <1>15, <2>1, <2>2, <2>3 DEF ReadsOriginal
<1>21. Ranked(depth)'
  <2>1. ASSUME q \in LiveTaus PROVE 0 < depth[q.at] /\ depth[q.at] < depth[t.at]
    <3>1. Len(s) # 1
      <4>1. z \notin LiveTaus
        BY <1>2, <1>11, LiveInBlock
      <4>2. QED
        BY <1>11, <2>1, <4>1 DEF OnStack
    <3>2. PICK k \in DOMAIN visit : k < n /\ visit[k].block = q.at
      BY <1>11, <1>12, <3>1
    <3>3. depth[q.at] = k
      BY <1>1, <1>2, <1>3, <3>2 DEF VisitedOnce
    <3>4. QED
      BY <1>6, <1>9, <1>10, <3>2, <3>3
  <2>2. QED
    BY <1>3, <1>15, <1>18, <2>1 DEF Ranked
<1>22. Chain' /\ VisitedOnce(depth)'
  <2>1. Searching'
    BY <1>1, <1>14 DEF Searching
  <2>2. Chain'
    BY <1>2, <1>14 DEF Chain, Reachable
  <2>3. QED
    BY <1>2, <1>3, <1>14, <1>15, <2>2 DEF VisitedOnce
<1>23. /\ DOMAIN renaming_stack' = DOMAIN renaming_stack
       /\ renaming_stack'[z] = Append(s, t)
       /\ \A y \in DOMAIN renaming_stack : y # z => renaming_stack'[y] = renaming_stack[y]
  BY <1>6, <1>14
<1>24. /\ Append(s, t) \in Seq(Phis \cup TauNames) /\ Append(s, t) # << >>
       /\ Len(Append(s, t)) = Len(s) + 1 /\ DOMAIN Append(s, t) = 1..(Len(s) + 1)
       /\ \A i \in 1..Len(s) : Append(s, t)[i] = s[i]
       /\ Append(s, t)[Len(s) + 1] = t
  BY <1>6, <1>11, AppendProperties
<1>25. Mapped(depth)'
  <2>1. \A k \in DOMAIN visit : depth[visit[k].block] # 0 =>
            ToSet(fn.phis[visit[k].block]) \subseteq DOMAIN renaming_stack'
    BY <1>2, <1>3, <1>23 DEF Mapped
  <2>2. \A x \in DOMAIN renaming_stack' : \E b \in Blocks : x \in ToSet(fn.phis[b]) /\ depth[b] # 0
    BY <1>2, <1>3, <1>23 DEF Mapped
  <2>3. DOMAIN renaming_stack' \subseteq DOMAIN stackmap'
    BY <1>2, <1>3, <1>16, <1>23 DEF Mapped
  <2>4. \A v \in DOMAIN stackmap' :
              /\ stackmap'[v] \in DOMAIN renaming_stack'
              /\ \/ v \in Phis /\ stackmap'[v] = v
                 \/ v \in TauNames /\ stackmap'[v] = v.phi /\ depth[v.at] # 0
    <3>1. depth[t.at] # 0
      BY <1>6, <1>9, <1>10
    <3>2. QED
      BY <1>2, <1>3, <1>5, <1>6, <1>16, <1>23, <3>1 DEF Mapped
  <2>5. \A x \in LiveTaus : x \notin DOMAIN stackmap' => operand'[x] = x.phi
    BY <1>2, <1>3, <1>16, <1>18 DEF Mapped
  <2>6. \A e \in hasTau' : e[2] \in DOMAIN renaming_stack' /\ depth[e[1]] # 0
    <3>1. depth[Called] # 0
      BY <1>6, <1>9, <1>10
    <3>2. QED
      BY <1>2, <1>3, <1>6, <1>14, <1>23, <3>1 DEF Mapped
  <2>7. varstack' = {}
    BY <1>1, <1>2, <1>3, <1>14 DEF Mapped
  <2>8. QED
    BY <1>14, <1>15, <2>1, <2>2, <2>3, <2>4, <2>5, <2>6, <2>7 DEF Mapped
<1>26. PushedInOrder'
  <2>1. it \in Nat /\ it < it + 1
    BY DEF TauInv, InsertedInOrder
  <2>2. \A k \in DOMAIN taus[Called] : k < it => k < it + 1
    <3>1. taus[Called] \in Seq(TauNames)
      BY <1>2, <1>10 DEF TausForm
    <3>2. QED
      BY <2>1, <3>1
  <2>3. ASSUME NEW x \in Phis, <<Called, x>> \in hasTau'
        PROVE  \E k \in DOMAIN taus[Called] : k < it + 1 /\ taus[Called][k].phi = x
    <3>1. CASE x = z
      BY <1>1, <1>4, <1>5, <2>1, <3>1
    <3>2. CASE x # z
      BY <1>1, <1>14, <2>2, <2>3, <3>2 DEF TauInv, PushedInOrder
    <3>3. QED
      BY <3>1, <3>2
  <2>4. ASSUME NEW x \in DOMAIN stackmap', x \in TauNames, x.at = Called
        PROVE  \E k \in DOMAIN taus[Called] : k < it + 1 /\ taus[Called][k].phi = x.phi
    <3>1. CASE x = t
      BY <1>1, <1>4, <2>1, <3>1
    <3>2. CASE x # t
      BY <1>1, <1>16, <2>2, <2>4, <3>2 DEF TauInv, PushedInOrder
    <3>3. QED
      BY <3>1, <3>2
  <2>5. QED
    BY <1>14, <1>15, <2>3, <2>4 DEF PushedInOrder
<1>27. Stacked'
  <2>1. ASSUME NEW y \in DOMAIN renaming_stack, y # z PROVE OnStack(y, renaming_stack[y])'
    <3>1. PICK r : r = renaming_stack[y] /\ r = renaming_stack'[y]
      BY <1>23, <2>1
    <3>2. OnStack(y, r)
      BY <1>2, <2>1, <3>1 DEF TauInv, Stacked
    <3>3. OnStack(y, r)'
      <4>1. \A b : <<b, y>> \in hasTau' <=> <<b, y>> \in hasTau
        BY <1>14, <2>1
      <4>2. DOMAIN stackmap \subseteq DOMAIN stackmap'
        BY <1>16
      <4>3. pc # "pop" /\ pc' # "pop"
        BY <1>1, <1>14
      <4>4. QED
        BY <1>14, <1>15, <3>2, <4>1, <4>2, <4>3 DEF OnStack, Unpopped
    <3>4. QED
      BY <3>1, <3>3 DEF OnStack
  <2>2. ASSUME NEW r, r = Append(s, t) PROVE OnStack(z, r)'
    <3> DEFINE top == Len(s) + 1
    <3>1. /\ DOMAIN r = 1..top /\ r[top] = t
          /\ \A i \in 1..top : i = top \/ (i \in DOMAIN s /\ r[i] = s[i] /\ i < top)
          /\ \A i \in DOMAIN s : i \in 1..top /\ i # top
          /\ top # 1 /\ top \in DOMAIN r
      BY <1>11, <1>24, <2>2
    <3> HIDE DEF top
    <3>2. r[1] = z
      BY <1>11, <3>1 DEF OnStack
    <3>3. pc # "pop" /\ pc' # "pop"
      BY <1>1, <1>14
    <3>4. ASSUME NEW i \in DOMAIN r, i # 1
          PROVE  /\ r[i] \in LiveTaus /\ r[i].phi = z /\ r[i] \in DOMAIN stackmap'
                 /\ \E k \in DOMAIN visit : visit[k].block = r[i].at /\ <<r[i].at, z>> \in hasTau'
      <4>1. CASE i = top
        <5>1. r[i] = t /\ n \in DOMAIN visit /\ <<Called, z>> \in hasTau'
          BY <1>10, <1>14, <3>1, <4>1
        <5>2. QED
          BY <1>5, <1>6, <1>10, <1>16, <5>1
      <4>2. CASE i # top
        BY <1>11, <1>14, <1>16, <3>1, <3>4, <4>2 DEF OnStack
      <4>3. QED
        BY <4>1, <4>2
    <3>5. ASSUME NEW i \in DOMAIN r, NEW m \in DOMAIN r, NEW j \in DOMAIN visit, NEW k \in DOMAIN visit,
                 i # 1, i < m, visit[j].block = r[i].at, visit[k].block = r[m].at
          PROVE  j < k
      <4>1. i # top
        <5>1. top \in Nat
          BY <1>11 DEF top
        <5>2. QED
          BY <3>1, <3>5, <5>1
      <4>2. i \in DOMAIN s /\ r[i] = s[i]
        BY <3>1, <4>1
      <4>3. CASE m = top
        <5>1. k = n
          BY <1>2, <1>6, <1>10, <3>1, <3>5, <4>3 DEF Chain
        <5>2. PICK l \in DOMAIN visit : l < n /\ visit[l].block = s[i].at
          BY <1>12, <3>5, <4>2
        <5>3. j = l
          BY <1>2, <3>5, <4>2, <5>2 DEF Chain
        <5>4. QED
          BY <5>1, <5>2, <5>3
      <4>4. CASE m # top
        BY <1>11, <3>1, <3>5, <4>2, <4>4 DEF OnStack
      <4>5. QED
        BY <4>3, <4>4
    <3>6. ASSUME NEW k \in DOMAIN visit, <<visit[k].block, z>> \in hasTau'
          PROVE  \E i \in DOMAIN r : i # 1 /\ r[i].at = visit[k].block
      <4>1. CASE visit[k].block = Called
        BY <1>6, <3>1, <4>1
      <4>2. CASE visit[k].block # Called
        <5>1. <<visit[k].block, z>> \in hasTau
          BY <1>14, <3>6, <4>2
        <5>2. PICK i \in DOMAIN s : i # 1 /\ s[i].at = visit[k].block
          BY <1>11, <3>3, <5>1 DEF OnStack, Unpopped
        <5>3. QED
          BY <3>1, <5>2
      <4>3. QED
        BY <4>1, <4>2
    <3>7. QED
      BY <1>14, <1>15, <3>2, <3>3, <3>4, <3>5, <3>6 DEF OnStack, Unpopped
  <2>3. OnStack(z, renaming_stack[z])'
    <3>1. PICK r : r = Append(s, t)
      OBVIOUS
    <3>2. OnStack(z, r)' /\ r = renaming_stack'[z]
      BY <1>23, <2>2, <3>1
    <3>3. QED
      BY <3>2 DEF OnStack
  <2>4. QED
    BY <1>23, <2>1, <2>3 DEF Stacked
<1>28. MapTypes'
  <2>1. renaming_stack' \in [DOMAIN renaming_stack' -> Seq(Phis \cup TauNames) \ {<< >>}]
    BY <1>6, <1>14, <1>24 DEF TauInv, MapTypes
  <2>2. \A y \in DOMAIN renaming_stack' : renaming_stack'[y][1] = y
    <3>1. renaming_stack'[z][1] = z
      BY <1>11, <1>23, <1>24 DEF OnStack
    <3>2. QED
      BY <1>23, <3>1 DEF TauInv, MapTypes
  <2>3. hasTau' \subseteq Blocks \X Phis
    BY <1>6, <1>10, <1>14 DEF TauInv, MapTypes
  <2>4. \A v \in DOMAIN stackmap' : stackmap'[v] \in Phis
    BY <1>6, <1>16 DEF TauInv, MapTypes
  <2>5. Searching'
    BY <1>1, <1>14 DEF Searching
  <2>6. QED
    BY <1>15, <1>23, <2>1, <2>2, <2>3, <2>4, <2>5 DEF TauInv, MapTypes
<1>29. it' \in Nat \ {0}
  BY <1>14 DEF TauInv, InsertedInOrder
<1>30. QED
  BY <1>1, <1>2, <1>3, <1>14, <1>15, <1>19, <1>20, <1>21, <1>22, <1>25, <1>26, <1>27, <1>28,
     <1>29, SearchingStep

LEMMA SearchUsesTau == TauInv /\ SearchUses => TauInv'
<1> SUFFICES ASSUME TauInv, SearchUses PROVE TauInv'
  OBVIOUS
<1>1. /\ UNCHANGED <<fn, HotPathSet, pos, taus, operand, args, DT, visit, searchVars, allocVars, it>>
      /\ pc = "rename" /\ pc' = "searched"
      /\ useOf' = [i \in Insts |-> IF i \in ToSet(fn.body[Called]) THEN Renamed(useOf[i])
                                   ELSE useOf[i]]
      /\ phiOp' = [z \in Phis |->
                    IF HomeOf(z) \in Succs(fn, Called)
                    THEN [u \in DOMAIN phiOp[z] |->
                             Sub(phiOp[z][Called], Outgoing(phiOp[z][Called]), phiOp[z][u])]
                    ELSE phiOp[z]]
  BY DEF SearchUses, walkVars
<1>2. Searching /\ Ground /\ Chain
  BY <1>1 DEF Searching, TauInv
<1>3. /\ Ground' /\ Above' = Above /\ Called' = Called
      /\ TauNames' = TauNames /\ Phis' = Phis /\ Insts' = Insts /\ LiveTaus' = LiveTaus
  BY <1>1, <1>2, SameGround DEF LiveTaus, Called
<1>4. TextForm'
  <2>1. \A z \in Phis : DOMAIN phiOp[z] = DOMAIN fn.op[z] /\ phiOp[z] = [u \in DOMAIN fn.op[z] |-> phiOp[z][u]]
    BY DEF TauInv, TextForm
  <2>2. phiOp' = [z \in Phis |-> [u \in DOMAIN fn.op[z] |-> phiOp'[z][u]]]
    <3>1. \A z \in Phis : phiOp'[z] = [u \in DOMAIN fn.op[z] |-> phiOp'[z][u]]
      BY <1>1, <2>1
    <3>2. QED
      BY <1>1, <3>1
  <2>3. useOf' = [i \in Insts |-> useOf'[i]]
    BY <1>1
  <2>4. QED
    BY <1>1, <1>3, <2>2, <2>3 DEF TauInv, TextForm, TausForm
<1>5. ReadsOriginal'
  <2>1. ASSUME NEW z \in Phis, NEW u \in DOMAIN fn.op[z] PROVE Stands(phiOp[z][u], fn.op[z][u])'
    <3>1. Stands(phiOp[z][u], fn.op[z][u]) /\ u \in DOMAIN phiOp[z] /\ fn.op[z][u] \notin TauNames
      BY <1>2, ReadNoTau DEF TauInv, TextForm, ReadsOriginal
    <3>2. phiOp'[z][u] = phiOp[z][u] \/ phiOp'[z][u] = Outgoing(phiOp[z][u])
      BY <1>1, <3>1 DEF Sub
    <3>3. Stands(Outgoing(phiOp[z][u]), fn.op[z][u])
      BY <1>2, <3>1, OutgoingStands
    <3>4. Stands(phiOp'[z][u], fn.op[z][u])
      BY <3>1, <3>2, <3>3
    <3>5. QED
      BY <1>1, <1>3, <3>4 DEF Stands
  <2>2. ASSUME NEW i \in Insts PROVE Stands(useOf[i], fn.use[i])'
    <3>1. Stands(useOf[i], fn.use[i])
      BY DEF TauInv, ReadsOriginal
    <3>2. useOf'[i] = useOf[i] \/ useOf'[i] = Renamed(useOf[i])
      BY <1>1
    <3>3. Stands(useOf'[i], fn.use[i])
      BY <1>2, <3>1, <3>2, RenamedStands
    <3>4. QED
      BY <1>1, <1>3, <3>3 DEF Stands
  <2>3. \A x \in LiveTaus : Stands(operand[x], x.phi)'
    BY <1>1, <1>3 DEF TauInv, ReadsOriginal, Stands
  <2>4. QED
    BY <1>1, <1>3, <2>1, <2>2, <2>3 DEF ReadsOriginal
<1>6. PICK depth \in [Blocks -> Nat] : Ranked(depth) /\ VisitedOnce(depth) /\ Mapped(depth)
  BY DEF TauInv
<1>7. Searching'
  BY <1>1 DEF Searching
<1>8. Ranked(depth)' /\ VisitedOnce(depth)' /\ Chain'
  <2>1. Ranked(depth)'
    BY <1>1, <1>3, <1>6 DEF Ranked
  <2>2. VisitedOnce(depth)'
    BY <1>1, <1>2, <1>3, <1>6 DEF VisitedOnce
  <2>3. Chain'
    BY <1>1, <1>2 DEF Chain, Reachable
  <2>4. QED
    BY <2>1, <2>2, <2>3
<1>9. Mapped(depth)'
  <2>1. varstack = {}
    BY <1>1, <1>2, <1>6 DEF Mapped
  <2>2. QED
    BY <1>1, <1>2, <1>3, <1>6, <2>1 DEF Mapped, searchVars
<1>10. Stacked' /\ PushedInOrder'
  <2>1. ASSUME NEW z \in DOMAIN renaming_stack' PROVE OnStack(z, renaming_stack[z])'
    <3>1. PICK r : r = renaming_stack[z] /\ r = renaming_stack'[z]
      BY <1>1 DEF searchVars
    <3>2. OnStack(z, r)
      BY <1>1, <1>2, <3>1 DEF TauInv, Stacked, searchVars
    <3>3. OnStack(z, r)'
      BY <1>1, <1>3, <3>2, SameStack DEF searchVars
    <3>4. QED
      BY <3>1, <3>3 DEF OnStack
  <2>2. QED
    BY <1>1, <2>1 DEF Stacked, PushedInOrder
<1>11. MapTypes' /\ it' \in Nat \ {0}
  BY <1>1, <1>3, <1>7 DEF TauInv, MapTypes, searchVars, InsertedInOrder
<1>12. QED
  BY <1>1, <1>2, <1>3, <1>4, <1>5, <1>6, <1>8, <1>9, <1>10, <1>11, SearchingStep

\* The text and the maps stay in a step of Search that goes from one call to another.
LEMMA SearchingOn ==
    ASSUME TauInv, Searching, Searching',
           UNCHANGED <<fn, DT, HotPathSet, pos, textVars, allocVars, it, renaming_stack, hasTau, stackmap>>,
           Chain', PushedInOrder', \A z \in DOMAIN renaming_stack : OnStack(z, renaming_stack[z])',
           NEW depth \in [Blocks -> Nat], Ranked(depth), VisitedOnce(depth)', Mapped(depth)'
    PROVE  TauInv'
<1>1. /\ TauNames' = TauNames /\ Phis' = Phis /\ Insts' = Insts /\ LiveTaus' = LiveTaus
      /\ TextForm' /\ ReadsOriginal' /\ Ranked(depth)'
  BY SameText DEF TauInv
<1>2. Stacked'
  BY DEF Stacked
<1>3. MapTypes' /\ it' \in Nat \ {0}
  BY <1>1 DEF TauInv, MapTypes, InsertedInOrder
<1>4. QED
  BY <1>1, <1>2, <1>3, SearchingStep DEF Searching

LEMMA SearchChildTau == TauInv /\ SearchChild => TauInv'
<1> SUFFICES ASSUME TauInv, SearchChild PROVE TauInv'
  OBVIOUS
<1>1. /\ UNCHANGED <<fn, HotPathSet, pos, textVars, DT, searchVars, allocVars, it>>
      /\ pc = "searched" /\ pc' = "search"
  BY DEF SearchChild, walkVars
<1>2. PICK c \in ToVisit : VisitChild(c)
  BY DEF SearchChild
<1>3. Searching /\ Searching' /\ Ground /\ Chain /\ visit # << >>
  BY <1>1 DEF Searching, TauInv, Chain
<1>4. PICK n : n = Len(visit)
  OBVIOUS
<1>5. /\ n \in Nat \ {0} /\ DOMAIN visit = 1..n /\ n \in DOMAIN visit /\ Called = visit[n].block
      /\ ToVisit = visit[n].todo
      /\ \A k \in DOMAIN visit : visit[k].block \in Blocks
  BY <1>3, <1>4, Calling
<1>6. /\ Chain' /\ Len(visit') = n + 1 /\ DOMAIN visit' = 1..(n + 1)
      /\ c \in DOMAIN DT /\ DT[c] = Called
      /\ \A k \in DOMAIN visit : /\ k \in DOMAIN visit' /\ visit'[k].block = visit[k].block
                                 /\ visit'[k].todo \subseteq visit[k].todo
                                 /\ visit[k].block # c
      /\ visit'[n + 1].block = c
      /\ \A d \in visit'[n + 1].todo : d \in DOMAIN DT /\ DT[d] = c
  BY <1>1, <1>2, <1>3, <1>4, CallDown
<1>7. \A k \in DOMAIN visit' : k = n + 1 \/ (k \in DOMAIN visit /\ k # n + 1)
  BY <1>5, <1>6
<1>8. /\ Ground' /\ Above' = Above
      /\ TauNames' = TauNames /\ Phis' = Phis /\ Insts' = Insts /\ LiveTaus' = LiveTaus
  BY <1>1, <1>3, SameGround, SameText
<1>9. PICK depth \in [Blocks -> Nat] : Ranked(depth) /\ VisitedOnce(depth) /\ Mapped(depth)
  BY DEF TauInv
<1>10. depth[c] = 0 /\ \A k \in DOMAIN visit : depth[visit[k].block] = k
  BY <1>1, <1>2, <1>3, <1>5, <1>9 DEF VisitedOnce
<1>11. VisitedOnce(depth)'
  <2>1. ASSUME NEW k \in DOMAIN visit' PROVE Above[visit'[k].block] \subseteq {visit'[m].block : m \in 1..k}
    <3>1. \A j \in DOMAIN visit : Above[visit[j].block] \subseteq {visit'[m].block : m \in 1..j}
      <4>1. \A j \in DOMAIN visit : \A m \in 1..j : m \in DOMAIN visit
        BY <1>5
      <4>2. \A j \in DOMAIN visit : Above[visit[j].block] \subseteq {visit[m].block : m \in 1..j}
        BY <1>3, <1>9 DEF VisitedOnce
      <4>3. ASSUME NEW j \in DOMAIN visit, NEW a \in Above[visit[j].block]
            PROVE  \E m \in 1..j : a = visit'[m].block
        <5>1. PICK m \in 1..j : a = visit[m].block
          BY <4>2
        <5>2. QED
          BY <1>6, <4>1, <5>1
      <4>4. QED
        BY <4>3
    <3>2. CASE k \in DOMAIN visit
      BY <1>6, <3>1, <3>2
    <3>3. CASE k = n + 1
      <4>1. Above[c] = {c} \cup Above[Called]
        BY <1>3, <1>6, AboveEquation
      <4>2. Above[Called] \subseteq {visit'[m].block : m \in 1..n}
        BY <1>5, <3>1
      <4>3. n + 1 \in 1..(n + 1) /\ \A m \in 1..n : m \in 1..(n + 1)
        BY <1>5
      <4>4. QED
        BY <1>6, <3>3, <4>1, <4>2, <4>3
    <3>4. QED
      BY <1>7, <3>2, <3>3
  <2>2. \A k \in DOMAIN visit' : depth[visit'[k].block] = IF pc' = "search" /\ k = Len(visit') THEN 0 ELSE k
    BY <1>1, <1>6, <1>7, <1>10
  <2>3. ASSUME NEW k \in DOMAIN visit', NEW d \in visit'[k].todo PROVE depth[d] = 0
    <3>1. CASE k \in DOMAIN visit
      BY <1>3, <1>6, <1>9, <2>3, <3>1 DEF VisitedOnce
    <3>2. CASE k = n + 1
      <4>1. d \in DOMAIN DT /\ DT[d] = c
        BY <1>6, <2>3, <3>2
      <4>2. QED
        BY <1>3, <1>9, <1>10, <4>1 DEF VisitedOnce
    <3>3. QED
      BY <1>7, <3>1, <3>2
  <2>4. \A b \in DOMAIN DT : depth[b] # 0 => depth[DT[b]] # 0
    BY <1>3, <1>9 DEF VisitedOnce
  <2>5. QED
    BY <1>1, <1>8, <2>1, <2>2, <2>3, <2>4 DEF VisitedOnce
<1>12. Mapped(depth)'
  <2>1. varstack = {}
    BY <1>1, <1>3, <1>9 DEF Mapped
  <2>2. \A k \in DOMAIN visit' : depth[visit'[k].block] # 0 =>
            ToSet(fn.phis[visit'[k].block]) \subseteq DOMAIN renaming_stack
    BY <1>3, <1>6, <1>7, <1>9, <1>10 DEF Mapped
  <2>3. QED
    BY <1>1, <1>3, <1>8, <1>9, <2>1, <2>2 DEF Mapped, searchVars, textVars
<1>13. ASSUME NEW z \in DOMAIN renaming_stack PROVE OnStack(z, renaming_stack[z])'
  <2>1. PICK r : r = renaming_stack[z] /\ r = renaming_stack'[z]
    BY <1>1 DEF searchVars
  <2>2. OnStack(z, r)
    BY <1>3, <2>1 DEF TauInv, Stacked
  <2>3. pc # "pop" /\ pc' # "pop" /\ hasTau' = hasTau /\ stackmap' = stackmap
    BY <1>1 DEF searchVars
  <2>4. \A i \in DOMAIN r : i # 1 =>
            /\ r[i] \in LiveTaus /\ r[i].phi = z /\ r[i] \in DOMAIN stackmap
            /\ r[i].at # c
            /\ \E k \in DOMAIN visit' : visit'[k].block = r[i].at /\ <<r[i].at, z>> \in hasTau
    BY <1>6, <2>2 DEF OnStack
  <2>5. ASSUME NEW i \in DOMAIN r, NEW m \in DOMAIN r, NEW j \in DOMAIN visit', NEW k \in DOMAIN visit',
               i # 1, i < m, visit'[j].block = r[i].at, visit'[k].block = r[m].at
        PROVE  j < k
    <3>1. m # 1
      <4>1. r \in Seq(Phis \cup TauNames)
        BY <1>3, <2>1, TopStands
      <4>2. QED
        BY <2>5, <4>1
    <3>2. j \in DOMAIN visit /\ k \in DOMAIN visit
      BY <1>6, <1>7, <2>4, <2>5, <3>1
    <3>3. QED
      BY <1>6, <2>2, <2>5, <3>2 DEF OnStack
  <2>6. ASSUME NEW k \in DOMAIN visit', <<visit'[k].block, z>> \in hasTau
        PROVE  \E i \in DOMAIN r : i # 1 /\ r[i].at = visit'[k].block
    <3>1. depth[visit'[k].block] # 0
      BY <1>3, <1>9, <2>6 DEF Mapped
    <3>2. k \in DOMAIN visit
      BY <1>6, <1>7, <1>10, <3>1
    <3>3. QED
      BY <1>6, <2>2, <2>3, <2>6, <3>2 DEF OnStack, Unpopped
  <2>7. r[1] = z
    BY <2>2 DEF OnStack
  <2>8. QED
    BY <1>8, <2>1, <2>3, <2>4, <2>5, <2>6, <2>7 DEF OnStack, Unpopped
<1>14. PushedInOrder'
  BY <1>1 DEF PushedInOrder
<1>15. QED
  BY <1>1, <1>3, <1>6, <1>9, <1>11, <1>12, <1>13, <1>14, SearchingOn DEF searchVars

LEMMA SearchedChildrenTau == TauInv /\ SearchedChildren => TauInv'
<1> SUFFICES ASSUME TauInv, SearchedChildren PROVE TauInv'
  OBVIOUS
<1>1. /\ UNCHANGED <<fn, HotPathSet, pos, textVars, DT, visit, renaming_stack, hasTau, stackmap,
                     allocVars, it>>
      /\ pc = "searched" /\ pc' = "pop"
      /\ varstack' = {z \in DOMAIN renaming_stack : <<Called, z>> \in hasTau}
  BY DEF SearchedChildren, walkVars, PoppedAt
<1>2. Searching /\ Searching' /\ Ground /\ Chain /\ visit # << >>
  BY <1>1 DEF Searching, TauInv, Chain
<1>3. /\ Ground' /\ Above' = Above /\ Called' = Called
      /\ TauNames' = TauNames /\ Phis' = Phis /\ Insts' = Insts /\ LiveTaus' = LiveTaus
  BY <1>1, <1>2, SameGround, SameText DEF Called
<1>4. PICK depth \in [Blocks -> Nat] : Ranked(depth) /\ VisitedOnce(depth) /\ Mapped(depth)
  BY DEF TauInv
<1>5. Chain' /\ VisitedOnce(depth)' /\ PushedInOrder'
  BY <1>1, <1>2, <1>3, <1>4 DEF Chain, Reachable, VisitedOnce, PushedInOrder
<1>6. Mapped(depth)'
  BY <1>1, <1>2, <1>3, <1>4 DEF Mapped, textVars
<1>7. ASSUME NEW z \in DOMAIN renaming_stack PROVE OnStack(z, renaming_stack[z])'
  <2>1. PICK r : r = renaming_stack[z] /\ r = renaming_stack'[z]
    BY <1>1
  <2>2. OnStack(z, r)
    BY <1>2, <2>1 DEF TauInv, Stacked
  <2>3. \A k \in DOMAIN visit : <<visit[k].block, z>> \in hasTau => Unpopped(k, z)'
    <3>1. \A k \in DOMAIN visit : k = Len(visit) => visit[k].block = Called
      BY <1>2, Calling
    <3>2. QED
      BY <1>1, <3>1 DEF Unpopped
  <2>4. \A k \in DOMAIN visit : Unpopped(k, z)
    BY <1>1 DEF Unpopped
  <2>5. OnStack(z, r)'
    <3>1. r[1] = z
      BY <2>2 DEF OnStack
    <3>2. ASSUME NEW n \in DOMAIN r, n # 1
          PROVE  /\ r[n] \in LiveTaus' /\ r[n].phi = z /\ r[n] \in DOMAIN stackmap'
                 /\ \E k \in DOMAIN visit' : /\ visit'[k].block = r[n].at
                                             /\ <<r[n].at, z>> \in hasTau' /\ Unpopped(k, z)'
      <4>1. /\ r[n] \in LiveTaus /\ r[n].phi = z /\ r[n] \in DOMAIN stackmap
            /\ \E k \in DOMAIN visit : visit[k].block = r[n].at /\ <<r[n].at, z>> \in hasTau
        BY <2>2, <3>2 DEF OnStack
      <4>2. PICK k \in DOMAIN visit : visit[k].block = r[n].at /\ <<r[n].at, z>> \in hasTau
        BY <4>1
      <4>3. Unpopped(k, z)'
        BY <2>3, <4>2
      <4>4. QED
        BY <1>1, <1>3, <4>1, <4>2, <4>3
    <3>3. \A m, n \in DOMAIN r : \A j, k \in DOMAIN visit' :
              m # 1 /\ m < n /\ visit'[j].block = r[m].at /\ visit'[k].block = r[n].at => j < k
      BY <1>1, <2>2 DEF OnStack
    <3>4. \A k \in DOMAIN visit' : <<visit'[k].block, z>> \in hasTau' =>
              \E n \in DOMAIN r : n # 1 /\ r[n].at = visit'[k].block
      BY <1>1, <2>2, <2>4 DEF OnStack
    <3>5. QED
      BY <3>1, <3>2, <3>3, <3>4 DEF OnStack
  <2>6. QED
    BY <2>1, <2>5 DEF OnStack
<1>8. QED
  BY <1>1, <1>2, <1>4, <1>5, <1>6, <1>7, SearchingOn

\* What Search pops is the tau of the block at hand.
LEMMA PoppedHere ==
    ASSUME TauInv, pc = "pop", NEW z \in varstack
    PROVE  LET s == renaming_stack[z]
               t == Last(s)
           IN /\ z \in DOMAIN renaming_stack
              /\ s \in Seq(Phis \cup TauNames) /\ Len(s) \in Nat /\ Len(s) > 1
              /\ DOMAIN s = 1..Len(s)
              /\ t = s[Len(s)] /\ t \in LiveTaus /\ t.phi = z /\ t.at = Called
              /\ \A n \in DOMAIN s : n # 1 /\ n # Len(s) => s[n].at # Called
<1>1. Searching /\ Ground /\ Chain /\ visit # << >>
  BY DEF Searching, TauInv, Chain
<1>2. z \in DOMAIN renaming_stack /\ <<Called, z>> \in hasTau
  BY <1>1 DEF TauInv, Mapped
<1>3. PICK s : s = renaming_stack[z]
  OBVIOUS
<1>4. /\ s \in Seq(Phis \cup TauNames) /\ Len(s) \in Nat \ {0} /\ DOMAIN s = 1..Len(s)
      /\ Last(s) = s[Len(s)] /\ OnStack(z, s)
  BY <1>1, <1>2, <1>3, TopStands
<1>5. PICK n : n = Len(visit)
  OBVIOUS
<1>6. /\ n \in Nat \ {0} /\ DOMAIN visit = 1..n /\ Called = visit[n].block /\ n \in DOMAIN visit
  BY <1>1, <1>5, Calling
<1>7. PICK m \in DOMAIN s : m # 1 /\ s[m].at = Called
  BY <1>2, <1>4, <1>5, <1>6 DEF OnStack, Unpopped
<1>8. ASSUME NEW i \in DOMAIN s, i # 1, i # Len(s) PROVE s[i].at # Called
  <2>1. SUFFICES ASSUME s[i].at = Called PROVE FALSE
    OBVIOUS
  <2>2. i < Len(s) /\ Len(s) # 1 /\ Len(s) \in DOMAIN s
    BY <1>4, <1>8
  <2>3. PICK k \in DOMAIN visit : visit[k].block = s[Len(s)].at
    BY <1>4, <2>2 DEF OnStack
  <2>4. n < k
    BY <1>4, <1>6, <1>8, <2>1, <2>2, <2>3 DEF OnStack
  <2>5. QED
    BY <1>6, <2>4
<1>9. m = Len(s)
  BY <1>7, <1>8
<1>10. Len(s) > 1 /\ s[Len(s)] \in LiveTaus /\ s[Len(s)].phi = z /\ s[Len(s)].at = Called
  <2>1. s[m] \in LiveTaus /\ s[m].phi = z
    BY <1>4, <1>7 DEF OnStack
  <2>2. Len(s) > 1
    BY <1>4, <1>7, <1>9
  <2>3. QED
    BY <1>7, <1>9, <2>1, <2>2
<1>11. QED
  BY <1>2, <1>3, <1>4, <1>8, <1>10

\* Erasing a tau that nothing reads changes nothing else.
LEMMA ErasingUnused ==
    ASSUME TextForm, ReadsOriginal, NEW t \in LiveTaus, Unused(t), fn' = fn,
           phiOp' = phiOp, useOf' = useOf, taus' = Without(t),
           operand' = Restrict(operand, DOMAIN operand \ {t}),
           args' = Restrict(args, DOMAIN args \ {t})
    PROVE  /\ TextForm' /\ ReadsOriginal' /\ LiveTaus' = LiveTaus \ {t}
           /\ \A s \in LiveTaus' : operand'[s] = operand[s]
<1>1. TausForm' /\ LiveTaus' = LiveTaus \ {t}
  BY WithoutTau DEF TextForm
<1>2. Phis' = Phis /\ Insts' = Insts
  BY DEF Phis, Insts
<1>3. /\ operand' = [s \in LiveTaus' |-> operand[s]] /\ args' = [s \in LiveTaus' |-> args[s]]
  BY <1>1 DEF TextForm, Restrict
<1>4. TextForm'
  BY <1>1, <1>2, <1>3 DEF TextForm
<1>5. ReadsOriginal'
  <2>1. \A z \in Phis : \A u \in DOMAIN fn.op[z] : phiOp[z][u] # t /\ Stands(phiOp[z][u], fn.op[z][u])
    <3>1. \A z \in Phis : \A u \in DOMAIN fn.op[z] : phiOp[z][u] # t
      BY DEF Unused, TextForm
    <3>2. QED
      BY <3>1 DEF ReadsOriginal
  <2>2. \A i \in Insts : useOf[i] # t /\ Stands(useOf[i], fn.use[i])
    BY DEF Unused, ReadsOriginal
  <2>3. \A s \in LiveTaus : operand[s] # t /\ Stands(operand[s], s.phi)
    BY DEF Unused, ReadsOriginal
  <2>4. ASSUME NEW v, NEW w, v # t, Stands(v, w) PROVE v = w \/ (v \in LiveTaus' /\ v.phi = w)
    BY <1>1, <2>4 DEF Stands
  <2>5. ASSUME NEW z \in Phis, NEW u \in DOMAIN fn.op[z] PROVE Stands(phiOp[z][u], fn.op[z][u])'
    <3>1. \/ phiOp[z][u] = fn.op[z][u]
          \/ phiOp[z][u] \in LiveTaus' /\ phiOp[z][u].phi = fn.op[z][u]
      BY <2>1, <2>4
    <3>2. QED
      BY <3>1 DEF Stands
  <2>6. ASSUME NEW i \in Insts PROVE Stands(useOf[i], fn.use[i])'
    BY <2>2, <2>4 DEF Stands
  <2>7. ASSUME NEW s \in LiveTaus' PROVE Stands(operand[s], s.phi)'
    <3>1. s \in LiveTaus /\ operand'[s] = operand[s]
      BY <1>1, <1>3
    <3>2. QED
      BY <2>3, <2>4, <3>1 DEF Stands
  <2>8. QED
    BY <1>2, <2>5, <2>6, <2>7 DEF ReadsOriginal
<1>6. QED
  BY <1>1, <1>3, <1>4, <1>5

LEMMA SearchPopTau == TauInv /\ SearchPop => TauInv'
<1> SUFFICES ASSUME TauInv, SearchPop PROVE TauInv'
  OBVIOUS
<1>1. /\ UNCHANGED <<fn, HotPathSet, pos, phiOp, useOf, pc, DT, visit, hasTau, stackmap, allocVars, it>>
      /\ pc = "pop" /\ pc' = "pop"
  BY DEF SearchPop, walkVars
<1>2. PICK z \in varstack :
          LET t == Last(renaming_stack[z])
          IN /\ \/ /\ Unused(t) /\ taus' = Without(t)
                   /\ operand' = Restrict(operand, DOMAIN operand \ {t})
                   /\ args' = Restrict(args, DOMAIN args \ {t})
                \/ UNCHANGED <<taus, operand, args>>
             /\ renaming_stack' = [renaming_stack EXCEPT ![z] = Front(@)]
             /\ varstack' = varstack \ {z}
  BY DEF SearchPop
<1>3. Searching /\ Searching' /\ Ground /\ Chain /\ visit # << >>
  BY <1>1 DEF Searching, TauInv, Chain
<1>4. PICK s, t : s = renaming_stack[z] /\ t = Last(s)
  OBVIOUS
<1>5. /\ z \in DOMAIN renaming_stack
      /\ s \in Seq(Phis \cup TauNames) /\ Len(s) \in Nat /\ Len(s) > 1 /\ DOMAIN s = 1..Len(s)
      /\ t = s[Len(s)] /\ t \in LiveTaus /\ t.phi = z /\ t.at = Called
      /\ \A n \in DOMAIN s : n # 1 /\ n # Len(s) => s[n].at # Called
  BY <1>1, <1>4, PoppedHere
<1>6. /\ Ground' /\ Above' = Above /\ Called' = Called
      /\ TauNames' = TauNames /\ Phis' = Phis /\ Insts' = Insts
  BY <1>1, <1>3, SameGround DEF Called
<1>7. /\ TextForm' /\ ReadsOriginal' /\ LiveTaus' \subseteq LiveTaus /\ LiveTaus \ {t} \subseteq LiveTaus'
      /\ \A x \in LiveTaus' : operand'[x] = operand[x]
  <2>1. CASE UNCHANGED <<taus, operand, args>>
    <3>1. UNCHANGED textVars
      BY <1>1, <2>1 DEF textVars
    <3>2. QED
      BY <1>1, <2>1, <3>1, SameText DEF TauInv
  <2>2. CASE /\ Unused(t) /\ taus' = Without(t)
             /\ operand' = Restrict(operand, DOMAIN operand \ {t})
             /\ args' = Restrict(args, DOMAIN args \ {t})
    BY <1>1, <1>5, <2>2, ErasingUnused DEF TauInv
  <2>3. QED
    BY <1>2, <1>4, <2>1, <2>2
<1>8. PICK n : n = Len(visit)
  OBVIOUS
<1>9. /\ n \in Nat \ {0} /\ DOMAIN visit = 1..n /\ Called = visit[n].block /\ n \in DOMAIN visit
      /\ \A k \in DOMAIN visit : k # n => visit[k].block # Called
  BY <1>3, <1>8, Calling DEF Chain
<1>10. PICK r : r = Front(s)
  OBVIOUS
<1>11. /\ DOMAIN renaming_stack' = DOMAIN renaming_stack /\ renaming_stack'[z] = r
       /\ \A y \in DOMAIN renaming_stack : y # z => renaming_stack'[y] = renaming_stack[y]
       /\ varstack' = varstack \ {z}
  BY <1>2, <1>4, <1>5, <1>10
<1>12. /\ r \in Seq(Phis \cup TauNames) /\ Len(r) = Len(s) - 1 /\ DOMAIN r = 1..(Len(s) - 1)
       /\ \A i \in DOMAIN r : i \in DOMAIN s /\ i # Len(s) /\ r[i] = s[i]
       /\ \A i \in DOMAIN s : i # Len(s) => i \in DOMAIN r
       /\ r # << >> /\ 1 \in DOMAIN r
  <2> HIDE DEF Phis, TauNames
  <2>1. r \in Seq(Phis \cup TauNames) /\ Len(r) = Len(s) - 1 /\ \A i \in 1..(Len(s) - 1) : r[i] = s[i]
    BY <1>5, <1>10 DEF Front
  <2>2. DOMAIN r = 1..(Len(s) - 1)
    BY <2>1
  <2>3. \A i \in 1..(Len(s) - 1) : i \in 1..Len(s) /\ i # Len(s)
    BY <1>5
  <2>4. \A i \in 1..Len(s) : i # Len(s) => i \in 1..(Len(s) - 1)
    <3>1. \A l \in Nat : \A i \in 1..l : i # l => i \in 1..(l - 1)
      OBVIOUS
    <3>2. QED
      BY <1>5, <3>1
  <2>5. r # << >> /\ 1 \in DOMAIN r
    BY <1>5, <2>1, <2>2
  <2>6. \A i \in DOMAIN r : i \in DOMAIN s /\ i # Len(s) /\ r[i] = s[i]
    BY <1>5, <2>1, <2>2, <2>3
  <2>7. \A i \in DOMAIN s : i # Len(s) => i \in DOMAIN r
    BY <1>5, <2>2, <2>4
  <2>8. QED
    BY <2>1, <2>2, <2>5, <2>6, <2>7
<1>13. PICK depth \in [Blocks -> Nat] : Ranked(depth) /\ VisitedOnce(depth) /\ Mapped(depth)
  BY DEF TauInv
<1>14. Ranked(depth)'
  BY <1>7, <1>13 DEF Ranked
<1>15. Chain' /\ VisitedOnce(depth)' /\ PushedInOrder'
  <2>1. Chain'
    BY <1>1, <1>3 DEF Chain, Reachable
  <2>2. VisitedOnce(depth)'
    BY <1>1, <1>6, <1>13 DEF VisitedOnce, Searching
  <2>3. PushedInOrder'
    BY <1>1 DEF PushedInOrder
  <2>4. QED
    BY <2>1, <2>2, <2>3
<1>16. Mapped(depth)'
  <2>1. \A x \in LiveTaus' : x \notin DOMAIN stackmap' => operand'[x] = x.phi
    BY <1>1, <1>3, <1>7, <1>13 DEF Mapped
  <2>2. QED
    BY <1>1, <1>3, <1>6, <1>11, <1>13, <2>1 DEF Mapped
<1>17. Stacked'
  <2>1. ASSUME NEW y \in DOMAIN renaming_stack, y # z PROVE OnStack(y, renaming_stack[y])'
    <3>1. PICK q : q = renaming_stack[y] /\ q = renaming_stack'[y]
      BY <1>11, <2>1
    <3>2. OnStack(y, q)
      BY <1>3, <2>1, <3>1 DEF TauInv, Stacked
    <3>3. \A i \in DOMAIN q : i # 1 => q[i] \in LiveTaus'
      BY <1>5, <1>7, <2>1, <3>2 DEF OnStack
    <3>4. \A k \in DOMAIN visit : Unpopped(k, y)' <=> Unpopped(k, y)
      BY <1>1, <1>11, <2>1 DEF Unpopped
    <3>5. OnStack(y, q)'
      BY <1>1, <1>6, <3>2, <3>3, <3>4 DEF OnStack
    <3>6. QED
      BY <3>1, <3>5 DEF OnStack
  <2>2. OnStack(z, s)
    BY <1>3, <1>4, <1>5 DEF TauInv, Stacked
  <2>3. \A k \in DOMAIN visit : k # n => Unpopped(k, z)' /\ Unpopped(k, z)
    BY <1>1, <1>8 DEF Unpopped
  <2>4. ~ Unpopped(n, z)'
    BY <1>1, <1>8, <1>11 DEF Unpopped
  <2>5. OnStack(z, r)'
    <3>1. r[1] = z
      BY <1>12, <2>2 DEF OnStack
    <3>2. ASSUME NEW i \in DOMAIN r, i # 1
          PROVE  /\ r[i] \in LiveTaus' /\ r[i].phi = z /\ r[i] \in DOMAIN stackmap'
                 /\ \E k \in DOMAIN visit' : /\ visit'[k].block = r[i].at
                                             /\ <<r[i].at, z>> \in hasTau' /\ Unpopped(k, z)'
      <4>1. i \in DOMAIN s /\ i # Len(s) /\ r[i] = s[i]
        BY <1>12
      <4>2. s[i].at # Called
        BY <1>5, <3>2, <4>1
      <4>3. /\ s[i] \in LiveTaus /\ s[i].phi = z /\ s[i] \in DOMAIN stackmap
            /\ \E k \in DOMAIN visit : visit[k].block = s[i].at /\ <<s[i].at, z>> \in hasTau
        BY <2>2, <3>2, <4>1 DEF OnStack
      <4>4. s[i] # t
        BY <1>5, <4>2
      <4>5. PICK k \in DOMAIN visit : visit[k].block = s[i].at /\ <<s[i].at, z>> \in hasTau
        BY <4>3
      <4>6. k # n
        BY <1>9, <4>2, <4>5
      <4>7. QED
        BY <1>1, <1>7, <2>3, <4>1, <4>3, <4>4, <4>5, <4>6
    <3>3. \A i, m \in DOMAIN r : \A j, k \in DOMAIN visit' :
              i # 1 /\ i < m /\ visit'[j].block = r[i].at /\ visit'[k].block = r[m].at => j < k
      BY <1>1, <1>12, <2>2 DEF OnStack
    <3>4. ASSUME NEW k \in DOMAIN visit, <<visit[k].block, z>> \in hasTau, Unpopped(k, z)'
          PROVE  \E i \in DOMAIN r : i # 1 /\ r[i].at = visit[k].block
      <4>1. k # n
        BY <2>4, <3>4
      <4>2. PICK i \in DOMAIN s : i # 1 /\ s[i].at = visit[k].block
        BY <2>2, <2>3, <3>4, <4>1 DEF OnStack
      <4>3. i # Len(s)
        BY <1>5, <1>9, <4>1, <4>2
      <4>4. QED
        BY <1>12, <4>2, <4>3
    <3>5. QED
      BY <1>1, <3>1, <3>2, <3>3, <3>4 DEF OnStack
  <2>6. OnStack(z, renaming_stack[z])'
    BY <1>11, <2>5 DEF OnStack
  <2>7. QED
    BY <1>11, <2>1, <2>6 DEF Stacked
<1>18. MapTypes'
  <2>1. renaming_stack' \in [DOMAIN renaming_stack' -> Seq(Phis \cup TauNames) \ {<< >>}]
    BY <1>2, <1>4, <1>5, <1>10, <1>12 DEF TauInv, MapTypes
  <2>2. \A y \in DOMAIN renaming_stack' : renaming_stack'[y][1] = y
    <3>1. r[1] = z
      BY <1>4, <1>5, <1>12 DEF TauInv, MapTypes
    <3>2. QED
      BY <1>11, <3>1 DEF TauInv, MapTypes
  <2>3. QED
    BY <1>1, <1>3, <1>6, <1>11, <2>1, <2>2 DEF TauInv, MapTypes
<1>19. it' \in Nat \ {0}
  BY <1>1 DEF TauInv, InsertedInOrder
<1>20. QED
  BY <1>1, <1>3, <1>7, <1>13, <1>14, <1>15, <1>16, <1>17, <1>18, <1>19, SearchingStep

LEMMA SearchReturnTau == TauInv /\ SearchReturn => TauInv'
<1> SUFFICES ASSUME TauInv, SearchReturn PROVE TauInv'
  OBVIOUS
<1>1. /\ UNCHANGED <<fn, HotPathSet, pos, textVars, DT, searchVars, allocVars, it>>
      /\ pc = "pop" /\ varstack = {}
      /\ \/ Len(visit) > 1 /\ visit' = Front(visit) /\ pc' = "searched"
         \/ ~ (Len(visit) > 1) /\ visit' = <<Call(fn.entry)>> /\ pc' = "allocate"
  BY DEF SearchReturn, walkVars
<1>2. Searching /\ Ground /\ Chain /\ visit # << >>
  BY <1>1 DEF Searching, TauInv, Chain
<1>3. PICK n : n = Len(visit)
  OBVIOUS
<1>4. n \in Nat \ {0} /\ DOMAIN visit = 1..n /\ n \in DOMAIN visit
  BY <1>2, <1>3, Calling
<1>5. /\ Ground' /\ Above' = Above
      /\ TauNames' = TauNames /\ Phis' = Phis /\ Insts' = Insts /\ LiveTaus' = LiveTaus
      /\ TextForm' /\ ReadsOriginal'
  BY <1>1, <1>2, SameGround, SameText DEF TauInv
<1>6. PICK depth \in [Blocks -> Nat] : Ranked(depth) /\ VisitedOnce(depth) /\ Mapped(depth)
  BY DEF TauInv
<1>7. CASE Len(visit) > 1 /\ visit' = Front(visit) /\ pc' = "searched"
  <2>1. Searching'
    BY <1>7 DEF Searching
  <2>2. /\ Chain' /\ Len(visit') = n - 1 /\ DOMAIN visit' = 1..(n - 1)
        /\ \A k \in DOMAIN visit' : k \in DOMAIN visit /\ k < n /\ visit'[k] = visit[k]
        /\ \A k \in DOMAIN visit : k # n => k \in DOMAIN visit'
    BY <1>1, <1>2, <1>3, <1>4, <1>7, CallUp
  <2>3. VisitedOnce(depth)'
    <3>1. ASSUME NEW k \in DOMAIN visit' PROVE Above[visit'[k].block] \subseteq {visit'[m].block : m \in 1..k}
      <4>1. Above[visit[k].block] \subseteq {visit[m].block : m \in 1..k}
        BY <1>2, <1>6, <2>2 DEF VisitedOnce
      <4>2. \A m \in 1..k : visit'[m] = visit[m]
        BY <1>4, <2>2
      <4>3. QED
        BY <2>2, <4>1, <4>2
    <3>2. \A k \in DOMAIN visit : depth[visit[k].block] = k
      BY <1>1, <1>2, <1>6 DEF VisitedOnce
    <3>3. QED
      BY <1>2, <1>5, <1>6, <1>7, <2>2, <3>1, <3>2, <1>1 DEF VisitedOnce
  <2>4. Mapped(depth)'
    <3>1. \A k \in DOMAIN visit' : depth[visit'[k].block] # 0 =>
              ToSet(fn.phis[visit'[k].block]) \subseteq DOMAIN renaming_stack
      BY <1>2, <1>6, <2>2 DEF Mapped
    <3>2. QED
      BY <1>1, <1>2, <1>5, <1>6, <3>1 DEF Mapped, searchVars, textVars
  <2>5. ASSUME NEW z \in DOMAIN renaming_stack PROVE OnStack(z, renaming_stack[z])'
    <3>1. PICK r : r = renaming_stack[z] /\ r = renaming_stack'[z]
      BY <1>1 DEF searchVars
    <3>2. OnStack(z, r)
      BY <1>2, <3>1 DEF TauInv, Stacked
    <3>3. /\ ~ Unpopped(n, z) /\ \A k \in DOMAIN visit : k # n => Unpopped(k, z)
          /\ \A k \in DOMAIN visit' : Unpopped(k, z)'
      BY <1>1, <1>3, <1>7 DEF Unpopped
    <3>4. \A i \in DOMAIN r : i # 1 =>
              /\ r[i] \in LiveTaus /\ r[i].phi = z /\ r[i] \in DOMAIN stackmap
              /\ \E k \in DOMAIN visit' : visit'[k].block = r[i].at /\ <<r[i].at, z>> \in hasTau
      BY <2>2, <3>2, <3>3 DEF OnStack
    <3>5. \A i, m \in DOMAIN r : \A j, k \in DOMAIN visit' :
              i # 1 /\ i < m /\ visit'[j].block = r[i].at /\ visit'[k].block = r[m].at => j < k
      BY <2>2, <3>2 DEF OnStack
    <3>6. \A k \in DOMAIN visit' : <<visit'[k].block, z>> \in hasTau =>
              \E i \in DOMAIN r : i # 1 /\ r[i].at = visit'[k].block
      <4>1. \A k \in DOMAIN visit' : k \in DOMAIN visit /\ k # n /\ visit'[k] = visit[k]
        BY <1>4, <2>2
      <4>2. QED
        BY <3>2, <3>3, <4>1 DEF OnStack
    <3>7. r[1] = z
      BY <3>2 DEF OnStack
    <3>8. hasTau' = hasTau /\ stackmap' = stackmap
      BY <1>1 DEF searchVars
    <3>9. OnStack(z, r)'
      BY <1>5, <3>3, <3>4, <3>5, <3>6, <3>7, <3>8 DEF OnStack
    <3>10. QED
      BY <3>1, <3>9 DEF OnStack
  <2>6. PushedInOrder'
    BY <1>7 DEF PushedInOrder
  <2>7. QED
    BY <1>1, <1>2, <1>6, <2>1, <2>2, <2>3, <2>4, <2>5, <2>6, SearchingOn DEF searchVars
<1>8. CASE ~ (Len(visit) > 1) /\ visit' = <<Call(fn.entry)>> /\ pc' = "allocate"
  <2>1. ~ Starting' /\ ~ Searching' /\ PcType'
    BY <1>8 DEF Starting, Searching, PcType
  <2>2. Chain'
    BY <1>1, <1>2, <1>8, FirstCall
  <2>3. Untouched' /\ BelowPhi' /\ PushedInOrder' /\ Stacked' /\ VisitedOnce(depth)' /\ Mapped(depth)'
    BY <1>8, <2>1 DEF Untouched, BelowPhi, PushedInOrder, Stacked, VisitedOnce, Mapped
  <2>4. InsertedInOrder' /\ Accumulators'
    BY <1>1, <1>5, <1>8 DEF TauInv, InsertedInOrder, Accumulators, allocVars
  <2>5. Framed'
    <3>1. phiStack' = phiStack /\ \A z \in Phis : phiStack[z] = << >>
      BY <1>1, <1>2 DEF TauInv, Framed, allocVars
    <3>2. DOMAIN phiStack = Phis /\ \A z \in Phis : phiStack[z] \in Seq(ToSet(phiStack[z]))
      BY DEF TauInv, Framed
    <3>3. QED
      BY <1>5, <3>1, <3>2 DEF Framed
  <2>6. MapTypes'
    <3>1. ASSUME NEW z \in DOMAIN renaming_stack PROVE renaming_stack[z] = <<z>>
      <4>1. PICK r : r = renaming_stack[z]
        OBVIOUS
      <4>2. /\ r \in Seq(Phis \cup TauNames) /\ Len(r) \in Nat \ {0} /\ DOMAIN r = 1..Len(r)
            /\ OnStack(z, r)
        BY <1>2, <4>1, TopStands
      <4>3. \A k \in DOMAIN visit : ~ Unpopped(k, z)
        BY <1>1, <1>3, <1>4, <1>8 DEF Unpopped
      <4>4. \A i \in DOMAIN r : i = 1
        BY <4>2, <4>3 DEF OnStack
      <4>5. Len(r) = 1 /\ r[1] = z
        BY <4>2, <4>4 DEF OnStack
      <4> HIDE DEF Phis, TauNames
      <4>6. r = <<z>>
        BY <4>2, <4>5
      <4>7. QED
        BY <4>1, <4>6
    <3>2. QED
      BY <1>1, <1>5, <3>1 DEF TauInv, MapTypes, searchVars
  <2>7. Ranked(depth)'
    BY <1>1, <1>6, SameText
  <2>8. QED
    BY <1>5, <1>6, <2>1, <2>2, <2>3, <2>4, <2>5, <2>6, <2>7 DEF TauInv
<1>9. QED
  BY <1>1, <1>7, <1>8

----------------------------------------------------------------------------
(* One lemma for each action of AllocateArgs.                              *)

\* A set of numbers that are at most n has a greatest one.
LEMMA Greatest ==
    ASSUME NEW n \in Nat, NEW T \in SUBSET (0..n), T # {}
    PROVE  Max(T) \in T /\ \A y \in T : y <= Max(T)
<1> DEFINE D == {n - x : x \in T}
<1>1. D \in SUBSET Nat /\ D # {}
  <2>1. \A x \in T : n - x \in Nat
    OBVIOUS
  <2>2. PICK x \in T : TRUE
    OBVIOUS
  <2>3. QED
    BY <2>1, <2>2
<1>2. PICK d \in D : \A e \in D : d <= e
  BY <1>1, LeastNumber
<1>3. PICK x \in T : d = n - x
  BY <1>2
<1>4. \A y \in T : n - x <= n - y
  BY <1>2, <1>3
<1>5. \A y \in T : x >= y
  BY <1>4
<1>6. QED
  BY <1>5 DEF Max

\* What pStack::pop leaves are frames from the bottom, the last of another block.
LEMMA PopsFrames ==
    ASSUME NEW X, NEW frames \in Seq(X), NEW b
    PROVE  /\ Popped(frames, b) \in Seq(X)
           /\ \E n \in 0..Len(frames) :
                 /\ DOMAIN Popped(frames, b) = 1..n
                 /\ \A i \in 1..n : i \in DOMAIN frames /\ Popped(frames, b)[i] = frames[i]
                 /\ n # 0 => frames[n][2] # b
<1> DEFINE T == {0} \cup {n \in DOMAIN frames : frames[n][2] # b}
<1>1. Len(frames) \in Nat /\ DOMAIN frames = 1..Len(frames)
  OBVIOUS
<1>2. T \in SUBSET (0..Len(frames)) /\ T # {}
  BY <1>1
<1>3. PICK n : n = Max(T)
  OBVIOUS
<1>4. n \in T
  BY <1>1, <1>2, <1>3, Greatest
<1>5. n \in 0..Len(frames) /\ (n # 0 => frames[n][2] # b)
  BY <1>1, <1>4
<1>6. Popped(frames, b) = SubSeq(frames, 1, n)
  BY <1>3 DEF Popped
<1> HIDE DEF T
<1>7. \A i \in 1..n : i \in 1..Len(frames) /\ frames[i] \in X
  BY <1>1, <1>5
<1>8. /\ SubSeq(frames, 1, n) \in Seq(X)
      /\ DOMAIN SubSeq(frames, 1, n) = 1..n
      /\ \A i \in 1..n : SubSeq(frames, 1, n)[i] = frames[i]
  BY <1>1, <1>5, <1>7
<1>9. QED
  BY <1>1, <1>5, <1>6, <1>7, <1>8

\* Frames of the call in progress go on top.
LEMMA PushesFrame ==
    ASSUME NEW frames, frames \in Seq(ToSet(frames)), NEW d, NEW b
    PROVE  LET g == Append(frames, <<d, b>>)
           IN /\ g \in Seq(ToSet(g))
              /\ \A i \in DOMAIN g : (i \in DOMAIN frames /\ g[i] = frames[i])
                                     \/ (i \notin DOMAIN frames /\ i > Len(frames) /\ g[i][2] = b)
              /\ \A i \in DOMAIN frames : i \in DOMAIN g /\ g[i] = frames[i]
<1> DEFINE X == ToSet(frames) \cup {<<d, b>>}
           g == Append(frames, <<d, b>>)
<1>1. frames \in Seq(X) /\ <<d, b>> \in X /\ <<d, b>>[2] = b
  OBVIOUS
<1>2. PICK e : e = <<d, b>>
  OBVIOUS
<1> HIDE DEF X
<1>3. /\ Append(frames, e) \in Seq(X) /\ Len(Append(frames, e)) = Len(frames) + 1
      /\ \A i \in 1..Len(frames) : Append(frames, e)[i] = frames[i]
      /\ Append(frames, e)[Len(frames) + 1] = e
      /\ Len(frames) \in Nat /\ DOMAIN frames = 1..Len(frames)
  BY <1>1, <1>2, AppendProperties
<1>4. DOMAIN Append(frames, e) = 1..(Len(frames) + 1)
  BY <1>3
<1>5. g = Append(frames, e)
  BY <1>2
<1> HIDE DEF g
<1>6. g \in Seq(ToSet(g))
  <2>1. \A i \in DOMAIN g : g[i] \in ToSet(g)
    BY DEF ToSet
  <2>2. g \in Seq(X)
    BY <1>3, <1>5
  <2>3. g \in [1..Len(g) -> ToSet(g)] /\ Len(g) \in Nat
    BY <2>1, <2>2
  <2>4. QED
    BY <2>3
<1>7. \A i \in DOMAIN g : i \in 1..Len(frames) \/ (i = Len(frames) + 1 /\ i \notin 1..Len(frames))
  BY <1>3, <1>4, <1>5
<1>8. QED
  BY <1>1, <1>2, <1>3, <1>4, <1>5, <1>6, <1>7 DEF g

\* The frames of one phi stand in the order of the calls.
FramesInOrder(frames) ==
    /\ frames \in Seq(ToSet(frames))
    /\ \A n \in DOMAIN frames : \E k \in DOMAIN visit : visit[k].block = frames[n][2]
    /\ \A m, n \in DOMAIN frames : \A j, k \in DOMAIN visit :
          m < n /\ visit[j].block = frames[m][2] /\ visit[k].block = frames[n][2] => j <= k

\* A frame of the call in progress does too.
LEMMA PushedInCalls ==
    ASSUME Ground, Chain, visit # << >>, NEW frames, FramesInOrder(frames), NEW d
    PROVE  FramesInOrder(Append(frames, <<d, Called>>))
<1>1. PICK g : g = Append(frames, <<d, Called>>)
  OBVIOUS
<1>2. /\ g \in Seq(ToSet(g))
      /\ \A i \in DOMAIN g : (i \in DOMAIN frames /\ g[i] = frames[i])
                             \/ (i \notin DOMAIN frames /\ i > Len(frames) /\ g[i][2] = Called)
  BY <1>1, PushesFrame DEF FramesInOrder
<1>3. PICK l : l = Len(visit)
  OBVIOUS
<1>4. l \in Nat \ {0} /\ DOMAIN visit = 1..l /\ l \in DOMAIN visit /\ Called = visit[l].block
  BY <1>3, Calling
<1>5. ASSUME NEW n \in DOMAIN g PROVE \E k \in DOMAIN visit : visit[k].block = g[n][2]
  BY <1>2, <1>4, <1>5 DEF FramesInOrder
<1>6. ASSUME NEW m \in DOMAIN g, NEW n \in DOMAIN g, NEW j \in DOMAIN visit, NEW k \in DOMAIN visit,
             m < n, visit[j].block = g[m][2], visit[k].block = g[n][2]
      PROVE  j <= k
  <2>1. CASE n \notin DOMAIN frames
    <3>1. visit[k].block = visit[l].block
      BY <1>2, <1>4, <1>6, <2>1
    <3>2. k = l
      BY <1>4, <3>1 DEF Chain
    <3>3. QED
      BY <1>4, <3>2
  <2>2. CASE n \in DOMAIN frames
    <3>1. m \in DOMAIN frames
      <4>1. Len(frames) \in Nat /\ DOMAIN frames = 1..Len(frames)
        BY DEF FramesInOrder
      <4>2. g \in Seq(ToSet(g)) /\ m \in Nat
        BY <1>2
      <4>3. m \notin DOMAIN frames => m > Len(frames)
        BY <1>2
      <4>4. n \in 1..Len(frames)
        BY <2>2, <4>1
      <4>5. QED
        BY <1>6, <4>1, <4>2, <4>3, <4>4
    <3>2. QED
      BY <1>2, <1>6, <2>2, <3>1 DEF FramesInOrder
  <2>3. QED
    BY <2>1, <2>2
<1>7. QED
  BY <1>1, <1>2, <1>5, <1>6 DEF FramesInOrder

\* Framed in terms of one phi.
LEMMA FramedByPhi ==
    ASSUME ~ Starting, ~ Searching
    PROVE  Framed <=> DOMAIN phiStack = Phis /\ \A z \in Phis : FramesInOrder(phiStack[z])
BY DEF Framed, FramesInOrder

\* The call stack while it stays.
LEMMA SameCalls ==
    ASSUME visit' = visit, NEW frames, FramesInOrder(frames)
    PROVE  FramesInOrder(frames)'
BY DEF FramesInOrder

LEMMA AllocatePhisTau == TauInv /\ AllocatePhis => TauInv'
<1> SUFFICES ASSUME TauInv, AllocatePhis PROVE TauInv'
  OBVIOUS
<1> DEFINE own(z) == IF deFrame(z) = {} THEN phiStack[z]
                     ELSE Append(phiStack[z], <<deFrame(z), Called>>)
           pushed(z) == IF z \notin ToSet(fn.phis[Called]) THEN phiStack[z]
                        ELSE IF incubationPaths = {} THEN own(z)
                        ELSE Append(own(z), <<newFrame(z, topFrame(own(z))), Called>>)
<1>1. /\ UNCHANGED <<fn, HotPathSet, pos, textVars, DT, visit, searchVars>>
      /\ pc = "allocate" /\ pc' = "taus" /\ it' = 1
      /\ phiStack' = [z \in Phis |-> pushed(z)]
      /\ defAcc' = [x \in DOMAIN defAcc |->
                 IF x[1] = Called /\ x[2] \in ToSet(fn.phis[Called])
                 THEN deFrame(x[2]) ELSE defAcc[x]]
  BY DEF AllocatePhis, walkVars
<1>2. ~ Starting /\ ~ Searching /\ ~ Starting' /\ ~ Searching' /\ Ground /\ Chain /\ visit # << >>
  BY <1>1 DEF Starting, Searching, TauInv, Chain
<1>3. Phis' = Phis
  BY <1>1 DEF Phis
<1>4. DOMAIN phiStack = Phis /\ \A z \in Phis : FramesInOrder(phiStack[z])
  BY <1>2, FramedByPhi DEF TauInv
<1>5. \A z \in Phis : FramesInOrder(own(z))
  BY <1>2, <1>4, PushedInCalls
<1> HIDE DEF own
<1>6. \A z \in Phis : FramesInOrder(pushed(z))
  BY <1>2, <1>4, <1>5, PushedInCalls
<1> HIDE DEF pushed
<1>7. Framed'
  <2>1. ASSUME NEW z \in Phis PROVE FramesInOrder(phiStack[z])'
    <3>1. PICK frames : frames = pushed(z)
      OBVIOUS
    <3>2. FramesInOrder(frames) /\ phiStack'[z] = frames
      BY <1>1, <1>6, <3>1
    <3>3. FramesInOrder(frames)'
      BY <1>1, <3>2, SameCalls
    <3>4. QED
      BY <3>2, <3>3 DEF FramesInOrder
  <2>2. DOMAIN phiStack' = Phis
    BY <1>1
  <2>3. (DOMAIN phiStack = Phis)' /\ (\A z \in Phis : FramesInOrder(phiStack[z]))'
    BY <1>3, <2>1, <2>2
  <2>4. (Framed <=> DOMAIN phiStack = Phis /\ \A z \in Phis : FramesInOrder(phiStack[z]))'
    BY <1>2 DEF Framed, FramesInOrder
  <2>5. QED
    BY <2>3, <2>4
<1>8. Accumulators'
  <2>1. \A x \in Blocks \X Phis : \A d \in defAcc[x] : d[2] \in HotPathSet[x[1]]
    BY DEF TauInv, Accumulators
  <2>2. Called \in Blocks
    BY <1>2, Calling
  <2>3. ASSUME NEW z \in Phis, NEW d \in deFrame(z) PROVE d[2] \in HotPathSet[Called]
    <3>1. CASE d \in defAcc[<<Called, z>>]
      <4>1. <<Called, z>> \in Blocks \X Phis /\ <<Called, z>>[1] = Called
        BY <2>2
      <4>2. QED
        BY <2>1, <3>1, <4>1
    <3>2. CASE \E u \in Preds(fn, Called) : d \in Arrives(z, u, HotPathSet[u] \cap Hot)
      <4>1. PICK u \in Preds(fn, Called) : d \in Arrives(z, u, HotPathSet[u] \cap Hot)
        BY <3>2
      <4>2. PICK p \in HotPathSet[u] \cap Hot : d = <<phiOp[z][u], p>>
        BY <4>1 DEF Arrives
      <4>3. QED
        BY <4>2 DEF Hot
    <3>3. QED
      BY <2>3, <3>1, <3>2 DEF deFrame
  <2>4. DOMAIN defAcc = Blocks \X Phis /\ DOMAIN defAcc' = Blocks \X Phis
    BY <1>1 DEF TauInv, Accumulators
  <2>5. ASSUME NEW x \in Blocks \X Phis, NEW d \in defAcc'[x] PROVE d[2] \in HotPathSet[x[1]]
    <3>1. CASE x[1] = Called /\ x[2] \in ToSet(fn.phis[Called])
      <4>1. x[2] \in Phis /\ defAcc'[x] = deFrame(x[2])
        BY <1>1, <2>4, <3>1
      <4>2. QED
        BY <2>3, <2>5, <3>1, <4>1
    <3>2. CASE ~ (x[1] = Called /\ x[2] \in ToSet(fn.phis[Called]))
      <4>1. defAcc'[x] = defAcc[x]
        BY <1>1, <2>4, <3>2
      <4>2. QED
        BY <2>1, <2>5, <4>1
    <3>3. QED
      BY <3>1, <3>2
  <2>6. QED
    BY <1>1, <1>3, <2>4, <2>5 DEF Accumulators
<1>9. TextForm' /\ ReadsOriginal' /\ \A depth \in [Blocks -> Nat] : Ranked(depth) => Ranked(depth)'
  BY <1>1, SameText DEF TauInv
<1>10. Chain'
  BY <1>1, <1>2 DEF Chain, Reachable
<1>11. QED
  BY <1>1, <1>2, <1>7, <1>8, <1>9, <1>10, LaterStep

\* One tau is replaced by another, or the text stays.
LEMMA AllocateTauText ==
    ASSUME TauInv, AllocateTau
    PROVE  /\ TextForm' /\ ReadsOriginal' /\ \A depth \in [Blocks -> Nat] : Ranked(depth) => Ranked(depth)'
           /\ UNCHANGED textVars \/ \E old, new : Replaced(old, new)
<1>1. fn' = fn /\ pc = "taus" /\ it \in DOMAIN taus[Called]
  BY DEF AllocateTau, walkVars
<1>2. Ground /\ Chain /\ visit # << >>
  BY <1>1 DEF TauInv, Chain
<1>3. PICK old : old = taus[Called][it]
  OBVIOUS
<1>4. PICK new : new = [old EXCEPT !.gen = 2]
  OBVIOUS
<1>5. CASE phiStack[old.phi] = << >>
  <2>1. UNCHANGED textVars
    BY <1>3, <1>5 DEF AllocateTau
  <2> QED
    BY <1>1, <2>1, SameText DEF TauInv
<1>6. CASE phiStack[old.phi] # << >>
  <2> DEFINE hotArgs == {d[1] : d \in {e \in topFrame(phiStack[old.phi]) : e[2] \in Hot}}
  <2>1. PICK hot : hot = hotArgs
    OBVIOUS
  <2>2. /\ taus' = [taus EXCEPT ![Called][it] = new]
        /\ operand' = Over([t \in {new} |-> operand[old]],
                         Restrict(OperandWith(old, new), DOMAIN operand \ {old}))
        /\ args' = Over([t \in {new} |-> {Sub(old, new, x) : x \in hot}],
                      Restrict(ArgsWith(old, new), DOMAIN operand \ {old}))
        /\ phiOp' = PhiOpWith(old, new)
        /\ useOf' = UseOfWith(old, new)
    BY <1>3, <1>4, <1>6, <2>1 DEF AllocateTau
  <2>3. Called \in Blocks
    BY <1>2, Calling
  <2> HIDE DEF hotArgs
  <2>4. ASSUME NEW depth \in [Blocks -> Nat], Ranked(depth)
        PROVE  TextForm' /\ ReadsOriginal' /\ Ranked(depth)' /\ Replaced(old, new)
    <3>1. TextForm /\ ReadsOriginal /\ fn' = fn /\ Ground
      BY <1>1, <1>2 DEF TauInv
    <3>2. PICK g, h : /\ g = [t \in {new} |-> operand[old]]
                      /\ h = [t \in {new} |-> {Sub(old, new, x) : x \in hot}]
      OBVIOUS
    <3>3. DOMAIN g = {new} /\ g[new] = operand[old] /\ DOMAIN h = {new}
      BY <3>2
    <3>4. Replaces(Called, it, old, new, g, h)
      BY <1>1, <1>3, <1>4, <2>2, <2>3, <3>2, <3>3 DEF Replaces
    <3> QED
      BY <2>4, <3>1, <3>4, ReplacingTau
  <2>5. \E depth \in [Blocks -> Nat] : Ranked(depth)
    BY DEF TauInv
  <2> QED
    BY <2>4, <2>5
<1> QED
  BY <1>5, <1>6

LEMMA AllocateTauTau == TauInv /\ AllocateTau => TauInv'
<1> SUFFICES ASSUME TauInv, AllocateTau PROVE TauInv'
  OBVIOUS
<1>1. /\ UNCHANGED <<fn, HotPathSet, pos, pc, DT, visit, searchVars, defAcc, phiStack>>
      /\ pc = "taus" /\ it \in DOMAIN taus[Called] /\ it' = it + 1
  BY DEF AllocateTau, walkVars
<1>2. ~ Starting /\ ~ Searching /\ Ground /\ Chain /\ visit # << >>
  BY <1>1 DEF Starting, Searching, TauInv, Chain
<1>3. TextForm' /\ ReadsOriginal' /\ \A depth \in [Blocks -> Nat] : Ranked(depth) => Ranked(depth)'
  BY AllocateTauText
<1>4. Phis' = Phis
  BY <1>1 DEF Phis
<1>5. Chain' /\ Framed' /\ Accumulators'
  BY <1>1, <1>2, <1>4 DEF TauInv, Chain, Reachable, Framed, Accumulators, Starting, Searching
<1>6. it' \in Nat \ {0}
  BY <1>1 DEF TauInv, InsertedInOrder
<1>7. QED
  BY <1>1, <1>2, <1>3, <1>5, <1>6, LaterStep

LEMMA AllocateSuccessorsTau == TauInv /\ AllocateSuccessors => TauInv'
<1> SUFFICES ASSUME TauInv, AllocateSuccessors PROVE TauInv'
  OBVIOUS
<1>1. /\ UNCHANGED <<fn, HotPathSet, pos, textVars, DT, visit, searchVars, phiStack, it>>
      /\ pc = "taus" /\ pc' = "allocated"
      /\ defAcc' = [x \in DOMAIN defAcc |->
            IF x[1] \in Succs(fn, Called) /\ Cardinality(PredEdges(fn, x[1])) > 1
            THEN defAcc[x] \cup {d \in topFrame(phiStack[x[2]]) : d[2] \in Hot \cap HotPathSet[x[1]]}
            ELSE defAcc[x]]
  BY DEF AllocateSuccessors, walkVars
<1>2. ~ Starting /\ ~ Searching /\ Ground /\ Chain
  BY <1>1 DEF Starting, Searching, TauInv
<1>3. Phis' = Phis
  BY <1>1 DEF Phis
<1>4. Chain' /\ Framed'
  BY <1>1, <1>2, <1>3 DEF TauInv, Chain, Reachable, Framed, Starting, Searching
<1>5. Accumulators'
  <2>1. \A x \in Blocks \X Phis : \A d \in defAcc[x] : d[2] \in HotPathSet[x[1]]
    BY DEF TauInv, Accumulators
  <2>2. DOMAIN defAcc = Blocks \X Phis /\ DOMAIN defAcc' = Blocks \X Phis
    BY <1>1 DEF TauInv, Accumulators
  <2>3. ASSUME NEW x \in Blocks \X Phis, NEW d \in defAcc'[x]
        PROVE  d \in defAcc[x] \/ d[2] \in HotPathSet[x[1]]
    BY <1>1, <2>2, <2>3
  <2>4. QED
    BY <1>1, <1>3, <2>1, <2>2, <2>3 DEF Accumulators
<1>6. TextForm' /\ ReadsOriginal' /\ \A depth \in [Blocks -> Nat] : Ranked(depth) => Ranked(depth)'
  BY <1>1, SameText DEF TauInv
<1>7. it' \in Nat \ {0}
  BY <1>1 DEF TauInv, InsertedInOrder
<1>8. QED
  BY <1>1, <1>2, <1>4, <1>5, <1>6, <1>7, LaterStep

LEMMA AllocateChildTau == TauInv /\ AllocateChild => TauInv'
<1> SUFFICES ASSUME TauInv, AllocateChild PROVE TauInv'
  OBVIOUS
<1>1. /\ UNCHANGED <<fn, HotPathSet, pos, textVars, DT, searchVars, allocVars, it>>
      /\ pc = "allocated" /\ pc' = "allocate"
  BY DEF AllocateChild, walkVars
<1>2. PICK c \in ToVisit : VisitChild(c)
  BY DEF AllocateChild
<1>3. ~ Starting /\ ~ Searching /\ ~ Starting' /\ ~ Searching' /\ Ground /\ Chain /\ visit # << >>
  BY <1>1 DEF Starting, Searching, TauInv, Chain
<1>4. PICK n : n = Len(visit)
  OBVIOUS
<1>5. n \in Nat \ {0} /\ DOMAIN visit = 1..n
  BY <1>3, <1>4, Calling
<1>6. /\ Chain' /\ DOMAIN visit' = 1..(n + 1)
      /\ \A k \in DOMAIN visit : /\ k \in DOMAIN visit' /\ visit'[k].block = visit[k].block
                                 /\ visit[k].block # c
      /\ visit'[n + 1].block = c
  BY <1>1, <1>2, <1>3, <1>4, CallDown
<1>7. \A k \in DOMAIN visit' : k = n + 1 \/ k \in DOMAIN visit
  BY <1>5, <1>6
<1>8. Phis' = Phis /\ phiStack' = phiStack /\ defAcc' = defAcc
  BY <1>1 DEF Phis, allocVars
<1>9. Framed'
  <2>1. ASSUME NEW z \in Phis, NEW m \in DOMAIN phiStack[z]
        PROVE  /\ \E k \in DOMAIN visit' : visit'[k].block = phiStack[z][m][2]
               /\ phiStack[z][m][2] # c
    BY <1>6 DEF TauInv, Framed
  <2>2. ASSUME NEW z \in Phis, NEW m \in DOMAIN phiStack[z], NEW i \in DOMAIN phiStack[z],
               NEW j \in DOMAIN visit', NEW k \in DOMAIN visit',
               m < i, visit'[j].block = phiStack[z][m][2], visit'[k].block = phiStack[z][i][2]
        PROVE  j <= k
    <3>1. j \in DOMAIN visit /\ k \in DOMAIN visit
      BY <1>6, <1>7, <2>1, <2>2
    <3>2. QED
      BY <1>6, <2>2, <3>1 DEF TauInv, Framed
  <2>3. DOMAIN phiStack = Phis /\ \A z \in Phis : phiStack[z] \in Seq(ToSet(phiStack[z]))
    BY DEF TauInv, Framed
  <2>4. QED
    BY <1>3, <1>8, <2>1, <2>2, <2>3 DEF Framed
<1>10. Accumulators'
  BY <1>1, <1>8 DEF TauInv, Accumulators
<1>11. TextForm' /\ ReadsOriginal' /\ \A depth \in [Blocks -> Nat] : Ranked(depth) => Ranked(depth)'
  BY <1>1, SameText DEF TauInv
<1>12. it' \in Nat \ {0}
  BY <1>1 DEF TauInv, InsertedInOrder
<1>13. QED
  BY <1>1, <1>3, <1>6, <1>9, <1>10, <1>11, <1>12, LaterStep

LEMMA AllocateReturnTau == TauInv /\ AllocateReturn => TauInv'
<1> SUFFICES ASSUME TauInv, AllocateReturn PROVE TauInv'
  OBVIOUS
<1>1. /\ UNCHANGED <<fn, HotPathSet, pos, textVars, DT, searchVars, defAcc, it>>
      /\ pc = "allocated" /\ visit' = Front(visit)
      /\ pc' = (IF Len(visit) > 1 THEN "allocated" ELSE "hpssa")
      /\ phiStack' = [z \in Phis |-> Popped(phiStack[z], Called)]
  BY DEF AllocateReturn, walkVars
<1>2. ~ Starting /\ ~ Searching /\ ~ Starting' /\ ~ Searching' /\ Ground /\ Chain /\ visit # << >>
  BY <1>1 DEF Starting, Searching, TauInv, Chain
<1>3. PICK n : n = Len(visit)
  OBVIOUS
<1>4. n \in Nat \ {0} /\ DOMAIN visit = 1..n /\ n \in DOMAIN visit /\ Called = visit[n].block
  BY <1>2, <1>3, Calling
<1>5. /\ Chain' /\ DOMAIN visit' = 1..(n - 1)
      /\ \A k \in DOMAIN visit' : k \in DOMAIN visit /\ visit'[k] = visit[k]
      /\ \A k \in DOMAIN visit : k # n => k \in DOMAIN visit'
  <2>1. Searching' \/ pc' \in {"allocate", "taus", "allocated"} => Len(visit) # 1
    <3>1. pc' = "hpssa" \/ Len(visit) > 1
      BY <1>1
    <3>2. Len(visit) > 1 => Len(visit) # 1
      BY <1>3, <1>4
    <3>3. QED
      BY <1>2, <3>1, <3>2
  <2>2. QED
    BY <1>1, <1>2, <1>3, <2>1, CallUp
<1>6. Phis' = Phis
  BY <1>1 DEF Phis
<1>7. Framed'
  <2>1. ASSUME NEW z \in Phis
        PROVE  /\ phiStack'[z] \in Seq(ToSet(phiStack'[z]))
               /\ \A m \in DOMAIN phiStack'[z] : \E k \in DOMAIN visit' : visit'[k].block = phiStack'[z][m][2]
               /\ \A m, i \in DOMAIN phiStack'[z] : \A j, k \in DOMAIN visit' :
                     m < i /\ visit'[j].block = phiStack'[z][m][2] /\ visit'[k].block = phiStack'[z][i][2]
                        => j <= k
    <3>1. PICK old, new : old = phiStack[z] /\ new = phiStack'[z]
      OBVIOUS
    <3>2. /\ old \in Seq(ToSet(old))
          /\ \A m \in DOMAIN old : \E k \in DOMAIN visit : visit[k].block = old[m][2]
          /\ \A m, i \in DOMAIN old : \A j, k \in DOMAIN visit :
                m < i /\ visit[j].block = old[m][2] /\ visit[k].block = old[i][2] => j <= k
      BY <3>1 DEF TauInv, Framed
    <3>3. new = Popped(old, Called)
      BY <1>1, <3>1
    <3>4. /\ new \in Seq(ToSet(old))
          /\ \E l \in 0..Len(old) : /\ DOMAIN new = 1..l
                                    /\ \A i \in 1..l : i \in DOMAIN old /\ new[i] = old[i]
                                    /\ l # 0 => old[l][2] # Called
      BY <3>2, <3>3, PopsFrames
    <3>5. PICK l \in 0..Len(old) : /\ DOMAIN new = 1..l
                                   /\ \A i \in 1..l : i \in DOMAIN old /\ new[i] = old[i]
                                   /\ l # 0 => old[l][2] # Called
      BY <3>4
    <3>6. l \in Nat
      BY <3>2
    <3>7. ASSUME NEW m \in DOMAIN new PROVE \E k \in DOMAIN visit' : visit'[k].block = new[m][2]
      <4>1. m \in 1..l /\ l # 0 /\ l \in 1..l /\ m <= l
        BY <3>5, <3>6
      <4>2. m \in DOMAIN old /\ l \in DOMAIN old /\ new[m] = old[m]
        BY <3>5, <4>1
      <4>3. PICK j \in DOMAIN visit : visit[j].block = old[m][2]
        BY <3>2, <4>2
      <4>4. PICK k \in DOMAIN visit : visit[k].block = old[l][2]
        BY <3>2, <4>2
      <4>5. k # n /\ k < n
        BY <1>4, <3>5, <4>1, <4>4
      <4>6. j # n
        <5>1. CASE m = l
          BY <1>4, <3>5, <4>1, <4>3, <5>1
        <5>2. CASE m # l
          <6>1. m < l
            BY <4>1, <3>6, <5>2
          <6>2. j <= k
            BY <3>2, <4>2, <4>3, <4>4, <6>1
          <6>3. QED
            BY <1>4, <4>5, <6>2
        <5>3. QED
          BY <5>1, <5>2
      <4>7. QED
        BY <1>5, <4>2, <4>3, <4>6
    <3>8. \A m, i \in DOMAIN new : \A j, k \in DOMAIN visit' :
              m < i /\ visit'[j].block = new[m][2] /\ visit'[k].block = new[i][2] => j <= k
      BY <1>5, <3>2, <3>5
    <3>9. new \in Seq(ToSet(new))
      <4>1. \A i \in DOMAIN new : new[i] \in ToSet(new)
        BY DEF ToSet
      <4>2. new \in [1..Len(new) -> ToSet(new)] /\ Len(new) \in Nat
        BY <3>4, <4>1
      <4>3. QED
        BY <4>2
    <3>10. QED
      BY <3>1, <3>7, <3>8, <3>9
  <2>2. DOMAIN phiStack' = Phis
    BY <1>1
  <2>3. QED
    BY <1>2, <1>6, <2>1, <2>2 DEF Framed
<1>8. Accumulators'
  BY <1>1, <1>6 DEF TauInv, Accumulators
<1>9. TextForm' /\ ReadsOriginal' /\ \A depth \in [Blocks -> Nat] : Ranked(depth) => Ranked(depth)'
  BY <1>1, SameText DEF TauInv
<1>10. it' \in Nat \ {0}
  BY <1>1 DEF TauInv, InsertedInOrder
<1>11. QED
  BY <1>1, <1>2, <1>5, <1>7, <1>8, <1>9, <1>10, LaterStep

\* The first pass is over after Search.
LEMMA FirstReturnTau == TauInv /\ FirstReturn => TauInv'
<1> SUFFICES ASSUME TauInv, FirstReturn PROVE TauInv'
  OBVIOUS
<1>1. /\ UNCHANGED <<fn, HotPathSet, pos, textVars, DT, visit, searchVars, allocVars, it>>
      /\ pc = "allocate" /\ pc' = "hpssa"
  BY DEF FirstReturn, walkVars
<1>2. ~ Starting /\ ~ Searching /\ ~ Starting' /\ ~ Searching'
  BY <1>1 DEF Starting, Searching
<1>3. Phis' = Phis
  BY <1>1 DEF Phis
<1>4. Chain' /\ Framed' /\ Accumulators'
  BY <1>1, <1>2, <1>3 DEF TauInv, Chain, Reachable, Framed, Accumulators, allocVars
<1>5. TextForm' /\ ReadsOriginal' /\ \A depth \in [Blocks -> Nat] : Ranked(depth) => Ranked(depth)'
  BY <1>1, SameText DEF TauInv
<1>6. it' \in Nat \ {0}
  BY <1>1 DEF TauInv, InsertedInOrder
<1>7. QED
  BY <1>1, <1>2, <1>4, <1>5, <1>6, LaterStep

----------------------------------------------------------------------------
(* TDestruction.                                                           *)

\* The taus collected are those that are not erased: none is inserted or erased behind
\* the back of the list, so that the function has none when the list is empty.
Collected ==
    /\ pc = "destroy" => toBeRemoved = LiveTaus
    /\ pc = "done" => LiveTaus = {}

PipelineInv == TauInv /\ Collected

\* TDestruction touches neither the stacks nor what the passes know of the function.
LEMMA DestructionStep ==
    ASSUME TauInv, pc \in {"hpssa", "destroy"}, pc' \in {"destroy", "done"},
           UNCHANGED hpssaVars, TextForm', ReadsOriginal',
           \A depth \in [Blocks -> Nat] : Ranked(depth) => Ranked(depth)'
    PROVE  TauInv'
<1>1. UNCHANGED <<fn, HotPathSet, pos, DT, visit, searchVars, allocVars, it>>
  BY DEF hpssaVars, walkVars
<1>2. ~ Starting /\ ~ Searching /\ ~ Starting' /\ ~ Searching'
  BY DEF Starting, Searching
<1>3. Phis' = Phis
  BY <1>1 DEF Phis
<1>4. Chain' /\ Framed' /\ Accumulators'
  BY <1>1, <1>2, <1>3 DEF TauInv, Chain, Reachable, Framed, Accumulators, allocVars
<1>5. it' \in Nat \ {0}
  BY <1>1 DEF TauInv, InsertedInOrder
<1>6. QED
  BY <1>1, <1>2, <1>4, <1>5, LaterStep

LEMMA CollectTau == PipelineInv /\ Collect => PipelineInv'
<1> SUFFICES ASSUME PipelineInv, Collect PROVE PipelineInv'
  OBVIOUS
<1>1. /\ UNCHANGED <<hpssaVars, textVars>> /\ pc = "hpssa" /\ pc' = "destroy"
      /\ toBeRemoved' = LiveTaus
  BY DEF Collect
<1>2. fn' = fn
  BY <1>1 DEF hpssaVars, walkVars
<1>3. /\ TextForm' /\ ReadsOriginal' /\ LiveTaus' = LiveTaus
      /\ \A depth \in [Blocks -> Nat] : Ranked(depth) => Ranked(depth)'
  BY <1>1, <1>2, SameText DEF PipelineInv, TauInv
<1>4. TauInv'
  BY <1>1, <1>3, DestructionStep DEF PipelineInv
<1>5. QED
  BY <1>1, <1>3, <1>4 DEF PipelineInv, Collected

LEMMA RemoveTauTau == PipelineInv /\ RemoveTau => PipelineInv'
<1> SUFFICES ASSUME PipelineInv, RemoveTau PROVE PipelineInv'
  OBVIOUS
<1>1. UNCHANGED hpssaVars /\ pc = "destroy" /\ pc' = "destroy"
  BY DEF RemoveTau
<1>2. PICK t \in toBeRemoved :
          /\ phiOp' = PhiOpWith(t, operand[t]) /\ useOf' = UseOfWith(t, operand[t])
          /\ operand' = Restrict(OperandWith(t, operand[t]), DOMAIN operand \ {t})
          /\ args' = Restrict(ArgsWith(t, operand[t]), DOMAIN operand \ {t})
          /\ taus' = Without(t)
          /\ toBeRemoved' = toBeRemoved \ {t}
  BY DEF RemoveTau, replaceTAU
<1>3. t \in LiveTaus /\ toBeRemoved = LiveTaus
  BY <1>1 DEF PipelineInv, Collected
<1>4. fn' = fn
  BY <1>1 DEF hpssaVars, walkVars
<1>5. ASSUME NEW depth \in [Blocks -> Nat], Ranked(depth)
      PROVE  TextForm' /\ ReadsOriginal' /\ Ranked(depth)' /\ LiveTaus' = LiveTaus \ {t}
  BY <1>2, <1>3, <1>4, <1>5, RemovingTau DEF PipelineInv, TauInv
<1>6. \E depth \in [Blocks -> Nat] : Ranked(depth)
  BY DEF PipelineInv, TauInv
<1>7. TauInv'
  BY <1>1, <1>5, <1>6, DestructionStep DEF PipelineInv
<1>8. QED
  BY <1>1, <1>2, <1>3, <1>5, <1>6, <1>7 DEF PipelineInv, Collected

LEMMA AllRemovedTau == PipelineInv /\ AllRemoved => PipelineInv'
<1> SUFFICES ASSUME PipelineInv, AllRemoved PROVE PipelineInv'
  OBVIOUS
<1>1. /\ UNCHANGED <<hpssaVars, textVars>> /\ pc = "destroy" /\ pc' = "done"
      /\ toBeRemoved = {}
  BY DEF AllRemoved
<1>2. fn' = fn
  BY <1>1 DEF hpssaVars, walkVars
<1>3. /\ TextForm' /\ ReadsOriginal' /\ LiveTaus' = LiveTaus
      /\ \A depth \in [Blocks -> Nat] : Ranked(depth) => Ranked(depth)'
  BY <1>1, <1>2, SameText DEF PipelineInv, TauInv
<1>4. TauInv'
  BY <1>1, <1>3, DestructionStep DEF PipelineInv
<1>5. LiveTaus = {}
  BY <1>1 DEF PipelineInv, Collected
<1>6. QED
  BY <1>1, <1>3, <1>4, <1>5 DEF PipelineInv, Collected

----------------------------------------------------------------------------
(* Every step of either pass, and of TDestruction after it.                *)

\* A step of a pass, which collects nothing yet.
LEMMA PassStep ==
    ASSUME TauInv', toBeRemoved' = toBeRemoved, pc' \notin {"destroy", "done"}
    PROVE  PipelineInv'
BY DEF PipelineInv, Collected

\* No step of HPSSA is one of TDestruction, or of the walk of the pass before it.
LEMMA NextPc == Next => pc' \notin {"destroy", "done"} /\ (pc' = "walk" => pc = "walk")
<1>1. Connect \/ Connected \/ InsertTaus \/ NextBlock \/ Inserted
          => (pc' = pc /\ pc \in {"connect", "insert"}) \/ pc' \in {"insert", "search"}
  BY DEF Connect, Connected, InsertTaus, NextBlock, Inserted
<1>2. Search \/ SearchTau \/ SearchUses \/ SearchChild => pc' \in {"rename", "searched", "search"}
  BY DEF Search, SearchTau, SearchUses, SearchChild
<1>3. SearchedChildren \/ SearchPop \/ SearchReturn => pc' \in {"pop", "searched", "allocate"}
  BY DEF SearchedChildren, SearchPop, SearchReturn
<1>4. AllocatePhis \/ AllocateTau \/ AllocateSuccessors => pc' \in {"taus", "allocated"}
  BY DEF AllocatePhis, AllocateTau, AllocateSuccessors
<1>5. AllocateChild \/ AllocateReturn => pc' \in {"allocate", "allocated", "hpssa"}
  BY DEF AllocateChild, AllocateReturn
<1>6. QED
  BY <1>1, <1>2, <1>3, <1>4, <1>5 DEF Next

\* A stuttering step changes nothing.  The place J of the first pass counts in its walk
\* alone.
LEMMA StutteringTau ==
    ASSUME PipelineInv, UNCHANGED pipelineVars, pc = "walk" => J' = J
    PROVE  PipelineInv'
<1>1. /\ UNCHANGED <<fn, DT, HotPathSet, pos, textVars, pc, visit, it, defAcc, phiStack, toBeRemoved>>
      /\ UNCHANGED <<renaming_stack, hasTau, stackmap, varstack>>
  BY DEF pipelineVars, vars, walkVars, searchVars, allocVars
<1>2. /\ LiveTaus' = LiveTaus /\ TauNames' = TauNames /\ Phis' = Phis /\ Insts' = Insts
      /\ TextForm' /\ ReadsOriginal'
      /\ \A depth : Ranked(depth) => Ranked(depth)'
  BY <1>1, SameText DEF PipelineInv, TauInv
<1>3. Ground' /\ Above' = Above /\ Called' = Called /\ PcType'
  BY <1>1, SameGround DEF PipelineInv, TauInv, Called, PcType
<1>4. Starting' = Starting /\ Searching' = Searching
  BY <1>1 DEF Starting, Searching
<1>5. operand' = operand /\ phiOp' = phiOp /\ useOf' = useOf /\ taus' = taus
  BY <1>1 DEF textVars
<1>6. Untouched' /\ BelowPhi'
  BY <1>1, <1>2, <1>3, <1>4, <1>5 DEF PipelineInv, TauInv, Untouched, BelowPhi
<1>7. InsertedInOrder'
  BY <1>1, <1>2 DEF PipelineInv, TauInv, InsertedInOrder, InsertedBefore
<1>8. Chain'
  BY <1>1, <1>4 DEF PipelineInv, TauInv, Chain, Reachable
<1>9. PushedInOrder' /\ MapTypes'
  BY <1>1, <1>2, <1>3, <1>4, <1>5 DEF PipelineInv, TauInv, PushedInOrder, MapTypes
<1>10. Stacked'
  BY <1>1, <1>2, <1>4 DEF PipelineInv, TauInv, Stacked, OnStack, Unpopped
<1>11. Framed' /\ Accumulators'
  BY <1>1, <1>2, <1>4 DEF PipelineInv, TauInv, Framed, Accumulators
<1>12. PICK depth \in [Blocks -> Nat] : Ranked(depth) /\ VisitedOnce(depth) /\ Mapped(depth)
  BY DEF PipelineInv, TauInv
<1>13. Ranked(depth)' /\ VisitedOnce(depth)' /\ Mapped(depth)'
  <2>1. Ranked(depth)'
    BY <1>2, <1>12
  <2>2. VisitedOnce(depth)'
    BY <1>1, <1>3, <1>4, <1>12 DEF VisitedOnce
  <2>3. Mapped(depth)'
    BY <1>1, <1>2, <1>3, <1>4, <1>5, <1>12 DEF Mapped
  <2>4. QED
    BY <2>1, <2>2, <2>3
<1>14. TauInv'
  BY <1>2, <1>3, <1>6, <1>7, <1>8, <1>9, <1>10, <1>11, <1>13 DEF TauInv
<1>15. QED
  BY <1>1, <1>2, <1>14 DEF PipelineInv, Collected

\* A step of HPSSAPass::run of HPSSA_new.cpp, or of TDestruction after it.
LEMMA PipelineStep ==
    ASSUME PipelineInv, pc # "walk", [PipelineNext]_pipelineVars
    PROVE  PipelineInv' /\ pc' # "walk"
<1>1. CASE Next /\ UNCHANGED toBeRemoved
  <2>1. TauInv'
    <3>1. Connect \/ Connected \/ InsertTaus \/ NextBlock \/ Inserted => TauInv'
      BY ConnectTau, ConnectedTau, InsertTausTau, NextBlockTau, InsertedTau DEF PipelineInv
    <3>2. Search \/ SearchTau \/ SearchUses \/ SearchChild => TauInv'
      BY SearchStep, SearchTauTau, SearchUsesTau, SearchChildTau DEF PipelineInv
    <3>3. SearchedChildren \/ SearchPop \/ SearchReturn => TauInv'
      BY SearchedChildrenTau, SearchPopTau, SearchReturnTau DEF PipelineInv
    <3>4. AllocatePhis \/ AllocateTau \/ AllocateSuccessors => TauInv'
      BY AllocatePhisTau, AllocateTauTau, AllocateSuccessorsTau DEF PipelineInv
    <3>5. AllocateChild \/ AllocateReturn => TauInv'
      BY AllocateChildTau, AllocateReturnTau DEF PipelineInv
    <3>6. QED
      BY <1>1, <3>1, <3>2, <3>3, <3>4, <3>5 DEF Next
  <2>2. pc' \notin {"destroy", "done", "walk"}
    BY <1>1, NextPc
  <2>3. QED
    BY <1>1, <2>1, <2>2, PassStep
<1>2. CASE Collect \/ RemoveTau \/ AllRemoved
  <2>1. pc' # "walk"
    BY <1>2 DEF Collect, RemoveTau, AllRemoved
  <2>2. QED
    BY <1>2, <2>1, CollectTau, RemoveTauTau, AllRemovedTau
<1>3. CASE UNCHANGED pipelineVars
  <2>1. pc' = pc
    BY <1>3 DEF pipelineVars, vars
  <2>2. QED
    BY <1>3, <2>1, StutteringTau
<1>4. QED
  BY <1>1, <1>2, <1>3 DEF PipelineNext

\* A step of HPSSAPass::run of HPSSA.cpp, or of TDestruction after it.
LEMMA FirstStep ==
    ASSUME PipelineInv, [FirstNext]_firstVars
    PROVE  PipelineInv'
<1>1. CASE FirstPhi \/ FirstInsertTau \/ WalkEnds
  <2>1. TauInv'
    BY <1>1, FirstPhiTau, FirstInsertTauTau, WalkEndsTau DEF PipelineInv
  <2>2. toBeRemoved' = toBeRemoved /\ pc' \notin {"destroy", "done"}
    BY <1>1 DEF FirstPhi, FirstInsertTau, WalkEnds
  <2>3. QED
    BY <2>1, <2>2, PassStep
<1>2. CASE (FirstConnect \/ NextBlock \/ FirstSearch \/ FirstReturn) /\ UNCHANGED <<toBeRemoved, accVars>>
  <2>1. CASE FirstReturn
    <3>1. TauInv' /\ pc' = "hpssa"
      BY <2>1, FirstReturnTau DEF PipelineInv, FirstReturn
    <3>2. QED
      BY <1>2, <3>1, PassStep
  <2>2. CASE FirstConnect \/ NextBlock \/ FirstSearch
    <3>1. Next
      BY <2>2 DEF FirstConnect, FirstSearch, Next
    <3>2. FirstConnect \/ NextBlock => TauInv'
      BY ConnectTau, ConnectedTau, NextBlockTau DEF PipelineInv, FirstConnect
    <3>3. FirstSearch => TauInv'
      BY InsertedTau, SearchStep, SearchTauTau, SearchUsesTau, SearchChildTau,
         SearchedChildrenTau, SearchPopTau, SearchReturnTau DEF PipelineInv, FirstSearch
    <3>4. pc' \notin {"destroy", "done"}
      BY <3>1, NextPc
    <3>5. QED
      BY <1>2, <2>2, <3>2, <3>3, <3>4, PassStep
  <2>3. QED
    BY <1>2, <2>1, <2>2
<1>3. CASE Collect \/ RemoveTau \/ AllRemoved
  BY <1>3, CollectTau, RemoveTauTau, AllRemovedTau
<1>4. CASE UNCHANGED firstVars
  <2>1. UNCHANGED pipelineVars /\ J' = J
    BY <1>4 DEF firstVars, accVars
  <2>2. QED
    BY <2>1, StutteringTau
<1>5. QED
  BY <1>1, <1>2, <1>3, <1>4 DEF FirstNext

----------------------------------------------------------------------------
(* What the invariant says of the runs.                                    *)

\* Neither pass has collected a tau at first.
LEMMA InitPipeline == PipelineInit => PipelineInv /\ pc # "walk"
<1>1. PipelineInit => TauInv /\ pc = "connect"
  BY InitTau DEF PipelineInit, Init
<1>2. QED
  BY <1>1 DEF PipelineInv, Collected

\* Of HPSSA_new.cpp and TDestruction.
LEMMA PipelineInvariance == PipelineSpec => []PipelineInv
<1>1. PipelineInv /\ pc # "walk" /\ [PipelineNext]_pipelineVars => (PipelineInv /\ pc # "walk")'
  BY PipelineStep
<1>2. QED
  BY <1>1, InitPipeline, PTL DEF PipelineSpec

\* Of HPSSA.cpp and TDestruction.
LEMMA FirstInvariance == FirstSpec => []PipelineInv
<1>1. FirstInit => PipelineInv
  BY InitPipeline DEF FirstInit
<1>2. PipelineInv /\ [FirstNext]_firstVars => PipelineInv'
  BY FirstStep
<1>3. QED
  BY <1>1, <1>2, PTL DEF FirstSpec

LEMMA TauTypes == PipelineInv => TypeOK
<1> SUFFICES ASSUME PipelineInv PROVE TypeOK
  OBVIOUS
<1>1. TausForm /\ Ground /\ Chain
  BY DEF PipelineInv, TauInv, TextForm
<1>2. \A b \in Blocks : \A t \in ToSet(taus[b]) : t \in TauNames /\ t.at = b
  BY <1>1 DEF TausForm, ToSet
<1>3. /\ DOMAIN operand = LiveTaus /\ DOMAIN args = LiveTaus
      /\ DOMAIN useOf = Insts /\ DOMAIN phiOp = Phis
      /\ \A z \in Phis : DOMAIN phiOp[z] = DOMAIN fn.op[z]
  BY DEF PipelineInv, TauInv, TextForm
<1>4. /\ DOMAIN renaming_stack \subseteq Phis
      /\ \A z \in DOMAIN renaming_stack : renaming_stack[z] # << >> /\ renaming_stack[z][1] = z
      /\ hasTau \subseteq Blocks \X Phis
      /\ \A v \in DOMAIN stackmap : stackmap[v] \in Phis
  BY DEF PipelineInv, TauInv, MapTypes
<1>5. \A x \in Blocks \X Phis : \A d \in defAcc[x] : d[2] \in HotPathSet[x[1]]
  BY DEF PipelineInv, TauInv, Accumulators
<1>6. DOMAIN phiStack = Phis
  BY DEF PipelineInv, TauInv, Framed
<1>7. visit # << >> => Called \in Reachable(fn) /\ ToVisit \subseteq Reachable(fn)
  <2>1. DOMAIN DT \subseteq Reachable(fn)
    BY <1>1, GroundForm
  <2>2. QED
    BY <1>1, <2>1, Calling
<1>8. it \in Nat \ {0} /\ PcType
  BY DEF PipelineInv, TauInv, InsertedInOrder
<1>9. QED
  BY <1>2, <1>3, <1>4, <1>5, <1>6, <1>7, <1>8 DEF TypeOK, PcType

\* Without taus every use reads what it read in the program.
LEMMA NoTauLeft == PipelineInv => RestoresOriginal
<1> SUFFICES ASSUME PipelineInv, pc = "done" PROVE Original
  BY DEF RestoresOriginal
<1>1. LiveTaus = {} /\ TextForm /\ ReadsOriginal /\ Ground
  BY DEF PipelineInv, Collected, TauInv
<1>2. taus = [b \in Blocks |-> << >>]
  <2>1. taus \in [Blocks -> Seq(TauNames)]
    BY <1>1 DEF TextForm, TausForm
  <2>2. ASSUME NEW b \in Blocks PROVE taus[b] = << >>
    <3>1. PICK s : s = taus[b]
      OBVIOUS
    <3>2. s \in Seq(TauNames)
      BY <2>1, <3>1
    <3>3. \A k \in DOMAIN s : s[k] \in LiveTaus
      BY <3>1 DEF LiveTaus, ToSet
    <3>4. DOMAIN s = {}
      BY <1>1, <3>3
    <3>5. Len(s) = 0
      BY <3>2, <3>4
    <3>6. QED
      BY <3>1, <3>2, <3>5, EmptySeq
  <2>3. QED
    BY <2>1, <2>2
<1>3. operand = << >> /\ args = << >>
  <2>1. operand = [t \in {} |-> operand[t]] /\ args = [t \in {} |-> args[t]]
    BY <1>1 DEF TextForm
  <2>2. QED
    BY <2>1
<1>4. /\ \A z \in Phis : \A u \in DOMAIN fn.op[z] : phiOp[z][u] = fn.op[z][u]
      /\ \A i \in Insts : useOf[i] = fn.use[i]
  <2>1. \A v, w : Stands(v, w) => v = w
    BY <1>1 DEF Stands
  <2>2. QED
    BY <1>1, <2>1 DEF ReadsOriginal
<1>5. ValuesForm(fn)
  BY <1>1, GroundForm
<1>6. phiOp = fn.op
  <2>1. phiOp = [z \in Phis |-> [u \in DOMAIN fn.op[z] |-> fn.op[z][u]]]
    <3>1. phiOp = [z \in Phis |-> [u \in DOMAIN fn.op[z] |-> phiOp[z][u]]]
      BY <1>1 DEF TextForm
    <3>2. \A z \in Phis : [u \in DOMAIN fn.op[z] |-> phiOp[z][u]] = [u \in DOMAIN fn.op[z] |-> fn.op[z][u]]
      BY <1>4
    <3>3. QED
      BY ONLY <3>1, <3>2
  <2>2. QED
    BY <1>5, <2>1 DEF ValuesForm, Phis
<1>7. useOf = fn.use
  <2>1. useOf = [i \in Insts |-> fn.use[i]]
    BY <1>1, <1>4 DEF TextForm
  <2>2. QED
    BY <1>5, <2>1 DEF ValuesForm, Insts
<1>8. QED
  BY <1>2, <1>3, <1>6, <1>7 DEF Original

LEMMA NoFrameLeft == PipelineInv => StackDiscipline
<1> SUFFICES ASSUME PipelineInv PROVE StackDiscipline
  OBVIOUS
<1>1. renamed => ~ (Starting \/ Searching)
  BY DEF renamed, Starting, Searching
<1>2. QED
  BY <1>1 DEF PipelineInv, TauInv, MapTypes, Framed, StackDiscipline

\* Each variable of HPSSA_new.cpp's pass and of TDestruction has its type: no map is
\* asked for a key it has not, no stack is empty when its top is read.
THEOREM TausTyped == PipelineSpec => []TypeOK
BY PipelineInvariance, TauTypes, PTL

\* And so have those of the pass before it.
THEOREM FirstTausTyped == FirstSpec => []TypeOK
BY FirstInvariance, TauTypes, PTL

\* Whatever HPSSA_new.cpp inserted, renamed, erased and replaced, TDestruction gives back
\* the program that it was given, in whatever order it takes the taus out.
THEOREM PipelineRestores == PipelineSpec => []RestoresOriginal
BY PipelineInvariance, NoTauLeft, PTL

\* So it does after the pass before it, whose taus have their arguments while they are
\* renamed.
THEOREM FirstRestores == FirstSpec => []RestoresOriginal
BY FirstInvariance, NoTauLeft, PTL

\* Search leaves each renaming stack with the phi alone, and a phi has frames of the
\* blocks whose calls of AllocateArgs are in progress and of no other.
THEOREM StacksDisciplined == PipelineSpec => []StackDiscipline
BY PipelineInvariance, NoFrameLeft, PTL

----------------------------------------------------------------------------
(* The arguments of the taus of HPSSA.cpp.                                 *)

\* Until Search the arguments, and the definitions that a walk carries, are values of
\* the program; from then on a tau among them is not erased.
ArgumentsAlive ==
    /\ ArgsAlive
    /\ Starting => \A t \in LiveTaus : args[t] \cap TauNames = {}
    /\ pc = "walk" => \A c \in Blocks : \A d \in defAccumulator[c] : d[1] \notin TauNames

LEMMA InitArguments == FirstInit => ArgumentsAlive
<1> SUFFICES ASSUME FirstInit PROVE ArgumentsAlive
  OBVIOUS
<1>1. LiveTaus = {} /\ pc = "connect"
  BY DEF FirstInit, PipelineInit, Init, Original, LiveTaus, ToSet
<1>2. QED
  BY <1>1 DEF ArgumentsAlive, ArgsAlive

\* A step that leaves the taus and their arguments, and begins no walk.
LEMMA SameArguments ==
    ASSUME ArgumentsAlive, fn' = fn, taus' = taus, args' = args, Starting' => Starting,
           pc' = "walk" => pc = "walk" /\ defAccumulator' = defAccumulator
    PROVE  ArgumentsAlive'
<1>1. LiveTaus' = LiveTaus /\ TauNames' = TauNames
  BY DEF LiveTaus, TauNames, TauNamesOf
<1>2. QED
  BY <1>1 DEF ArgumentsAlive, ArgsAlive

LEMMA FirstPhiArguments ==
    ASSUME PipelineInv, ArgumentsAlive, FirstPhi
    PROVE  ArgumentsAlive'
<1>1. /\ UNCHANGED <<fn, taus, args>> /\ pc = "insert" /\ pc' \in {"insert", "walk"}
      /\ pos \in DOMAIN fn.rpo /\ it \in DOMAIN fn.phis[BB]
      /\ pc' = "walk" => defAccumulator' = [c \in Blocks |->
             IF c = BB THEN Accumulated(fn.phis[BB][it], BB) ELSE {}]
  BY DEF FirstPhi, walkVars, textVars
<1>2. Starting /\ Starting' /\ Ground
  BY <1>1 DEF Starting, PipelineInv, TauInv
<1>3. LiveTaus' = LiveTaus /\ TauNames' = TauNames
  BY <1>1 DEF LiveTaus, TauNames, TauNamesOf
<1>4. PICK z \in Phis : z = fn.phis[BB][it] /\ z \in ToSet(fn.phis[BB]) /\ BB \in Blocks
  BY <1>1, <1>2, PhiHere DEF BB
<1>5. ASSUME NEW d \in Accumulated(z, BB) PROVE d[1] \notin TauNames
  <2>1. PICK u \in Preds(fn, BB) : \E p \in HotPathSet[BB] \cap HotPathSet[u] : d = <<phiOp[z][u], p>>
    BY <1>5 DEF Accumulated
  <2>2. DOMAIN fn.op[z] = Preds(fn, BB) /\ phiOp = fn.op
    BY <1>2, <1>4, SsaAssumption DEF SsaForm, Ground, Untouched, PipelineInv, TauInv
  <2>3. d[1] = fn.op[z][u] /\ u \in DOMAIN fn.op[z]
    BY <2>1, <2>2
  <2>4. QED
    BY <1>2, <2>3, ReadNoTau
<1>6. QED
  BY <1>1, <1>2, <1>3, <1>4, <1>5 DEF ArgumentsAlive, ArgsAlive

LEMMA FirstInsertTauArguments ==
    ASSUME PipelineInv, ArgumentsAlive, FirstInsertTau, PipelineInv'
    PROVE  ArgumentsAlive'
<1>1. /\ fn' = fn /\ pc = "walk" /\ pc' = "walk" /\ J \in DOMAIN fn.rpo
      /\ \/ Insert(fn.phis[BB][it], [c \in {curr} |-> {d[1] : d \in defAccumulator[curr]}])
         \/ UNCHANGED <<taus, operand, args>>
      /\ defAccumulator' = [s \in Blocks |-> Arrived(s)]
  BY DEF FirstInsertTau, walkVars, BreaksOff
<1>2. Starting /\ Starting' /\ Ground /\ curr \in Blocks
  <2>1. WellFormedGraph(fn)
    BY GroundForm DEF PipelineInv, TauInv
  <2>2. QED
    BY <1>1, <2>1 DEF Starting, PipelineInv, TauInv, WellFormedGraph, curr
<1>3. TauNames' = TauNames
  BY <1>1 DEF TauNames, TauNamesOf
<1>4. \A c \in Blocks : \A d \in defAccumulator[c] : d[1] \notin TauNames
  BY <1>1 DEF ArgumentsAlive
<1>5. \A t \in LiveTaus : args[t] \cap TauNames = {}
  BY <1>2 DEF ArgumentsAlive
<1>6. \A c \in Blocks : \A d \in defAccumulator'[c] : d[1] \notin TauNames
  <2>1. ASSUME NEW c \in Blocks, NEW d \in Arrived(c) PROVE d[1] \notin TauNames
    BY <1>2, <1>4 DEF Arrived, flowing
  <2>2. QED
    BY <1>1, <2>1
<1>7. \A t \in LiveTaus' : args'[t] \cap TauNames = {}
  <2>1. CASE UNCHANGED <<taus, operand, args>>
    BY <1>5, <2>1 DEF LiveTaus
  <2>2. CASE Insert(fn.phis[BB][it], [c \in {curr} |-> {d[1] : d \in defAccumulator[curr]}])
    <3>1. PICK z, hot : z = fn.phis[BB][it] /\ hot = {d[1] : d \in defAccumulator[curr]}
      OBVIOUS
    <3>2. PICK c : c = curr
      OBVIOUS
    <3>3. args' = Over([t \in {Tau(z, c)} |-> hot], args)
      <4>1. [t \in {Tau(z, x) : x \in {c}} |-> [x \in {c} |-> hot][t.at]] = [t \in {Tau(z, c)} |-> hot]
        BY DEF Tau
      <4>2. DOMAIN [x \in {c} |-> hot] = {c}
        OBVIOUS
      <4>3. Insert(z, [x \in {c} |-> hot])
        BY <2>2, <3>1, <3>2
      <4>4. args' = Over([t \in {Tau(z, x) : x \in {c}} |-> [x \in {c} |-> hot][t.at]], args)
        BY <4>2, <4>3 DEF Insert
      <4>5. QED
        BY <4>1, <4>4
    <3>4. DOMAIN args = LiveTaus /\ DOMAIN args' = LiveTaus'
      BY DEF PipelineInv, TauInv, TextForm
    <3>5. \A x \in hot : x \notin TauNames
      BY <1>2, <1>4, <3>1
    <3>6. ASSUME NEW t \in LiveTaus' PROVE args'[t] = hot \/ (t \in LiveTaus /\ args'[t] = args[t])
      BY <3>3, <3>4, <3>6 DEF Over
    <3>7. QED
      BY <1>5, <3>5, <3>6
  <2>3. QED
    BY <1>1, <2>1, <2>2
<1>8. QED
  BY <1>1, <1>3, <1>6, <1>7 DEF ArgumentsAlive, ArgsAlive

\* Renaming puts taus of the stacks into arguments, and these are not erased.
LEMMA SearchTauArguments ==
    ASSUME PipelineInv, ArgumentsAlive, SearchTau
    PROVE  ArgumentsAlive'
<1>1. /\ fn' = fn /\ taus' = taus /\ pc = "rename" /\ pc' = "rename"
      /\ args' = [args EXCEPT ![taus[Called][it]] = {Renamed(v) : v \in @}]
  BY DEF SearchTau, walkVars
<1>2. Searching /\ ~ Starting' /\ pc' # "walk"
  BY <1>1 DEF Searching, Starting
<1>3. LiveTaus' = LiveTaus /\ TauNames' = TauNames
  BY <1>1 DEF LiveTaus, TauNames, TauNamesOf
<1>4. DOMAIN args = LiveTaus
  BY DEF PipelineInv, TauInv, TextForm
<1>5. ASSUME NEW v, v \in TauNames => v \in LiveTaus, Renamed(v) \in TauNames
      PROVE  Renamed(v) \in LiveTaus
  <2>1. CASE v \notin DOMAIN renaming_stack
    BY <1>5, <2>1 DEF Renamed
  <2>2. CASE v \in DOMAIN renaming_stack
    <3>1. Stands(Last(renaming_stack[v]), v) /\ v \notin TauNames
      BY <1>2, <2>2, TopStands DEF PipelineInv
    <3>2. QED
      BY <1>5, <2>2, <3>1 DEF Renamed, Stands
  <2>3. QED
    BY <2>1, <2>2
<1>6. ASSUME NEW t \in LiveTaus PROVE args'[t] \cap TauNames \subseteq LiveTaus
  <2>1. \A v \in args[t] : v \in TauNames => v \in LiveTaus
    BY DEF ArgumentsAlive, ArgsAlive
  <2>2. args'[t] = args[t] \/ args'[t] = {Renamed(v) : v \in args[t]}
    BY <1>1, <1>4
  <2>3. QED
    BY <1>5, <2>1, <2>2
<1>7. QED
  BY <1>2, <1>3, <1>6 DEF ArgumentsAlive, ArgsAlive

\* A tau that is an argument of another one is not erased.
LEMMA SearchPopArguments ==
    ASSUME PipelineInv, ArgumentsAlive, SearchPop
    PROVE  ArgumentsAlive'
<1>1. fn' = fn /\ pc = "pop" /\ pc' = "pop"
  BY DEF SearchPop, walkVars
<1>2. PICK z \in varstack :
          LET t == Last(renaming_stack[z])
          IN \/ Unused(t) /\ taus' = Without(t) /\ args' = Restrict(args, DOMAIN args \ {t})
             \/ UNCHANGED <<taus, args>>
  BY DEF SearchPop
<1>3. PICK t : t = Last(renaming_stack[z])
  OBVIOUS
<1>4. t \in LiveTaus /\ TausForm /\ DOMAIN args = LiveTaus
  BY <1>1, <1>3, PoppedHere DEF PipelineInv, TauInv, TextForm
<1>5. ~ Starting' /\ pc' # "walk" /\ TauNames' = TauNames
  BY <1>1 DEF Starting, TauNames, TauNamesOf
<1>6. CASE UNCHANGED <<taus, args>>
  BY <1>5, <1>6 DEF ArgumentsAlive, ArgsAlive, LiveTaus
<1>7. CASE Unused(t) /\ taus' = Without(t) /\ args' = Restrict(args, DOMAIN args \ {t})
  <2>1. LiveTaus' = LiveTaus \ {t}
    BY <1>1, <1>4, <1>7, WithoutTau
  <2>2. \A s \in LiveTaus : t \notin args[s]
    BY <1>7 DEF Unused
  <2>3. \A s \in LiveTaus' : args'[s] = args[s]
    BY <1>4, <1>7, <2>1 DEF Restrict
  <2>4. QED
    BY <1>5, <2>1, <2>2, <2>3 DEF ArgumentsAlive, ArgsAlive
<1>8. QED
  BY <1>2, <1>3, <1>6, <1>7

\* A tau that is taken out is replaced by its phi or by a tau that is not erased.
LEMMA RemoveTauArguments ==
    ASSUME PipelineInv, ArgumentsAlive, RemoveTau
    PROVE  ArgumentsAlive'
<1>1. fn' = fn /\ pc = "destroy" /\ pc' = "destroy"
  BY DEF RemoveTau, hpssaVars, walkVars
<1>2. PICK t \in toBeRemoved :
          taus' = Without(t) /\ args' = Restrict(ArgsWith(t, operand[t]), DOMAIN operand \ {t})
  BY DEF RemoveTau, replaceTAU
<1>3. /\ t \in LiveTaus /\ TausForm /\ Ground /\ ReadsOriginal
      /\ DOMAIN args = LiveTaus /\ DOMAIN operand = LiveTaus
  BY <1>1 DEF PipelineInv, Collected, TauInv, TextForm
<1>4. ~ Starting' /\ pc' # "walk" /\ TauNames' = TauNames
  BY <1>1 DEF Starting, TauNames, TauNamesOf
<1>5. LiveTaus' = LiveTaus \ {t}
  BY <1>1, <1>2, <1>3, WithoutTau
<1>6. PICK w : w = operand[t]
  OBVIOUS
<1>7. w \in TauNames => w \in LiveTaus'
  <2>1. w = t.phi \/ w \in LiveTaus
    BY <1>3, <1>6 DEF ReadsOriginal, Stands
  <2>2. t.phi \notin TauNames
    BY <1>3, LiveInBlock, ReadNoTau
  <2>3. w # t
    <3>1. PICK depth \in [Blocks -> Nat] : Ranked(depth)
      BY DEF PipelineInv, TauInv
    <3>2. t.at \in Blocks
      BY <1>3, LiveInBlock
    <3>3. QED
      BY <1>3, <1>6, <3>1, <3>2 DEF Ranked
  <2>4. QED
    BY <1>5, <2>1, <2>2, <2>3
<1>8. ASSUME NEW s \in LiveTaus' PROVE args'[s] \cap TauNames \subseteq LiveTaus'
  <2>1. s \in LiveTaus /\ args'[s] = {Sub(t, w, x) : x \in args[s]}
    BY <1>2, <1>3, <1>5, <1>6, <1>8 DEF Restrict, ArgsWith
  <2>2. \A x \in args[s] : x \in TauNames => x \in LiveTaus
    BY <2>1 DEF ArgumentsAlive, ArgsAlive
  <2>3. \A x \in args[s] : Sub(t, w, x) \in TauNames => Sub(t, w, x) \in LiveTaus'
    BY <1>5, <1>7, <2>2 DEF Sub
  <2>4. QED
    BY <2>1, <2>3
<1>9. QED
  BY <1>4, <1>8 DEF ArgumentsAlive, ArgsAlive

LEMMA ArgumentsStep ==
    ASSUME PipelineInv, ArgumentsAlive, [FirstNext]_firstVars
    PROVE  ArgumentsAlive'
<1>1. PipelineInv'
  BY FirstStep
<1>2. CASE FirstPhi \/ FirstInsertTau
  BY <1>1, <1>2, FirstPhiArguments, FirstInsertTauArguments
<1>3. CASE SearchTau \/ SearchPop \/ RemoveTau
  BY <1>3, SearchTauArguments, SearchPopArguments, RemoveTauArguments
<1>4. CASE WalkEnds \/ FirstConnect \/ NextBlock
  <2>1. fn' = fn /\ taus' = taus /\ args' = args /\ Starting /\ pc' # "walk"
    BY <1>4 DEF WalkEnds, FirstConnect, Connect, Connected, NextBlock, WalkNext, Block,
                walkVars, textVars, Starting
  <2>2. QED
    BY <2>1, SameArguments
<1>5. CASE Inserted \/ Search \/ SearchUses \/ SearchChild \/ SearchedChildren \/ SearchReturn
           \/ FirstReturn \/ Collect \/ AllRemoved
  <2>1. CASE Inserted \/ Search \/ SearchUses \/ SearchChild
    <3>1. fn' = fn /\ taus' = taus /\ args' = args /\ ~ Starting' /\ pc' # "walk"
      BY <2>1 DEF Inserted, Search, SearchUses, SearchChild, walkVars, textVars, Starting
    <3>2. QED
      BY <3>1, SameArguments
  <2>2. CASE SearchedChildren \/ SearchReturn \/ FirstReturn \/ Collect \/ AllRemoved
    <3>1. fn' = fn /\ taus' = taus /\ args' = args /\ ~ Starting' /\ pc' # "walk"
      BY <2>2 DEF SearchedChildren, SearchReturn, FirstReturn, Collect, AllRemoved, hpssaVars,
                  walkVars, textVars, Starting
    <3>2. QED
      BY <3>1, SameArguments
  <2>3. QED
    BY <1>5, <2>1, <2>2
<1>6. CASE UNCHANGED firstVars
  <2>1. UNCHANGED <<fn, taus, args, pc, defAccumulator>>
    BY <1>6 DEF firstVars, accVars, pipelineVars, vars, walkVars, textVars
  <2>2. Starting' = Starting
    BY <2>1 DEF Starting
  <2>3. QED
    BY <2>1, <2>2, SameArguments
<1>7. QED
  BY <1>2, <1>3, <1>4, <1>5, <1>6 DEF FirstNext, FirstSearch

\* In the pass of HPSSA.cpp no tau that was erased is an argument of another: neither
\* while Search erases the spurious ones, whose uses it counts arguments among, nor while
\* TDestruction takes the others out.  (In HPSSA_new.cpp frames keep erased taus.)
THEOREM FirstArgsAlive == FirstSpec => []ArgsAlive
<1>1. PipelineInv /\ ArgumentsAlive /\ [FirstNext]_firstVars => ArgumentsAlive'
  BY ArgumentsStep
<1>2. ArgumentsAlive => ArgsAlive
  BY DEF ArgumentsAlive
<1>3. QED
  BY <1>1, <1>2, InitArguments, FirstInvariance, PTL DEF FirstSpec
=============================================================================

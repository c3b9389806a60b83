-------------------------- MODULE PathCountsProofs --------------------------
(***************************************************************************)
(* Theorems about the path profiler, for functions of every shape and any  *)
(* number of runs.                                                         *)
(***************************************************************************)
EXTENDS BallLarusProofs

----------------------------------------------------------------------------
(* The paths of the abstract graph.                                        *)

\* The places of edges that paths from the entry to the exit can contain.
Passable == {e \in Members \X Nat : e[1] # fn.exit /\ e[2] \in DOMAIN G[e[1]]}

Through(u, n, q) == <<<<u, n>>>> \o q

LEMMA Onward ==
    ASSUME GraphInv, pc # "abstract", NEW u \in Members \ {fn.exit}, NEW n \in DOMAIN G[u]
    PROVE  /\ n \in Nat \ {0} /\ G[u][n].val \in Nat /\ G[u][n].to \in Members
           /\ Rank(u) \in Nat /\ Rank(G[u][n].to) \in Nat /\ Rank(u) < Rank(G[u][n].to)
<1>1. DOMAIN G[u] = 1..Len(G[u]) /\ Len(G[u]) \in Nat
  BY GraphEdges
<1>2. G[u][n].val \in Nat /\ G[u][n].to \in Members /\ Rank(u) < Rank(G[u][n].to)
  BY GraphEdges
<1>3. fn \in Programs
  BY DEF GraphInv
<1> QED
  BY <1>1, <1>2, <1>3, RankIs

LEMMA PathsSolve ==
    ASSUME GraphInv, pc # "abstract"
    PROVE  /\ PathsFrom[fn.exit] = {<< >>}
           /\ \A u \in Members \ {fn.exit} :
                 PathsFrom[u] = UNION {{Through(u, n, q) : q \in PathsFrom[G[u][n].to]} : n \in DOMAIN G[u]}
<1> DEFINE E == Members \X Nat
           X == SUBSET Seq(E)
           body(u, f) == IF u = fn.exit THEN {<< >>}
                         ELSE UNION {{<<<<u, n>>>> \o q : q \in f[G[u][n].to]} : n \in DOMAIN G[u]}
           step == [p \in Members \X [Members -> X] |-> body(p[1], p[2])]
           N == Len(fn.rpo) + 1
           rank == [u \in Members |-> N - Rank(u)]
<1>1. fn \in Programs /\ fn.exit \in Members
  BY MembersAre DEF GraphInv
<1>2. /\ N \in Nat /\ \A u \in Members : Rank(u) \in 1..N
      /\ \A u \in Members \ {fn.exit} : \A n \in DOMAIN G[u] :
            G[u][n].to \in Members /\ Rank(u) < Rank(G[u][n].to) /\ n \in Nat
  <2>1. N \in Nat /\ \A u \in Members : Rank(u) \in 1..N
    BY <1>1, RankIs
  <2>2. \A u \in Members \ {fn.exit} : \A n \in DOMAIN G[u] :
            G[u][n].to \in Members /\ Rank(u) < Rank(G[u][n].to) /\ n \in Nat
    BY Onward
  <2> QED
    BY <2>1, <2>2
<1>3. rank \in [Members -> 0..N] /\ \A u \in Members : rank[u] = N - Rank(u)
  BY <1>2
<1>4. ASSUME NEW u \in Members, NEW f \in [Members -> X] PROVE body(u, f) \in X
  <2>1. CASE u = fn.exit
    BY <2>1
  <2>2. CASE u # fn.exit
    <3>1. ASSUME NEW n \in DOMAIN G[u], NEW q \in f[G[u][n].to]
          PROVE  <<<<u, n>>>> \o q \in Seq(E)
      <4>1. G[u][n].to \in Members /\ <<u, n>> \in E
        BY <1>2, <2>2
      <4>2. q \in Seq(E)
        BY <4>1
      <4> HIDE DEF E
      <4>3. <<<<u, n>>>> \in Seq(E)
        BY <4>1
      <4> QED
        BY <4>2, <4>3
    <3>2. body(u, f) = UNION {{<<<<u, n>>>> \o q : q \in f[G[u][n].to]} : n \in DOMAIN G[u]}
      BY <2>2
    <3>3. ASSUME NEW p \in body(u, f) PROVE p \in Seq(E)
      <4>1. PICK Q \in {{<<<<u, n>>>> \o q : q \in f[G[u][n].to]} : n \in DOMAIN G[u]} : p \in Q
        BY <3>2
      <4>2. PICK n \in DOMAIN G[u] : Q = {<<<<u, n>>>> \o q : q \in f[G[u][n].to]}
        OBVIOUS
      <4>3. PICK q \in f[G[u][n].to] : p = <<<<u, n>>>> \o q
        BY <4>1, <4>2
      <4> HIDE DEF E
      <4> QED
        BY <3>1, <4>3
    <3> HIDE DEF body, E
    <3> QED
      BY <3>3
  <2> QED
    BY <2>1, <2>2
<1>5. /\ step \in [Members \X [Members -> X] -> X]
      /\ \A u \in Members, f \in [Members -> X] : step[<<u, f>>] = body(u, f)
  <2> HIDE DEF body, X
  <2>1. \A p \in Members \X [Members -> X] : p[1] \in Members /\ p[2] \in [Members -> X]
    OBVIOUS
  <2>2. \A p \in Members \X [Members -> X] : body(p[1], p[2]) \in X
    BY <1>4, <2>1
  <2>3. step \in [Members \X [Members -> X] -> X]
    BY <2>2
  <2>4. ASSUME NEW u \in Members, NEW f \in [Members -> X] PROVE step[<<u, f>>] = body(u, f)
    <3>1. <<u, f>> \in Members \X [Members -> X]
      OBVIOUS
    <3>2. step[<<u, f>>] = body(<<u, f>>[1], <<u, f>>[2])
      BY <3>1
    <3> QED
      BY <3>2
  <2> QED
    BY <2>3, <2>4
<1>6. ASSUME NEW u \in Members, NEW f \in [Members -> X], NEW g \in [Members -> X],
             \A v \in Members : rank[v] < rank[u] => f[v] = g[v]
      PROVE  body(u, f) = body(u, g)
  <2>1. CASE u = fn.exit
    BY <2>1
  <2>2. CASE u # fn.exit
    <3>1. ASSUME NEW n \in DOMAIN G[u] PROVE f[G[u][n].to] = g[G[u][n].to]
      <4>1. G[u][n].to \in Members /\ Rank(u) < Rank(G[u][n].to)
        BY <1>2, <2>2
      <4>2. rank[G[u][n].to] < rank[u]
        BY <1>2, <1>3, <4>1
      <4> QED
        BY <1>6, <4>1, <4>2
    <3>2. {{<<<<u, n>>>> \o q : q \in f[G[u][n].to]} : n \in DOMAIN G[u]}
            = {{<<<<u, n>>>> \o q : q \in g[G[u][n].to]} : n \in DOMAIN G[u]}
      BY <3>1
    <3> QED
      BY <2>2, <3>2
  <2> QED
    BY <2>1, <2>2
<1>7. PICK f \in [Members -> X] : \A u \in Members : f[u] = body(u, f)
  <2>1. PICK D, Y, M, r, s : D = Members /\ Y = X /\ M = N /\ r = rank /\ s = step
    OBVIOUS
  <2>2. {} \in Y /\ M \in Nat /\ r \in [D -> 0..M] /\ s \in [D \X [D -> Y] -> Y]
    BY <1>2, <1>3, <1>5, <2>1
  <2>3. Local(s, r, D, Y)
    <3> HIDE DEF body, step, X, rank
    <3>1. SUFFICES ASSUME NEW u \in Members, NEW f \in [Members -> X], NEW g \in [Members -> X],
                          \A v \in Members : rank[v] < rank[u] => f[v] = g[v]
                   PROVE  step[<<u, f>>] = step[<<u, g>>]
      BY <2>1 DEF Local
    <3>2. body(u, f) = body(u, g)
      BY <1>6, <3>1
    <3> QED
      BY <1>5, <3>2
  <2>4. \E f \in [D -> Y] : Solves(f, s, D)
    BY <2>2, <2>3, RecursionByRank
  <2>5. PICK f \in [D -> Y] : Solves(f, s, D)
    BY <2>4
  <2>6. f \in [Members -> X] /\ \A u \in Members : f[u] = step[<<u, f>>]
    BY <2>1, <2>5 DEF Solves
  <2> HIDE DEF step, body
  <2> QED
    BY <1>5, <2>6
<1>8. f = [u \in Members |-> body(u, f)]
  <2> HIDE DEF body
  <2> QED
    BY <1>7
<1>9. PathsFrom = CHOOSE g : g = [u \in Members |-> body(u, g)]
  BY DEF PathsFrom
<1>10. PathsFrom = [u \in Members |-> body(u, PathsFrom)]
  <2> HIDE DEF body
  <2> QED
    BY <1>8, <1>9
<1>11. \A u \in Members : PathsFrom[u] = body(u, PathsFrom)
  <2> HIDE DEF body
  <2>1. PICK g : g = PathsFrom
    OBVIOUS
  <2>2. g = [u \in Members |-> body(u, g)]
    BY <1>10, <2>1
  <2> QED
    BY <2>1, <2>2
<1> QED
  BY <1>1, <1>11 DEF Through

\* The number of a path is the value of its first edge and that of the rest.
LEMMA NumberOnward ==
    ASSUME GraphInv, pc # "abstract", NEW u \in Members \ {fn.exit}, NEW n \in DOMAIN G[u],
           NEW q \in Seq(Passable)
    PROVE  LET p == Through(u, n, q) IN
           /\ p \in Seq(Passable) /\ Len(p) = Len(q) + 1 /\ Len(q) \in Nat
           /\ p[1] = <<u, n>> /\ \A k \in 1..Len(q) : p[k + 1] = q[k]
           /\ Number(p) = G[u][n].val + Number(q) /\ Number(q) \in Int
           /\ G[u][n].val \in Nat /\ G[u][n].to \in Members /\ n \in Nat
<1> DEFINE p == Through(u, n, q)
<1>1. n \in Nat /\ G[u][n].val \in Nat /\ G[u][n].to \in Members
  BY Onward
<1>2. PICK e \in Passable : e = <<u, n>>
  <2>1. <<u, n>> \in Passable
    BY <1>1 DEF Passable
  <2> QED
    BY <2>1
<1>3. /\ p \in Seq(Passable) /\ Len(p) = Len(q) + 1 /\ Len(q) \in Nat
      /\ p[1] = e /\ \A k \in 1..Len(q) : p[k + 1] = q[k]
  <2>1. p = <<e>> \o q
    BY <1>2 DEF Through
  <2>2. <<e>> \in Seq(Passable) /\ Len(<<e>>) = 1 /\ <<e>>[1] = e
    OBVIOUS
  <2> QED
    BY <2>1, <2>2
<1>4. ASSUME NEW d \in Passable PROVE EdgeAt(d).val \in Int
  <2>1. d[1] \in Members \ {fn.exit} /\ d[2] \in DOMAIN G[d[1]]
    BY DEF Passable
  <2> QED
    BY <2>1, Onward DEF EdgeAt
<1>5. PICK vals : vals = [k \in DOMAIN p |-> EdgeAt(p[k]).val]
  OBVIOUS
<1>6. PICK rest : rest = [k \in DOMAIN q |-> EdgeAt(q[k]).val]
  OBVIOUS
<1>7. DOMAIN p = 1..(Len(q) + 1) /\ DOMAIN q = 1..Len(q)
  BY <1>3
<1>8. rest \in Seq(Int) /\ Len(rest) = Len(q)
  <2>1. \A k \in 1..Len(q) : rest[k] \in Int
    BY <1>4, <1>6, <1>7
  <2> QED
    BY <1>3, <1>6, <1>7, <2>1
<1>9. vals \in Seq(Int) /\ Len(vals) = Len(q) + 1
  <2>1. \A k \in 1..(Len(q) + 1) : vals[k] \in Int
    BY <1>3, <1>4, <1>5, <1>7
  <2>2. PICK M \in Nat : M = Len(q) + 1
    BY <1>3
  <2>3. vals = [k \in 1..M |-> vals[k]] /\ \A k \in 1..M : vals[k] \in Int
    BY <1>5, <1>7, <2>1, <2>2
  <2> QED
    BY <2>2, <2>3
<1>10. \A k \in 1..Len(rest) : vals[k + 1] = rest[k]
  <2>1. \A k \in 1..Len(q) : k + 1 \in DOMAIN p /\ k \in DOMAIN q
    BY <1>3, <1>7
  <2> QED
    BY <1>3, <1>5, <1>6, <1>8, <2>1
<1>11. Total(vals) = vals[1] + Total(rest)
  BY <1>8, <1>9, <1>10, TotalFromHead
<1>12. vals[1] = G[u][n].val
  <2>1. 1 \in DOMAIN p
    BY <1>3, <1>7
  <2> QED
    BY <1>2, <1>3, <1>5, <2>1 DEF EdgeAt
<1>13. Total(rest) \in Int
  <2>1. Len(rest) \in 0..Len(rest)
    BY <1>3, <1>8
  <2> QED
    BY <1>8, <2>1, SumsAre DEF Total
<1> QED
  BY <1>1, <1>2, <1>3, <1>5, <1>6, <1>11, <1>12, <1>13 DEF Number

\* The numbers of the paths from u are those below NumPaths of u, each that of one path.
NumbersOf(u) ==
    /\ \A p \in PathsFrom[u] : p \in Seq(Passable) /\ Number(p) \in 0..(NumPaths[u] - 1)
    /\ \A p, q \in PathsFrom[u] : Number(p) = Number(q) => p = q
    /\ \A x \in 0..(NumPaths[u] - 1) : \E p \in PathsFrom[u] : Number(p) = x

LEMMA ExitNumbers ==
    ASSUME GraphInv, ValuesInv, pc # "abstract", NumPaths[fn.exit] = 1
    PROVE  NumbersOf(fn.exit)
<1>1. PathsFrom[fn.exit] = {<< >>}
  BY PathsSolve
<1>2. << >> \in Seq(Passable)
  OBVIOUS
<1>3. Number(<< >>) = 0
  <2>1. PICK vals : vals = [k \in DOMAIN << >> |-> EdgeAt(<< >>[k]).val]
    OBVIOUS
  <2>2. vals = << >>
    BY <2>1
  <2>3. vals \in Seq(Int) /\ Len(vals) = 0
    BY <2>2
  <2>4. Total(vals) = 0
    BY <2>3, SumsAre DEF Total
  <2> QED
    BY <2>1, <2>4 DEF Number
<1> QED
  BY <1>1, <1>2, <1>3 DEF NumbersOf

\* The values of the edges of u, and the number of paths from it at the end, are steps.
LEMMA ValuesStepUp ==
    ASSUME GraphInv, ValuesInv, pc # "abstract", NEW u \in Members \ {fn.exit}, Valued(u),
           \A n \in DOMAIN G[u] : NumPaths[G[u][n].to] >= 1
    PROVE  \E N \in Nat \ {0} : \E s \in [0..N -> Int] :
              /\ DOMAIN G[u] = 1..N /\ s[0] = 0 /\ s[N] = NumPaths[u]
              /\ \A n \in 1..N : /\ G[u][n].val = s[n - 1]
                                 /\ s[n] = s[n - 1] + NumPaths[G[u][n].to]
                                 /\ s[n - 1] < s[n]
              /\ \A m, n \in 0..N : m < n => s[m] < s[n]
              /\ \A x \in Nat : x < s[N] => \E n \in 1..N : s[n - 1] <= x /\ x < s[n]
<1>1. NumPaths \in [Members -> Nat]
  BY DEF ValuesInv
<1>2. PICK N \in Nat \ {0} : N = Len(G[u]) /\ DOMAIN G[u] = 1..N
  BY GraphEdges
<1>3. PICK s : s = [n \in 0..N |-> PathsBy(u, n)]
  OBVIOUS
<1>4. /\ \A n \in 0..N : PathsBy(u, n) \in Nat
      /\ PathsBy(u, 0) = 0
      /\ \A n \in 1..N : PathsBy(u, n) = PathsBy(u, n - 1) + NumPaths[G[u][n].to]
      /\ \A n \in 1..N : G[u][n].to \in Members
  BY <1>1, <1>2, PathsByAre
<1>5. \A n \in 1..N : n - 1 \in 0..N /\ n \in 0..N
  OBVIOUS
<1>6. s \in [0..N -> Int] /\ s[0] = 0 /\ \A n \in 0..N : s[n] = PathsBy(u, n)
  BY <1>3, <1>4
<1>7. s[N] = NumPaths[u] /\ \A n \in 1..N : G[u][n].val = s[n - 1]
  <2>1. NumPaths[u] = PathsBy(u, N) /\ \A n \in 1..N : G[u][n].val = PathsBy(u, n - 1)
    BY <1>2 DEF Valued
  <2>2. N \in 0..N
    OBVIOUS
  <2> QED
    BY <1>5, <1>6, <2>1, <2>2
<1>8. \A n \in 1..N : s[n] = s[n - 1] + NumPaths[G[u][n].to]
  BY <1>4, <1>5, <1>6
<1>9. \A n \in 1..N : s[n - 1] < s[n]
  <2> SUFFICES ASSUME NEW n \in 1..N PROVE s[n - 1] < s[n]
    OBVIOUS
  <2>1. NumPaths[G[u][n].to] \in Nat /\ NumPaths[G[u][n].to] >= 1
    BY <1>1, <1>2, <1>4
  <2>2. s[n - 1] \in Int
    BY <1>5, <1>6
  <2> QED
    BY <1>8, <2>1, <2>2
<1>10. /\ \A m, n \in 0..N : m < n => s[m] < s[n]
       /\ \A x \in Nat : x < s[N] => \E n \in 1..N : s[n - 1] <= x /\ x < s[n]
  BY <1>6, <1>9, Steps
<1> QED
  BY <1>2, <1>6, <1>7, <1>8, <1>9, <1>10

LEMMA BlockNumbers ==
    ASSUME GraphInv, ValuesInv, pc # "abstract", NEW u \in Members \ {fn.exit}, Valued(u),
           \A n \in DOMAIN G[u] : /\ NumPaths[G[u][n].to] >= 1
                                  /\ NumbersOf(G[u][n].to)
    PROVE  NumbersOf(u)
<1>0. PICK N \in Nat \ {0} : \E s \in [0..N -> Int] :
          /\ DOMAIN G[u] = 1..N /\ s[0] = 0 /\ s[N] = NumPaths[u]
          /\ \A n \in 1..N : /\ G[u][n].val = s[n - 1]
                             /\ s[n] = s[n - 1] + NumPaths[G[u][n].to]
                             /\ s[n - 1] < s[n]
          /\ \A m, n \in 0..N : m < n => s[m] < s[n]
          /\ \A x \in Nat : x < s[N] => \E n \in 1..N : s[n - 1] <= x /\ x < s[n]
  BY ValuesStepUp
<1>1. PICK s \in [0..N -> Int] :
          /\ DOMAIN G[u] = 1..N /\ s[0] = 0 /\ s[N] = NumPaths[u]
          /\ \A n \in 1..N : /\ G[u][n].val = s[n - 1]
                             /\ s[n] = s[n - 1] + NumPaths[G[u][n].to]
                             /\ s[n - 1] < s[n]
          /\ \A m, n \in 0..N : m < n => s[m] < s[n]
          /\ \A x \in Nat : x < s[N] => \E n \in 1..N : s[n - 1] <= x /\ x < s[n]
  BY <1>0
<1>2. PathsFrom[u] = UNION {{Through(u, n, q) : q \in PathsFrom[G[u][n].to]} : n \in 1..N}
  BY <1>1, PathsSolve
<1>3. NumPaths \in [Members -> Nat]
  BY DEF ValuesInv
<1>4. \A n \in 1..N : n - 1 \in 0..N /\ n \in 0..N /\ s[n - 1] \in Int /\ s[n] \in Int
  OBVIOUS
\* A path through the n-th edge has a number between the steps n - 1 and n.
<1>5. ASSUME NEW n \in 1..N, NEW q \in PathsFrom[G[u][n].to], NEW p, p = Through(u, n, q)
      PROVE  /\ p \in Seq(Passable) /\ Number(p) \in Int
             /\ Number(p) = s[n - 1] + Number(q) /\ Number(q) \in Int
             /\ s[n - 1] <= Number(p) /\ Number(p) < s[n]
  <2>1. q \in Seq(Passable) /\ Number(q) \in 0..(NumPaths[G[u][n].to] - 1)
    BY <1>1 DEF NumbersOf
  <2>2. p \in Seq(Passable) /\ Number(p) = G[u][n].val + Number(q) /\ G[u][n].to \in Members
    <3>1. n \in DOMAIN G[u]
      BY <1>1
    <3>2. q \in Seq(Passable) /\ p = Through(u, n, q)
      BY <1>5, <2>1
    <3> QED
      BY <3>1, <3>2, NumberOnward
  <2>3. NumPaths[G[u][n].to] \in Nat
    BY <1>3, <2>2
  <2>4. /\ G[u][n].val = s[n - 1] /\ s[n] = s[n - 1] + NumPaths[G[u][n].to]
        /\ s[n - 1] \in Int
    BY <1>1, <1>4
  <2>5. PICK x \in Int, y \in Nat, z \in Nat :
            x = s[n - 1] /\ y = Number(q) /\ z = NumPaths[G[u][n].to] /\ y < z
    BY <2>1, <2>3, <2>4
  <2>6. Number(p) = x + y /\ s[n] = x + z
    BY <2>2, <2>4, <2>5
  <2>7. x + y \in Int /\ x <= x + y /\ x + y < x + z
    <3>1. y < z /\ 0 <= y
      BY <2>5
    <3> QED
      BY <3>1
  <2>8. Number(p) \in Int /\ Number(p) = s[n - 1] + Number(q) /\ Number(q) \in Int
    BY <2>5, <2>6, <2>7
  <2>9. s[n - 1] <= Number(p) /\ Number(p) < s[n]
    BY <2>5, <2>6, <2>7
  <2> QED
    BY <2>2, <2>8, <2>9
<1>6. ASSUME NEW p \in PathsFrom[u]
      PROVE  \E n \in 1..N : \E q \in PathsFrom[G[u][n].to] : p = Through(u, n, q)
  <2>1. PICK Q \in {{Through(u, n, q) : q \in PathsFrom[G[u][n].to]} : n \in 1..N} : p \in Q
    BY <1>2
  <2> QED
    BY <2>1
<1>7. ASSUME NEW m \in 0..N, NEW n \in 0..N, m <= n PROVE s[m] <= s[n]
  <2>1. m = n \/ m < n
    BY <1>7
  <2>2. s[m] \in Int /\ s[n] \in Int
    OBVIOUS
  <2> QED
    BY <1>1, <2>1, <2>2
<1>8. ASSUME NEW p \in PathsFrom[u]
      PROVE  p \in Seq(Passable) /\ Number(p) \in 0..(NumPaths[u] - 1)
  <2>0. PICK n \in 1..N : \E q \in PathsFrom[G[u][n].to] : p = Through(u, n, q)
    BY <1>6
  <2>1. PICK q \in PathsFrom[G[u][n].to] : p = Through(u, n, q)
    BY <2>0
  <2>2. p \in Seq(Passable) /\ Number(p) \in Int /\ s[n - 1] <= Number(p) /\ Number(p) < s[n]
    BY <1>5, <2>1
  <2>3. s[0] <= s[n - 1] /\ s[n] <= s[N]
    BY <1>4, <1>7
  <2>4. s[N] \in Int
    OBVIOUS
  <2>5. PICK a \in Int, b \in Int, c \in Int, x \in Int :
            a = s[n - 1] /\ b = s[n] /\ c = s[N] /\ x = Number(p)
    BY <1>4, <2>2, <2>4
  <2>6. 0 <= a /\ a <= x /\ x < b /\ b <= c
    BY <1>1, <2>2, <2>3, <2>5
  <2>7. x \in 0..(c - 1)
    BY <2>6
  <2> QED
    BY <1>1, <2>2, <2>5, <2>7
<1>9. ASSUME NEW p \in PathsFrom[u], NEW q \in PathsFrom[u], Number(p) = Number(q) PROVE p = q
  <2>10. PICK n \in 1..N : \E a \in PathsFrom[G[u][n].to] : p = Through(u, n, a)
    BY <1>6
  <2>1. PICK a \in PathsFrom[G[u][n].to] : p = Through(u, n, a)
    BY <2>10
  <2>20. PICK m \in 1..N : \E b \in PathsFrom[G[u][m].to] : q = Through(u, m, b)
    BY <1>6
  <2>2. PICK b \in PathsFrom[G[u][m].to] : q = Through(u, m, b)
    BY <2>20
  <2>3. /\ s[n - 1] <= Number(p) /\ Number(p) < s[n] /\ Number(p) \in Int
        /\ Number(p) = s[n - 1] + Number(a) /\ Number(a) \in Int
    BY <1>5, <2>1
  <2>4. /\ s[m - 1] <= Number(q) /\ Number(q) < s[m]
        /\ Number(q) = s[m - 1] + Number(b) /\ Number(b) \in Int
    BY <1>5, <2>2
  <2>5. ~ (n < m) /\ ~ (m < n)
    <3>1. n < m => s[n] <= s[m - 1]
      BY <1>4, <1>7
    <3>2. m < n => s[m] <= s[n - 1]
      BY <1>4, <1>7
    <3>3. PICK a1 \in Int, a2 \in Int, b1 \in Int, b2 \in Int :
              a1 = s[n - 1] /\ a2 = s[n] /\ b1 = s[m - 1] /\ b2 = s[m]
      BY <1>4
    <3>4. PICK x \in Int : x = Number(p) /\ x = Number(q)
      BY <1>9, <2>3
    <3>5. a1 <= x /\ x < a2 /\ b1 <= x /\ x < b2
      BY <2>3, <2>4, <3>3, <3>4
    <3>6. (n < m => a2 <= b1) /\ (m < n => b2 <= a1)
      BY <3>1, <3>2, <3>3
    <3> QED
      BY <3>5, <3>6
  <2>6. n = m
    BY <2>5
  <2>7. Number(a) = Number(b)
    <3>1. PICK y \in Int : y = s[n - 1]
      BY <1>4
    <3>2. y + Number(a) = y + Number(b)
      BY <1>9, <2>3, <2>4, <2>6, <3>1
    <3> QED
      BY <2>3, <2>4, <3>2
  <2>8. a = b
    BY <1>1, <2>6, <2>7 DEF NumbersOf
  <2> QED
    BY <2>1, <2>2, <2>6, <2>8
<1>10. ASSUME NEW x \in 0..(NumPaths[u] - 1) PROVE \E p \in PathsFrom[u] : Number(p) = x
  <2>1. x \in Nat /\ x < s[N]
    BY <1>1, <1>3
  <2>2. PICK n \in 1..N : s[n - 1] <= x /\ x < s[n]
    BY <1>1, <2>1
  <2>3. x - s[n - 1] \in 0..(NumPaths[G[u][n].to] - 1)
    <3>1. G[u][n].to \in Members
      BY <1>1, GraphEdges
    <3>2. NumPaths[G[u][n].to] \in Nat
      BY <1>3, <3>1
    <3>3. PICK y \in Int, z \in Nat : y = s[n - 1] /\ z = NumPaths[G[u][n].to]
      BY <1>4, <3>2
    <3>4. y <= x /\ x < y + z
      BY <1>1, <2>2, <3>3
    <3>5. x - y \in 0..(z - 1)
      BY <2>1, <3>4
    <3> QED
      BY <3>3, <3>5
  <2>4. PICK q \in PathsFrom[G[u][n].to] : Number(q) = x - s[n - 1]
    BY <1>1, <2>3 DEF NumbersOf
  <2>5. PICK p : p = Through(u, n, q)
    OBVIOUS
  <2>6. p \in PathsFrom[u]
    <3>1. p \in {Through(u, n, r) : r \in PathsFrom[G[u][n].to]}
      BY <2>4, <2>5
    <3>2. PICK Q : Q = {Through(u, n, r) : r \in PathsFrom[G[u][n].to]}
      OBVIOUS
    <3>3. Q \in {{Through(u, m, r) : r \in PathsFrom[G[u][m].to]} : m \in 1..N}
      BY <3>2
    <3> QED
      BY <1>2, <3>1, <3>2, <3>3
  <2>7. Number(p) = s[n - 1] + Number(q)
    BY <1>5, <2>5
  <2> QED
    BY <1>4, <2>4, <2>6, <2>7
<1> QED
  BY <1>8, <1>9, <1>10 DEF NumbersOf

LEMMA FinishedBlocks ==
    ASSUME GraphInv, OrderInv, ValuesInv, Built
    PROVE  /\ \A k \in DOMAIN finish : finish[k] \in Members /\ k \in Nat /\ Numbered(finish[k])
           /\ \A k \in DOMAIN finish : finish[k] # fn.exit =>
                 \A n \in DOMAIN G[finish[k]] :
                    \E j \in DOMAIN finish : j < k /\ finish[j] = G[finish[k]][n].to
           /\ \E k \in DOMAIN finish : finish[k] = fn.entry
           /\ pc # "abstract"
<1>1. pc # "abstract" /\ pc # "sort"
  BY DEF Built, Numbering
<1>2. /\ finish \in Seq(Members) /\ stack = << >> /\ fn.entry \in Visited
      /\ \A k \in DOMAIN finish : finish[k] # fn.exit =>
            \A n \in DOMAIN G[finish[k]] :
               \E j \in DOMAIN finish : j < k /\ finish[j] = G[finish[k]][n].to
  BY <1>1 DEF OrderInv
<1>3. \A k \in DOMAIN finish : finish[k] \in Members /\ k \in Nat
  BY <1>2
<1>4. \A k \in DOMAIN finish : Numbered(finish[k])
  BY <1>1 DEF ValuesInv
<1>5. \E k \in DOMAIN finish : finish[k] = fn.entry
  BY <1>2 DEF Visited, ToSet
<1> QED
  BY <1>1, <1>2, <1>3, <1>4, <1>5

\* What holds of the exit, and of a block if it holds of those its edges lead to, holds of
\* the entry: blocks are in the order in which the search has finished them.
LEMMA Backwards ==
    ASSUME GraphInv, OrderInv, ValuesInv, Built, NEW S,
           fn.exit \in S,
           \A u \in Members \ {fn.exit} :
              /\ Numbered(u)
              /\ \A n \in DOMAIN G[u] : G[u][n].to \in S /\ Numbered(G[u][n].to)
              => u \in S
    PROVE  fn.entry \in S
<1> DEFINE T == {k \in Nat : k \in DOMAIN finish => finish[k] \in S}
<1>1. /\ \A k \in DOMAIN finish : finish[k] \in Members /\ k \in Nat /\ Numbered(finish[k])
      /\ \A k \in DOMAIN finish : finish[k] # fn.exit =>
            \A n \in DOMAIN G[finish[k]] :
               \E j \in DOMAIN finish : j < k /\ finish[j] = G[finish[k]][n].to
      /\ \E k \in DOMAIN finish : finish[k] = fn.entry
  BY FinishedBlocks
<1>2. ASSUME NEW k \in Nat, \A j \in Nat : j < k => j \in T PROVE k \in T
  <2> SUFFICES ASSUME k \in DOMAIN finish, finish[k] # fn.exit PROVE finish[k] \in S
    OBVIOUS
  <2>1. ASSUME NEW n \in DOMAIN G[finish[k]]
        PROVE  G[finish[k]][n].to \in S /\ Numbered(G[finish[k]][n].to)
    <3>1. PICK j \in DOMAIN finish : j < k /\ finish[j] = G[finish[k]][n].to
      BY <1>1
    <3> QED
      BY <1>1, <1>2, <3>1
  <2> QED
    BY <1>1, <2>1
<1>3. \A k \in Nat : k \in T
  <2> HIDE DEF T
  <2> QED
    BY <1>2, StrongInduction
<1> QED
  BY <1>1, <1>3

LEMMA EntryNumbers ==
    ASSUME GraphInv, OrderInv, ValuesInv, Built
    PROVE  NumbersOf(fn.entry) /\ NumPaths[fn.entry] \in Nat \ {0}
<1>1. pc # "abstract" /\ fn.entry \in Members /\ fn \in Programs
  BY FinishedBlocks, MembersAre DEF GraphInv
<1> DEFINE S == {u \in Members : Numbered(u) => NumbersOf(u)}
<1>2. fn.exit \in S
  BY <1>1, ExitNumbers, MembersAre DEF Numbered
<1>3. ASSUME NEW u \in Members \ {fn.exit}, Numbered(u),
             \A n \in DOMAIN G[u] : G[u][n].to \in S /\ Numbered(G[u][n].to)
      PROVE  u \in S
  <2>1. \A n \in DOMAIN G[u] : NumPaths[G[u][n].to] >= 1 /\ NumbersOf(G[u][n].to)
    BY <1>3 DEF Numbered
  <2>2. Valued(u)
    BY <1>3 DEF Numbered
  <2> QED
    BY <1>1, <2>1, <2>2, BlockNumbers
<1>4. fn.entry \in S
  <2> HIDE DEF S
  <2> QED
    BY <1>2, <1>3, Backwards
<1>5. Numbered(fn.entry)
  BY FinishedBlocks
<1>6. NumPaths[fn.entry] \in Nat
  BY <1>1 DEF ValuesInv
<1> QED
  BY <1>4, <1>5, <1>6 DEF Numbered

LEMMA Unique ==
    ASSUME GraphInv, OrderInv, ValuesInv
    PROVE  NumbersUnique
<1>1. SUFFICES ASSUME pc = "tree"
               PROVE  /\ Cardinality(AbstractPaths) = NumPaths[fn.entry]
                      /\ {Number(p) : p \in AbstractPaths} = 0..(NumPaths[fn.entry] - 1)
  BY DEF NumbersUnique
<1>0. PICK P : P = AbstractPaths
  OBVIOUS
<1>2. PICK N \in Nat \ {0} : P = AbstractPaths /\ N = NumPaths[fn.entry]
  <2>1. Built
    BY <1>1 DEF Built, Numbering
  <2> QED
    BY <1>0, <2>1, EntryNumbers
<1>3. /\ \A p \in P : Number(p) \in 0..(N - 1)
      /\ \A p, q \in P : Number(p) = Number(q) => p = q
      /\ \A x \in 0..(N - 1) : \E p \in P : Number(p) = x
  <2>1. Built
    BY <1>1 DEF Built, Numbering
  <2> QED
    BY <1>2, <2>1, EntryNumbers DEF NumbersOf, AbstractPaths
<1>4. {Number(p) : p \in P} = 0..(N - 1)
  BY <1>3
<1>5. PICK f : f = [x \in 0..(N - 1) |-> CHOOSE p \in P : Number(p) = x]
  OBVIOUS
<1>6. \A x \in 0..(N - 1) : f[x] \in P /\ Number(f[x]) = x
  BY <1>3, <1>5
<1>7. f \in Bijection(0..(N - 1), P)
  <2>1. f \in [0..(N - 1) -> P]
    BY <1>5, <1>6
  <2>2. \A x, y \in 0..(N - 1) : f[x] = f[y] => x = y
    BY <1>6
  <2>3. \A p \in P : \E x \in 0..(N - 1) : f[x] = p
    <3> SUFFICES ASSUME NEW p \in P PROVE f[Number(p)] = p
      BY <1>3
    <3>1. Number(p) \in 0..(N - 1)
      BY <1>3
    <3> QED
      BY <1>3, <1>6, <3>1
  <2> QED
    BY <2>1, <2>2, <2>3 DEF Bijection, Injection, Surjection, IsInjective
<1>8. IsFiniteSet(0..(N - 1)) /\ Cardinality(0..(N - 1)) = N
  <2>1. 0 \in Int /\ N - 1 \in Int
    OBVIOUS
  <2>2. IsFiniteSet(0..(N - 1)) /\ Cardinality(0..(N - 1)) = IF 0 > N - 1 THEN 0 ELSE (N - 1) - 0 + 1
    BY <2>1, FS_Interval
  <2> QED
    BY <2>2
<1>9. Cardinality(P) = N
  BY <1>7, <1>8, FS_Bijection DEF ExistsBijection
<1> QED
  BY <1>2, <1>4, <1>9

----------------------------------------------------------------------------
(* Regeneration.                                                           *)

LEMMA MaxEdgeIs ==
    ASSUME GraphInv, ValuesInv, pc # "abstract", NEW u \in Members \ {fn.exit}, NEW n \in Nat
    PROVE  /\ MaxEdge(u, n) \in DOMAIN G[u]
           /\ G[u][MaxEdge(u, n)].val <= n
           /\ \A m \in DOMAIN G[u] : G[u][m].val <= n =>
                 \/ G[u][m].val < G[u][MaxEdge(u, n)].val
                 \/ G[u][m].val = G[u][MaxEdge(u, n)].val /\ MaxEdge(u, n) <= m
<1>1. /\ \A m \in DOMAIN G[u] : m \in Nat /\ G[u][m].val \in Nat
      /\ 1 \in DOMAIN G[u] /\ G[u][1].val = 0
  <2>1. \A m \in DOMAIN G[u] : m \in Nat /\ G[u][m].val \in Nat
    BY Onward
  <2>2. DOMAIN G[u] = 1..Len(G[u]) /\ Len(G[u]) \in Nat /\ Len(G[u]) >= 1
    BY GraphEdges
  <2>3. G[u][1].val = 0
    BY DEF ValuesInv
  <2> QED
    BY <2>1, <2>2, <2>3
<1> DEFINE low == {m \in DOMAIN G[u] : G[u][m].val <= n}
           vals == {G[u][m].val : m \in low}
<1>2. vals \in SUBSET (0..n) /\ vals # {}
  <2>1. 1 \in low
    BY <1>1
  <2>2. \A m \in low : G[u][m].val \in 0..n
    BY <1>1
  <2> QED
    BY <2>1, <2>2
<1>3. PICK x \in vals : \A y \in vals : y <= x
  <2> HIDE DEF vals
  <2> QED
    BY <1>2, GreatestNumber
<1> DEFINE best == {m \in low : G[u][m].val = x}
<1>4. best \in SUBSET Nat /\ best # {}
  BY <1>1, <1>3
<1>5. PICK k \in best : \A m \in best : k <= m
  <2> HIDE DEF best
  <2> QED
    BY <1>4, LeastNumber
<1>6. /\ k \in DOMAIN G[u] /\ G[u][k].val <= n
      /\ \A m \in DOMAIN G[u] : G[u][m].val <= n =>
            G[u][m].val < G[u][k].val \/ (G[u][m].val = G[u][k].val /\ k <= m)
  <2>1. k \in DOMAIN G[u] /\ G[u][k].val <= n /\ G[u][k].val = x
    OBVIOUS
  <2>2. ASSUME NEW m \in DOMAIN G[u], G[u][m].val <= n
        PROVE  G[u][m].val < G[u][k].val \/ (G[u][m].val = G[u][k].val /\ k <= m)
    <3>1. G[u][m].val <= x
      BY <1>3, <2>2
    <3>2. G[u][m].val = x => k <= m
      BY <1>5, <2>2
    <3>3. G[u][m].val \in Nat /\ x \in Nat
      BY <1>1, <2>1
    <3> QED
      BY <2>1, <3>1, <3>2, <3>3
  <2> QED
    BY <2>1, <2>2
<1> QED
  BY <1>6 DEF MaxEdge

\* The equations numToPath solves.
Regenerates(path) ==
    /\ \A n \in Nat : path[<<fn.exit, n>>] = <<fn.exit>>
    /\ \A u \in Members \ {fn.exit}, n \in Nat :
          path[<<u, n>>] = <<u>> \o path[<<G[u][MaxEdge(u, n)].to, n - G[u][MaxEdge(u, n)].val>>]

LEMMA NextNumber ==
    ASSUME GraphInv, ValuesInv, pc # "abstract", NEW u \in Members \ {fn.exit}, NEW n \in Nat
    PROVE  /\ G[u][MaxEdge(u, n)].to \in Members /\ n - G[u][MaxEdge(u, n)].val \in Nat
           /\ Rank(u) \in Nat /\ Rank(G[u][MaxEdge(u, n)].to) \in Nat
           /\ Rank(u) < Rank(G[u][MaxEdge(u, n)].to)
<1>1. PICK k \in DOMAIN G[u] : k = MaxEdge(u, n) /\ G[u][k].val <= n
  BY MaxEdgeIs
<1>2. G[u][k].val \in Nat
  BY Onward
<1>3. n - G[u][k].val \in Nat
  BY <1>1, <1>2
<1> QED
  BY <1>1, <1>3, Onward

LEMMA PathSolves ==
    ASSUME GraphInv, ValuesInv, pc # "abstract"
    PROVE  \E path : /\ Regenerates(path)
                     /\ \A n : numToPath(n) = path[<<fn.entry, n>>]
<1> DEFINE D == Members \X Nat
           X == Seq(Members)
           onto(p) == <<G[p[1]][MaxEdge(p[1], p[2])].to, p[2] - G[p[1]][MaxEdge(p[1], p[2])].val>>
           body(p, f) == IF p[1] = fn.exit THEN <<p[1]>> ELSE <<p[1]>> \o f[onto(p)]
           step == [d \in D \X [D -> X] |-> body(d[1], d[2])]
           N == Len(fn.rpo) + 1
           rank == [p \in D |-> N - Rank(p[1])]
<1>1. fn \in Programs /\ fn.exit \in Members
  BY MembersAre DEF GraphInv
<1>2. N \in Nat /\ \A u \in Members : Rank(u) \in 1..N
  BY <1>1, RankIs
<1>3. rank \in [D -> 0..N] /\ \A p \in D : rank[p] = N - Rank(p[1])
  BY <1>2
<1>4. ASSUME NEW p \in D, p[1] # fn.exit PROVE onto(p) \in D /\ rank[onto(p)] < rank[p]
  <2>1. p[1] \in Members \ {fn.exit} /\ p[2] \in Nat
    BY <1>4
  <2>2. PICK v \in Members, m \in Nat : onto(p) = <<v, m>> /\ Rank(p[1]) < Rank(v)
    BY <2>1, NextNumber
  <2>3. onto(p) \in D /\ onto(p)[1] = v
    BY <2>2
  <2>4. Rank(p[1]) \in 1..N /\ Rank(v) \in 1..N
    BY <1>2, <2>1
  <2> HIDE DEF onto, rank
  <2>5. rank[onto(p)] = N - Rank(v) /\ rank[p] = N - Rank(p[1])
    BY <1>3, <2>3
  <2> QED
    BY <1>2, <2>2, <2>3, <2>4, <2>5
<1> HIDE DEF onto, rank
<1>5. ASSUME NEW p \in D, NEW f \in [D -> X] PROVE body(p, f) \in X
  <2>1. p[1] \in Members
    OBVIOUS
  <2>2. p[1] # fn.exit => f[onto(p)] \in X
    BY <1>4
  <2> QED
    BY <2>1, <2>2
<1>6. /\ step \in [D \X [D -> X] -> X]
      /\ \A p \in D, f \in [D -> X] : step[<<p, f>>] = body(p, f)
  <2> HIDE DEF body, X, D
  <2>1. \A d \in D \X [D -> X] : d[1] \in D /\ d[2] \in [D -> X]
    OBVIOUS
  <2>2. \A d \in D \X [D -> X] : body(d[1], d[2]) \in X
    BY <1>5, <2>1
  <2>3. step \in [D \X [D -> X] -> X]
    BY <2>2
  <2>4. ASSUME NEW p \in D, NEW f \in [D -> X] PROVE step[<<p, f>>] = body(p, f)
    <3>1. <<p, f>> \in D \X [D -> X]
      OBVIOUS
    <3>2. step[<<p, f>>] = body(<<p, f>>[1], <<p, f>>[2])
      BY <3>1
    <3> QED
      BY <3>2
  <2> QED
    BY <2>3, <2>4
<1>7. PICK f \in [D -> X] : \A p \in D : f[p] = body(p, f)
  <2>1. PICK C, Y, M, r, s : C = D /\ Y = X /\ M = N /\ r = rank /\ s = step
    OBVIOUS
  <2>2. << >> \in Y /\ M \in Nat /\ r \in [C -> 0..M] /\ s \in [C \X [C -> Y] -> Y]
    <3>1. << >> \in X
      OBVIOUS
    <3> HIDE DEF X, D, step
    <3> QED
      BY <1>2, <1>3, <1>6, <2>1, <3>1
  <2>3. Local(s, r, C, Y)
    <3> HIDE DEF step, X, D
    <3>1. SUFFICES ASSUME NEW p \in D, NEW f \in [D -> X], NEW g \in [D -> X],
                          \A v \in D : rank[v] < rank[p] => f[v] = g[v]
                   PROVE  step[<<p, f>>] = step[<<p, g>>]
      BY <2>1 DEF Local
    <3>2. p[1] # fn.exit => f[onto(p)] = g[onto(p)]
      BY <1>4, <3>1
    <3>3. body(p, f) = body(p, g)
      BY <3>2
    <3> QED
      BY <1>6, <3>3
  <2>4. \E f \in [C -> Y] : Solves(f, s, C)
    BY <2>2, <2>3, RecursionByRank
  <2>5. PICK f \in [C -> Y] : Solves(f, s, C)
    BY <2>4
  <2>6. f \in [D -> X] /\ \A p \in D : f[p] = step[<<p, f>>]
    BY <2>1, <2>5 DEF Solves
  <2> HIDE DEF step, body, D
  <2> QED
    BY <1>6, <2>6
<1>8. f = [p \in D |-> body(p, f)]
  <2> HIDE DEF body, D
  <2> QED
    BY <1>7
<1>9. PICK path : /\ path = CHOOSE g : g = [p \in D |-> body(p, g)]
                  /\ \A n : numToPath(n) = path[<<fn.entry, n>>]
  BY DEF numToPath, onto
<1>10. path = [p \in D |-> body(p, path)]
  <2> HIDE DEF body, D
  <2> QED
    BY <1>8, <1>9
<1>11. \A p \in D : path[p] = body(p, path)
  <2> HIDE DEF body, D
  <2> QED
    BY <1>10
<1>12. ASSUME NEW u \in Members, NEW n \in Nat
       PROVE  path[<<u, n>>] = IF u = fn.exit THEN <<u>> ELSE <<u>> \o path[onto(<<u, n>>)]
  <2>1. <<u, n>> \in D /\ <<u, n>>[1] = u
    OBVIOUS
  <2>2. path[<<u, n>>] = body(<<u, n>>, path)
    BY <1>11, <2>1
  <2> QED
    BY <2>1, <2>2
<1>13. Regenerates(path)
  <2>1. \A n \in Nat : path[<<fn.exit, n>>] = <<fn.exit>>
    BY <1>1, <1>12
  <2>2. \A u \in Members \ {fn.exit}, n \in Nat :
          path[<<u, n>>] = <<u>> \o path[<<G[u][MaxEdge(u, n)].to, n - G[u][MaxEdge(u, n)].val>>]
    BY <1>12 DEF onto
  <2> QED
    BY <2>1, <2>2 DEF Regenerates
<1> QED
  BY <1>9, <1>13

\* The blocks on a path from u.
Along(u, p) == [k \in 1..(Len(p) + 1) |-> IF k = 1 THEN u ELSE EdgeAt(p[k - 1]).to]

LEMMA AlongOnward ==
    ASSUME GraphInv, pc # "abstract", NEW u \in Members \ {fn.exit}, NEW n \in DOMAIN G[u],
           NEW q \in Seq(Passable)
    PROVE  Along(u, Through(u, n, q)) = <<u>> \o Along(G[u][n].to, q)
<1>1. PICK p : p = Through(u, n, q)
  OBVIOUS
<1>2. PICK L \in Nat : L = Len(q)
  OBVIOUS
<1>3. PICK v \in Members : v = G[u][n].to
  BY Onward
<1>4. /\ Len(p) = L + 1 /\ p[1] = <<u, n>> /\ \A k \in 1..L : p[k + 1] = q[k]
  BY <1>1, <1>2, NumberOnward
<1>5. \A k \in 1..L : EdgeAt(q[k]).to \in Members
  <2> SUFFICES ASSUME NEW k \in 1..L PROVE EdgeAt(q[k]).to \in Members
    OBVIOUS
  <2>1. q[k] \in Passable
    BY <1>2
  <2> QED
    BY <2>1, Onward DEF Passable, EdgeAt
<1>6. PICK a : a = Along(v, q)
  OBVIOUS
<1>7. a \in Seq(Members) /\ Len(a) = L + 1
  <2>1. a = [k \in 1..(L + 1) |-> IF k = 1 THEN v ELSE EdgeAt(q[k - 1]).to]
    BY <1>2, <1>6 DEF Along
  <2>2. \A k \in 1..(L + 1) : a[k] \in Members
    <3> SUFFICES ASSUME NEW k \in 1..(L + 1) PROVE a[k] \in Members
      OBVIOUS
    <3>1. k = 1 \/ k - 1 \in 1..L
      OBVIOUS
    <3> QED
      BY <1>5, <2>1, <3>1
  <2> QED
    BY <2>1, <2>2
<1>8. \A k \in 1..(L + 1) : a[k] = IF k = 1 THEN v ELSE EdgeAt(q[k - 1]).to
  BY <1>2, <1>6 DEF Along
<1>9. PICK b : b = Along(u, p)
  OBVIOUS
<1>10. b = [k \in 1..(L + 2) |-> IF k = 1 THEN u ELSE EdgeAt(p[k - 1]).to]
  <2>1. Len(p) + 1 = L + 2
    BY <1>4
  <2> QED
    BY <1>9, <2>1 DEF Along
<1>11. PICK c : c = <<u>> \o a
  OBVIOUS
<1>12. /\ c \in Seq(Members) /\ Len(c) = L + 2 /\ c[1] = u
       /\ \A k \in 1..(L + 1) : c[k + 1] = a[k]
  <2>1. <<u>> \in Seq(Members) /\ Len(<<u>>) = 1 /\ <<u>>[1] = u
    OBVIOUS
  <2> QED
    BY <1>7, <1>11, <2>1
<1>13. ASSUME NEW k \in 1..(L + 2) PROVE b[k] = c[k]
  <2>1. CASE k = 1
    BY <1>10, <1>12, <2>1
  <2>2. CASE k = 2
    <3>1. b[k] = EdgeAt(p[1]).to
      BY <1>10, <2>2
    <3>2. EdgeAt(p[1]).to = v
      BY <1>3, <1>4 DEF EdgeAt
    <3>3. c[1 + 1] = a[1] /\ a[1] = v
      BY <1>8, <1>12
    <3> QED
      BY <2>2, <3>1, <3>2, <3>3
  <2>3. CASE k > 2
    <3>1. PICK m \in 2..(L + 1) : k = m + 1 /\ m - 1 \in 1..L /\ (m - 1) + 1 = m
      BY <2>3
    <3>2. b[k] = EdgeAt(p[m]).to /\ p[m] = q[m - 1]
      BY <1>4, <1>10, <3>1
    <3>3. c[k] = a[m] /\ a[m] = EdgeAt(q[m - 1]).to
      BY <1>8, <1>12, <3>1
    <3> QED
      BY <3>2, <3>3
  <2> QED
    BY <2>1, <2>2, <2>3
<1>14. b = c
  <2>1. c = [k \in 1..(L + 2) |-> c[k]]
    BY <1>12
  <2> QED
    BY <1>10, <1>13, <2>1
<1> QED
  BY <1>1, <1>3, <1>6, <1>9, <1>11, <1>14

\* The numbers from u are regenerated.
RegeneratedFrom(path, u) == \A p \in PathsFrom[u] : path[<<u, Number(p)>>] = Along(u, p)

LEMMA ExitRegenerated ==
    ASSUME GraphInv, ValuesInv, pc # "abstract", NumPaths[fn.exit] = 1,
           NEW path, Regenerates(path)
    PROVE  RegeneratedFrom(path, fn.exit)
<1>1. PathsFrom[fn.exit] = {<< >>}
  BY PathsSolve
<1>2. Number(<< >>) \in Nat
  BY <1>1, ExitNumbers DEF NumbersOf
<1>3. path[<<fn.exit, Number(<< >>)>>] = <<fn.exit>>
  BY <1>2 DEF Regenerates
<1>4. Along(fn.exit, << >>) = <<fn.exit>>
  BY DEF Along
<1> QED
  BY <1>1, <1>3, <1>4 DEF RegeneratedFrom

LEMMA BlockRegenerated ==
    ASSUME GraphInv, ValuesInv, pc # "abstract", NEW u \in Members \ {fn.exit}, Valued(u),
           NEW path, Regenerates(path),
           \A n \in DOMAIN G[u] : /\ NumPaths[G[u][n].to] >= 1
                                  /\ NumbersOf(G[u][n].to)
                                  /\ RegeneratedFrom(path, G[u][n].to)
    PROVE  RegeneratedFrom(path, u)
<1>1. SUFFICES ASSUME NEW p \in PathsFrom[u] PROVE path[<<u, Number(p)>>] = Along(u, p)
  BY DEF RegeneratedFrom
<1>2. PICK N \in Nat \ {0} : \E s \in [0..N -> Int] :
          /\ DOMAIN G[u] = 1..N
          /\ \A n \in 1..N : /\ G[u][n].val = s[n - 1]
                             /\ s[n] = s[n - 1] + NumPaths[G[u][n].to]
          /\ \A m, n \in 0..N : m < n => s[m] < s[n]
  <2>1. PICK N \in Nat \ {0} : \E s \in [0..N -> Int] :
          /\ DOMAIN G[u] = 1..N /\ s[0] = 0 /\ s[N] = NumPaths[u]
          /\ \A n \in 1..N : /\ G[u][n].val = s[n - 1]
                             /\ s[n] = s[n - 1] + NumPaths[G[u][n].to]
                             /\ s[n - 1] < s[n]
          /\ \A m, n \in 0..N : m < n => s[m] < s[n]
          /\ \A x \in Nat : x < s[N] => \E n \in 1..N : s[n - 1] <= x /\ x < s[n]
    BY ValuesStepUp
  <2> QED
    BY <2>1
<1>3. PICK s \in [0..N -> Int] :
          /\ DOMAIN G[u] = 1..N
          /\ \A n \in 1..N : /\ G[u][n].val = s[n - 1]
                             /\ s[n] = s[n - 1] + NumPaths[G[u][n].to]
          /\ \A m, n \in 0..N : m < n => s[m] < s[n]
  BY <1>2
<1>4. PICK n \in 1..N : \E q \in PathsFrom[G[u][n].to] : p = Through(u, n, q)
  <2>1. PICK Q \in {{Through(u, n, q) : q \in PathsFrom[G[u][n].to]} : n \in 1..N} : p \in Q
    BY <1>3, PathsSolve
  <2> QED
    BY <2>1
<1>5. PICK q \in PathsFrom[G[u][n].to] : p = Through(u, n, q)
  BY <1>4
<1>6. n \in DOMAIN G[u]
  BY <1>3
<1>7. PICK v \in Members : v = G[u][n].to
  BY <1>6, Onward
<1>8. q \in Seq(Passable) /\ Number(q) \in 0..(NumPaths[v] - 1) /\ NumPaths[v] \in Nat
  <2>1. NumPaths \in [Members -> Nat]
    BY DEF ValuesInv
  <2> QED
    BY <1>6, <1>7, <2>1 DEF NumbersOf
<1>9. PICK x \in Int, y \in Int : x = s[n - 1] /\ y = s[n]
  <2>1. n - 1 \in 0..N /\ n \in 0..N
    OBVIOUS
  <2> QED
    BY <2>1
<1>10. Number(p) = x + Number(q)
  <2>1. p = Through(u, n, q) /\ q \in Seq(Passable)
    BY <1>5, <1>8
  <2>2. Number(Through(u, n, q)) = G[u][n].val + Number(q)
    BY <1>6, <2>1, NumberOnward
  <2> QED
    BY <1>3, <1>9, <2>1, <2>2
<1>11. x = G[u][n].val /\ x \in Nat /\ y = x + NumPaths[v]
  BY <1>3, <1>6, <1>7, <1>9, Onward
<1>12. Number(p) \in Nat /\ x <= Number(p) /\ Number(p) < y /\ Number(p) - x = Number(q)
  <2>1. PICK a \in Nat, b \in Nat : a = Number(q) /\ b = NumPaths[v] /\ a < b
    BY <1>8
  <2>2. Number(p) = x + a /\ y = x + b /\ x \in Nat
    BY <1>10, <1>11, <2>1
  <2>3. x + a \in Nat /\ x <= x + a /\ x + a < x + b /\ (x + a) - x = a
    <3>1. x \in Nat /\ a < b
      BY <2>1, <2>2
    <3> QED
      BY <3>1
  <2> QED
    BY <2>1, <2>2, <2>3
<1>13. MaxEdge(u, Number(p)) = n
  <2>1. PICK k \in 1..N :
            /\ k = MaxEdge(u, Number(p))
            /\ G[u][k].val <= Number(p)
            /\ G[u][n].val <= Number(p) =>
                  G[u][n].val < G[u][k].val \/ (G[u][n].val = G[u][k].val /\ k <= n)
    BY <1>3, <1>12, MaxEdgeIs
  <2>2. k - 1 \in 0..N /\ n - 1 \in 0..N /\ n \in 0..N
    OBVIOUS
  <2>3. G[u][k].val = s[k - 1] /\ G[u][n].val = s[n - 1] /\ s[k - 1] \in Int
    BY <1>3, <2>2
  <2>4. ~ (n < k)
    <3>1. n < k => n = k - 1 \/ n < k - 1
      OBVIOUS
    <3>2. n < k => y <= s[k - 1]
      BY <1>3, <1>9, <2>2, <2>3, <3>1
    <3> QED
      BY <1>9, <1>12, <2>1, <2>3, <3>2
  <2>5. ~ (k < n)
    <3>1. k < n => k - 1 < n - 1
      OBVIOUS
    <3>2. k < n => s[k - 1] < s[n - 1]
      BY <1>3, <2>2, <3>1
    <3>4. x < s[k - 1] \/ x = s[k - 1]
      BY <1>9, <1>11, <1>12, <2>1, <2>3
    <3> QED
      BY <1>9, <2>3, <3>2, <3>4
  <2> QED
    BY <2>1, <2>4, <2>5
<1>14. path[<<u, Number(p)>>] = <<u>> \o path[<<v, Number(q)>>]
  <2>1. path[<<u, Number(p)>>] = <<u>> \o path[<<G[u][n].to, Number(p) - G[u][n].val>>]
    BY <1>12, <1>13 DEF Regenerates
  <2> QED
    BY <1>7, <1>11, <1>12, <2>1
<1>15. path[<<v, Number(q)>>] = Along(v, q)
  BY <1>6, <1>7 DEF RegeneratedFrom
<1>16. Along(u, p) = <<u>> \o Along(v, q)
  BY <1>5, <1>6, <1>7, <1>8, AlongOnward
<1> QED
  BY <1>14, <1>15, <1>16

LEMMA EntryRegenerated ==
    ASSUME GraphInv, OrderInv, ValuesInv, Built, NEW path, Regenerates(path)
    PROVE  RegeneratedFrom(path, fn.entry)
<1>1. pc # "abstract" /\ fn.entry \in Members /\ fn.exit \in Members
  BY FinishedBlocks, MembersAre DEF GraphInv
<1> DEFINE S == {u \in Members : Numbered(u) => NumbersOf(u) /\ RegeneratedFrom(path, u)}
<1>2. fn.exit \in S
  BY <1>1, ExitNumbers, ExitRegenerated DEF Numbered
<1>3. ASSUME NEW u \in Members \ {fn.exit}, Numbered(u),
             \A n \in DOMAIN G[u] : G[u][n].to \in S /\ Numbered(G[u][n].to)
      PROVE  u \in S
  <2>1. \A n \in DOMAIN G[u] : /\ NumPaths[G[u][n].to] >= 1 /\ NumbersOf(G[u][n].to)
                               /\ RegeneratedFrom(path, G[u][n].to)
    BY <1>3 DEF Numbered
  <2>2. Valued(u)
    BY <1>3 DEF Numbered
  <2> QED
    BY <1>1, <2>1, <2>2, BlockNumbers, BlockRegenerated
<1>4. fn.entry \in S
  <2> HIDE DEF S
  <2> QED
    BY <1>2, <1>3, Backwards
<1> QED
  BY <1>4, FinishedBlocks

LEMMA Regenerated ==
    ASSUME GraphInv, OrderInv, ValuesInv
    PROVE  RegeneratesNumbered
<1>1. SUFFICES ASSUME pc = "instrumented", NEW p \in AbstractPaths
               PROVE  numToPath(Number(p)) = BlocksAlong(p)
  BY DEF RegeneratesNumbered
<1>2. Built /\ pc # "abstract"
  BY <1>1 DEF Built, Numbering
<1>3. PICK path : /\ Regenerates(path)
                  /\ \A n : numToPath(n) = path[<<fn.entry, n>>]
  BY <1>2, PathSolves
<1>4. path[<<fn.entry, Number(p)>>] = Along(fn.entry, p)
  BY <1>1, <1>2, <1>3, EntryRegenerated DEF RegeneratedFrom, AbstractPaths
<1> QED
  BY <1>3, <1>4 DEF Along, BlocksAlong

----------------------------------------------------------------------------
(* Each number, one of a path or not, regenerates to a path.               *)

Goes(x, y) == \/ Forward(fn, x, y)
              \/ x = fn.entry /\ IsHeader(fn, y)
              \/ Leaves(fn, x) /\ y = fn.exit

\* A sequence of blocks from u to the exit, along edges that go forward.
Walk(u, s) ==
    /\ s \in Seq(Members) /\ Len(s) > 0 /\ s[1] = u
    /\ \A k \in DOMAIN s : s[k] = fn.exit <=> k = Len(s)
    /\ \A k \in DOMAIN s : k # 1 => Rank(u) < Rank(s[k])
    /\ \A k \in 1..(Len(s) - 1) : Goes(s[k], s[k + 1])

LEMMA WalkOnward ==
    ASSUME GraphInv, pc # "abstract", NEW u \in Members \ {fn.exit}, NEW n \in DOMAIN G[u],
           NEW s, Walk(G[u][n].to, s)
    PROVE  Walk(u, <<u>> \o s)
<1>1. PICK v \in Members : v = G[u][n].to /\ Rank(u) < Rank(v) /\ Rank(u) \in Nat /\ Rank(v) \in Nat
  BY Onward
<1>2. Goes(u, v)
  BY <1>1, GraphEdges DEF Goes
<1>3. /\ s \in Seq(Members) /\ Len(s) > 0 /\ s[1] = v
      /\ \A k \in DOMAIN s : s[k] = fn.exit <=> k = Len(s)
      /\ \A k \in DOMAIN s : k # 1 => Rank(v) < Rank(s[k])
      /\ \A k \in 1..(Len(s) - 1) : Goes(s[k], s[k + 1])
  BY <1>1 DEF Walk
<1>4. PICK L \in Nat \ {0} : L = Len(s) /\ DOMAIN s = 1..L
  BY <1>3
<1>5. PICK w : w = <<u>> \o s
  OBVIOUS
<1>6. /\ w \in Seq(Members) /\ Len(w) = L + 1 /\ DOMAIN w = 1..(L + 1) /\ w[1] = u
      /\ \A k \in 1..L : w[k + 1] = s[k]
  <2>1. <<u>> \in Seq(Members) /\ Len(<<u>>) = 1 /\ <<u>>[1] = u
    OBVIOUS
  <2> QED
    BY <1>3, <1>4, <1>5, <2>1
<1>7. \A k \in 2..(L + 1) : k - 1 \in 1..L /\ w[k] = s[k - 1]
  <2> SUFFICES ASSUME NEW k \in 2..(L + 1) PROVE k - 1 \in 1..L /\ w[k] = s[k - 1]
    OBVIOUS
  <2>1. k - 1 \in 1..L /\ (k - 1) + 1 = k
    OBVIOUS
  <2> QED
    BY <1>6, <2>1
<1>8. \A k \in DOMAIN w : k = 1 \/ k \in 2..(L + 1)
  BY <1>6
<1>9. ASSUME NEW k \in DOMAIN w PROVE w[k] = fn.exit <=> k = Len(w)
  <2>1. CASE k = 1
    BY <1>6, <2>1
  <2>2. CASE k \in 2..(L + 1)
    <3>1. k - 1 \in DOMAIN s /\ w[k] = s[k - 1]
      BY <1>4, <1>7, <2>2
    <3>2. s[k - 1] = fn.exit <=> k - 1 = L
      BY <1>3, <1>4, <3>1
    <3>3. k - 1 = L <=> k = L + 1
      BY <2>2
    <3> QED
      BY <1>6, <3>1, <3>2, <3>3
  <2> QED
    BY <1>8, <2>1, <2>2
<1>10. ASSUME NEW k \in DOMAIN w, k # 1 PROVE Rank(u) < Rank(w[k])
  <2>1. k - 1 \in 1..L /\ w[k] = s[k - 1]
    BY <1>7, <1>8, <1>10
  <2>2. CASE k - 1 = 1
    BY <1>1, <1>3, <2>1, <2>2
  <2>3. CASE k - 1 # 1
    <3>1. Rank(v) < Rank(w[k])
      BY <1>3, <1>4, <2>1, <2>3
    <3>2. w[k] \in Members /\ fn \in Programs
      BY <1>6 DEF GraphInv
    <3>3. Rank(w[k]) \in Nat
      BY <3>2, RankIs
    <3> QED
      BY <1>1, <3>1, <3>3
  <2> QED
    BY <2>2, <2>3
<1>11. ASSUME NEW k \in 1..(Len(w) - 1) PROVE Goes(w[k], w[k + 1])
  <2>1. k \in 1..L /\ w[k + 1] = s[k]
    BY <1>6
  <2>2. CASE k = 1
    BY <1>2, <1>3, <1>6, <2>1, <2>2
  <2>3. CASE k # 1
    <3>1. k - 1 \in 1..(Len(s) - 1) /\ (k - 1) + 1 = k /\ k \in 2..(L + 1)
      BY <1>4, <2>1, <2>3
    <3>2. w[k] = s[k - 1]
      BY <1>7, <3>1
    <3> QED
      BY <1>3, <2>1, <3>1, <3>2
  <2> QED
    BY <2>2, <2>3
<1> QED
  BY <1>5, <1>6, <1>9, <1>10, <1>11 DEF Walk

LEMMA Walks ==
    ASSUME GraphInv, ValuesInv, pc # "abstract", NEW path, Regenerates(path)
    PROVE  \A u \in Members, n \in Nat : Walk(u, path[<<u, n>>])
<1> DEFINE N == Len(fn.rpo) + 1
           S == {m \in Nat : \A u \in Members, n \in Nat : N - Rank(u) = m => Walk(u, path[<<u, n>>])}
<1>1. fn \in Programs /\ fn.exit \in Members /\ N \in Nat /\ \A u \in Members : Rank(u) \in 1..N
  BY MembersAre, RankIs DEF GraphInv
<1>2. ASSUME NEW m \in Nat, \A j \in Nat : j < m => j \in S PROVE m \in S
  <2> SUFFICES ASSUME NEW u \in Members, NEW n \in Nat, N - Rank(u) = m
               PROVE  Walk(u, path[<<u, n>>])
    OBVIOUS
  <2>1. CASE u = fn.exit
    <3>1. path[<<u, n>>] = <<u>>
      BY <2>1 DEF Regenerates
    <3>2. <<u>> \in Seq(Members) /\ Len(<<u>>) = 1 /\ <<u>>[1] = u /\ DOMAIN <<u>> = {1}
      OBVIOUS
    <3> QED
      BY <2>1, <3>1, <3>2 DEF Walk
  <2>2. CASE u # fn.exit
    <3>1. PICK k \in DOMAIN G[u] : k = MaxEdge(u, n)
      BY <2>2, MaxEdgeIs
    <3>2. PICK v \in Members, x \in Nat :
              v = G[u][k].to /\ x = n - G[u][k].val /\ Rank(u) < Rank(v)
      BY <2>2, <3>1, NextNumber
    <3>3. path[<<u, n>>] = <<u>> \o path[<<v, x>>]
      BY <2>2, <3>1, <3>2 DEF Regenerates
    <3>4. N - Rank(v) \in Nat /\ N - Rank(v) < m
      <4>1. Rank(u) \in 1..N /\ Rank(v) \in 1..N
        BY <1>1
      <4> HIDE DEF N
      <4> QED
        BY <1>1, <3>2, <4>1
    <3>5. Walk(v, path[<<v, x>>])
      BY <1>2, <3>4
    <3> QED
      BY <2>2, <3>2, <3>3, <3>5, WalkOnward
  <2> QED
    BY <2>1, <2>2
<1>3. \A m \in Nat : m \in S
  <2> HIDE DEF S
  <2> QED
    BY <1>2, StrongInduction
<1>4. ASSUME NEW u \in Members PROVE N - Rank(u) \in Nat
  <2>1. Rank(u) \in 1..N
    BY <1>1
  <2> HIDE DEF N
  <2> QED
    BY <1>1, <2>1
<1> QED
  BY <1>3, <1>4

LEMMA WellFormedNumber ==
    ASSUME GraphInv, ValuesInv, pc # "abstract", NEW n \in Nat
    PROVE  WellFormedPath(fn, numToPath(n)) /\ numToPath(n) \in Seq(Members)
<1>1. fn \in Programs /\ fn.entry \in Members /\ Members \subseteq Blocks /\ fn.succ[fn.exit] = << >>
  BY MembersAre, SuccsAre DEF GraphInv
<1>2. PICK path : /\ Regenerates(path)
                  /\ \A m : numToPath(m) = path[<<fn.entry, m>>]
  BY PathSolves
<1>3. PICK s : s = numToPath(n)
  OBVIOUS
<1>4. Walk(fn.entry, s)
  BY <1>1, <1>2, <1>3, Walks
<1>5. /\ s \in Seq(Members) /\ Len(s) > 0 /\ s[1] = fn.entry
      /\ \A k \in DOMAIN s : s[k] = fn.exit <=> k = Len(s)
      /\ \A k \in DOMAIN s : k # 1 => Rank(fn.entry) < Rank(s[k])
      /\ \A k \in 1..(Len(s) - 1) : Goes(s[k], s[k + 1])
  BY <1>4 DEF Walk
<1>6. s \in Seq(Blocks)
  BY <1>1, <1>5
<1>7. ASSUME NEW k \in 1..(Len(s) - 1)
      PROVE  \/ Forward(fn, s[k], s[k + 1])
             \/ k = 1 /\ s[k] = fn.entry /\ IsHeader(fn, s[k + 1])
             \/ k = Len(s) - 1 /\ Leaves(fn, s[k]) /\ fn.succ[s[k + 1]] = << >>
  <2>1. k \in DOMAIN s /\ k + 1 \in DOMAIN s /\ k \in Nat /\ Len(s) \in Nat
    BY <1>5
  <2>2. CASE Forward(fn, s[k], s[k + 1])
    BY <2>2
  <2>3. CASE s[k] = fn.entry /\ IsHeader(fn, s[k + 1])
    <3>1. k = 1
      <4>1. Rank(fn.entry) \in Nat
        BY <1>1, RankIs
      <4> QED
        BY <1>5, <2>1, <2>3, <4>1
    <3> QED
      BY <2>3, <3>1
  <2>4. CASE Leaves(fn, s[k]) /\ s[k + 1] = fn.exit
    <3>1. k + 1 = Len(s)
      BY <1>5, <2>1, <2>4
    <3>2. k = Len(s) - 1
      BY <2>1, <3>1
    <3> QED
      BY <1>1, <2>4, <3>2
  <2> QED
    BY <1>5, <2>2, <2>3, <2>4 DEF Goes
<1>8. WellFormedPath(fn, s)
  BY <1>5, <1>6, <1>7 DEF WellFormedPath
<1> QED
  BY <1>3, <1>5, <1>8

----------------------------------------------------------------------------
(* The spanning tree.                                                      *)

LEMMA AboveIs ==
    ASSUME TreeInv, Built, inMST = Members
    PROVE  IsAbove(Above)
<1> DEFINE body(u, f) == {u} \cup (IF parent[u].block = NoBlock THEN {} ELSE f[parent[u].block])
<1>1. PICK f \in [Members -> SUBSET Members] : IsAbove(f)
  BY DEF TreeInv
<1>2. \A u \in Members : f[u] = body(u, f)
  BY <1>1 DEF IsAbove
<1>3. f = [u \in Members |-> body(u, f)]
  <2> HIDE DEF body
  <2> QED
    BY <1>2
<1>4. Above = CHOOSE g : g = [u \in Members |-> body(u, g)]
  BY DEF Above
<1>5. Above = [u \in Members |-> body(u, Above)]
  <2> HIDE DEF body
  <2> QED
    BY <1>3, <1>4
<1>6. PICK g : g = Above
  OBVIOUS
<1>7. \A u \in Members : g[u] = body(u, g)
  <2> HIDE DEF body
  <2>1. g = [u \in Members |-> body(u, g)]
    BY <1>5, <1>6
  <2> QED
    BY <2>1
<1>8. IsAbove(g)
  BY <1>7 DEF IsAbove
<1> QED
  BY <1>6, <1>8

LEMMA TreeIsMaximal ==
    ASSUME GraphInv, TreeTypes, TreeInv, ChordsInv
    PROVE  TreeMaximal
<1>1. SUFFICES ASSUME pc = "instrument", NEW c \in ToSet(chords), NEW w \in treePath(Above, c.from, c.to)
               PROVE  distance[w] >= c.val
  BY DEF TreeMaximal
<1>2. Built /\ inMST = Members
  BY <1>1 DEF Built, Numbering, ChordsInv
<1>3. PICK u \in Members : \E n \in DOMAIN G[u] : c = G[u][n]
  BY <1>1 DEF ChordsInv, ToSet
<1>4. PICK n \in DOMAIN G[u] : c = G[u][n]
  BY <1>3
<1>5. c.from = u /\ c.to \in Members
  BY <1>2, <1>4, ChordIs
<1>6. c.val \in Between(u, c.to)
  BY <1>4 DEF Between, Values
<1>7. Maximal(Above)
  <2>1. PICK g : g = Above
    OBVIOUS
  <2>2. IsAbove(g)
    BY <1>2, <2>1, AboveIs
  <2>3. Maximal(g)
    BY <1>2, <2>2 DEF TreeInv
  <2> QED
    BY <2>1, <2>3
<1> QED
  BY <1>1, <1>2, <1>5, <1>6, <1>7 DEF Maximal, Heavy

----------------------------------------------------------------------------
(* The pass, and what follows of it for the paths.                         *)

PassInv ==
    /\ GraphInv /\ OrderInv /\ ValuesInv
    /\ TreeTypes /\ TreeInv /\ ChordsInv /\ CodeInv

LEMMA NextIsStep ==
    ASSUME [Next]_vars
    PROVE  Step
<1>1. CASE PassStep
  BY <1>1 DEF PassStep, Step
<1>2. CASE StartRun
  BY <1>2 DEF StartRun, Step
<1>3. CASE \E n \in 1..Cardinality(Blocks) : Branch(n)
  BY <1>3 DEF Branch, Step
<1>4. CASE Return
  BY <1>4 DEF Return, Step
<1>5. CASE Abort
  BY <1>5 DEF Abort, Step
<1>6. CASE hotPathInfo
  BY <1>6 DEF hotPathInfo, Idle, Report, Step
<1>7. CASE UNCHANGED vars
  BY <1>7 DEF vars, Step
<1> QED
  BY <1>1, <1>2, <1>3, <1>4, <1>5, <1>6, <1>7 DEF Next

LEMMA PassBegins ==
    ASSUME Init
    PROVE  PassInv
<1>1. GraphInv /\ OrderInv /\ ValuesInv
  BY DEF Init, PassInit, GraphInv, OrderInv, ValuesInv, Built, Numbering
<1>2. TreeTypes /\ TreeInv /\ ChordsInv
  BY DEF Init, PassInit, TreeTypes, TreeInv, ChordsInv, Built, Numbering
<1>3. CodeInv
  <2>1. onEdge = [e \in Edges(fn) |-> << >>] /\ atExit = << >>
    BY DEF Init, PassInit
  <2> QED
    BY <2>1 DEF CodeInv
<1> QED
  BY <1>1, <1>2, <1>3 DEF PassInv

LEMMA PassGoesOn ==
    ASSUME PassInv, [Next]_vars
    PROVE  PassInv'
<1>1. Step
  BY NextIsStep
<1> QED
  BY <1>1, GraphStep, OrderStep, ValuesStep, TreeStep, ChordsStep, CodeStep DEF PassInv

LEMMA PassAlways == Spec => []PassInv
<1>1. Init => PassInv
  BY PassBegins
<1>2. PassInv /\ [Next]_vars => PassInv'
  BY PassGoesOn
<1> QED
  BY <1>1, <1>2, PTL DEF Spec

(***************************************************************************)
(* The values that getEdgeValues gives the edges of the abstract graph add *)
(* up to a number of its own for each path from the entry to the exit, and *)
(* the numbers are those below NumPaths of the entry.                      *)
(***************************************************************************)
THEOREM PathsAreNumbered == Spec => []NumbersUnique
<1>1. PassInv => NumbersUnique
  BY Unique DEF PassInv
<1> QED
  BY <1>1, PassAlways, PTL

(***************************************************************************)
(* numToPath regenerates each path from its number.                        *)
(***************************************************************************)
THEOREM PathsAreRegenerated == Spec => []RegeneratesNumbered
<1>1. PassInv => RegeneratesNumbered
  BY Regenerated DEF PassInv
<1> QED
  BY <1>1, PassAlways, PTL

(***************************************************************************)
(* getIncValues grows a tree of maximal values: no edge that run puts code *)
(* on is worth more than an edge of the tree path between its ends.        *)
(***************************************************************************)
THEOREM TreeOfLargeValues == Spec => []TreeMaximal
<1>1. PassInv => TreeMaximal
  BY TreeIsMaximal DEF PassInv
<1> QED
  BY <1>1, PassAlways, PTL

----------------------------------------------------------------------------
(* The runs of the instrumented program.                                   *)

\* How often numbers were counted.
NumberBags == {B \in UNION {[D -> Nat \ {0}] : D \in SUBSET Int} : IsFiniteSet(DOMAIN B)}

LEMMA NumberBagIs ==
    ASSUME NEW B
    PROVE  B \in NumberBags <=> /\ B \in [DOMAIN B -> Nat \ {0}] /\ DOMAIN B \subseteq Int
                                /\ IsFiniteSet(DOMAIN B)
<1>1. ASSUME B \in NumberBags
      PROVE  /\ B \in [DOMAIN B -> Nat \ {0}] /\ DOMAIN B \subseteq Int
             /\ IsFiniteSet(DOMAIN B)
  <2>1. PICK F \in {[D -> Nat \ {0}] : D \in SUBSET Int} : B \in F
    BY <1>1 DEF NumberBags
  <2>2. PICK D \in SUBSET Int : F = [D -> Nat \ {0}]
    OBVIOUS
  <2>3. IsFiniteSet(DOMAIN B)
    BY <1>1 DEF NumberBags
  <2> QED
    BY <2>1, <2>2, <2>3
<1>2. ASSUME B \in [DOMAIN B -> Nat \ {0}], DOMAIN B \subseteq Int, IsFiniteSet(DOMAIN B)
      PROVE  B \in NumberBags
  <2>1. [DOMAIN B -> Nat \ {0}] \in {[D -> Nat \ {0}] : D \in SUBSET Int}
    BY <1>2
  <2> QED
    BY <1>2, <2>1 DEF NumberBags
<1> QED
  BY <1>1, <1>2

LEMMA BagsAdded ==
    ASSUME NEW B \in NumberBags, NEW C \in NumberBags
    PROVE  B (+) C \in NumberBags /\ DOMAIN (B (+) C) = DOMAIN B \cup DOMAIN C
<1>1. /\ B \in [DOMAIN B -> Nat \ {0}] /\ DOMAIN B \subseteq Int /\ IsFiniteSet(DOMAIN B)
      /\ C \in [DOMAIN C -> Nat \ {0}] /\ DOMAIN C \subseteq Int /\ IsFiniteSet(DOMAIN C)
  BY NumberBagIs
<1>2. PICK S : S = B (+) C
  OBVIOUS
<1>3. S = [e \in DOMAIN B \cup DOMAIN C |->
              (IF e \in DOMAIN B THEN B[e] ELSE 0) + (IF e \in DOMAIN C THEN C[e] ELSE 0)]
  BY <1>2 DEF (+)
<1>4. DOMAIN S = DOMAIN B \cup DOMAIN C
  BY <1>3
<1>5. ASSUME NEW e \in DOMAIN S PROVE S[e] \in Nat \ {0}
  <2>1. CASE e \in DOMAIN B /\ e \in DOMAIN C
    BY <1>1, <1>3, <2>1
  <2>2. CASE e \in DOMAIN B /\ e \notin DOMAIN C
    BY <1>1, <1>3, <2>2
  <2>3. CASE e \notin DOMAIN B /\ e \in DOMAIN C
    BY <1>1, <1>3, <2>3
  <2> QED
    BY <1>4, <2>1, <2>2, <2>3
<1>6. S \in [DOMAIN S -> Nat \ {0}]
  <2>1. S = [e \in DOMAIN S |-> S[e]]
    BY <1>3, <1>4
  <2> QED
    BY <1>5, <2>1
<1>7. IsFiniteSet(DOMAIN S)
  <2>1. IsFiniteSet(DOMAIN B \cup DOMAIN C)
    BY <1>1, FS_Union
  <2> QED
    BY <1>4, <2>1
<1>8. S \in NumberBags
  BY <1>1, <1>4, <1>6, <1>7, NumberBagIs
<1> QED
  BY <1>2, <1>4, <1>8

LEMMA SingleBag ==
    ASSUME NEW x \in Int
    PROVE  SetToBag({x}) \in NumberBags /\ EmptyBag \in NumberBags
<1>1. SetToBag({x}) = [e \in {x} |-> 1] /\ IsFiniteSet({x})
  BY FS_Singleton DEF SetToBag
<1>2. EmptyBag = [e \in {} |-> 1] /\ IsFiniteSet({})
  BY FS_EmptySet DEF EmptyBag, SetToBag
<1>3. ASSUME NEW S \in SUBSET Int, IsFiniteSet(S) PROVE [e \in S |-> 1] \in NumberBags
  <2>1. DOMAIN [e \in S |-> 1] = S /\ [e \in S |-> 1] \in [S -> Nat \ {0}]
    OBVIOUS
  <2> QED
    BY <1>3, <2>1, NumberBagIs
<1> QED
  BY <1>1, <1>2, <1>3

LEMMA DumpedIs ==
    ASSUME NEW B \in NumberBags
    PROVE  Dumped(B) \in NumberBags /\ DOMAIN Dumped(B) \subseteq Nat
<1>1. B \in [DOMAIN B -> Nat \ {0}] /\ DOMAIN B \subseteq Int /\ IsFiniteSet(DOMAIN B)
  BY NumberBagIs
<1> DEFINE D == {Abs(n) : n \in DOMAIN B}
<1>2. \A n \in DOMAIN B : Abs(n) \in Nat /\ (n = Abs(n) \/ (Abs(n) # 0 /\ n = -Abs(n)))
  BY <1>1 DEF Abs
<1>3. D \subseteq Nat
  BY <1>2
<1>4. IsFiniteSet(D)
  <2>1. [n \in DOMAIN B |-> Abs(n)] \in Surjection(DOMAIN B, D)
    <3>1. [n \in DOMAIN B |-> Abs(n)] \in [DOMAIN B -> D]
      OBVIOUS
    <3>2. \A m \in D : \E n \in DOMAIN B : [k \in DOMAIN B |-> Abs(k)][n] = m
      OBVIOUS
    <3> QED
      BY <3>1, <3>2 DEF Surjection
  <2> HIDE DEF D
  <2> QED
    BY <1>1, <2>1, FS_Surjection
<1>5. ASSUME NEW x \in Int
      PROVE  /\ Times(x, B) \in Nat
             /\ x \in DOMAIN B => Times(x, B) \in Nat \ {0}
  BY <1>1 DEF Times
<1>6. ASSUME NEW m \in D
      PROVE  Times(m, B) + (IF m = 0 THEN 0 ELSE Times(-m, B)) \in Nat \ {0}
  <2>1. m \in Nat /\ -m \in Int
    BY <1>3
  <2>2. PICK n \in DOMAIN B : m = Abs(n)
    OBVIOUS
  <2>3. n = m \/ (m # 0 /\ n = -m)
    BY <1>2, <2>2
  <2>4. Times(m, B) \in Nat /\ Times(-m, B) \in Nat
    BY <1>5, <2>1
  <2>5. Times(m, B) \in Nat \ {0} \/ (m # 0 /\ Times(-m, B) \in Nat \ {0})
    BY <1>5, <2>1, <2>2, <2>3
  <2> QED
    BY <2>4, <2>5
<1>7. PICK S : S = Dumped(B)
  OBVIOUS
<1>8. S = [m \in D |-> Times(m, B) + (IF m = 0 THEN 0 ELSE Times(-m, B))]
  BY <1>7 DEF Dumped
<1>9. S \in [D -> Nat \ {0}] /\ DOMAIN S = D
  <2> HIDE DEF D
  <2> QED
    BY <1>6, <1>8
<1>10. S \in NumberBags
  <2> HIDE DEF D
  <2>1. D \subseteq Int
    BY <1>3
  <2> QED
    BY <1>4, <1>9, <2>1, NumberBagIs
<1> QED
  BY <1>3, <1>7, <1>9, <1>10

Registers == [r : Int, counts : NumberBags]

LEMMA ExecutedIs ==
    ASSUME NEW i \in Instructions, NEW st \in Registers
    PROVE  Executed(i, st) \in Registers
<1>1. i.do \in {"add", "set", "count"} /\ i.arg \in Int
  BY DEF Instructions
<1>2. st.r \in Int /\ st.counts \in NumberBags
  BY DEF Registers
<1>3. CASE i.do = "add"
  <2>1. Executed(i, st) = [st EXCEPT !.r = @ + i.arg]
    BY <1>3 DEF Executed
  <2>2. st.r + i.arg \in Int
    BY <1>1, <1>2
  <2> QED
    BY <2>1, <2>2 DEF Registers
<1>4. CASE i.do = "set"
  <2>1. Executed(i, st) = [st EXCEPT !.r = i.arg]
    BY <1>4 DEF Executed
  <2> QED
    BY <1>1, <2>1 DEF Registers
<1>5. CASE i.do = "count"
  <2>1. Executed(i, st) = [st EXCEPT !.counts = @ (+) SetToBag({st.r})]
    BY <1>5 DEF Executed
  <2>2. st.counts (+) SetToBag({st.r}) \in NumberBags
    BY <1>2, SingleBag, BagsAdded
  <2> QED
    BY <2>1, <2>2 DEF Registers
<1> QED
  BY <1>1, <1>3, <1>4, <1>5

\* The instructions are executed one after another.
LEMMA ExecuteSolves ==
    ASSUME NEW code \in Seq(Instructions), counter \in Int, pathCounter \in NumberBags
    PROVE  \E after : /\ after[0] = [r |-> counter, counts |-> pathCounter]
                      /\ \A k \in 1..Len(code) : after[k] = Executed(code[k], after[k - 1])
                      /\ \A k \in 0..Len(code) : after[k] \in Registers
                      /\ Execute(code) = after[Len(code)]
<1> DEFINE N == Len(code)
           x0 == [r |-> counter, counts |-> pathCounter]
           step == [p \in (1..N) \X Registers |-> Executed(code[p[1]], p[2])]
           body(k, f) == IF k = 0 THEN x0 ELSE Executed(code[k], f[k - 1])
<1>1. N \in Nat /\ \A k \in 1..N : code[k] \in Instructions
  OBVIOUS
<1>2. x0 \in Registers
  BY DEF Registers
<1>3. step \in [(1..N) \X Registers -> Registers]
  <2> HIDE DEF x0
  <2>1. \A p \in (1..N) \X Registers : p[1] \in 1..N /\ p[2] \in Registers
    OBVIOUS
  <2>2. \A p \in (1..N) \X Registers : Executed(code[p[1]], p[2]) \in Registers
    BY <1>1, <2>1, ExecutedIs
  <2> QED
    BY <2>2
<1>4. PICK f \in [0..N -> Registers] : Recurs(f, N, x0, step)
  <2>1. PICK M, X, y, s : M = N /\ X = Registers /\ y = x0 /\ s = step
    OBVIOUS
  <2>2. M \in Nat /\ y \in X /\ s \in [(1..M) \X X -> X]
    BY <1>1, <1>2, <1>3, <2>1
  <2>3. \E f \in [0..M -> X] : Recurs(f, M, y, s)
    BY <2>2, Recursion
  <2> QED
    BY <2>1, <2>3
<1>5. \A k \in 0..N : f[k] = body(k, f)
  <2> SUFFICES ASSUME NEW k \in 0..N PROVE f[k] = body(k, f)
    OBVIOUS
  <2>1. CASE k = 0
    BY <1>4, <2>1 DEF Recurs
  <2>2. CASE k # 0
    <3>1. k \in 1..N /\ k - 1 \in 0..N
      BY <1>1, <2>2
    <3>2. f[k] = step[<<k, f[k - 1]>>]
      <4> HIDE DEF step, x0
      <4> QED
        BY <1>4, <3>1 DEF Recurs
    <3>3. <<k, f[k - 1]>> \in (1..N) \X Registers
      BY <3>1
    <3>4. step[<<k, f[k - 1]>>] = Executed(code[k], f[k - 1])
      BY <3>3
    <3> QED
      BY <2>2, <3>2, <3>4
  <2> QED
    BY <2>1, <2>2
<1>6. f = [k \in 0..N |-> body(k, f)]
  <2> HIDE DEF body
  <2> QED
    BY <1>5
<1>7. PICK after : after = [k \in 0..N |-> body(k, after)] /\ Execute(code) = after[N]
  <2>1. Execute(code) = (CHOOSE g : g = [k \in 0..N |-> body(k, g)])[N]
    BY DEF Execute
  <2> HIDE DEF body
  <2> QED
    BY <1>6, <2>1
<1>8. \A k \in 0..N : after[k] = body(k, after)
  <2> HIDE DEF body
  <2> QED
    BY <1>7
<1> DEFINE S == {k \in Nat : k <= N => after[k] \in Registers}
<1>9. 0 \in S
  BY <1>1, <1>2, <1>8
<1>10. ASSUME NEW k \in Nat, k \in S PROVE k + 1 \in S
  <2> SUFFICES ASSUME k + 1 <= N PROVE after[k + 1] \in Registers
    OBVIOUS
  <2>1. k + 1 \in 0..N /\ k + 1 \in 1..N /\ k <= N /\ k + 1 # 0 /\ (k + 1) - 1 = k
    BY <1>1
  <2>2. after[k] \in Registers
    BY <1>10, <2>1
  <2>3. after[k + 1] = Executed(code[k + 1], after[k])
    BY <1>8, <2>1
  <2> QED
    BY <1>1, <2>1, <2>2, <2>3, ExecutedIs
<1>11. \A k \in Nat : k \in S
  <2> HIDE DEF S
  <2> QED
    BY <1>9, <1>10, SetInduction
<1>12. \A k \in 0..N : after[k] \in Registers
  BY <1>1, <1>11
<1>13. after[0] = x0
  BY <1>1, <1>8
<1>14. ASSUME NEW k \in 1..N PROVE after[k] = Executed(code[k], after[k - 1])
  <2>1. k \in 0..N /\ k # 0
    BY <1>1
  <2> QED
    BY <1>8, <2>1
<1> QED
  BY <1>7, <1>12, <1>13, <1>14

LEMMA ExecuteIs ==
    ASSUME NEW code \in Seq(Instructions), counter \in Int, pathCounter \in NumberBags
    PROVE  Execute(code).r \in Int /\ Execute(code).counts \in NumberBags
<1>1. Len(code) \in 0..Len(code)
  BY LenProperties
<1>2. Execute(code) \in Registers
  BY <1>1, ExecuteSolves
<1> QED
  BY <1>2 DEF Registers

(***************************************************************************)
(* The register holds a number, the counts are those of numbers, and what  *)
(* was regenerated is a path.                                              *)
(***************************************************************************)
RunInv ==
    /\ pc \in {"abstract", "sort", "values", "tree", "instrument", "failed",
               "instrumented", "reported"}
    /\ pc = "abstract" => G = << >>
    /\ at \in Members \cup {NoBlock}
    /\ counter \in Int /\ pathCounter \in NumberBags
    /\ pathData \in NumberBags /\ DOMAIN pathData \subseteq Nat
    /\ runs \in 0..MaxRuns /\ rounds \in 0..MaxRounds
    /\ \A k \in DOMAIN hotPaths : WellFormedPath(fn, hotPaths[k]) /\ hotPaths[k] \in Seq(Members)

LEMMA RunBegins ==
    ASSUME Init
    PROVE  RunInv
<1>1. 0 \in 0..MaxRuns /\ 0 \in 0..MaxRounds
  BY CountsAssumption
<1>2. EmptyBag \in NumberBags
  <2>1. 0 \in Int
    OBVIOUS
  <2> QED
    BY <2>1, SingleBag
<1>3. DOMAIN EmptyBag = {}
  BY DEF EmptyBag, SetToBag
<1>4. /\ pc = "abstract" /\ G = << >> /\ at = NoBlock /\ counter = 0 /\ pathCounter = EmptyBag
      /\ pathData = EmptyBag /\ hotPaths = << >> /\ runs = 0 /\ rounds = 0
  BY DEF Init, PassInit
<1> QED
  BY <1>1, <1>2, <1>3, <1>4 DEF RunInv

\* fn, G and pc stay what the other variables are about.
LEMMA FnStays ==
    ASSUME Step
    PROVE  fn' = fn /\ Members' = Members
<1>1. fn' = fn
  <2>1. CASE getAbstractGraph \/ getEdgeValues \/ StartTree
    BY <2>1 DEF getAbstractGraph, getEdgeValues, StartTree
  <2>2. CASE UNCHANGED graphVars
    BY <2>2 DEF graphVars
  <2>3. CASE UNCHANGED passVars
    BY <2>3 DEF passVars, graphVars
  <2> QED
    BY <2>1, <2>2, <2>3, StepKinds
<1> QED
  BY <1>1, FnKept

LEMMA PassRuns ==
    ASSUME PassInv, RunInv, PassStep
    PROVE  RunInv'
<1>1. Step
  BY DEF PassStep, Step
<1>2. fn' = fn /\ Members' = Members
  BY <1>1, FnStays
<1>3. /\ pc' \in {"abstract", "sort", "values", "tree", "instrument", "failed",
                  "instrumented", "reported"}
      /\ pc' # "abstract"
  <2>1. CASE getAbstractGraph \/ DFS \/ FinishBlock \/ Sorted \/ getEdgeValues
    BY <2>1 DEF getAbstractGraph, DFS, FinishBlock, Sorted, getEdgeValues
  <2>2. CASE StartTree \/ GrowTree \/ Annotate \/ ExitChord \/ Chord \/ BackChord
    <3>1. CASE StartTree
      BY <3>1 DEF StartTree
    <3>2. CASE GrowTree \/ Annotate
      <4>1. CASE GrowTree
        BY <4>1 DEF GrowTree
      <4>2. CASE Annotate
        BY <4>2, Zenon DEF Annotate
      <4> QED
        BY <3>2, <4>1, <4>2
    <3>3. CASE ExitChord \/ Chord \/ BackChord
      BY <3>3 DEF ExitChord, Chord, BackChord
    <3> QED
      BY <2>2, <3>1, <3>2, <3>3
  <2>3. CASE SplitFails \/ Instrumented
    BY <2>3 DEF SplitFails, Instrumented
  <2> QED
    BY <2>1, <2>2, <2>3 DEF PassStep, PassNext
<1>4. UNCHANGED <<at, counter, pathCounter, pathData, runs, rounds, hotPaths>>
  BY DEF PassStep, runVars
<1> QED
  BY <1>2, <1>3, <1>4 DEF RunInv

LEMMA ProgramRuns ==
    ASSUME PassInv, RunInv,
           StartRun \/ (\E n \in 1..Cardinality(Blocks) : Branch(n)) \/ Return \/ Abort
    PROVE  RunInv'
<1>1. /\ counter \in Int /\ pathCounter \in NumberBags
      /\ pathData \in NumberBags /\ DOMAIN pathData \subseteq Nat
      /\ runs \in 0..MaxRuns /\ rounds \in 0..MaxRounds
      /\ at \in Members \cup {NoBlock}
  BY DEF RunInv
<1>2. fn \in Programs /\ fn.entry \in Members /\ Members \subseteq Blocks
      /\ onEdge \in [Edges(fn) -> Seq(Instructions)] /\ atExit \in Seq(Instructions)
  BY MembersAre DEF PassInv, GraphInv, CodeInv
<1>3. MaxRuns \in Nat /\ MaxRounds \in Nat
  BY CountsAssumption
<1>4. EmptyBag \in NumberBags /\ 0 \in Int
  <2>1. 0 \in Int
    OBVIOUS
  <2> QED
    BY <2>1, SingleBag
<1>5. UNCHANGED passVars /\ hotPaths' = hotPaths
  BY DEF StartRun, Branch, Return, Abort
<1>6. UNCHANGED <<pc, fn, G>>
  BY <1>5 DEF passVars, graphVars
<1>7. Members' = Members
  BY <1>6, FnKept
<1>8. /\ at' \in Members \cup {NoBlock} /\ counter' \in Int /\ pathCounter' \in NumberBags
      /\ pathData' \in NumberBags /\ DOMAIN pathData' \subseteq Nat
      /\ runs' \in 0..MaxRuns /\ rounds' \in 0..MaxRounds
  <2>1. CASE StartRun
    <3>1. /\ at' = fn.entry /\ counter' = 0 /\ pathCounter' = EmptyBag /\ pathData' = pathData
          /\ runs < MaxRuns /\ runs' = runs + 1 /\ rounds' = 0
      BY <2>1 DEF StartRun
    <3>2. runs + 1 \in 0..MaxRuns /\ 0 \in 0..MaxRounds
      BY <1>1, <1>3, <3>1
    <3> QED
      BY <1>1, <1>2, <1>4, <3>1, <3>2
  <2>2. CASE \E n \in 1..Cardinality(Blocks) : Branch(n)
    <3>1. PICK n : Branch(n)
      BY <2>2
    <3>2. at \in Members /\ n \in DOMAIN fn.succ[at]
      BY <1>1, <3>1 DEF Branch
    <3>3. fn.succ[at][n] \in Members
      <4>1. fn.succ[at] \in Seq(Members)
        BY <1>2, <3>2, SuccsAre
      <4> QED
        BY <3>2, <4>1
    <3>4. onEdge[<<at, n>>] \in Seq(Instructions)
      <4>1. <<at, n>> \in Edges(fn)
        BY <1>2, <3>2 DEF Edges
      <4> QED
        BY <1>2, <4>1
    <3>5. /\ at' = fn.succ[at][n]
          /\ counter' = Execute(onEdge[<<at, n>>]).r
          /\ pathCounter' = Execute(onEdge[<<at, n>>]).counts
          /\ pathData' = pathData /\ runs' = runs
          /\ rounds' = rounds \/ (rounds < MaxRounds /\ rounds' = rounds + 1)
      BY <3>1 DEF Branch
    <3>6. counter' \in Int /\ pathCounter' \in NumberBags
      BY <1>1, <3>4, <3>5, ExecuteIs
    <3>7. rounds' \in 0..MaxRounds
      BY <1>1, <1>3, <3>5
    <3> QED
      BY <1>1, <3>3, <3>5, <3>6, <3>7
  <2>3. CASE Return
    <3>1. /\ counter' = Execute(atExit).r /\ pathCounter' = Execute(atExit).counts
          /\ pathData' = pathData (+) Dumped(pathCounter')
          /\ at' = NoBlock /\ runs' = runs /\ rounds' = rounds
      BY <2>3 DEF Return
    <3>2. PICK B \in NumberBags : B = pathCounter'
      BY <1>1, <1>2, <3>1, ExecuteIs
    <3>3. PICK C \in NumberBags : C = Dumped(B) /\ DOMAIN C \subseteq Nat
      BY DumpedIs
    <3>4. pathData (+) C \in NumberBags /\ DOMAIN (pathData (+) C) = DOMAIN pathData \cup DOMAIN C
      BY <1>1, BagsAdded
    <3>5. counter' \in Int
      BY <1>1, <1>2, <3>1, ExecuteIs
    <3>6. pathData' \in NumberBags /\ DOMAIN pathData' \subseteq Nat
      BY <1>1, <3>1, <3>2, <3>3, <3>4
    <3> QED
      BY <1>1, <3>1, <3>2, <3>5, <3>6
  <2>4. CASE Abort
    BY <1>1, <2>4 DEF Abort
  <2> QED
    BY <2>1, <2>2, <2>3, <2>4
<1> QED
  BY <1>5, <1>6, <1>7, <1>8 DEF RunInv

LEMMA Reports ==
    ASSUME PassInv, RunInv, hotPathInfo
    PROVE  RunInv'
<1>1. pc = "instrumented" /\ pc' = "reported" /\ fn' = fn
      /\ UNCHANGED <<at, counter, pathCounter, pathData, runs, rounds>>
  BY DEF hotPathInfo, Idle, graphVars, runVars
<1>2. Members' = Members
  BY <1>1, FnKept
<1> DEFINE nums == {n \in BagToSet(pathData) : IsHot(pathData[n], TotalCount(pathData), threshold')}
<1>3. PICK sorted : sorted = Increasing(nums) /\ hotPaths' = [k \in DOMAIN sorted |-> numToPath(sorted[k])]
  BY DEF hotPathInfo
<1>4. nums \in SUBSET Nat /\ IsFiniteSet(nums)
  <2>1. nums \subseteq DOMAIN pathData
    BY DEF BagToSet
  <2>2. DOMAIN pathData \subseteq Nat /\ IsFiniteSet(DOMAIN pathData)
    BY NumberBagIs DEF RunInv
  <2> HIDE DEF nums
  <2> QED
    BY <2>1, <2>2, FS_Subset
<1> HIDE DEF nums
<1>5. PICK c \in Nat : sorted \in [1..c -> nums]
  BY <1>3, <1>4, IncreasingLists
<1>6. ASSUME NEW k \in DOMAIN hotPaths'
      PROVE  WellFormedPath(fn, hotPaths'[k]) /\ hotPaths'[k] \in Seq(Members)
  <2>1. k \in 1..c /\ hotPaths'[k] = numToPath(sorted[k])
    BY <1>3, <1>5
  <2>2. sorted[k] \in Nat
    BY <1>4, <1>5, <2>1
  <2>3. GraphInv /\ ValuesInv /\ pc # "abstract"
    BY <1>1 DEF PassInv
  <2> QED
    BY <2>1, <2>2, <2>3, WellFormedNumber
<1>7. \A k \in DOMAIN hotPaths' : WellFormedPath(fn', hotPaths'[k]) /\ hotPaths'[k] \in Seq(Members')
  BY <1>1, <1>2, <1>6
<1> QED
  BY <1>1, <1>2, <1>7 DEF RunInv

LEMMA RunGoesOn ==
    ASSUME PassInv, RunInv, [Next]_vars
    PROVE  RunInv'
<1>1. CASE UNCHANGED vars
  <2>1. UNCHANGED <<fn, pc, G, at, counter, pathCounter, pathData, runs, rounds, hotPaths>>
    BY <1>1 DEF vars, passVars, graphVars, runVars
  <2>2. Members' = Members
    BY <2>1, FnKept
  <2> QED
    BY <2>1, <2>2 DEF RunInv
<1> QED
  BY <1>1, PassRuns, ProgramRuns, Reports DEF Next

LEMMA RunAlways == Spec => [](PassInv /\ RunInv)
<1>1. Init => PassInv /\ RunInv
  BY PassBegins, RunBegins
<1>2. PassInv /\ RunInv /\ [Next]_vars => PassInv' /\ RunInv'
  BY PassGoesOn, RunGoesOn
<1> QED
  BY <1>1, <1>2, PTL DEF Spec

(***************************************************************************)
(* Each line of hotPathInfo.txt is a path as the HPSSA pass expects one,   *)
(* whatever numbers the program counts: the counts of pathData.txt are     *)
(* those of natural numbers, and each of them leads numToPath along edges  *)
(* of the abstract graph from the entry to the exit.                       *)
(***************************************************************************)
THEOREM ReportedPaths == Spec => []HotPathsWellFormed
<1>1. RunInv => HotPathsWellFormed
  BY DEF RunInv, HotPathsWellFormed
<1> QED
  BY <1>1, RunAlways, PTL

LEMMA TypesHold ==
    ASSUME PassInv, RunInv
    PROVE  TypeOK
<1>1. ASSUME NEW u \in DOMAIN G, NEW n \in DOMAIN G[u]
      PROVE  G[u][n].from = u /\ G[u][n].to \in Members /\ G[u][n].val \in Nat
  <2>1. pc # "abstract"
    BY DEF RunInv
  <2>2. u \in Members /\ GraphInv
    BY <2>1 DEF PassInv, GraphInv
  <2>3. CASE Numbering
    BY <2>1, <2>2, <2>3, GraphEdges
  <2>4. CASE Built
    BY <2>2, <2>4, ChordIs
  <2> QED
    BY <2>1, <2>3, <2>4 DEF Built
<1>2. inMST \subseteq Members
  BY DEF PassInv, TreeTypes
<1>3. ToSet(finish) \subseteq Members
  <2>1. finish = << >> \/ finish \in Seq(Members)
    BY DEF PassInv, OrderInv
  <2> QED
    BY <2>1 DEF ToSet
<1>4. DOMAIN pathCounter \subseteq Int /\ DOMAIN pathData \subseteq Nat /\ IsABag(pathData)
  <2>1. pathData \in [DOMAIN pathData -> Nat \ {0}] /\ DOMAIN pathCounter \subseteq Int
    BY NumberBagIs DEF RunInv
  <2>2. IsABag(pathData)
    BY <2>1 DEF IsABag
  <2> QED
    BY <2>1, <2>2 DEF RunInv
<1> QED
  BY <1>1, <1>2, <1>3, <1>4 DEF RunInv, TypeOK

(***************************************************************************)
(* Type correctness of the profiler, the program and the regeneration: a   *)
(* register may hold a negative number, pathData.txt does not.             *)
(***************************************************************************)
THEOREM TypesOfPathCounts == Spec => []TypeOK
<1>1. PassInv /\ RunInv => TypeOK
  BY TypesHold
<1> QED
  BY <1>1, RunAlways, PTL

----------------------------------------------------------------------------
(***************************************************************************)
(* Each block but the root is joined by an edge to a block other than      *)
(* itself, and no two blocks of the tree are above each other.             *)
(***************************************************************************)
JoinedInv ==
    Built => \A u \in Members :
                /\ parent[u].block # u
                /\ parent[u].block = NoBlock => distance[u] <= 0
                /\ parent[u].block # NoBlock => distance[u] \in Between(parent[u].block, u)

Ordered(above) == \A x, y \in inMST : x \in above[y] /\ y \in above[x] => x = y

OrderedInv == Built => \A above : IsAbove(above) => Ordered(above)

LEMMA JoinedGrown ==
    ASSUME GraphInv, TreeTypes, JoinedInv, Built, UNCHANGED graphVars, NEW u, Joins(u)
    PROVE  JoinedInv'
<1>1. /\ u \in Members \ inMST /\ inMST' = inMST \cup {u} /\ inMST \subseteq Members
      /\ \A w \in inMST' : distance'[w] = distance[w] /\ parent'[w] = parent[w]
      /\ \A y \in Members \ inMST' :
            \/ distance'[y] = distance[y] /\ parent'[y] = parent[y]
            \/ distance'[y] \in Between(u, y) /\ parent'[y] \in [block : {u}, forward : BOOLEAN]
  BY DEF Joins, TreeTypes
<1>2. Members' = Members /\ \A x, y : Between(x, y)' = Between(x, y)
  BY FnKept DEF graphVars, Between, Values
<1>3. NoBlock \notin Members
  BY MembersAre DEF GraphInv
<1>4. ASSUME NEW y \in Members
      PROVE  /\ parent'[y].block # y
             /\ parent'[y].block = NoBlock => distance'[y] <= 0
             /\ parent'[y].block # NoBlock => distance'[y] \in Between(parent'[y].block, y)
  <2>1. CASE distance'[y] = distance[y] /\ parent'[y] = parent[y]
    BY <2>1 DEF JoinedInv
  <2>2. CASE /\ y \notin inMST' /\ distance'[y] \in Between(u, y)
             /\ parent'[y] \in [block : {u}, forward : BOOLEAN]
    <3>1. parent'[y].block = u /\ u # y /\ u # NoBlock
      BY <1>1, <1>3, <2>2
    <3> QED
      BY <2>2, <3>1
  <2> QED
    BY <1>1, <2>1, <2>2
<1> QED
  BY <1>2, <1>4 DEF JoinedInv

LEMMA OrderedGrown ==
    ASSUME GraphInv, TreeTypes, TreeInv, OrderedInv, Built, UNCHANGED graphVars, NEW u, Joins(u)
    PROVE  OrderedInv'
<1>1. /\ u \in Members \ inMST /\ inMST' = inMST \cup {u} /\ inMST \subseteq Members
      /\ \A w \in inMST' : parent'[w] = parent[w]
  BY DEF Joins, TreeTypes
<1>2. ASSUME NEW above, IsAbove(above)' PROVE Ordered(above)'
  <2>1. \A x \in inMST' : above[x] = {x} \cup (IF parent'[x].block = NoBlock THEN {}
                                               ELSE above[parent'[x].block])
    BY <1>2 DEF IsAbove
  <2>2. IsAbove(above)
    BY <1>1, <2>1 DEF IsAbove
  <2>3. Inside(above) /\ Ordered(above)
    BY <2>2 DEF TreeInv, OrderedInv
  <2> QED
    BY <1>1, <2>3 DEF Inside, Ordered
<1> QED
  BY <1>2 DEF OrderedInv

LEMMA JoinedStep ==
    ASSUME GraphInv, TreeTypes, TreeInv, JoinedInv, OrderedInv, Step
    PROVE  JoinedInv' /\ OrderedInv'
<1>1. CASE StartTree
  <2>1. /\ fn' = fn /\ inMST' = {}
        /\ distance' = [u \in Members |-> IF u = fn.address[1] THEN 0 ELSE IntMin]
        /\ parent' = [u \in Members |-> [block |-> NoBlock, forward |-> TRUE]]
    BY <1>1 DEF StartTree, TreeTypes, Built, Numbering
  <2>2. Members' = Members /\ NoBlock \notin Members
    BY <2>1, FnKept, MembersAre DEF GraphInv
  <2>3. JoinedInv'
    BY <2>1, <2>2 DEF JoinedInv, IntMin
  <2> QED
    BY <2>1, <2>3 DEF OrderedInv, Ordered
<1>2. CASE GrowTree
  <2>1. Built /\ Built' /\ UNCHANGED graphVars
    BY <1>2 DEF GrowTree, Built, Numbering
  <2>2. PICK u : Joins(u)
    BY <1>2, TreeGrows
  <2> QED
    BY <2>1, <2>2, JoinedGrown, OrderedGrown
<1>3. CASE ~ Built'
  BY <1>3 DEF JoinedInv, OrderedInv
<1>4. CASE UNCHANGED <<graphVars, treeVars>> /\ (Built' <=> Built)
  <2>1. /\ fn' = fn /\ inMST' = inMST /\ distance' = distance /\ parent' = parent
    BY <1>4 DEF graphVars, treeVars
  <2>2. Members' = Members /\ \A x, y : Between(x, y)' = Between(x, y)
    BY <1>4, FnKept DEF graphVars, Between, Values
  <2>3. \A above : (IsAbove(above)' <=> IsAbove(above)) /\ (Ordered(above)' <=> Ordered(above))
    BY <2>1 DEF IsAbove, Ordered
  <2>4. JoinedInv'
    BY <1>4, <2>1, <2>2 DEF JoinedInv
  <2> QED
    BY <1>4, <2>3, <2>4 DEF OrderedInv
<1>5. CASE getAbstractGraph \/ getEdgeValues
  BY <1>3, <1>5 DEF getAbstractGraph, getEdgeValues, Built, Numbering
<1>6. CASE DFS \/ FinishBlock \/ Sorted
  BY <1>4, <1>6 DEF DFS, FinishBlock, Sorted, Built, Numbering
<1>7. CASE Annotate
  BY <1>4, <1>7 DEF Annotate, Built, Numbering
<1>8. CASE ExitChord \/ Chord \/ BackChord
  BY <1>4, <1>8 DEF ExitChord, Chord, BackChord, Built, Numbering
<1>9. CASE SplitFails \/ Instrumented
  BY <1>4, <1>9 DEF SplitFails, Instrumented, Built, Numbering
<1>10. CASE Report
  BY <1>4, <1>10 DEF Report, Built, Numbering
<1>11. CASE UNCHANGED passVars
  BY <1>4, <1>11 DEF passVars, Built, Numbering
<1> QED
  BY <1>1, <1>2, <1>5, <1>6, <1>7, <1>8, <1>9, <1>10, <1>11 DEF Step, PassNext

----------------------------------------------------------------------------
(* Every block is numbered.                                                *)

\* What holds of the entry, and of a block if it holds of one before it, holds of all.
LEMMA Forwards ==
    ASSUME fn \in Programs, NEW S, fn.entry \in S,
           \A u, v \in Members : u \in S /\ Forward(fn, u, v) => v \in S
    PROVE  Members \subseteq S
<1> DEFINE T == {k \in Nat : \A v \in Members : Rank(v) = k => v \in S}
<1>1. ASSUME NEW k \in Nat, \A j \in Nat : j < k => j \in T PROVE k \in T
  <2> SUFFICES ASSUME NEW v \in Members, Rank(v) = k, v # fn.entry PROVE v \in S
    OBVIOUS
  <2>1. PICK u \in Members : Forward(fn, u, v)
    BY MainGiven, MembersAre DEF WellFormedMain
  <2>2. Rank(u) < k /\ Rank(u) \in Nat
    BY <2>1, RankIs
  <2>3. u \in S
    BY <1>1, <2>2
  <2> QED
    BY <2>1, <2>3
<1>2. \A k \in Nat : k \in T
  <2> HIDE DEF T
  <2> QED
    BY <1>1, StrongInduction
<1>3. ASSUME NEW v \in Members PROVE v \in S
  <2>1. Rank(v) \in Nat
    BY RankIs
  <2> QED
    BY <1>2, <2>1
<1> QED
  BY <1>3

\* An edge of the function is in the abstract graph, in its place.
LEMMA FunctionEdge ==
    ASSUME GraphInv, pc # "abstract", NEW u \in Members, NEW n \in DOMAIN fn.succ[u]
    PROVE  /\ u # fn.exit /\ n \in Nat /\ n \in DOMAIN G[u] /\ n <= Len(OutEdges(u))
           /\ fn.succ[u][n] \in Members \ {fn.entry}
           /\ ~ isBackedge(u, fn.succ[u][n]) =>
                 G[u][n].to = fn.succ[u][n] /\ G[u][n].backedge_number = 0
           /\ isBackedge(u, fn.succ[u][n]) =>
                 /\ G[u][n].to = fn.exit /\ G[u][n].backedge_number # 0
                 /\ Backedge[G[u][n].backedge_number] = [tail |-> u, header |-> fn.succ[u][n]]
<1>1. fn \in Programs
  BY DEF GraphInv
<1>2. PICK v : v = fn.succ[u][n]
  OBVIOUS
<1>3. /\ fn.succ[u] \in Seq(Members) /\ fn.succ[fn.exit] = << >> /\ v \in Members \ {fn.entry}
      /\ n \in Nat
  <2>1. fn.succ[u] \in Seq(Members) /\ fn.succ[fn.exit] = << >> /\ v \in Succs(fn, u)
    BY <1>1, <1>2, SuccsAre DEF Succs
  <2>2. n \in Nat
    BY <2>1
  <2> QED
    BY <1>1, <2>1, <2>2, SuccsAre
<1>4. u # fn.exit /\ fn.succ[u] # << >>
  BY <1>3
<1>5. PICK o : o = OutEdges(u)
  OBVIOUS
<1>6. o = [m \in DOMAIN fn.succ[u] |->
          IF isBackedge(u, fn.succ[u][m])
          THEN Edge(u, fn.exit, CHOOSE k \in DOMAIN BackPlaces : BackPlaces[k] = <<u, m>>)
          ELSE Edge(u, fn.succ[u][m], 0)]
  BY <1>4, <1>5 DEF OutEdges
<1>7. Len(o) = Len(fn.succ[u]) /\ o \in Seq(EdgeRecords)
  BY <1>1, <1>4, <1>5, OutEdgesAre
<1>8. n \in DOMAIN o /\ n <= Len(o)
  BY <1>3, <1>6, <1>7
<1>9. PICK es : es = EdgesFrom(u)
  OBVIOUS
<1>10. n \in DOMAIN es /\ es[n] = o[n]
  <2>1. CASE u # fn.entry
    BY <1>5, <1>8, <1>9, <2>1 DEF EdgesFrom
  <2>2. CASE u = fn.entry
    <3>1. es = o \o EntryEdges
      BY <1>5, <1>9, <2>2 DEF EdgesFrom
    <3>2. PICK N \in Nat : DOMAIN BackPlaces = 1..N
      BY <1>1, BackPlacesDomain
    <3>3. PICK t : t = EntryEdges
      OBVIOUS
    <3>4. t \in Seq({t[k] : k \in 1..N})
      BY <3>2, <3>3 DEF EntryEdges
    <3> QED
      BY <1>7, <1>8, <3>1, <3>3, <3>4
  <2> QED
    BY <2>1, <2>2
<1>11. es = [m \in DOMAIN G[u] |-> [G[u][m] EXCEPT !.val = 0]]
  BY <1>4, <1>9 DEF GraphInv, Unvalued
<1>12. n \in DOMAIN G[u] /\ o[n] = [G[u][n] EXCEPT !.val = 0]
  BY <1>10, <1>11
<1>13. o[n].to = G[u][n].to /\ o[n].backedge_number = G[u][n].backedge_number
  <2>1. G[u][n] \in EdgeRecords
    BY <1>12 DEF GraphInv
  <2> QED
    BY <1>12, <2>1 DEF EdgeRecords
<1>14. CASE ~ isBackedge(u, v)
  <2>1. o[n] = Edge(u, v, 0)
    BY <1>2, <1>6, <1>14
  <2>2. o[n].to = v /\ o[n].backedge_number = 0
    BY <2>1 DEF Edge
  <2> QED
    BY <1>2, <1>3, <1>4, <1>5, <1>8, <1>12, <1>13, <1>14, <2>2
<1>15. CASE isBackedge(u, v)
  <2>1. <<u, n>> \in BackEdges
    <3>1. <<u, n>> \in Places(fn.succ)
      BY DEF Places
    <3> QED
      BY <1>2, <1>15, <3>1 DEF BackEdges, Header
  <2>2. \E k \in DOMAIN BackPlaces : BackPlaces[k] = <<u, n>>
    BY <1>1, <2>1, BackPlacesAre
  <2>3. PICK k : k = CHOOSE j \in DOMAIN BackPlaces : BackPlaces[j] = <<u, n>>
    OBVIOUS
  <2>4. k \in DOMAIN BackPlaces /\ BackPlaces[k] = <<u, n>>
    BY <2>2, <2>3
  <2>5. o[n] = Edge(u, fn.exit, k)
    BY <1>2, <1>6, <1>15, <2>3
  <2>6. o[n].to = fn.exit /\ o[n].backedge_number = k
    BY <2>5 DEF Edge
  <2>7. k # 0
    BY <1>1, <2>4, BackPlacesDomain
  <2>8. Backedge[k] = [tail |-> u, header |-> v]
    <3>1. Backedge[k] = [tail |-> BackPlaces[k][1], header |-> Header(BackPlaces[k])]
      BY <2>4 DEF GraphInv, TailsAndHeaders
    <3> QED
      BY <1>2, <2>4, <3>1 DEF Header
  <2> QED
    BY <1>2, <1>3, <1>4, <1>5, <1>8, <1>12, <1>13, <1>15, <2>6, <2>7, <2>8
<1> QED
  BY <1>14, <1>15

\* An edge that goes forward is one of them.
LEMMA ForwardEdge ==
    ASSUME GraphInv, pc # "abstract", NEW u \in Members, NEW v \in Members, Forward(fn, u, v)
    PROVE  /\ u # fn.exit
           /\ \E n \in DOMAIN G[u] : n <= Len(OutEdges(u)) /\ G[u][n].to = v
<1>1. fn \in Programs
  BY DEF GraphInv
<1>2. PICK n \in DOMAIN fn.succ[u] : fn.succ[u][n] = v
  BY DEF Forward, Succs
<1>3. ~ isBackedge(u, fn.succ[u][n])
  BY <1>1, <1>2, MainGiven, MembersAre DEF Forward, WellFormedMain, isBackedge
<1>4. /\ u # fn.exit /\ n \in DOMAIN G[u] /\ n <= Len(OutEdges(u))
      /\ ~ isBackedge(u, fn.succ[u][n]) => G[u][n].to = fn.succ[u][n]
  BY FunctionEdge
<1> QED
  BY <1>2, <1>3, <1>4

LEMMA AllNumbered ==
    ASSUME GraphInv, OrderInv, ValuesInv, Built
    PROVE  \A u \in Members : Numbered(u)
<1> DEFINE S == {u \in Members : \E k \in DOMAIN finish : finish[k] = u}
<1>1. /\ \A k \in DOMAIN finish : Numbered(finish[k])
      /\ \A k \in DOMAIN finish : finish[k] # fn.exit =>
            \A n \in DOMAIN G[finish[k]] :
               \E j \in DOMAIN finish : j < k /\ finish[j] = G[finish[k]][n].to
      /\ \E k \in DOMAIN finish : finish[k] = fn.entry
      /\ pc # "abstract" /\ fn \in Programs
  BY FinishedBlocks DEF GraphInv
<1>2. fn.entry \in S
  BY <1>1, MembersAre
<1>3. ASSUME NEW u \in Members, NEW v \in Members, u \in S, Forward(fn, u, v) PROVE v \in S
  BY <1>1, <1>3, ForwardEdge
<1>4. Members \subseteq S
  <2> HIDE DEF S
  <2> QED
    BY <1>1, <1>2, <1>3, Forwards
<1> QED
  BY <1>1, <1>4

----------------------------------------------------------------------------
(* The edges from the entry to the headers of loops are on the tree.       *)

\* No edge is worth as much as there are paths from its block, nor are there more of them
\* from the block it leads to.
LEMMA Smaller ==
    ASSUME GraphInv, OrderInv, ValuesInv, Built,
           NEW u \in Members \ {fn.exit}, NEW n \in DOMAIN G[u]
    PROVE  /\ G[u][n].val \in Nat /\ G[u][n].val < NumPaths[u] /\ NumPaths[u] \in Nat
           /\ G[u][n].to \in Members
           /\ NumPaths[G[u][n].to] \in Nat /\ NumPaths[G[u][n].to] <= NumPaths[u]
<1>1. pc # "abstract" /\ NumPaths \in [Members -> Nat]
  BY DEF Built, ValuesInv
<1>2. Valued(u)
  BY AllNumbered DEF Numbered
<1>3. \A m \in DOMAIN G[u] : G[u][m].to \in Members /\ G[u][m].val \in Nat
  BY <1>1, GraphEdges
<1>4. \A m \in DOMAIN G[u] : NumPaths[G[u][m].to] >= 1
  BY <1>3, AllNumbered DEF Numbered
<1>5. PICK N \in Nat \ {0} : \E s \in [0..N -> Int] :
          /\ DOMAIN G[u] = 1..N /\ s[0] = 0 /\ s[N] = NumPaths[u]
          /\ \A m \in 1..N : /\ G[u][m].val = s[m - 1]
                             /\ s[m] = s[m - 1] + NumPaths[G[u][m].to]
                             /\ s[m - 1] < s[m]
          /\ \A l, m \in 0..N : l < m => s[l] < s[m]
          /\ \A x \in Nat : x < s[N] => \E m \in 1..N : s[m - 1] <= x /\ x < s[m]
  BY <1>1, <1>2, <1>4, ValuesStepUp
<1>6. PICK s \in [0..N -> Int] :
          /\ DOMAIN G[u] = 1..N /\ s[0] = 0 /\ s[N] = NumPaths[u]
          /\ \A m \in 1..N : /\ G[u][m].val = s[m - 1]
                             /\ s[m] = s[m - 1] + NumPaths[G[u][m].to]
          /\ \A l, m \in 0..N : l < m => s[l] < s[m]
  BY <1>5
<1>7. n \in 1..N /\ n - 1 \in 0..N /\ n - 1 < N /\ n \in 0..N
  BY <1>6
<1>8. s[n - 1] < s[N] /\ (n = N \/ s[n] < s[N])
  BY <1>6, <1>7
<1>9. G[u][n].val = s[n - 1] /\ s[n] = s[n - 1] + NumPaths[G[u][n].to] /\ s[n] \in Int /\ s[n - 1] \in Int
  BY <1>6, <1>7
<1>10. G[u][n].to \in Members /\ G[u][n].val \in Nat
  BY <1>3
<1>11. NumPaths[G[u][n].to] \in Nat /\ NumPaths[u] \in Nat
  BY <1>1, <1>10
<1>12. s[N] \in Int /\ s[N] = NumPaths[u] /\ s[n] <= s[N]
  BY <1>6, <1>8, <1>9
<1>13. G[u][n].val < NumPaths[u]
  BY <1>8, <1>9, <1>12
<1>14. NumPaths[G[u][n].to] <= NumPaths[u]
  BY <1>9, <1>10, <1>11, <1>12
<1> QED
  BY <1>10, <1>11, <1>13, <1>14

\* The entry's edges to headers come after its own, which lead to all paths.
LEMMA HeadOutweighs ==
    ASSUME GraphInv, OrderInv, ValuesInv, Built, fn.entry # fn.exit,
           NEW n \in DOMAIN G[fn.entry], n > Len(OutEdges(fn.entry))
    PROVE  /\ G[fn.entry][n].val \in Nat \ {0}
           /\ \A u \in Members \ {fn.entry} : NumPaths[u] <= G[fn.entry][n].val
<1>1. pc # "abstract" /\ NumPaths \in [Members -> Nat] /\ fn \in Programs
      /\ fn.entry \in Members \ {fn.exit}
  BY MembersAre DEF Built, ValuesInv, GraphInv
<1>2. Valued(fn.entry)
  BY <1>1, AllNumbered DEF Numbered
<1>3. \A m \in DOMAIN G[fn.entry] : G[fn.entry][m].to \in Members
  BY <1>1, GraphEdges
<1>4. \A m \in DOMAIN G[fn.entry] : NumPaths[G[fn.entry][m].to] >= 1
  BY <1>3, AllNumbered DEF Numbered
<1>5. PICK N \in Nat \ {0} : \E s \in [0..N -> Int] :
          /\ DOMAIN G[fn.entry] = 1..N /\ s[0] = 0 /\ s[N] = NumPaths[fn.entry]
          /\ \A m \in 1..N : /\ G[fn.entry][m].val = s[m - 1]
                             /\ s[m] = s[m - 1] + NumPaths[G[fn.entry][m].to]
                             /\ s[m - 1] < s[m]
          /\ \A l, m \in 0..N : l < m => s[l] < s[m]
          /\ \A x \in Nat : x < s[N] => \E m \in 1..N : s[m - 1] <= x /\ x < s[m]
  BY <1>1, <1>2, <1>4, ValuesStepUp
<1>6. PICK s \in [0..N -> Int] :
          /\ DOMAIN G[fn.entry] = 1..N /\ s[0] = 0
          /\ \A m \in 1..N : /\ G[fn.entry][m].val = s[m - 1]
                             /\ s[m] = s[m - 1] + NumPaths[G[fn.entry][m].to]
          /\ \A l, m \in 0..N : l < m => s[l] < s[m]
  BY <1>5
<1>7. PICK K : K = Len(OutEdges(fn.entry))
  OBVIOUS
<1>8. K \in Nat /\ K >= 1
  <2>1. PICK o : o = OutEdges(fn.entry)
    OBVIOUS
  <2>2. o \in Seq(EdgeRecords) /\ o # << >>
    BY <1>1, <2>1, OutEdgesAre
  <2> QED
    BY <1>7, <2>1, <2>2
<1>9. n \in 1..N /\ K < n /\ K \in 0..N /\ n - 1 \in 0..N /\ K <= n - 1
  BY <1>6, <1>7, <1>8
<1>10. s[K] <= s[n - 1] /\ G[fn.entry][n].val = s[n - 1]
  <2>1. G[fn.entry][n].val = s[n - 1]
    BY <1>6, <1>9
  <2>2. s[K] \in Int /\ s[n - 1] \in Int
    BY <1>9
  <2>3. CASE K = n - 1
    BY <2>1, <2>2, <2>3
  <2>4. CASE K < n - 1
    <3>1. s[K] < s[n - 1]
      BY <1>6, <1>9, <2>4
    <3> QED
      BY <2>1, <2>2, <3>1
  <2> QED
    BY <1>8, <1>9, <2>3, <2>4
<1>11. s[K] > 0
  <2>1. 0 \in 0..N /\ 0 < K
    BY <1>8
  <2> QED
    BY <1>6, <1>9, <2>1
<1> DEFINE S == {u \in Members : u = fn.entry \/ NumPaths[u] <= s[K]}
<1>12. ASSUME NEW u \in Members, NEW v \in Members, u \in S, Forward(fn, u, v) PROVE v \in S
  <2>1. u # fn.exit /\ \E m \in DOMAIN G[u] : m <= Len(OutEdges(u)) /\ G[u][m].to = v
    BY <1>1, <1>12, ForwardEdge
  <2>2. PICK m \in DOMAIN G[u] : m <= Len(OutEdges(u)) /\ G[u][m].to = v
    BY <2>1
  <2>3. CASE u = fn.entry
    <3>0. m \in 1..N /\ m <= K
      BY <1>6, <1>7, <2>2, <2>3
    <3>1. /\ m \in 1..N /\ m - 1 \in 0..N /\ m \in 0..N /\ (m = K \/ m < K)
          /\ 0 \in 0..N /\ (m - 1 = 0 \/ 0 < m - 1)
      BY <1>8, <3>0
    <3>5. s[m] <= s[K]
      <4>1. s[m] \in Int /\ s[K] \in Int
        BY <1>9, <3>1
      <4>2. m < K => s[m] < s[K]
        BY <1>6, <1>9, <3>1
      <4> QED
        BY <3>1, <4>1, <4>2
    <3>6. s[m - 1] >= 0
      BY <1>6, <3>1
    <3>2. s[m] <= s[K] /\ s[m - 1] >= 0
      BY <3>5, <3>6
    <3>3. s[m] = s[m - 1] + NumPaths[v] /\ NumPaths[v] \in Nat
      BY <1>1, <1>6, <2>2, <2>3, <3>1
    <3>4. s[m] \in Int /\ s[m - 1] \in Int /\ s[K] \in Int
      BY <1>9, <3>1
    <3> QED
      BY <3>2, <3>3, <3>4
  <2>4. CASE u # fn.entry
    <3>1. NumPaths[v] <= NumPaths[u] /\ NumPaths[v] \in Nat /\ NumPaths[u] \in Nat
      BY <2>1, <2>2, Smaller
    <3>2. NumPaths[u] <= s[K] /\ s[K] \in Int
      BY <1>9, <1>12, <2>4
    <3> QED
      BY <3>1, <3>2
  <2> QED
    BY <2>3, <2>4
<1>13. Members \subseteq S
  <2>1. fn.entry \in S
    BY <1>1
  <2> HIDE DEF S
  <2> QED
    BY <1>1, <1>12, <2>1, Forwards
<1>14. s[n - 1] \in Int /\ s[K] \in Int
  BY <1>9
<1>15. ASSUME NEW u \in Members \ {fn.entry} PROVE NumPaths[u] <= G[fn.entry][n].val
  <2>1. NumPaths[u] <= s[K] /\ NumPaths[u] \in Nat
    BY <1>1, <1>13
  <2> QED
    BY <1>10, <1>14, <2>1
<1>16. G[fn.entry][n].val \in Nat \ {0}
  BY <1>10, <1>11, <1>14
<1> QED
  BY <1>15, <1>16

LEMMA HeadHeavier ==
    ASSUME GraphInv, OrderInv, ValuesInv, Built, fn.entry # fn.exit,
           NEW n \in DOMAIN G[fn.entry], n > Len(OutEdges(fn.entry)),
           NEW u \in Members \ {fn.entry}, NEW v \in Members \ {fn.entry}, NEW val \in Between(u, v)
    PROVE  ~ (val >= G[fn.entry][n].val)
<1>1. pc # "abstract" /\ fn \in Programs
  BY DEF Built, GraphInv
<1>2. ASSUME NEW p \in Members \ {fn.entry}, NEW q \in Members \ {fn.entry}, val \in Values(p, q)
      PROVE  ~ (val >= G[fn.entry][n].val)
  <2>1. PICK m \in DOMAIN G[p] : G[p][m].to = q /\ val = G[p][m].val
    BY <1>2 DEF Values
  <2>2. p # fn.exit
    <3> SUFFICES ASSUME p = fn.exit PROVE FALSE
      OBVIOUS
    <3>1. G[p] = <<Edge(fn.exit, fn.entry, 0)>>
      BY <1>1 DEF GraphInv
    <3>2. G[p][m].to = fn.entry
      BY <2>1, <3>1 DEF Edge
    <3> QED
      BY <2>1, <3>2
  <2>3. val \in Nat /\ val < NumPaths[p] /\ NumPaths[p] \in Nat
    BY <2>1, <2>2, Smaller
  <2>4. NumPaths[p] <= G[fn.entry][n].val /\ G[fn.entry][n].val \in Nat
    BY HeadOutweighs
  <2> QED
    BY <2>3, <2>4
<1> QED
  BY <1>2 DEF Between

\* If such an edge were off the tree, the tree path between its ends would have an edge
\* worth as much that is not the entry's.
LEMMA HeadsJoined ==
    ASSUME GraphInv, OrderInv, ValuesInv, TreeTypes, TreeInv, JoinedInv, OrderedInv, Built,
           inMST = Members, fn.entry # fn.exit,
           NEW n \in DOMAIN G[fn.entry], n > Len(OutEdges(fn.entry))
    PROVE  ~ chordEdge(G[fn.entry][n])
<1>1. pc # "abstract" /\ fn \in Programs /\ fn.entry \in Members /\ NoBlock \notin Members
  BY MembersAre DEF Built, GraphInv
<1>2. PICK h : h = G[fn.entry][n].to
  OBVIOUS
<1>3. PICK x : x = G[fn.entry][n].val
  OBVIOUS
<1>4. G[fn.entry][n].from = fn.entry /\ h \in Members /\ x \in Nat \ {0} /\ Rank(fn.entry) < Rank(h)
  BY <1>1, <1>2, <1>3, GraphEdges, HeadOutweighs
<1>5. h # fn.entry
  BY <1>1, <1>4, RankIs
<1>6. SUFFICES ASSUME fn.entry # parent[h].block, parent[fn.entry].block # h PROVE FALSE
  BY <1>2, <1>4 DEF chordEdge
<1>7. PICK above \in [Members -> SUBSET Members] : IsAbove(above)
  BY DEF TreeInv
<1>8. Maximal(above) /\ Ordered(above)
  BY <1>7 DEF TreeInv, OrderedInv
<1>9. \A w \in treePath(above, fn.entry, h) : distance[w] >= x
  <2>1. x \in Between(fn.entry, h)
    BY <1>2, <1>3 DEF Between, Values
  <2> QED
    BY <1>1, <1>4, <1>8, <2>1 DEF Maximal, Heavy
<1>10. \A u \in Members : above[u] = {u} \cup (IF parent[u].block = NoBlock THEN {}
                                               ELSE above[parent[u].block])
  BY <1>7 DEF IsAbove
<1>11. \A u \in Members : parent[u].block \in Members \cup {NoBlock}
  BY DEF TreeTypes
<1>12. \A u, v \in Members : u \in above[v] /\ v \in above[u] => u = v
  BY <1>8 DEF Ordered
<1>13. ASSUME NEW w \in Members \ {fn.entry}, w \in treePath(above, fn.entry, h) PROVE parent[w].block = fn.entry
  <2>1. distance[w] >= x /\ distance[w] \in Int
    BY <1>9, <1>13 DEF TreeTypes
  <2>2. parent[w].block # NoBlock
    BY <1>4, <2>1 DEF JoinedInv
  <2>3. distance[w] \in Between(parent[w].block, w)
    BY <2>2 DEF JoinedInv
  <2> QED
    BY <1>3, <1>11, <2>1, <2>2, <2>3, HeadHeavier
<1>14. h \in above[fn.entry]
  <2> SUFFICES ASSUME h \notin above[fn.entry] PROVE FALSE
    OBVIOUS
  <2>1. h \in treePath(above, fn.entry, h)
    BY <1>4, <1>10 DEF treePath
  <2> QED
    BY <1>4, <1>5, <1>6, <1>13, <2>1
<1>15. PICK q : q = parent[fn.entry].block
  OBVIOUS
<1>16. q \in Members /\ h \in above[q] /\ q \in above[fn.entry] /\ q \in above[q]
  BY <1>1, <1>5, <1>10, <1>11, <1>14, <1>15
<1>17. q # fn.entry /\ q # h
  BY <1>1, <1>6, <1>15 DEF JoinedInv
<1>18. q \notin above[h]
  BY <1>4, <1>12, <1>16, <1>17
<1>19. parent[q].block = fn.entry
  BY <1>13, <1>16, <1>17, <1>18 DEF treePath
<1>20. fn.entry \in above[q]
  BY <1>1, <1>10, <1>16, <1>19
<1> QED
  BY <1>1, <1>12, <1>16, <1>17, <1>20

----------------------------------------------------------------------------
(* The code on the edges.                                                  *)

ChordPlaces == {e \in Places(G) : chordEdge(G[e[1]][e[2]])}

\* The places of the chords in their order, and those the loop has passed.
Off == ByPlace(fn.address, ChordPlaces)

Passed(e) == \E j \in DOMAIN Off : j < pos /\ Off[j] = e

\* The code for an edge of the function.
CodeOf(e) ==
    IF isBackedge(e[1], Header(e))
    THEN <<insertInc(Inc(fn.entry, Header(e))), regInc, resetInc(Inc(e[1], fn.exit))>>
    ELSE <<insertInc(Inc(e[1], Header(e)))>>

ExitCode == IF Passed(<<fn.exit, 1>>) THEN <<insertInc(Inc(fn.exit, fn.entry))>> ELSE << >>

Returning == \A u \in Members : fn.succ[u] = << >> => u = fn.exit

SplitInv ==
    /\ pc \in {"abstract", "sort", "values", "tree"} =>
          onEdge = [e \in Edges(fn) |-> << >>] /\ atExit = << >>
    /\ pc \in {"instrument", "instrumented", "reported"} =>
          /\ chords = [k \in DOMAIN Off |-> EdgeAt(Off[k])]
          /\ \A e \in Edges(fn) : onEdge[e] = IF Passed(e) THEN CodeOf(e) ELSE << >>
          /\ atExit = IF pc = "instrument" THEN ExitCode ELSE Append(ExitCode, regInc)
    /\ pc \in {"instrumented", "reported"} => pos \notin DOMAIN chords
    /\ Returning => pc # "failed"

\* What holds of the abstract graph and its tree whenever they are built.
WholeTree ==
    /\ GraphInv /\ OrderInv /\ ValuesInv /\ TreeTypes /\ TreeInv /\ JoinedInv /\ OrderedInv
    /\ Built /\ inMST = Members

LEMMA OffIs ==
    ASSUME GraphInv, Built
    PROVE  \E N \in Nat :
              /\ Off \in [1..N -> ChordPlaces]
              /\ \A e \in ChordPlaces : \E k \in 1..N : Off[k] = e
              /\ \A j, k \in 1..N : Off[j] = Off[k] => j = k
              /\ \A j, k \in 1..N : Off[j][1] = Off[k][1] /\ Off[j][2] < Off[k][2] => j < k
<1>1. fn \in Programs /\ pc # "abstract"
  BY DEF GraphInv, Built
<1>2. Lined(G)
  BY <1>1, GraphEdges DEF Lined
<1>3. ChordPlaces \in SUBSET Places(G)
  BY DEF ChordPlaces
<1>4. ListsAll(fn.address, fn)
  BY <1>1, MainGiven DEF WellFormedMain
<1> QED
  BY <1>1, <1>2, <1>3, <1>4, ByPlaceLists DEF Off

LEMMA OffKept ==
    ASSUME fn' = fn, G' = G, parent' = parent
    PROVE  ChordPlaces' = ChordPlaces /\ Off' = Off
<1>1. Members' = Members
  BY FnKept
<1>2. ChordPlaces' = ChordPlaces
  BY <1>1 DEF ChordPlaces, Places, chordEdge
<1>3. Off' = Off
  BY <1>2 DEF Off, ByPlace, PlaceIn
<1> QED
  BY <1>2, <1>3

\* A chord is the edge from the exit, an edge of the function or the edge of a block
\* that cannot return.
LEMMA ChordPlaceIs ==
    ASSUME WholeTree, NEW e \in ChordPlaces
    PROVE  \/ e = <<fn.exit, 1>> /\ EdgeAt(e) = Edge(fn.exit, fn.entry, 0)
           \/ /\ e \in Edges(fn) /\ e = <<e[1], e[2]>>
              /\ e[1] \in Members \ {fn.exit} /\ e[2] \in DOMAIN fn.succ[e[1]]
           \/ /\ e[1] \in Members \ {fn.exit} /\ fn.succ[e[1]] = << >>
              /\ EdgeAt(e).from = e[1]
              /\ EdgeAt(e).to = fn.exit /\ EdgeAt(e).backedge_number = 0
<1>1. fn \in Programs /\ pc # "abstract" /\ Members \subseteq Blocks /\ GraphInv /\ Built
  BY MembersAre DEF GraphInv, Built, WholeTree
<1>2. e[1] \in Members /\ e[2] \in DOMAIN G[e[1]] /\ e = <<e[1], e[2]>> /\ chordEdge(G[e[1]][e[2]])
  <2>1. Lined(G)
    BY <1>1, GraphEdges DEF Lined
  <2> QED
    BY <1>1, <2>1, PlacesFinite DEF ChordPlaces
<1>3. CASE e[1] = fn.exit
  <2>1. G[fn.exit] = <<Edge(fn.exit, fn.entry, 0)>>
    BY <1>1 DEF GraphInv
  <2>2. e[2] = 1
    BY <1>2, <1>3, <2>1
  <2>3. EdgeAt(e) = Edge(fn.exit, fn.entry, 0)
    BY <1>3, <2>1, <2>2 DEF EdgeAt
  <2> QED
    BY <1>2, <1>3, <2>2, <2>3
<1>4. CASE e[1] # fn.exit
  <2>1. PICK u \in Members \ {fn.exit} : u = e[1]
    BY <1>2, <1>4
  <2>2. PICK n \in DOMAIN G[u] : n = e[2]
    BY <1>2, <2>1
  <2>3. PICK d : d = [G[u][n] EXCEPT !.val = 0]
    OBVIOUS
  <2>4. EdgeOf(u, n, d) /\ G[u][n].from = u
    BY <1>1, <2>3, GraphEdges
  <2>5. d.to = G[u][n].to /\ d.backedge_number = G[u][n].backedge_number
    <3>1. G[u] \in Seq(EdgeRecords)
      BY <1>1, GraphEdges
    <3>2. G[u][n] \in EdgeRecords
      BY <3>1
    <3> QED
      BY <2>3, <3>2 DEF EdgeRecords
  <2>6. ASSUME n \in DOMAIN fn.succ[u]
        PROVE  e \in Edges(fn)
    BY <1>1, <1>2, <2>1, <2>2, <2>6 DEF Edges
  <2>7. CASE Plain(u, n, d) \/ TailHalf(u, n, d)
    BY <1>2, <2>1, <2>2, <2>6, <2>7 DEF Plain, TailHalf
  <2>8. CASE Stop(u, n, d)
    <3>1. d.to = fn.exit /\ d.backedge_number = 0 /\ fn.succ[u] = << >>
      BY <2>8 DEF Stop, Edge
    <3> QED
      BY <2>1, <2>2, <2>4, <2>5, <3>1 DEF EdgeAt
  <2>9. CASE HeadHalf(u, n, d)
    <3>1. PICK k \in DOMAIN BackPlaces : u = fn.entry /\ n = Len(OutEdges(u)) + k
      BY <2>9 DEF HeadHalf
    <3>2. k \in Nat \ {0} /\ fn.entry # fn.exit
      BY <1>1, BackPlacesDomain, BackEdgesAre
    <3>3. Len(OutEdges(u)) \in Nat
      <4>1. PICK o : o = OutEdges(u)
        OBVIOUS
      <4>2. o \in Seq(EdgeRecords)
        BY <1>1, <4>1, OutEdgesAre
      <4> QED
        BY <4>1, <4>2
    <3>4. n > Len(OutEdges(u))
      BY <3>1, <3>2, <3>3
    <3>5. ~ chordEdge(G[fn.entry][n])
      BY <3>1, <3>2, <3>4, HeadsJoined DEF WholeTree
    <3> QED
      BY <1>2, <2>1, <2>2, <3>1, <3>5
  <2> QED
    BY <2>4, <2>7, <2>8, <2>9 DEF EdgeOf
<1> QED
  BY <1>3, <1>4

\* Of the edges from one block to another all are chords or none is.
LEMMA Parallel ==
    ASSUME WholeTree, NEW u \in Members, NEW n \in DOMAIN fn.succ[u], NEW m \in DOMAIN fn.succ[u],
           fn.succ[u][m] = fn.succ[u][n], <<u, n>> \in ChordPlaces
    PROVE  <<u, m>> \in ChordPlaces
<1>1. GraphInv /\ pc # "abstract"
  BY DEF WholeTree, Built
<1>2. /\ u # fn.exit /\ n \in DOMAIN G[u] /\ m \in DOMAIN G[u]
      /\ G[u][m].to = G[u][n].to
  <2>1. ASSUME NEW k \in DOMAIN fn.succ[u]
        PROVE  /\ u # fn.exit /\ k \in DOMAIN G[u]
               /\ ~ isBackedge(u, fn.succ[u][k]) => G[u][k].to = fn.succ[u][k]
               /\ isBackedge(u, fn.succ[u][k]) => G[u][k].to = fn.exit
    BY <1>1, FunctionEdge
  <2> QED
    BY <2>1
<1>3. G[u][n].from = u /\ G[u][m].from = u
  BY <1>1, <1>2, GraphEdges
<1>4. chordEdge(G[u][n])
  BY DEF ChordPlaces
<1>5. chordEdge(G[u][m])
  BY <1>2, <1>3, <1>4 DEF chordEdge
<1>6. <<u, m>> \in Places(G)
  BY <1>2 DEF Places
<1> QED
  BY <1>5, <1>6 DEF ChordPlaces

\* The first edge that is not split is the one the loop is at.
LEMMA NextSplit ==
    ASSUME WholeTree, SplitInv, pc = "instrument", NEW e \in ChordPlaces,
           pos \in DOMAIN Off, Off[pos] = e,
           e[1] \in Members, e[2] \in DOMAIN fn.succ[e[1]], e = <<e[1], e[2]>>
    PROVE  /\ e \in Unsplit(e[1], Header(e))
           /\ FirstOf(Unsplit(e[1], Header(e))) = e
<1>1. GraphInv /\ Built /\ pc # "abstract" /\ fn \in Programs /\ Members \subseteq Blocks
  BY MembersAre DEF WholeTree, GraphInv, Built
<1>2. PICK u \in Members : u = e[1]
  OBVIOUS
<1>3. PICK n \in DOMAIN fn.succ[u] : n = e[2] /\ e = <<u, n>> /\ n \in Nat
  BY <1>1, <1>2, FunctionEdge
<1>4. PICK v : v = Header(e)
  OBVIOUS
<1>5. v = fn.succ[u][n]
  BY <1>2, <1>3, <1>4 DEF Header
<1>6. PICK N \in Nat :
          /\ Off \in [1..N -> ChordPlaces]
          /\ \A d \in ChordPlaces : \E k \in 1..N : Off[k] = d
          /\ \A j, k \in 1..N : Off[j] = Off[k] => j = k
          /\ \A j, k \in 1..N : Off[j][1] = Off[k][1] /\ Off[j][2] < Off[k][2] => j < k
  BY <1>1, OffIs
<1>7. pos \in 1..N /\ DOMAIN Off = 1..N
  BY <1>6
<1>8. \A d \in Edges(fn) : onEdge[d] = IF Passed(d) THEN CodeOf(d) ELSE << >>
  BY DEF SplitInv
<1>9. PICK edges : edges = Unsplit(u, v)
  OBVIOUS
<1>10. e \in edges
  <2>1. e \in Edges(fn)
    BY <1>1, <1>2, <1>3 DEF Edges
  <2>2. ~ Passed(e)
    BY <1>6, <1>7 DEF Passed
  <2>3. e \in PredEdges(fn, v)
    BY <1>2, <1>3, <1>5, <2>1 DEF PredEdges
  <2> QED
    BY <1>2, <1>8, <1>9, <2>1, <2>2, <2>3 DEF Unsplit
<1>11. ASSUME NEW d \in edges PROVE d = <<u, d[2]>> /\ n <= d[2] /\ d[2] \in Nat
  <2>1. d \in Edges(fn) /\ fn.succ[d[1]][d[2]] = v /\ d[1] = u /\ onEdge[d] = << >>
    BY <1>9, <1>11 DEF Unsplit, PredEdges
  <2>2. d = <<d[1], d[2]>> /\ d[2] \in DOMAIN fn.succ[d[1]]
    BY <2>1 DEF Edges
  <2>3. PICK m \in DOMAIN fn.succ[u] : d = <<u, m>> /\ fn.succ[u][m] = v
    BY <2>1, <2>2
  <2>4. m \in Nat
    BY <1>1, FunctionEdge
  <2>5. d \in ChordPlaces
    BY <1>3, <1>5, <2>3, Parallel
  <2>6. ~ Passed(d)
    <3>1. CodeOf(d) # << >>
      BY DEF CodeOf
    <3> QED
      BY <1>8, <2>1, <3>1
  <2>7. PICK j \in 1..N : Off[j] = d
    BY <1>6, <2>5
  <2>8. ~ (j < pos)
    BY <1>7, <2>6, <2>7 DEF Passed
  <2>9. ~ (m < n)
    <3>1. Off[j][1] = Off[pos][1] /\ Off[j][2] = m /\ Off[pos][2] = n
      BY <1>3, <2>3, <2>7
    <3> QED
      BY <1>6, <1>7, <2>8, <3>1
  <2> QED
    BY <1>3, <2>3, <2>4, <2>9
<1>12. FirstOf(edges) = e
  <2>1. PICK x : x = FirstOf(edges)
    OBVIOUS
  <2>2. x = CHOOSE d \in edges : \A c \in edges : d[2] <= c[2]
    BY <2>1 DEF FirstOf
  <2>3. \A c \in edges : e[2] <= c[2]
    BY <1>3, <1>11
  <2>4. x \in edges /\ \A c \in edges : x[2] <= c[2]
    BY <1>10, <2>2, <2>3
  <2>5. x[2] <= n /\ n <= x[2] /\ x[2] \in Nat /\ x = <<u, x[2]>>
    BY <1>3, <1>10, <1>11, <2>4
  <2>6. x[2] = n
    BY <1>3, <2>5
  <2> QED
    BY <1>3, <2>1, <2>5, <2>6
<1> QED
  BY <1>2, <1>4, <1>9, <1>10, <1>12

\* The loop has passed one more chord.
LEMMA PassedNext ==
    ASSUME GraphInv, Built, UNCHANGED <<graphVars, treeVars>>, pos \in DOMAIN Off, pos' = pos + 1
    PROVE  \A e : Passed(e)' <=> Passed(e) \/ e = Off[pos]
<1>1. Off' = Off
  BY OffKept DEF graphVars, treeVars
<1>2. PICK N \in Nat : DOMAIN Off = 1..N
  BY OffIs
<1>3. \A j \in DOMAIN Off : j < pos + 1 <=> j < pos \/ j = pos
  BY <1>2
<1> QED
  BY <1>1, <1>3 DEF Passed

LEMMA CodeKept ==
    ASSUME UNCHANGED <<graphVars, treeVars>>
    PROVE  /\ \A e : CodeOf(e)' = CodeOf(e)
           /\ Off' = Off /\ Returning' = Returning /\ Edges(fn)' = Edges(fn)
           /\ \A e : EdgeAt(e)' = EdgeAt(e)
<1>1. fn' = fn /\ G' = G /\ parent' = parent /\ potential' = potential
  BY DEF graphVars, treeVars
<1>2. \A u, v : Inc(u, v)' = Inc(u, v)
  BY <1>1 DEF Inc
<1>3. \A e : Header(e)' = Header(e)
  BY <1>1, FnKept
<1>4. \A e : CodeOf(e)' = CodeOf(e)
  BY <1>1, <1>2, <1>3 DEF CodeOf, isBackedge, insertInc, resetInc, regInc
<1>5. Off' = Off
  BY <1>1, OffKept
<1>6. Returning' = Returning /\ Edges(fn)' = Edges(fn)
  BY <1>1, FnKept DEF Returning, Edges
<1>7. \A e : EdgeAt(e)' = EdgeAt(e)
  BY <1>1 DEF EdgeAt
<1> QED
  BY <1>4, <1>5, <1>6, <1>7

LEMMA ExitPassed ==
    ASSUME WholeTree, CodeInv, SplitInv, ExitChord
    PROVE  SplitInv'
<1>1. /\ pc = "instrument" /\ pc' = pc /\ UNCHANGED <<graphVars, treeVars>>
      /\ chords' = chords /\ onEdge' = onEdge /\ pos' = pos + 1 /\ pos \in DOMAIN chords
      /\ chords[pos].backedge_number = 0 /\ chords[pos].to = fn.entry
      /\ atExit' = Append(atExit, insertInc(Inc(chords[pos].from, chords[pos].to)))
  BY DEF ExitChord
<1>2. /\ GraphInv /\ Built /\ fn \in Programs /\ pc # "abstract"
      /\ chords = [k \in DOMAIN Off |-> EdgeAt(Off[k])]
  BY <1>1 DEF WholeTree, GraphInv, Built, SplitInv
<1>3. PICK e : e = Off[pos]
  OBVIOUS
<1>4. pos \in DOMAIN Off /\ e \in ChordPlaces /\ chords[pos] = EdgeAt(e)
  <2>1. pos \in DOMAIN Off /\ chords[pos] = EdgeAt(e)
    BY <1>1, <1>2, <1>3
  <2> QED
    BY <1>2, <1>3, <2>1, OffIs
<1>5. e = <<fn.exit, 1>> /\ EdgeAt(e) = Edge(fn.exit, fn.entry, 0)
  <2>1. CASE /\ e \in Edges(fn) /\ e = <<e[1], e[2]>>
             /\ e[1] \in Members \ {fn.exit} /\ e[2] \in DOMAIN fn.succ[e[1]]
    <3>1. PICK u \in Members : u = e[1]
      BY <2>1
    <3>2. PICK n \in DOMAIN fn.succ[u] : n = e[2]
      BY <2>1, <3>1
    <3>3. /\ fn.succ[u][n] # fn.entry
          /\ ~ isBackedge(u, fn.succ[u][n]) => G[u][n].to = fn.succ[u][n]
          /\ isBackedge(u, fn.succ[u][n]) => G[u][n].backedge_number # 0
      BY <1>2, FunctionEdge
    <3> QED
      BY <1>1, <1>4, <3>1, <3>2, <3>3 DEF EdgeAt
  <2>2. CASE e[1] \in Members \ {fn.exit} /\ EdgeAt(e).to = fn.exit
    BY <1>1, <1>2, <1>4, <2>2, EntryExits
  <2> QED
    BY <1>4, <2>1, <2>2, ChordPlaceIs
<1>6. e \notin Edges(fn)
  BY <1>2, <1>5, SuccsAre DEF Edges
<1>7. \A d : Passed(d)' <=> Passed(d) \/ d = e
  BY <1>1, <1>2, <1>3, <1>4, PassedNext
<1>8. ~ Passed(e)
  <2>1. PICK N \in Nat : /\ DOMAIN Off = 1..N
                         /\ \A j, k \in 1..N : Off[j] = Off[k] => j = k
    BY <1>2, OffIs
  <2> QED
    BY <1>3, <1>4, <2>1 DEF Passed
<1>9. atExit' = ExitCode'
  <2>1. atExit = << >>
    BY <1>1, <1>5, <1>8 DEF SplitInv, ExitCode
  <2>2. EdgeAt(e).from = fn.exit /\ EdgeAt(e).to = fn.entry
    BY <1>5 DEF Edge
  <2>3. PICK i : i = insertInc(Inc(fn.exit, fn.entry))
    OBVIOUS
  <2>4. atExit' = <<i>>
    BY <1>1, <1>4, <2>1, <2>2, <2>3
  <2>5. Passed(<<fn.exit, 1>>)' /\ fn' = fn
    BY <1>1, <1>5, <1>7 DEF graphVars
  <2>6. insertInc(Inc(fn.exit, fn.entry))' = i
    BY <1>1, <2>3 DEF graphVars, treeVars, insertInc, Inc
  <2> QED
    BY <2>4, <2>5, <2>6 DEF ExitCode
<1>10. /\ \A d : CodeOf(d)' = CodeOf(d)
       /\ Off' = Off /\ Returning' = Returning /\ Edges(fn)' = Edges(fn)
       /\ \A d : EdgeAt(d)' = EdgeAt(d)
  BY <1>1, CodeKept
<1>11. \A d \in Edges(fn)' : onEdge'[d] = IF Passed(d)' THEN CodeOf(d)' ELSE << >>
  BY <1>1, <1>6, <1>7, <1>10 DEF SplitInv
<1>12. chords' = [k \in DOMAIN Off |-> EdgeAt(Off[k])]'
  BY <1>1, <1>2, <1>10 DEF EdgeAt, graphVars
<1> QED
  BY <1>1, <1>9, <1>11, <1>12 DEF SplitInv

\* The loop puts its code on the edge of the function it is at.
LEMMA EdgePassed ==
    ASSUME WholeTree, CodeInv, SplitInv, pc = "instrument", pc' = pc,
           UNCHANGED <<graphVars, treeVars, chords, atExit>>,
           pos \in DOMAIN Off, pos' = pos + 1,
           NEW e \in Edges(fn), e = Off[pos], onEdge' = [onEdge EXCEPT ![e] = CodeOf(e)]
    PROVE  SplitInv'
<1>1. GraphInv /\ Built /\ fn \in Programs
  BY DEF WholeTree, GraphInv
<1>2. \A d : Passed(d)' <=> Passed(d) \/ d = e
  BY <1>1, PassedNext
<1>3. /\ \A d : CodeOf(d)' = CodeOf(d)
      /\ Off' = Off /\ Edges(fn)' = Edges(fn)
      /\ \A d : EdgeAt(d)' = EdgeAt(d)
  BY CodeKept
<1>4. ASSUME NEW d \in Edges(fn)
      PROVE  onEdge'[d] = IF Passed(d)' THEN CodeOf(d)' ELSE << >>
  <2>1. CASE d = e
    BY <1>2, <1>3, <2>1 DEF CodeInv
  <2>2. CASE d # e
    <3>1. onEdge'[d] = onEdge[d]
      BY <2>2 DEF CodeInv
    <3>2. onEdge[d] = IF Passed(d) THEN CodeOf(d) ELSE << >>
      BY DEF SplitInv
    <3> QED
      BY <1>2, <1>3, <2>2, <3>1, <3>2
  <2> QED
    BY <2>1, <2>2
<1>5. \A d \in Edges(fn)' : onEdge'[d] = IF Passed(d)' THEN CodeOf(d)' ELSE << >>
  BY <1>3, <1>4
<1>6. <<fn.exit, 1>> # e
  BY <1>1, SuccsAre DEF Edges
<1>7. ExitCode' = ExitCode
  <2>1. Passed(<<fn.exit, 1>>)' <=> Passed(<<fn.exit, 1>>)
    BY <1>2, <1>6 DEF graphVars
  <2>2. insertInc(Inc(fn.exit, fn.entry))' = insertInc(Inc(fn.exit, fn.entry))
    BY DEF graphVars, treeVars, insertInc, Inc
  <2> QED
    BY <2>1, <2>2 DEF ExitCode
<1>8. atExit' = ExitCode'
  BY <1>7 DEF SplitInv
<1>9. chords' = [k \in DOMAIN Off |-> EdgeAt(Off[k])]'
  BY <1>3 DEF SplitInv, EdgeAt, graphVars
<1> QED
  BY <1>5, <1>8, <1>9 DEF SplitInv

\* The chord the loop is at.
LEMMA ChordAt ==
    ASSUME WholeTree, SplitInv, pc = "instrument", pos \in DOMAIN chords
    PROVE  LET c == chords[pos]
               e == Off[pos]
           IN /\ pos \in DOMAIN Off
              /\ \/ c.backedge_number = 0 /\ c.to = fn.entry
                 \/ /\ c.backedge_number = 0 /\ c.to # fn.entry /\ ~ isBackedge(e[1], Header(e))
                    /\ e \in Edges(fn) /\ c.from = e[1] /\ c.to = Header(e)
                    /\ e \in Unsplit(c.from, c.to)
                    /\ FirstOf(Unsplit(c.from, c.to)) = e
                 \/ /\ c.backedge_number # 0 /\ isBackedge(e[1], Header(e))
                    /\ e \in Edges(fn)
                    /\ Backedge[c.backedge_number].tail = e[1]
                    /\ Backedge[c.backedge_number].header = Header(e)
                    /\ e \in Unsplit(e[1], Header(e))
                    /\ FirstOf(Unsplit(e[1], Header(e))) = e
                 \/ /\ c.backedge_number = 0 /\ c.to # fn.entry
                    /\ Unsplit(c.from, c.to) = {}
                    /\ ~ Returning
<1>1. /\ GraphInv /\ Built /\ fn \in Programs /\ pc # "abstract"
      /\ chords = [k \in DOMAIN Off |-> EdgeAt(Off[k])]
  BY DEF WholeTree, GraphInv, Built, SplitInv
<1>2. PICK c : c = chords[pos]
  OBVIOUS
<1>3. PICK e : e = Off[pos]
  OBVIOUS
<1>4. pos \in DOMAIN Off /\ e \in ChordPlaces /\ c = EdgeAt(e)
  <2>1. pos \in DOMAIN Off /\ c = EdgeAt(e)
    BY <1>1, <1>2, <1>3
  <2> QED
    BY <1>1, <1>3, <2>1, OffIs
<1>5. CASE e = <<fn.exit, 1>> /\ EdgeAt(e) = Edge(fn.exit, fn.entry, 0)
  <2>1. c.backedge_number = 0 /\ c.to = fn.entry
    BY <1>4, <1>5 DEF Edge
  <2> QED
    BY <1>2, <1>4, <2>1
<1>6. CASE /\ e \in Edges(fn) /\ e = <<e[1], e[2]>>
           /\ e[1] \in Members \ {fn.exit} /\ e[2] \in DOMAIN fn.succ[e[1]]
  <2>1. PICK u \in Members : u = e[1]
    BY <1>6
  <2>2. PICK n \in DOMAIN fn.succ[u] : n = e[2]
    BY <1>6, <2>1
  <2>3. PICK v : v = Header(e)
    OBVIOUS
  <2>4. v = fn.succ[u][n] /\ c = G[u][n]
    BY <1>4, <2>1, <2>2, <2>3 DEF Header, EdgeAt
  <2>5. /\ n \in DOMAIN G[u] /\ u # fn.exit
        /\ v # fn.entry
        /\ ~ isBackedge(u, v) => c.to = v /\ c.backedge_number = 0
        /\ isBackedge(u, v) =>
             /\ c.backedge_number # 0
             /\ Backedge[c.backedge_number] = [tail |-> u, header |-> v]
    <3>1. /\ n \in DOMAIN G[u] /\ u # fn.exit
          /\ fn.succ[u][n] # fn.entry
          /\ ~ isBackedge(u, fn.succ[u][n]) => G[u][n].to = fn.succ[u][n] /\ G[u][n].backedge_number = 0
          /\ isBackedge(u, fn.succ[u][n]) =>
               /\ G[u][n].backedge_number # 0
               /\ Backedge[G[u][n].backedge_number] = [tail |-> u, header |-> fn.succ[u][n]]
      BY <1>1, FunctionEdge
    <3> QED
      BY <2>4, <3>1 DEF isBackedge
  <2>6. c.from = u
    BY <1>1, <2>4, <2>5, GraphEdges
  <2>7. e \in Unsplit(u, v) /\ FirstOf(Unsplit(u, v)) = e
    BY <1>3, <1>4, <1>6, <2>1, <2>3, NextSplit
  <2>8. CASE ~ isBackedge(u, v)
    BY <1>2, <1>3, <1>4, <1>6, <2>1, <2>3, <2>5, <2>6, <2>7, <2>8
  <2>9. CASE isBackedge(u, v)
    <3>1. c.backedge_number # 0 /\ Backedge[c.backedge_number].tail = u
          /\ Backedge[c.backedge_number].header = v
      BY <2>5, <2>9
    <3> QED
      BY <1>2, <1>3, <1>4, <1>6, <2>1, <2>3, <2>7, <2>9, <3>1
  <2> QED
    BY <2>8, <2>9
<1>7. CASE /\ e[1] \in Members \ {fn.exit} /\ fn.succ[e[1]] = << >>
           /\ EdgeAt(e).from = e[1]
           /\ EdgeAt(e).to = fn.exit /\ EdgeAt(e).backedge_number = 0
  <2>1. fn.exit # fn.entry
    BY <1>1, <1>7, EntryExits
  <2>2. Unsplit(c.from, c.to) = {}
    BY <1>4, <1>7 DEF Unsplit, PredEdges, Edges
  <2>3. ~ Returning
    BY <1>7 DEF Returning
  <2>4. c.backedge_number = 0 /\ c.to # fn.entry
    BY <1>4, <1>7, <2>1
  <2> QED
    BY <1>2, <1>4, <2>2, <2>3, <2>4
<1> QED
  BY <1>4, <1>5, <1>6, <1>7, ChordPlaceIs

LEMMA ChordPassed ==
    ASSUME WholeTree, CodeInv, SplitInv, Chord
    PROVE  SplitInv'
<1>1. PICK c : c = chords[pos]
  OBVIOUS
<1>2. PICK e : e = Off[pos]
  OBVIOUS
<1>3. /\ pc = "instrument" /\ pc' = pc /\ UNCHANGED <<graphVars, treeVars, chords, atExit>>
      /\ pos' = pos + 1 /\ pos \in DOMAIN chords
      /\ c.backedge_number = 0 /\ c.to # fn.entry
      /\ Unsplit(c.from, c.to) # {}
      /\ onEdge' = [onEdge EXCEPT ![FirstOf(Unsplit(c.from, c.to))] = <<insertInc(Inc(c.from, c.to))>>]
  BY <1>1 DEF Chord
<1>4. /\ pos \in DOMAIN Off /\ ~ isBackedge(e[1], Header(e))
      /\ e \in Edges(fn) /\ c.from = e[1] /\ c.to = Header(e)
      /\ FirstOf(Unsplit(c.from, c.to)) = e
  BY <1>1, <1>2, <1>3, ChordAt
<1>5. onEdge' = [onEdge EXCEPT ![e] = CodeOf(e)]
  BY <1>3, <1>4 DEF CodeOf
<1> QED
  BY <1>2, <1>3, <1>4, <1>5, EdgePassed

LEMMA BackChordPassed ==
    ASSUME WholeTree, CodeInv, SplitInv, BackChord
    PROVE  SplitInv'
<1>1. PICK c : c = chords[pos]
  OBVIOUS
<1>2. PICK e : e = Off[pos]
  OBVIOUS
<1>3. PICK b : b = Backedge[c.backedge_number]
  OBVIOUS
<1>4. /\ pc = "instrument" /\ pc' = pc /\ UNCHANGED <<graphVars, treeVars, chords, atExit>>
      /\ pos' = pos + 1 /\ pos \in DOMAIN chords
      /\ c.backedge_number # 0
      /\ onEdge' = [onEdge EXCEPT ![FirstOf(Unsplit(b.tail, b.header))] =
                       <<insertInc(Inc(fn.entry, b.header)), regInc, resetInc(Inc(b.tail, fn.exit))>>]
  BY <1>1, <1>3 DEF BackChord
<1>5. /\ pos \in DOMAIN Off /\ isBackedge(e[1], Header(e))
      /\ e \in Edges(fn) /\ b.tail = e[1] /\ b.header = Header(e)
      /\ FirstOf(Unsplit(e[1], Header(e))) = e
  BY <1>1, <1>2, <1>3, <1>4, ChordAt
<1>6. onEdge' = [onEdge EXCEPT ![e] = CodeOf(e)]
  BY <1>4, <1>5 DEF CodeOf
<1> QED
  BY <1>2, <1>4, <1>5, <1>6, EdgePassed

LEMMA SplitFailed ==
    ASSUME WholeTree, SplitInv, SplitFails
    PROVE  SplitInv'
<1>1. PICK c : c = chords[pos]
  OBVIOUS
<1>2. /\ pc = "instrument" /\ pc' = "failed" /\ pos \in DOMAIN chords
      /\ UNCHANGED <<graphVars, treeVars>>
      /\ IF c.backedge_number = 0
         THEN c.to # fn.entry /\ Unsplit(c.from, c.to) = {}
         ELSE Unsplit(Backedge[c.backedge_number].tail, Backedge[c.backedge_number].header) = {}
  BY <1>1 DEF SplitFails
<1>3. ~ Returning
  BY <1>1, <1>2, ChordAt
<1>4. ~ Returning'
  BY <1>2, <1>3, CodeKept
<1> QED
  BY <1>2, <1>4 DEF SplitInv

LEMMA AllSplit ==
    ASSUME WholeTree, SplitInv, Instrumented
    PROVE  SplitInv'
<1>1. /\ pc = "instrument" /\ pc' = "instrumented" /\ pos \notin DOMAIN chords
      /\ atExit' = Append(atExit, regInc) /\ pos' = pos
      /\ UNCHANGED <<graphVars, treeVars, chords, onEdge>>
  BY DEF Instrumented
<1>2. /\ \A d : CodeOf(d)' = CodeOf(d)
      /\ Off' = Off /\ Edges(fn)' = Edges(fn)
      /\ \A d : EdgeAt(d)' = EdgeAt(d)
  BY <1>1, CodeKept
<1>3. \A d : Passed(d)' <=> Passed(d)
  BY <1>1, <1>2 DEF Passed
<1>4. \A d \in Edges(fn)' : onEdge'[d] = IF Passed(d)' THEN CodeOf(d)' ELSE << >>
  BY <1>1, <1>2, <1>3 DEF SplitInv
<1>5. ExitCode' = ExitCode
  BY <1>1, <1>3 DEF ExitCode, graphVars, treeVars, insertInc, Inc
<1>6. atExit' = Append(ExitCode, regInc)'
  BY <1>1, <1>5 DEF SplitInv, regInc
<1>7. chords' = [k \in DOMAIN Off |-> EdgeAt(Off[k])]'
  BY <1>1, <1>2 DEF SplitInv, EdgeAt, graphVars
<1> QED
  BY <1>1, <1>4, <1>6, <1>7 DEF SplitInv

LEMMA ChordsOff ==
    ASSUME GraphInv, Built, SplitInv, Annotate
    PROVE  SplitInv'
<1>1. /\ pc = "tree" /\ pc' = "instrument" /\ pos' = 1
      /\ UNCHANGED <<graphVars, treeVars, onEdge, atExit>>
      /\ chords' = [k \in DOMAIN Off |-> G[Off[k][1]][Off[k][2]]]
  BY DEF Annotate, Off, ChordPlaces
<1>2. /\ \A d : CodeOf(d)' = CodeOf(d)
      /\ Off' = Off /\ Edges(fn)' = Edges(fn)
  BY <1>1, CodeKept
<1>3. \A d : ~ Passed(d)'
  <2>1. PICK N \in Nat : DOMAIN Off = 1..N
    BY OffIs
  <2>2. \A j \in DOMAIN Off : ~ (j < 1)
    BY <2>1
  <2> QED
    BY <1>1, <1>2, <2>2 DEF Passed
<1>4. \A d \in Edges(fn)' : onEdge'[d] = IF Passed(d)' THEN CodeOf(d)' ELSE << >>
  BY <1>1, <1>2, <1>3 DEF SplitInv
<1>5. atExit' = ExitCode'
  BY <1>1, <1>3 DEF SplitInv, ExitCode
<1>6. chords' = [k \in DOMAIN Off |-> EdgeAt(Off[k])]'
  BY <1>1, <1>2 DEF EdgeAt, graphVars
<1> QED
  BY <1>1, <1>4, <1>5, <1>6 DEF SplitInv

LEMMA SplitStep ==
    ASSUME GraphInv, OrderInv, ValuesInv, TreeTypes, TreeInv, ChordsInv, CodeInv,
           JoinedInv, OrderedInv, SplitInv, Step
    PROVE  SplitInv'
<1>1. CASE /\ pc \in {"abstract", "sort", "values", "tree"} /\ pc' \in {"abstract", "sort", "values", "tree"}
           /\ fn' = fn /\ onEdge' = onEdge /\ atExit' = atExit
  BY <1>1 DEF SplitInv, Edges
<1>2. CASE getAbstractGraph \/ getEdgeValues \/ StartTree
  BY <1>1, <1>2 DEF getAbstractGraph, getEdgeValues, StartTree, codeVars
<1>3. CASE DFS \/ FinishBlock \/ Sorted \/ GrowTree
  BY <1>1, <1>3 DEF DFS, FinishBlock, Sorted, GrowTree, codeVars, graphVars
<1>4. ASSUME pc = "instrument" PROVE WholeTree
  BY <1>4 DEF WholeTree, ChordsInv, Built, Numbering
<1>5. CASE ExitChord
  <2>1. WholeTree
    BY <1>4, <1>5 DEF ExitChord
  <2> QED
    BY <1>5, <2>1, ExitPassed
<1>6. CASE Chord
  <2>1. WholeTree
    BY <1>4, <1>6 DEF Chord
  <2> QED
    BY <1>6, <2>1, ChordPassed
<1>7. CASE BackChord
  <2>1. WholeTree
    BY <1>4, <1>7 DEF BackChord
  <2> QED
    BY <1>7, <2>1, BackChordPassed
<1>8. CASE SplitFails
  <2>1. WholeTree
    BY <1>4, <1>8 DEF SplitFails
  <2> QED
    BY <1>8, <2>1, SplitFailed
<1>9. CASE Instrumented
  <2>1. WholeTree
    BY <1>4, <1>9 DEF Instrumented
  <2> QED
    BY <1>9, <2>1, AllSplit
<1>10. CASE Annotate
  <2>1. Built
    BY <1>10 DEF Annotate, Built, Numbering
  <2> QED
    BY <1>10, <2>1, ChordsOff
<1>11. CASE /\ UNCHANGED <<graphVars, treeVars, codeVars, pos>>
            /\ pc' = pc \/ (pc = "instrumented" /\ pc' = "reported")
  <2>1. chords' = chords /\ onEdge' = onEdge /\ atExit' = atExit /\ pos' = pos /\ fn' = fn
    BY <1>11 DEF codeVars, graphVars
  <2>2. /\ \A d : CodeOf(d)' = CodeOf(d)
        /\ Off' = Off /\ Returning' = Returning /\ Edges(fn)' = Edges(fn)
        /\ \A d : EdgeAt(d)' = EdgeAt(d)
    BY <1>11, CodeKept
  <2>3. \A d : Passed(d)' <=> Passed(d)
    BY <2>1, <2>2 DEF Passed
  <2>4. ExitCode' = ExitCode
    BY <1>11, <2>3 DEF ExitCode, graphVars, treeVars, insertInc, Inc
  <2>5. [k \in DOMAIN Off |-> EdgeAt(Off[k])]' = [k \in DOMAIN Off |-> EdgeAt(Off[k])]
    BY <1>11, <2>2 DEF EdgeAt, graphVars
  <2>6. pc' \in {"instrument", "instrumented", "reported"} =>
           \A e \in Edges(fn)' : onEdge'[e] = IF Passed(e)' THEN CodeOf(e)' ELSE << >>
    BY <1>11, <2>1, <2>2, <2>3 DEF SplitInv
  <2>7. pc' \in {"instrument", "instrumented", "reported"} =>
           atExit' = IF pc' = "instrument" THEN ExitCode' ELSE Append(ExitCode', regInc)
    BY <1>11, <2>1, <2>4 DEF SplitInv
  <2>8. pc' \in {"abstract", "sort", "values", "tree"} =>
           onEdge' = [e \in Edges(fn)' |-> << >>] /\ atExit' = << >>
    BY <1>11, <2>1, <2>2 DEF SplitInv
  <2>9. pc' \in {"instrument", "instrumented", "reported"} =>
           chords' = [k \in DOMAIN Off |-> EdgeAt(Off[k])]'
    BY <1>11, <2>1, <2>5 DEF SplitInv
  <2>10. /\ pc' \in {"instrumented", "reported"} => pos' \notin DOMAIN chords'
         /\ Returning' => pc' # "failed"
    BY <1>11, <2>1, <2>2 DEF SplitInv
  <2> QED
    BY <2>6, <2>7, <2>8, <2>9, <2>10 DEF SplitInv, regInc
<1>12. CASE Report \/ UNCHANGED passVars
  BY <1>11, <1>12 DEF Report, passVars
<1> QED
  BY <1>2, <1>3, <1>5, <1>6, <1>7, <1>8, <1>9, <1>10, <1>12 DEF Step, PassNext

(***************************************************************************)
(* Where every block can return, the pass never fails: each chord is the   *)
(* edge from the exit or a place in the function whose edge no chord       *)
(* before it has split.  The dummy edges to headers, which would split     *)
(* back edges twice, are on the tree as they outweigh every edge between   *)
(* other blocks.                                                           *)
(***************************************************************************)
SplitAll == JoinedInv /\ OrderedInv /\ SplitInv

LEMMA SplitAlways == Spec => [](PassInv /\ RunInv /\ SplitAll)
<1>1. Init => SplitAll
  <2> SUFFICES ASSUME Init PROVE SplitAll
    OBVIOUS
  <2> QED
    BY DEF Init, PassInit, SplitAll, JoinedInv, OrderedInv, SplitInv, Built, Numbering
<1>2. PassInv /\ SplitAll /\ [Next]_vars => SplitAll'
  <2> SUFFICES ASSUME PassInv, SplitAll, [Next]_vars PROVE SplitAll'
    OBVIOUS
  <2>1. Step
    BY NextIsStep
  <2>2. JoinedInv' /\ OrderedInv'
    BY <2>1, JoinedStep DEF PassInv, SplitAll
  <2>3. SplitInv'
    BY <2>1, SplitStep DEF PassInv, SplitAll
  <2> QED
    BY <2>2, <2>3 DEF SplitAll
<1> QED
  BY <1>1, <1>2, RunAlways, PTL DEF Spec

(***************************************************************************)
(* Where every block can return, run finds each edge that it splits: a     *)
(* chord stands for an edge of the function of its own, as the dummy edges *)
(* to the headers outweigh all edges between other blocks and are on the   *)
(* tree, so that no back edge is split for both its halves, and edges      *)
(* between the same two blocks are chords together and split in order.     *)
(***************************************************************************)
THEOREM SplitsNeverFail == Spec => []SplitsSucceed
<1>1. SplitAll => SplitsSucceed
  BY DEF SplitAll, SplitInv, Returning, SplitsSucceed
<1> QED
  BY <1>1, SplitAlways, PTL

----------------------------------------------------------------------------
(* The blocks of a path tell the path, if the values are those of the tree. *)

\* A path with one more edge.
LEMMA NumberAppended ==
    ASSUME GraphInv, pc # "abstract", NEW p \in Seq(Passable), NEW e \in Passable
    PROVE  /\ Append(p, e) \in Seq(Passable)
           /\ Number(Append(p, e)) = Number(p) + EdgeAt(e).val
           /\ Number(p) \in Int /\ EdgeAt(e).val \in Int
<1>1. ASSUME NEW d \in Passable PROVE EdgeAt(d).val \in Int
  <2>1. d[1] \in Members \ {fn.exit} /\ d[2] \in DOMAIN G[d[1]]
    BY DEF Passable
  <2> QED
    BY <2>1, Onward DEF EdgeAt
<1>2. PICK L \in Nat : L = Len(p)
  OBVIOUS
<1>3. PICK r : r = Append(p, e)
  OBVIOUS
<1>4. /\ r \in Seq(Passable) /\ Len(r) = L + 1 /\ r[L + 1] = e
      /\ \A k \in 1..L : r[k] = p[k] /\ p[k] \in Passable
  BY <1>2, <1>3
<1>5. PICK rest : rest = [k \in DOMAIN p |-> EdgeAt(p[k]).val]
  OBVIOUS
<1>6. PICK vals : vals = [k \in DOMAIN r |-> EdgeAt(r[k]).val]
  OBVIOUS
<1>7. rest \in Seq(Int) /\ Len(rest) = L /\ \A k \in 1..L : rest[k] = EdgeAt(p[k]).val
  <2>1. rest = [k \in 1..L |-> EdgeAt(p[k]).val]
    BY <1>2, <1>5
  <2>2. \A k \in 1..L : rest[k] \in Int
    BY <1>1, <1>4, <2>1
  <2> QED
    BY <2>1, <2>2
<1>8. vals \in Seq(Int) /\ Len(vals) = L + 1 /\ \A k \in 1..(L + 1) : vals[k] = EdgeAt(r[k]).val
  <2>1. vals = [k \in 1..(L + 1) |-> EdgeAt(r[k]).val]
    BY <1>4, <1>6
  <2>2. \A k \in 1..(L + 1) : r[k] \in Passable
    BY <1>4
  <2>3. \A k \in 1..(L + 1) : vals[k] \in Int
    BY <1>1, <2>1, <2>2
  <2>4. PICK M \in Nat : M = L + 1
    OBVIOUS
  <2>5. vals = [k \in 1..M |-> vals[k]] /\ \A k \in 1..M : vals[k] \in Int
    BY <2>1, <2>3, <2>4
  <2> QED
    BY <2>1, <2>4, <2>5
<1>9. \A k \in 1..Len(rest) : vals[k] = rest[k]
  <2>1. \A k \in 1..L : k \in 1..(L + 1) /\ EdgeAt(r[k]).val = EdgeAt(p[k]).val
    BY <1>4
  <2> QED
    BY <1>7, <1>8, <2>1
<1>10. Total(vals) = Total(rest) + vals[L + 1] /\ Total(rest) \in Int
  <2>1. Len(vals) = Len(rest) + 1
    BY <1>7, <1>8
  <2>2. Total(vals) = Total(rest) + vals[Len(vals)] /\ Total(rest) \in Int
    BY <1>7, <1>8, <1>9, <2>1, TotalToLast
  <2> QED
    BY <1>8, <2>2
<1>11. vals[L + 1] = EdgeAt(e).val
  <2>1. L + 1 \in 1..(L + 1)
    OBVIOUS
  <2> QED
    BY <1>4, <1>8, <2>1
<1> QED
  BY <1>1, <1>3, <1>4, <1>5, <1>6, <1>10, <1>11 DEF Number

LEMMA NumberOfNone ==
    Number(<< >>) = 0
<1>1. PICK vals : vals = [k \in DOMAIN << >> |-> EdgeAt(<< >>[k]).val]
  OBVIOUS
<1>2. vals \in Seq(Int) /\ Len(vals) = 0
  <2>1. vals = << >>
    BY <1>1
  <2> QED
    BY <2>1
<1>3. Total(vals) = 0
  BY <1>2, SumsAre DEF Total
<1> QED
  BY <1>1, <1>3 DEF Number

LEMMA AlongAppended ==
    ASSUME NEW p \in Seq(Passable), NEW e \in Passable, NEW u
    PROVE  /\ Along(u, Append(p, e)) = Append(Along(u, p), EdgeAt(e).to)
           /\ Along(u, << >>) = <<u>>
<1>1. PICK L \in Nat : L = Len(p)
  OBVIOUS
<1>2. PICK r : r = Append(p, e)
  OBVIOUS
<1>3. Len(r) = L + 1 /\ r[L + 1] = e /\ \A k \in 1..L : r[k] = p[k]
  BY <1>1, <1>2
<1>4. PICK a : a = Along(u, p)
  OBVIOUS
<1>5. PICK b : b = Along(u, r)
  OBVIOUS
<1>6. a = [k \in 1..(L + 1) |-> IF k = 1 THEN u ELSE EdgeAt(p[k - 1]).to]
  BY <1>1, <1>4 DEF Along
<1>7. b = [k \in 1..(L + 2) |-> IF k = 1 THEN u ELSE EdgeAt(r[k - 1]).to]
  <2>1. Len(r) + 1 = L + 2
    BY <1>3
  <2> QED
    BY <1>5, <2>1 DEF Along
<1>8. PICK X : X = {a[k] : k \in 1..(L + 1)} \cup {EdgeAt(e).to}
  OBVIOUS
<1>9. a \in Seq(X) /\ Len(a) = L + 1
  <2>1. \A k \in 1..(L + 1) : a[k] \in X
    BY <1>8
  <2>2. a = [k \in 1..(L + 1) |-> a[k]]
    BY <1>6
  <2>3. PICK M \in Nat : M = L + 1
    OBVIOUS
  <2> QED
    BY <2>1, <2>2, <2>3
<1>10. PICK c : c = Append(a, EdgeAt(e).to)
  OBVIOUS
<1>11. /\ c = [k \in 1..(L + 2) |-> c[k]]
       /\ c[L + 2] = EdgeAt(e).to /\ \A k \in 1..(L + 1) : c[k] = a[k]
  <2>1. EdgeAt(e).to \in X
    BY <1>8
  <2>2. c \in Seq(X) /\ Len(c) = L + 2
    BY <1>9, <1>10, <2>1
  <2>3. c[L + 2] = EdgeAt(e).to /\ \A k \in 1..(L + 1) : c[k] = a[k]
    BY <1>9, <1>10, <2>1
  <2> QED
    BY <2>2, <2>3
<1>12. ASSUME NEW k \in 1..(L + 2) PROVE b[k] = c[k]
  <2>1. CASE k = L + 2
    <3>1. b[k] = EdgeAt(r[L + 1]).to
      BY <1>7, <2>1
    <3> QED
      BY <1>3, <1>11, <2>1, <3>1
  <2>2. CASE k # L + 2 /\ k # 1
    <3>1. k \in 1..(L + 1) /\ k - 1 \in 1..L
      BY <2>2
    <3>2. b[k] = EdgeAt(p[k - 1]).to
      BY <1>3, <1>7, <2>2, <3>1
    <3>3. c[k] = EdgeAt(p[k - 1]).to
      BY <1>6, <1>11, <2>2, <3>1
    <3> QED
      BY <3>2, <3>3
  <2>3. CASE k = 1
    <3>1. 1 \in 1..(L + 1)
      OBVIOUS
    <3> QED
      BY <1>6, <1>7, <1>11, <2>3, <3>1
  <2> QED
    BY <2>1, <2>2, <2>3
<1>13. b = c
  BY <1>7, <1>11, <1>12
<1>14. Along(u, << >>) = <<u>>
  BY DEF Along
<1> QED
  BY <1>2, <1>4, <1>5, <1>10, <1>13, <1>14

\* Where the values are those of the tree, no two edges lead from one block to another.
LEMMA NoParallel ==
    ASSUME GraphInv, ValuesInv, Built, TreeValued,
           NEW u \in Members \ {fn.exit}, Numbered(u),
           \A n \in DOMAIN G[u] : NumPaths[G[u][n].to] >= 1,
           NEW m \in DOMAIN G[u], NEW n \in DOMAIN G[u], G[u][m].to = G[u][n].to
    PROVE  m = n
<1>1. pc # "abstract" /\ Valued(u)
  BY DEF Built, Numbered
<1>2. PICK N \in Nat \ {0} : \E s \in [0..N -> Int] :
        /\ DOMAIN G[u] = 1..N /\ s[0] = 0 /\ s[N] = NumPaths[u]
        /\ \A k \in 1..N : /\ G[u][k].val = s[k - 1]
                           /\ s[k] = s[k - 1] + NumPaths[G[u][k].to]
                           /\ s[k - 1] < s[k]
        /\ \A j, k \in 0..N : j < k => s[j] < s[k]
        /\ \A x \in Nat : x < s[N] => \E k \in 1..N : s[k - 1] <= x /\ x < s[k]
  BY <1>1, ValuesStepUp
<1>3. PICK s \in [0..N -> Int] :
        /\ DOMAIN G[u] = 1..N
        /\ \A k \in 1..N : G[u][k].val = s[k - 1]
        /\ \A j, k \in 0..N : j < k => s[j] < s[k]
  BY <1>2
<1>4. \A k \in DOMAIN G[u] : G[u][k].from = u /\ G[u][k] \in ToSet(G[u])
  BY <1>1, GraphEdges DEF ToSet
<1>5. \A k \in DOMAIN G[u] : G[u][k].val = IF chordEdge(G[u][k]) THEN 0 ELSE Inc(u, G[u][k].to)
  BY <1>4 DEF TreeValued
<1>6. chordEdge(G[u][m]) <=> chordEdge(G[u][n])
  BY <1>4 DEF chordEdge
<1>7. G[u][m].val = G[u][n].val
  BY <1>5, <1>6
<1>8. m \in 1..N /\ n \in 1..N /\ s[m - 1] = s[n - 1]
  BY <1>3, <1>7
<1>9. m - 1 \in 0..N /\ n - 1 \in 0..N
  BY <1>8
<1>10. ~ (m - 1 < n - 1) /\ ~ (n - 1 < m - 1)
  <2>1. s[m - 1] \in Int
    BY <1>9
  <2>2. ~ (s[m - 1] < s[n - 1]) /\ ~ (s[n - 1] < s[m - 1])
    BY <1>8, <2>1
  <2> QED
    BY <1>3, <1>9, <2>2
<1> QED
  BY <1>8, <1>10

\* The blocks of a path from u tell the path.
Told(u) ==
    /\ \A p \in PathsFrom[u] : p \in Seq(Passable)
    /\ \A p, q \in PathsFrom[u] : Along(u, p) = Along(u, q) => p = q

LEMMA BlockTold ==
    ASSUME GraphInv, ValuesInv, Built, TreeValued,
           NEW u \in Members \ {fn.exit}, Numbered(u),
           \A n \in DOMAIN G[u] : Told(G[u][n].to) /\ NumPaths[G[u][n].to] >= 1
    PROVE  Told(u)
<1>1. pc # "abstract"
  BY DEF Built
<1>2. ASSUME NEW p \in PathsFrom[u]
      PROVE  \E n \in DOMAIN G[u] : \E q \in PathsFrom[G[u][n].to] : p = Through(u, n, q)
  <2>1. PICK Q \in {{Through(u, n, q) : q \in PathsFrom[G[u][n].to]} : n \in DOMAIN G[u]} : p \in Q
    BY <1>1, <1>2, PathsSolve
  <2> QED
    BY <2>1
<1>3. \A p \in PathsFrom[u] : p \in Seq(Passable)
  <2> SUFFICES ASSUME NEW p \in PathsFrom[u] PROVE p \in Seq(Passable)
    OBVIOUS
  <2>1. PICK n \in DOMAIN G[u] : \E q \in PathsFrom[G[u][n].to] : p = Through(u, n, q)
    BY <1>2
  <2>2. PICK q \in PathsFrom[G[u][n].to] : p = Through(u, n, q)
    BY <2>1
  <2>3. q \in Seq(Passable)
    BY DEF Told
  <2> QED
    BY <1>1, <2>2, <2>3, NumberOnward
<1>4. ASSUME NEW v, NEW q PROVE Along(v, q)[1] = v \/ Len(q) \notin Nat
  BY DEF Along
<1>5. ASSUME NEW p \in PathsFrom[u], NEW r \in PathsFrom[u], Along(u, p) = Along(u, r) PROVE p = r
  <2>1. PICK n \in DOMAIN G[u] : \E q \in PathsFrom[G[u][n].to] : p = Through(u, n, q)
    BY <1>2
  <2>2. PICK q \in PathsFrom[G[u][n].to] : p = Through(u, n, q)
    BY <2>1
  <2>3. PICK m \in DOMAIN G[u] : \E t \in PathsFrom[G[u][m].to] : r = Through(u, m, t)
    BY <1>2
  <2>4. PICK t \in PathsFrom[G[u][m].to] : r = Through(u, m, t)
    BY <2>3
  <2>5. q \in Seq(Passable) /\ t \in Seq(Passable)
    BY DEF Told
  <2>6. PICK a : a = Along(G[u][n].to, q)
    OBVIOUS
  <2>7. PICK b : b = Along(G[u][m].to, t)
    OBVIOUS
  <2>8. <<u>> \o a = <<u>> \o b
    <3>1. Along(u, Through(u, n, q)) = <<u>> \o a
      BY <1>1, <2>5, <2>6, AlongOnward
    <3>2. Along(u, Through(u, m, t)) = <<u>> \o b
      BY <1>1, <2>5, <2>7, AlongOnward
    <3> QED
      BY <1>5, <2>2, <2>4, <3>1, <3>2
  <2>9. /\ a = [k \in 1..(Len(q) + 1) |-> a[k]] /\ Len(q) \in Nat
        /\ b = [k \in 1..(Len(t) + 1) |-> b[k]] /\ Len(t) \in Nat
    BY <2>5, <2>6, <2>7 DEF Along
  <2>10. a = b
    <3>1. PICK X : X = {a[k] : k \in 1..(Len(q) + 1)} \cup {b[k] : k \in 1..(Len(t) + 1)} \cup {u}
      OBVIOUS
    <3>2. a \in Seq(X)
      <4>1. PICK M \in Nat : M = Len(q) + 1
        BY <2>9
      <4>2. a = [k \in 1..M |-> a[k]] /\ \A k \in 1..M : a[k] \in X
        BY <2>9, <3>1, <4>1
      <4> QED
        BY <4>2
    <3>3. b \in Seq(X)
      <4>1. PICK M \in Nat : M = Len(t) + 1
        BY <2>9
      <4>2. b = [k \in 1..M |-> b[k]] /\ \A k \in 1..M : b[k] \in X
        BY <2>9, <3>1, <4>1
      <4> QED
        BY <4>2
    <3>4. PICK c : c = <<u>> \o a /\ c = <<u>> \o b
      BY <2>8
    <3>5. u \in X
      BY <3>1
    <3>6. /\ Len(c) = 1 + Len(a) /\ Len(a) \in Nat /\ DOMAIN a = 1..Len(a)
          /\ \A k \in 1..Len(a) : c[k + 1] = a[k]
      BY <3>2, <3>4, <3>5
    <3>7. /\ Len(c) = 1 + Len(b) /\ Len(b) \in Nat /\ DOMAIN b = 1..Len(b)
          /\ \A k \in 1..Len(b) : c[k + 1] = b[k]
      BY <3>3, <3>4, <3>5
    <3>8. Len(a) = Len(b)
      <4>1. 1 + Len(a) = 1 + Len(b) /\ Len(a) \in Nat /\ Len(b) \in Nat
        BY <3>6, <3>7
      <4> QED
        BY <4>1
    <3>9. \A k \in DOMAIN a : a[k] = b[k]
      BY <3>6, <3>7, <3>8
    <3> QED
      BY <2>9, <3>6, <3>7, <3>8, <3>9
  <2>11. G[u][n].to = G[u][m].to
    <3>1. a[1] = G[u][n].to /\ b[1] = G[u][m].to
      BY <1>4, <2>6, <2>7, <2>9
    <3> QED
      BY <2>10, <3>1
  <2>12. n = m
    BY <2>11, NoParallel
  <2>13. q = t
    BY <2>6, <2>7, <2>10, <2>12 DEF Told
  <2> QED
    BY <2>2, <2>4, <2>12, <2>13
<1> QED
  BY <1>3, <1>5 DEF Told

LEMMA EntryTold ==
    ASSUME GraphInv, OrderInv, ValuesInv, Built, TreeValued
    PROVE  Told(fn.entry)
<1>1. pc # "abstract" /\ fn.exit \in Members
  BY MembersAre DEF GraphInv, Built
<1> DEFINE S == {u \in Members : Told(u)}
<1>2. fn.exit \in S
  <2>1. PathsFrom[fn.exit] = {<< >>}
    BY <1>1, PathsSolve
  <2>2. << >> \in Seq(Passable)
    OBVIOUS
  <2> HIDE DEF Passable
  <2>3. Told(fn.exit)
    BY <2>1, <2>2, Zenon DEF Told
  <2> QED
    BY <1>1, <2>3
<1>3. ASSUME NEW u \in Members \ {fn.exit}, Numbered(u),
             \A n \in DOMAIN G[u] : G[u][n].to \in S /\ Numbered(G[u][n].to)
      PROVE  u \in S
  <2>1. \A n \in DOMAIN G[u] : Told(G[u][n].to) /\ NumPaths[G[u][n].to] >= 1
    BY <1>3 DEF Numbered
  <2> QED
    BY <1>3, <2>1, BlockTold
<1>4. fn.entry \in S
  <2> HIDE DEF S
  <2> QED
    BY <1>2, <1>3, Backwards
<1> QED
  BY <1>4

----------------------------------------------------------------------------
(* What the inserted code does.                                            *)

Registered == [r |-> counter, counts |-> pathCounter]

LEMMA ExecutedDoes ==
    ASSUME NEW x \in Int, NEW st \in Registers
    PROVE  /\ Executed(insertInc(x), st) = [r |-> st.r + x, counts |-> st.counts]
           /\ Executed(regInc, st) = [r |-> st.r, counts |-> st.counts (+) SetToBag({st.r})]
<1>1. PICK a, B : st = [r |-> a, counts |-> B] /\ a = st.r /\ B = st.counts
  BY DEF Registers
<1>2. insertInc(x).do = "add" /\ insertInc(x).arg = x /\ regInc.do = "count"
  BY DEF insertInc, regInc
<1>3. Executed(insertInc(x), st) = [st EXCEPT !.r = @ + x]
  BY <1>2 DEF Executed
<1>4. Executed(regInc, st) = [st EXCEPT !.counts = @ (+) SetToBag({st.r})]
  BY <1>2 DEF Executed
<1>5. [st EXCEPT !.r = @ + x] = [r |-> st.r + x, counts |-> st.counts]
  BY <1>1
<1>6. [st EXCEPT !.counts = @ (+) SetToBag({st.r})]
      = [r |-> st.r, counts |-> st.counts (+) SetToBag({st.r})]
  BY <1>1
<1> QED
  BY <1>3, <1>4, <1>5, <1>6

LEMMA CodeDoes ==
    ASSUME counter \in Int, pathCounter \in NumberBags, NEW x \in Int,
           insertInc(x) \in Instructions, regInc \in Instructions
    PROVE  /\ Execute(<< >>) = Registered
           /\ Execute(<<insertInc(x)>>) = [r |-> counter + x, counts |-> pathCounter]
           /\ Execute(<<regInc>>)
                 = [r |-> counter, counts |-> pathCounter (+) SetToBag({counter})]
           /\ Execute(<<insertInc(x), regInc>>)
                 = [r |-> counter + x, counts |-> pathCounter (+) SetToBag({counter + x})]
<1>1. PICK i \in Instructions, j \in Instructions : i = insertInc(x) /\ j = regInc
  OBVIOUS
<1>2. /\ Registered \in Registers /\ Registered.r = counter /\ Registered.counts = pathCounter
  BY DEF Registered, Registers
<1>3. PICK st \in Registers : st = Executed(i, Registered)
  BY <1>2, ExecutedIs
<1>4. st = [r |-> counter + x, counts |-> pathCounter]
  BY <1>1, <1>2, <1>3, ExecutedDoes
<1>5. Executed(j, Registered) = [r |-> counter, counts |-> pathCounter (+) SetToBag({counter})]
  BY <1>1, <1>2, ExecutedDoes
<1>6. Executed(j, st) = [r |-> counter + x, counts |-> pathCounter (+) SetToBag({counter + x})]
  <2>1. Executed(j, st) = [r |-> st.r, counts |-> st.counts (+) SetToBag({st.r})]
    BY <1>1, ExecutedDoes
  <2> QED
    BY <1>4, <2>1
<1>7. Execute(<< >>) = Registered
  <2>1. << >> \in Seq(Instructions) /\ Len(<< >>) = 0
    OBVIOUS
  <2>2. PICK after : after[0] = Registered /\ Execute(<< >>) = after[Len(<< >>)]
    BY <2>1, ExecuteSolves DEF Registered
  <2> QED
    BY <2>1, <2>2
<1>8. ASSUME NEW k \in Instructions PROVE Execute(<<k>>) = Executed(k, Registered)
  <2>1. PICK code : code = <<k>>
    OBVIOUS
  <2>2. code \in Seq(Instructions) /\ Len(code) = 1 /\ code[1] = k
    BY <2>1
  <2>3. PICK after : /\ after[0] = Registered /\ Execute(code) = after[Len(code)]
                     /\ \A n \in 1..Len(code) : after[n] = Executed(code[n], after[n - 1])
    BY <2>2, ExecuteSolves DEF Registered
  <2>4. after[1] = Executed(code[1], after[1 - 1])
    BY <2>2, <2>3
  <2> QED
    BY <2>1, <2>2, <2>3, <2>4
<1>9. Execute(<<i, j>>) = Executed(j, st)
  <2>1. PICK code : code = <<i, j>>
    OBVIOUS
  <2>2. code \in Seq(Instructions) /\ Len(code) = 2 /\ code[1] = i /\ code[2] = j
    BY <2>1
  <2>3. PICK after : /\ after[0] = Registered /\ Execute(code) = after[Len(code)]
                     /\ \A n \in 1..Len(code) : after[n] = Executed(code[n], after[n - 1])
    BY <2>2, ExecuteSolves DEF Registered
  <2>4. after[1] = Executed(code[1], after[1 - 1]) /\ after[2] = Executed(code[2], after[2 - 1])
    BY <2>2, <2>3
  <2>5. after[1] = st /\ after[2] = Executed(j, after[1])
    BY <1>3, <2>2, <2>3, <2>4
  <2> QED
    BY <2>1, <2>2, <2>3, <2>5
<1> QED
  BY <1>1, <1>3, <1>4, <1>5, <1>6, <1>7, <1>8, <1>9

----------------------------------------------------------------------------
(* The code on an edge and at the exit of a function without loops.        *)

\* In the end there is code for exactly the edges off the tree.
LEMMA PassedIs ==
    ASSUME WholeTree, SplitInv, pc \in {"instrumented", "reported"}, NEW e
    PROVE  Passed(e) <=> e \in ChordPlaces
<1>1. PICK N \in Nat : /\ Off \in [1..N -> ChordPlaces]
                       /\ \A d \in ChordPlaces : \E k \in 1..N : Off[k] = d
  BY OffIs DEF WholeTree
<1>2. pos \in Nat \ {0} /\ pos \notin DOMAIN chords /\ DOMAIN chords = DOMAIN Off
  BY DEF WholeTree, ValuesInv, SplitInv
<1>3. N < pos
  BY <1>1, <1>2
<1>4. \A k \in DOMAIN Off : k < pos
  BY <1>1, <1>2, <1>3
<1> QED
  BY <1>1, <1>4 DEF Passed

LEMMA CodeOn ==
    ASSUME WholeTree, SplitInv, pc = "instrumented", fn.back = {},
           NEW u \in Members, NEW n \in DOMAIN fn.succ[u]
    PROVE  /\ <<u, n>> \in Passable /\ ~ isBackedge(u, fn.succ[u][n])
           /\ EdgeAt(<<u, n>>) = G[u][n] /\ G[u][n].from = u /\ G[u][n].to = fn.succ[u][n]
           /\ G[u][n].to \in Members /\ G[u][n] \in ToSet(G[u])
           /\ onEdge[<<u, n>>] = IF chordEdge(G[u][n]) THEN <<insertInc(Inc(u, G[u][n].to))>>
                                 ELSE << >>
<1>1. GraphInv /\ pc # "abstract" /\ Built
  BY DEF WholeTree, Built
<1>2. ~ isBackedge(u, fn.succ[u][n])
  BY DEF isBackedge
<1>3. /\ u # fn.exit /\ n \in Nat /\ n \in DOMAIN G[u] /\ fn.succ[u][n] \in Members
      /\ G[u][n].to = fn.succ[u][n]
  <2>1. u # fn.exit /\ n \in Nat /\ n \in DOMAIN G[u]
    BY <1>1, FunctionEdge
  <2>2. fn.succ[u][n] \in Members \ {fn.entry}
    BY <1>1, FunctionEdge
  <2>3. ~ isBackedge(u, fn.succ[u][n]) =>
           G[u][n].to = fn.succ[u][n] /\ G[u][n].backedge_number = 0
    BY <1>1, FunctionEdge, Zenon
  <2> QED
    BY <1>2, <2>1, <2>2, <2>3
<1>4. G[u][n].from = u
  BY <1>1, <1>3, GraphEdges
<1>5. <<u, n>> \in Edges(fn)
  <2>1. u \in Blocks
    BY <1>1, MembersAre DEF GraphInv
  <2> QED
    BY <2>1 DEF Edges
<1>6. <<u, n>> \in ChordPlaces <=> chordEdge(G[u][n])
  <2>1. <<u, n>> \in Places(G)
    BY <1>3 DEF Places
  <2> QED
    BY <2>1 DEF ChordPlaces
<1>7. onEdge[<<u, n>>] = IF chordEdge(G[u][n]) THEN CodeOf(<<u, n>>) ELSE << >>
  BY <1>5, <1>6, PassedIs DEF SplitInv
<1>8. CodeOf(<<u, n>>) = <<insertInc(Inc(u, G[u][n].to))>>
  BY <1>2, <1>3 DEF CodeOf, Header
<1> QED
  BY <1>2, <1>3, <1>4, <1>7, <1>8 DEF Passable, EdgeAt, ToSet

LEMMA CodeAtExit ==
    ASSUME WholeTree, SplitInv, pc = "instrumented", TreeValued
    PROVE  \/ atExit = <<insertInc(Inc(fn.exit, fn.entry)), regInc>>
           \/ atExit = <<regInc>> /\ Inc(fn.exit, fn.entry) = 0
<1>1. Built /\ GraphInv /\ fn.exit \in Members
  BY MembersAre DEF WholeTree, GraphInv
<1>2. atExit = Append(ExitCode, regInc)
  BY DEF SplitInv
<1>3. PICK e : e = Edge(fn.exit, fn.entry, 0) /\ G[fn.exit] = <<e>>
  BY <1>1 DEF GraphInv, Built
<1>4. e \in ToSet(G[fn.exit]) /\ e.val = 0 /\ e.from = fn.exit /\ e.to = fn.entry
      /\ G[fn.exit][1] = e /\ 1 \in DOMAIN G[fn.exit]
  BY <1>3 DEF ToSet, Edge
<1>5. <<fn.exit, 1>> \in ChordPlaces <=> chordEdge(e)
  <2>1. <<fn.exit, 1>> \in Places(G)
    BY <1>1, <1>4 DEF Places
  <2> QED
    BY <1>4, <2>1 DEF ChordPlaces
<1>6. CASE chordEdge(e)
  <2>1. ExitCode = <<insertInc(Inc(fn.exit, fn.entry))>>
    BY <1>5, <1>6, PassedIs DEF ExitCode
  <2>2. ASSUME NEW i, NEW j PROVE Append(<<i>>, j) = <<i, j>>
    <3>1. PICK X : X = {i, j}
      OBVIOUS
    <3>2. PICK a, c, d : a = <<i>> /\ c = Append(a, j) /\ d = <<i, j>>
      OBVIOUS
    <3>3. a \in Seq(X) /\ Len(a) = 1 /\ a[1] = i /\ j \in X
      BY <3>1, <3>2
    <3>4. c \in Seq(X) /\ Len(c) = 2 /\ c[1] = i /\ c[2] = j
      BY <3>2, <3>3
    <3>5. d \in Seq(X) /\ Len(d) = 2 /\ d[1] = i /\ d[2] = j
      BY <3>1, <3>2
    <3>6. \A k \in 1..2 : c[k] = d[k]
      BY <3>4, <3>5
    <3>7. c = [k \in 1..2 |-> c[k]] /\ d = [k \in 1..2 |-> d[k]]
      BY <3>4, <3>5
    <3>8. c = d
      BY <3>6, <3>7
    <3> QED
      BY <3>2, <3>8
  <2> QED
    BY <1>2, <2>1, <2>2
<1>7. CASE ~ chordEdge(e)
  <2>1. ExitCode = << >>
    BY <1>5, <1>7, PassedIs DEF ExitCode
  <2>2. Inc(fn.exit, fn.entry) = 0
    BY <1>1, <1>4, <1>7 DEF TreeValued
  <2> QED
    BY <1>2, <2>1, <2>2
<1> QED
  BY <1>6, <1>7

----------------------------------------------------------------------------
(* Bags to which one element is added.                                     *)

FiniteBag(B) == B \in [DOMAIN B -> Nat \ {0}] /\ IsFiniteSet(DOMAIN B)

One(y) == [e \in {y} |-> 1]

LEMMA TimesAre ==
    ASSUME NEW B, FiniteBag(B), NEW x
    PROVE  /\ Times(x, B) \in Nat
           /\ x \in DOMAIN B <=> Times(x, B) # 0
           /\ x \in DOMAIN B => Times(x, B) = B[x]
<1>1. CASE x \in DOMAIN B
  BY <1>1 DEF Times, FiniteBag
<1>2. CASE x \notin DOMAIN B
  BY <1>2 DEF Times
<1> QED
  BY <1>1, <1>2

LEMMA OneAdded ==
    ASSUME NEW B, FiniteBag(B), NEW y
    PROVE  LET C == B (+) One(y) IN
           /\ FiniteBag(C) /\ DOMAIN C = DOMAIN B \cup {y}
           /\ \A x : Times(x, C) = Times(x, B) + (IF x = y THEN 1 ELSE 0)
           /\ TotalCount(C) = TotalCount(B) + 1 /\ TotalCount(B) \in Int
<1>1. PICK D : D = DOMAIN B
  OBVIOUS
<1>2. IsFiniteSet(D) /\ \A x \in D : B[x] \in Nat \ {0}
  BY <1>1 DEF FiniteBag
<1>3. PICK C : C = B (+) One(y)
  OBVIOUS
<1>4. C = [e \in D \cup {y} |-> (IF e \in D THEN B[e] ELSE 0) + (IF e \in {y} THEN 1 ELSE 0)]
  <2>1. DOMAIN One(y) = {y} /\ One(y)[y] = 1
    BY DEF One
  <2>2. \A e \in D \cup {y} : (IF e \in {y} THEN One(y)[e] ELSE 0) = (IF e \in {y} THEN 1 ELSE 0)
    BY <2>1
  <2>3. C = [e \in D \cup {y} |->
               (IF e \in D THEN B[e] ELSE 0) + (IF e \in {y} THEN One(y)[e] ELSE 0)]
    BY <1>1, <1>3, <2>1 DEF (+)
  <2> QED
    BY <2>2, <2>3
<1>5. /\ DOMAIN C = D \cup {y}
      /\ \A e \in D \ {y} : C[e] = B[e]
      /\ y \in D => C[y] = B[y] + 1
      /\ y \notin D => C[y] = 1
  <2>1. \A e \in D \ {y} : C[e] = B[e] + 0
    BY <1>4
  <2>2. y \in D => C[y] = B[y] + 1
    BY <1>4
  <2>3. y \notin D => C[y] = 0 + 1
    BY <1>4
  <2> QED
    BY <1>2, <1>4, <2>1, <2>2, <2>3
<1>6. \A e \in D \cup {y} : C[e] \in Nat \ {0}
  BY <1>2, <1>5
<1>7. FiniteBag(C)
  <2>1. IsFiniteSet(D \cup {y})
    BY <1>2, FS_Singleton, FS_Union
  <2>2. C = [e \in D \cup {y} |-> C[e]]
    BY <1>4
  <2>3. C \in [D \cup {y} -> Nat \ {0}]
    BY <1>6, <2>2
  <2> QED
    BY <1>5, <2>1, <2>3 DEF FiniteBag
<1>8. ASSUME NEW x PROVE Times(x, C) = Times(x, B) + (IF x = y THEN 1 ELSE 0)
  <2>1. CASE x = y /\ y \in D
    BY <1>1, <1>5, <2>1 DEF Times
  <2>2. CASE x = y /\ y \notin D
    BY <1>1, <1>5, <2>2 DEF Times
  <2>3. CASE x # y
    <3>1. Times(x, C) = Times(x, B)
      BY <1>1, <1>5, <2>3 DEF Times
    <3>2. Times(x, B) \in Nat
      BY TimesAre
    <3> QED
      BY <2>3, <3>1, <3>2
  <2> QED
    BY <2>1, <2>2, <2>3
<1>9. /\ TotalCount(B) = SumOver(B, D) /\ TotalCount(C) = SumOver(C, D \cup {y})
      /\ SumOver(B, D) \in Int
  <2>1. SumOver(B, D) \in Int
    <3>1. CASE D = {}
      BY <3>1, SumOfNone
    <3>2. CASE D # {}
      <4>1. PICK x \in D : TRUE
        BY <3>2
      <4>2. \A z \in D : B[z] \in Int
        BY <1>2
      <4> QED
        BY <1>2, <4>1, <4>2, SumWithout
    <3> QED
      BY <3>1, <3>2
  <2> QED
    BY <1>1, <1>5, <2>1 DEF TotalCount, BagToSet
<1>10. SumOver(C, D \cup {y}) = SumOver(B, D) + 1
  <2>1. PICK rest : rest = D \ {y}
    OBVIOUS
  <2>2. IsFiniteSet(D \cup {y}) /\ IsFiniteSet(rest)
    BY <1>2, <2>1, FS_Singleton, FS_Union, FS_Subset
  <2>3. (D \cup {y}) \ {y} = rest
    BY <2>1
  <2>4. SumOver(C, D \cup {y}) = C[y] + SumOver(C, rest)
    <3>1. \A x \in D \cup {y} : C[x] \in Int
      BY <1>6
    <3>2. y \in D \cup {y}
      OBVIOUS
    <3>3. SumOver(C, D \cup {y}) = C[y] + SumOver(C, (D \cup {y}) \ {y})
      BY <2>2, <3>1, <3>2, SumWithout
    <3> QED
      BY <2>3, <3>3
  <2>5. SumOver(C, rest) = SumOver(B, rest)
    <3>1. \A x \in rest : C[x] \in Int /\ C[x] = B[x]
      BY <1>5, <1>6, <2>1
    <3> QED
      BY <2>2, <3>1, SumSame
  <2>6. CASE y \in D
    <3>1. \A x \in D : B[x] \in Int
      BY <1>2
    <3>2. SumOver(B, D) = B[y] + SumOver(B, D \ {y}) /\ SumOver(B, D \ {y}) \in Int
      BY <1>2, <2>6, <3>1, SumWithout
    <3>3. C[y] = B[y] + 1 /\ B[y] \in Int
      BY <1>2, <1>5, <2>6
    <3> QED
      BY <2>1, <2>4, <2>5, <3>2, <3>3
  <2>7. CASE y \notin D
    <3>1. rest = D
      BY <2>1, <2>7
    <3>2. C[y] = 1
      BY <1>5, <2>7
    <3> QED
      BY <1>9, <2>4, <2>5, <3>1, <3>2
  <2> QED
    BY <2>6, <2>7
<1> QED
  BY <1>1, <1>3, <1>5, <1>7, <1>8, <1>9, <1>10

LEMMA OnlyOne ==
    ASSUME NEW y
    PROVE  EmptyBag (+) SetToBag({y}) = One(y)
<1>1. DOMAIN EmptyBag = {} /\ SetToBag({y}) = One(y) /\ DOMAIN One(y) = {y} /\ One(y)[y] = 1
  BY DEF EmptyBag, SetToBag, One
<1>2. PICK S : S = EmptyBag (+) One(y)
  OBVIOUS
<1>3. S = [e \in {} \cup {y} |->
              (IF e \in {} THEN EmptyBag[e] ELSE 0) + (IF e \in {y} THEN One(y)[e] ELSE 0)]
  BY <1>1, <1>2 DEF (+)
<1>4. DOMAIN S = {y} /\ S[y] = 0 + 1
  BY <1>1, <1>3
<1>5. S = [e \in {y} |-> 1]
  BY <1>3, <1>4
<1> QED
  BY <1>1, <1>2, <1>5 DEF One

LEMMA EmptyBagIs ==
    /\ FiniteBag(EmptyBag) /\ DOMAIN EmptyBag = {}
    /\ \A x : Times(x, EmptyBag) = 0
<1>1. EmptyBag = [e \in {} |-> 1]
  BY DEF EmptyBag, SetToBag
<1> QED
  BY <1>1, FS_EmptySet DEF FiniteBag, Times

\* The dump of a negated number has the number.
LEMMA DumpedOne ==
    ASSUME NEW N \in Nat
    PROVE  Dumped(One(-N)) = One(N)
<1>1. PICK B : B = One(-N)
  OBVIOUS
<1>2. DOMAIN B = {-N} /\ B[-N] = 1
  BY <1>1 DEF One
<1>3. {Abs(n) : n \in DOMAIN B} = {N}
  <2>1. Abs(-N) = N
    BY DEF Abs
  <2> QED
    BY <1>2, <2>1
<1>4. Times(N, B) + (IF N = 0 THEN 0 ELSE Times(-N, B)) = 1
  <2>1. CASE N = 0
    <3>1. -N = N
      <4>1. \A n \in Int : n <= 0 /\ 0 <= n => -n = n
        OBVIOUS
      <4>2. N \in Int /\ N <= 0 /\ 0 <= N
        BY <2>1
      <4> QED
        BY <4>1, <4>2
    <3>2. Times(N, B) = 1
      BY <1>2, <3>1 DEF Times
    <3> QED
      BY <2>1, <3>2
  <2>2. CASE N # 0
    BY <1>2, <2>2 DEF Times
  <2> QED
    BY <2>1, <2>2
<1>5. Dumped(B) = [m \in {N} |-> Times(m, B) + (IF m = 0 THEN 0 ELSE Times(-m, B))]
  BY <1>3 DEF Dumped
<1>6. Dumped(B) = [m \in {N} |-> 1]
  BY <1>4, <1>5
<1> QED
  BY <1>1, <1>6 DEF One

----------------------------------------------------------------------------
(* The counts and the executions.                                          *)

Done == pc \in {"instrumented", "reported"}

\* The program has come along the edges of p, and its counter with it.
OnPath(p) ==
    /\ segment = Along(fn.entry, p)
    /\ counter = Inc(fn.entry, at) - Number(p)
    /\ \A q \in PathsFrom[at] : q \in Seq(Passable) => p \o q \in AbstractPaths

\* A run in progress has counted nothing yet.
Running ==
    at # NoBlock => /\ pathCounter = EmptyBag /\ segments = EmptyBag
                    /\ \E p \in Seq(Passable) : OnPath(p)

\* The paths counted are those executed, as often, and nothing else is counted.
Matched ==
    /\ FiniteBag(executed)
    /\ DOMAIN pathData \subseteq {Number(p) : p \in AbstractPaths}
    /\ DOMAIN executed \subseteq {BlocksAlong(p) : p \in AbstractPaths}
    /\ \A p \in AbstractPaths : Times(Number(p), pathData) = Times(BlocksAlong(p), executed)
    /\ TotalCount(executed) = TotalCount(pathData)

CountInv ==
    /\ ~ Done => at = NoBlock /\ pathData = EmptyBag /\ executed = EmptyBag
    /\ pc = "reported" => at = NoBlock
    /\ Done /\ Faithful => Matched /\ Running
    /\ HotPathsComplete

\* PathsFrom of a graph that is given.
PathsOf(g, blocks, exit) ==
    LET from[u \in blocks] ==
            IF u = exit THEN {<< >>}
            ELSE UNION {{<<<<u, n>>>> \o q : q \in from[g[u][n].to]} : n \in DOMAIN g[u]}
    IN from

\* Nothing of the graph changes while the program runs.
LEMMA PathsKept ==
    ASSUME UNCHANGED <<graphVars, treeVars>>
    PROVE  /\ PathsFrom' = PathsFrom /\ AbstractPaths' = AbstractPaths
           /\ Passable' = Passable
           /\ \A e : EdgeAt(e)' = EdgeAt(e)
           /\ \A p : Number(p)' = Number(p)
           /\ \A u, p : Along(u, p)' = Along(u, p)
           /\ \A p : BlocksAlong(p)' = BlocksAlong(p)
           /\ \A u, v : Inc(u, v)' = Inc(u, v)
           /\ Faithful' = Faithful
<1>1. fn' = fn /\ G' = G /\ parent' = parent /\ potential' = potential
  BY DEF graphVars, treeVars
<1>2. Members' = Members
  BY <1>1, FnKept
<1>3. PathsFrom' = PathsFrom
  <2>1. PathsFrom = PathsOf(G, Members, fn.exit)
    BY DEF PathsFrom, PathsOf
  <2>2. PathsFrom' = PathsOf(G', Members', fn'.exit)
    BY DEF PathsFrom, PathsOf
  <2> QED
    BY <1>1, <1>2, <2>1, <2>2
<1>4. AbstractPaths' = AbstractPaths
  BY <1>1, <1>3 DEF AbstractPaths
<1>5. Passable' = Passable
  BY <1>1, <1>2 DEF Passable
<1>6. \A e : EdgeAt(e)' = EdgeAt(e)
  BY <1>1 DEF EdgeAt
<1>7. ASSUME NEW p PROVE Number(p)' = Number(p)
  <2>1. [k \in DOMAIN p |-> EdgeAt(p[k]).val]' = [k \in DOMAIN p |-> EdgeAt(p[k]).val]
    BY <1>6
  <2> QED
    BY <2>1 DEF Number
<1>8. \A u, p : Along(u, p)' = Along(u, p)
  BY <1>1 DEF Along, EdgeAt
<1>9. \A p : BlocksAlong(p)' = BlocksAlong(p)
  BY <1>1 DEF BlocksAlong, EdgeAt
<1>10. \A u, v : Inc(u, v)' = Inc(u, v)
  BY <1>1 DEF Inc
<1>11. Faithful' = Faithful
  <2>1. \A e : chordEdge(e)' <=> chordEdge(e)
    BY <1>1 DEF chordEdge
  <2>2. TreeValued' <=> TreeValued
    BY <1>1, <1>2, <1>10, <2>1 DEF TreeValued
  <2> QED
    BY <1>1, <2>2 DEF Faithful
<1> QED
  BY <1>3, <1>4, <1>5, <1>6, <1>7, <1>8, <1>9, <1>10, <1>11

LEMMA MatchedKept ==
    ASSUME UNCHANGED <<graphVars, treeVars, pathData, executed>>, Matched
    PROVE  Matched'
<1>1. /\ AbstractPaths' = AbstractPaths
      /\ \A p : Number(p)' = Number(p) /\ BlocksAlong(p)' = BlocksAlong(p)
  BY PathsKept
<1>2. pathData' = pathData /\ executed' = executed
  OBVIOUS
<1> QED
  BY <1>1, <1>2 DEF Matched, FiniteBag, Times, TotalCount, BagToSet

\* The number of a path, its blocks and the path itself are one-to-one.
LEMMA FaithfulPaths ==
    ASSUME WholeTree, Faithful
    PROVE  /\ \A p \in AbstractPaths :
                 /\ p \in Seq(Passable) /\ Number(p) \in Nat
                 /\ BlocksAlong(p) = Along(fn.entry, p)
                 /\ numToPath(Number(p)) = BlocksAlong(p)
           /\ \A p, q \in AbstractPaths : Number(p) = Number(q) => p = q
           /\ \A p, q \in AbstractPaths : BlocksAlong(p) = BlocksAlong(q) => p = q
<1>1. GraphInv /\ OrderInv /\ ValuesInv /\ Built /\ pc # "abstract" /\ TreeValued
  BY DEF WholeTree, Built, Faithful
<1>2. NumbersOf(fn.entry) /\ Told(fn.entry) /\ NumPaths[fn.entry] \in Nat \ {0}
  BY <1>1, EntryNumbers, EntryTold
<1>3. PICK path : Regenerates(path) /\ \A n : numToPath(n) = path[<<fn.entry, n>>]
  BY <1>1, PathSolves
<1>4. RegeneratedFrom(path, fn.entry)
  BY <1>1, <1>3, EntryRegenerated
<1>5. \A p : BlocksAlong(p) = Along(fn.entry, p)
  BY DEF BlocksAlong, Along
<1>6. AbstractPaths = PathsFrom[fn.entry]
  BY DEF AbstractPaths
<1>7. \A p \in AbstractPaths : numToPath(Number(p)) = Along(fn.entry, p)
  BY <1>3, <1>4, <1>6 DEF RegeneratedFrom
<1>8. \A p \in AbstractPaths : Number(p) \in Nat
  <2>1. \A p \in AbstractPaths : Number(p) \in 0..(NumPaths[fn.entry] - 1)
    BY <1>2, <1>6 DEF NumbersOf
  <2> QED
    BY <1>2, <2>1
<1>9. \A p \in AbstractPaths : p \in Seq(Passable)
  BY <1>2, <1>6 DEF Told
<1> QED
  BY <1>2, <1>5, <1>6, <1>7, <1>8, <1>9 DEF NumbersOf, Told

LEMMA IncAdds ==
    ASSUME WholeTree, NEW u \in Members, NEW v \in Members
    PROVE  /\ fn.entry \in Members /\ fn.exit \in Members /\ NoBlock \notin Members
           /\ Inc(u, v) \in Int /\ Inc(u, u) = 0
           /\ Inc(fn.entry, v) = Inc(fn.entry, u) + Inc(u, v)
<1>1. fn.entry \in Members /\ fn.exit \in Members /\ NoBlock \notin Members
  BY MembersAre DEF WholeTree, GraphInv
<1>2. potential \in [Members -> Int]
  BY DEF WholeTree, TreeTypes
<1>3. potential[u] \in Int /\ potential[v] \in Int /\ potential[fn.entry] \in Int
  BY <1>1, <1>2
<1> QED
  BY <1>1, <1>3 DEF Inc

LEMMA StartCounted ==
    ASSUME WholeTree, CountInv, StartRun
    PROVE  CountInv'
<1>1. /\ pc = "instrumented" /\ pc' = pc /\ UNCHANGED <<graphVars, treeVars, pathData, executed>>
      /\ at' = fn.entry /\ counter' = 0 /\ pathCounter' = EmptyBag
      /\ segment' = <<fn.entry>> /\ segments' = EmptyBag
  BY DEF StartRun, Idle, passVars
<1>2. /\ PathsFrom' = PathsFrom /\ AbstractPaths' = AbstractPaths /\ Passable' = Passable
      /\ \A p : Number(p)' = Number(p)
      /\ \A u, p : Along(u, p)' = Along(u, p)
      /\ \A u, v : Inc(u, v)' = Inc(u, v)
      /\ Faithful' = Faithful /\ fn' = fn
  BY <1>1, PathsKept DEF graphVars
<1>3. ASSUME Faithful PROVE Matched'
  <2>1. Matched
    BY <1>1, <1>3 DEF CountInv, Done
  <2> QED
    BY <1>1, <2>1, MatchedKept
<1>4. PICK p : p = << >>
  OBVIOUS
<1>5. p \in Seq(Passable) /\ Number(p) = 0 /\ Along(fn.entry, p) = <<fn.entry>>
  BY <1>4, NumberOfNone DEF Along
<1>6. counter' = Inc(fn.entry, at)' - Number(p)'
  <2>1. Inc(fn.entry, fn.entry) = 0
    BY IncAdds, MembersAre DEF WholeTree, GraphInv
  <2>2. Inc(fn.entry, at)' = 0 /\ Number(p)' = 0
    <3>1. Inc(fn.entry, at)' = Inc(fn.entry, fn.entry)
      BY <1>1, <1>2 DEF Inc
    <3> QED
      BY <1>2, <1>5, <2>1, <3>1
  <2> QED
    BY <1>1, <2>2
<1>7. segment' = Along(fn.entry, p)'
  <2>1. Along(fn.entry, p)' = Along(fn.entry, p)
    BY <1>1 DEF Along, EdgeAt, graphVars
  <2> QED
    BY <1>1, <1>5, <2>1
<1>8. ASSUME NEW q \in PathsFrom'[at'], q \in Seq(Passable)' PROVE p \o q \in AbstractPaths'
  <2>1. q \in AbstractPaths
    BY <1>1, <1>2, <1>8 DEF AbstractPaths
  <2>2. q \in Seq(Passable)
    BY <1>2, <1>8
  <2>3. p \o q = q
    BY <1>4, <2>2
  <2> QED
    BY <1>2, <2>1, <2>3
<1>9. OnPath(p)' /\ p \in Seq(Passable)'
  BY <1>2, <1>5, <1>6, <1>7, <1>8 DEF OnPath
<1>10. Running'
  BY <1>1, <1>9 DEF Running
<1> QED
  BY <1>1, <1>2, <1>3, <1>10 DEF CountInv, Done, HotPathsComplete

LEMMA AbortCounted ==
    ASSUME CountInv, Abort
    PROVE  CountInv'
<1>1. pc = "instrumented" /\ pc' = pc /\ UNCHANGED <<graphVars, treeVars, pathData, executed>>
      /\ at' = NoBlock
  BY DEF Abort, passVars
<1>2. Faithful' = Faithful
  BY <1>1, PathsKept
<1>3. ASSUME Faithful PROVE Matched'
  BY <1>1, <1>3, MatchedKept DEF CountInv, Done
<1> QED
  BY <1>1, <1>2, <1>3 DEF CountInv, Done, HotPathsComplete, Running

\* The counter changes by what the edge adds to the potential, less its value.
LEMMA EdgeCounts ==
    ASSUME WholeTree, SplitInv, RunInv, pc = "instrumented", Faithful,
           NEW u \in Members, NEW n \in DOMAIN fn.succ[u], NEW after, after = Execute(onEdge[<<u, n>>])
    PROVE  /\ after.counts = pathCounter
           /\ after.r = counter + Inc(u, G[u][n].to) - G[u][n].val
<1>1. /\ G[u][n].from = u /\ G[u][n].to \in Members /\ G[u][n] \in ToSet(G[u])
      /\ onEdge[<<u, n>>] = IF chordEdge(G[u][n]) THEN <<insertInc(Inc(u, G[u][n].to))>> ELSE << >>
  BY CodeOn DEF Faithful
<1>2. PICK x \in Int : x = Inc(u, G[u][n].to)
  BY <1>1, IncAdds
<1>3. insertInc(x) \in Instructions /\ regInc \in Instructions
  BY <1>1, <1>2, IncIs DEF WholeTree
<1>4. counter \in Int /\ pathCounter \in NumberBags
  BY DEF RunInv
<1>5. G[u][n].val = IF chordEdge(G[u][n]) THEN 0 ELSE x
  BY <1>1, <1>2 DEF Faithful, TreeValued
<1>6. CASE chordEdge(G[u][n])
  <2>1. after = [r |-> counter + x, counts |-> pathCounter]
    BY <1>1, <1>2, <1>3, <1>4, <1>6, CodeDoes
  <2> QED
    BY <1>2, <1>4, <1>5, <1>6, <2>1
<1>7. CASE ~ chordEdge(G[u][n])
  <2>1. after = [r |-> counter, counts |-> pathCounter]
    BY <1>1, <1>2, <1>3, <1>4, <1>7, CodeDoes DEF Registered
  <2> QED
    BY <1>2, <1>4, <1>5, <1>7, <2>1
<1> QED
  BY <1>6, <1>7

LEMMA BranchCounted ==
    ASSUME WholeTree, SplitInv, RunInv, CountInv, NEW n, Branch(n)
    PROVE  CountInv'
<1>1. /\ pc = "instrumented" /\ pc' = pc /\ UNCHANGED <<graphVars, treeVars, pathData, executed>>
      /\ at \in Members /\ n \in DOMAIN fn.succ[at]
  BY DEF Branch, passVars, RunInv
<1>2. /\ PathsFrom' = PathsFrom /\ AbstractPaths' = AbstractPaths /\ Passable' = Passable
      /\ \A p : Number(p)' = Number(p)
      /\ \A u, v : Inc(u, v)' = Inc(u, v)
      /\ Faithful' = Faithful /\ fn' = fn
  BY <1>1, PathsKept DEF graphVars
<1>3. SUFFICES ASSUME Faithful PROVE Matched' /\ Running'
  BY <1>1, <1>2 DEF CountInv, Done, HotPathsComplete
<1>4. Matched'
  BY <1>1, <1>3, MatchedKept DEF CountInv, Done
<1>5. PICK u, v, e, after : /\ u \in Members /\ u = at /\ v = G[u][n].to /\ e = <<u, n>>
                            /\ after = Execute(onEdge[<<u, n>>])
  BY <1>1
<1>6. /\ e \in Passable /\ ~ isBackedge(u, fn.succ[u][n])
      /\ EdgeAt(e) = G[u][n] /\ v = fn.succ[u][n] /\ v \in Members
  BY <1>1, <1>3, <1>5, CodeOn DEF Faithful
<1>7. /\ u \in Members /\ u # NoBlock /\ fn.entry \in Members /\ GraphInv /\ pc # "abstract"
      /\ u # fn.exit /\ n \in DOMAIN G[u]
  BY <1>1, <1>5, <1>6, MembersAre DEF WholeTree, GraphInv, Built, Passable
<1>8. pathCounter = EmptyBag /\ segments = EmptyBag /\ \E p \in Seq(Passable) : OnPath(p)
  BY <1>1, <1>3, <1>5, <1>7 DEF CountInv, Done, Running
<1>9. PICK p \in Seq(Passable) : OnPath(p)
  BY <1>8
<1>10. PICK r : r = Append(p, e)
  OBVIOUS
<1>11. /\ r \in Seq(Passable) /\ Number(r) = Number(p) + EdgeAt(e).val
       /\ Number(p) \in Int /\ EdgeAt(e).val \in Int
  BY <1>6, <1>7, <1>10, NumberAppended
<1>12. Along(fn.entry, r) = Append(segment, v)
  BY <1>5, <1>6, <1>7, <1>9, <1>10, AlongAppended DEF OnPath
<1>13. at' = v /\ counter' = after.r /\ pathCounter' = after.counts
       /\ segment' = Append(segment, v) /\ segments' = segments
  BY <1>5, <1>6 DEF Branch
<1>14. pathCounter' = EmptyBag /\ counter' = counter + Inc(u, v) - EdgeAt(e).val
  <2>1. WholeTree /\ SplitInv /\ RunInv /\ pc = "instrumented" /\ u \in Members
        /\ n \in DOMAIN fn.succ[u] /\ after = Execute(onEdge[<<u, n>>])
    BY <1>1, <1>5, <1>7
  <2>2. after.counts = pathCounter /\ after.r = counter + Inc(u, G[u][n].to) - G[u][n].val
    BY <1>3, <2>1, EdgeCounts
  <2> QED
    BY <1>5, <1>6, <1>8, <1>13, <2>2
<1>15. counter' = Inc(fn.entry, v) - Number(r)
  <2>1. /\ Inc(fn.entry, u) \in Int /\ Inc(u, v) \in Int
        /\ Inc(fn.entry, v) = Inc(fn.entry, u) + Inc(u, v)
    BY <1>6, <1>7, IncAdds
  <2>2. counter = Inc(fn.entry, u) - Number(p)
    BY <1>5, <1>9 DEF OnPath
  <2> QED
    BY <1>11, <1>14, <2>1, <2>2
<1>16. ASSUME NEW q \in PathsFrom[v], q \in Seq(Passable) PROVE r \o q \in AbstractPaths
  <2>1. PICK t : t = Through(u, n, q)
    OBVIOUS
  <2>2. t \in PathsFrom[u]
    <3>1. PathsFrom[u] = UNION {{Through(u, m, s) : s \in PathsFrom[G[u][m].to]} : m \in DOMAIN G[u]}
      BY <1>7, PathsSolve
    <3>2. t \in {Through(u, n, s) : s \in PathsFrom[G[u][n].to]}
      BY <1>5, <1>16, <2>1
    <3> QED
      BY <1>7, <3>1, <3>2
  <2>3. t \in Seq(Passable)
    BY <1>7, <1>16, <2>1, NumberOnward
  <2>4. p \o t \in AbstractPaths
    BY <1>5, <1>9, <2>2, <2>3 DEF OnPath
  <2>5. p \o t = r \o q
    <3>1. PICK X : X = Passable
      OBVIOUS
    <3>2. t = <<e>> \o q
      BY <1>5, <2>1 DEF Through
    <3>3. p \in Seq(X) /\ q \in Seq(X) /\ e \in X
      BY <1>6, <1>9, <1>16, <3>1
    <3>4. p \o (<<e>> \o q) = Append(p, e) \o q
      BY <3>3
    <3> QED
      BY <1>10, <3>2, <3>4
  <2> QED
    BY <2>4, <2>5
<1>17. OnPath(r)'
  <2>1. segment' = Along(fn.entry, r)'
    <3>1. Along(fn.entry, r)' = Along(fn.entry, r)
      BY <1>1 DEF Along, EdgeAt, graphVars
    <3> QED
      BY <1>12, <1>13, <3>1
  <2>2. counter' = Inc(fn.entry, at)' - Number(r)'
    <3>1. Inc(fn.entry, at)' = Inc(fn.entry, v)
      BY <1>1, <1>13 DEF Inc, graphVars, treeVars
    <3> QED
      BY <1>2, <1>15, <3>1
  <2>3. \A q \in PathsFrom'[at'] : q \in Seq(Passable)' => r \o q \in AbstractPaths'
    BY <1>2, <1>13, <1>16
  <2> QED
    BY <2>1, <2>2, <2>3 DEF OnPath
<1>18. Running'
  BY <1>2, <1>8, <1>11, <1>13, <1>14, <1>17 DEF Running
<1> QED
  BY <1>4, <1>18

\* The cycle through the exit closes: the counter is the negated number of the path.
LEMMA ReturnCounted ==
    ASSUME WholeTree, SplitInv, RunInv, CountInv, Return
    PROVE  CountInv'
<1>1. /\ pc = "instrumented" /\ pc' = pc /\ UNCHANGED <<graphVars, treeVars>>
      /\ at = fn.exit /\ at' = NoBlock
  BY DEF Return, passVars
<1>2. /\ AbstractPaths' = AbstractPaths /\ Faithful' = Faithful
      /\ \A p : Number(p)' = Number(p) /\ BlocksAlong(p)' = BlocksAlong(p)
  BY <1>1, PathsKept
<1>3. SUFFICES ASSUME Faithful PROVE Matched'
  BY <1>1, <1>2 DEF CountInv, Done, HotPathsComplete, Running
<1>4. Matched /\ Running
  BY <1>1, <1>3 DEF CountInv, Done
<1>5. /\ fn.entry \in Members /\ fn.exit \in Members /\ NoBlock \notin Members
      /\ GraphInv /\ TreeTypes /\ Built /\ pc # "abstract"
  BY <1>1, MembersAre DEF WholeTree, GraphInv, Built
<1>6. pathCounter = EmptyBag /\ segments = EmptyBag /\ \E p \in Seq(Passable) : OnPath(p)
  BY <1>1, <1>4, <1>5 DEF Running
<1>7. PICK p \in Seq(Passable) : OnPath(p)
  BY <1>6
<1>8. p \in AbstractPaths
  <2>1. PICK q : q = << >>
    OBVIOUS
  <2>2. q \in PathsFrom[at]
    BY <1>1, <1>5, <2>1, PathsSolve
  <2>3. q \in Seq(Passable) /\ p \o q = p
    BY <2>1
  <2> QED
    BY <1>7, <2>2, <2>3 DEF OnPath
<1>9. PICK N \in Nat : N = Number(p)
  BY <1>3, <1>8, FaithfulPaths
<1>10. segment = BlocksAlong(p)
  BY <1>3, <1>7, <1>8, FaithfulPaths DEF OnPath
<1>11. PICK x \in Int : /\ x = Inc(fn.exit, fn.entry) /\ counter + x = -N
                        /\ insertInc(x) \in Instructions /\ regInc \in Instructions
  <2>1. PICK x \in Int : x = Inc(fn.exit, fn.entry)
    BY <1>5, IncAdds
  <2>2. counter = Inc(fn.entry, fn.exit) - N
    BY <1>1, <1>7, <1>9 DEF OnPath
  <2>3. Inc(fn.entry, fn.exit) \in Int /\ 0 = Inc(fn.entry, fn.exit) + x
    BY <1>5, <2>1, IncAdds
  <2>4. counter + x = -N
    BY <2>2, <2>3
  <2> QED
    BY <1>5, <2>1, <2>4, IncIs
<1>12. PICK after : after = Execute(atExit) /\ after.counts = One(-N)
  <2>1. counter \in Int /\ pathCounter \in NumberBags
    BY DEF RunInv
  <2>2. PICK after : after = Execute(atExit)
    OBVIOUS
  <2>3. CASE atExit = <<insertInc(x), regInc>>
    <3>1. after = [r |-> counter + x, counts |-> pathCounter (+) SetToBag({counter + x})]
      BY <1>11, <2>1, <2>2, <2>3, CodeDoes
    <3>2. after.counts = EmptyBag (+) SetToBag({-N})
      BY <1>6, <1>11, <3>1
    <3> QED
      BY <2>2, <3>2, OnlyOne
  <2>4. CASE atExit = <<regInc>> /\ x = 0
    <3>1. after = [r |-> counter, counts |-> pathCounter (+) SetToBag({counter})]
      BY <1>11, <2>1, <2>2, <2>4, CodeDoes
    <3>2. counter = -N
      BY <1>11, <2>1, <2>4
    <3>3. after.counts = EmptyBag (+) SetToBag({-N})
      BY <1>6, <3>1, <3>2
    <3> QED
      BY <2>2, <3>3, OnlyOne
  <2> QED
    BY <1>1, <1>3, <1>11, <2>3, <2>4, CodeAtExit DEF Faithful
<1>13. pathData' = pathData (+) One(N)
  BY <1>12, DumpedOne DEF Return
<1>14. executed' = executed (+) One(BlocksAlong(p))
  <2>1. segments' = EmptyBag (+) SetToBag({segment}) /\ executed' = executed (+) segments'
    BY <1>6 DEF Return
  <2> QED
    BY <1>10, <2>1, OnlyOne
<1>15. FiniteBag(pathData) /\ FiniteBag(executed)
  BY <1>4, NumberBagIs DEF RunInv, Matched, FiniteBag
<1>16. /\ FiniteBag(pathData') /\ DOMAIN pathData' = DOMAIN pathData \cup {N}
       /\ \A y : Times(y, pathData') = Times(y, pathData) + (IF y = N THEN 1 ELSE 0)
       /\ TotalCount(pathData') = TotalCount(pathData) + 1
  BY <1>13, <1>15, OneAdded
<1>17. /\ FiniteBag(executed') /\ DOMAIN executed' = DOMAIN executed \cup {BlocksAlong(p)}
       /\ \A y : Times(y, executed') = Times(y, executed) + (IF y = BlocksAlong(p) THEN 1 ELSE 0)
       /\ TotalCount(executed') = TotalCount(executed) + 1
  BY <1>14, <1>15, OneAdded
<1>18. ASSUME NEW r \in AbstractPaths
       PROVE  Times(Number(r), pathData') = Times(BlocksAlong(r), executed')
  <2>1. Times(Number(r), pathData) = Times(BlocksAlong(r), executed)
    BY <1>4 DEF Matched
  <2>2. Number(r) = N <=> BlocksAlong(r) = BlocksAlong(p)
    BY <1>3, <1>8, <1>9, FaithfulPaths
  <2> QED
    BY <1>16, <1>17, <2>1, <2>2
<1>19. /\ DOMAIN pathData' \subseteq {Number(r) : r \in AbstractPaths}
       /\ DOMAIN executed' \subseteq {BlocksAlong(r) : r \in AbstractPaths}
  BY <1>4, <1>8, <1>9, <1>16, <1>17 DEF Matched
<1>20. TotalCount(executed') = TotalCount(pathData')
  BY <1>4, <1>16, <1>17 DEF Matched
<1>21. /\ \A r \in AbstractPaths' : Times(Number(r)', pathData') = Times(BlocksAlong(r)', executed')
       /\ DOMAIN pathData' \subseteq {Number(r)' : r \in AbstractPaths'}
       /\ DOMAIN executed' \subseteq {BlocksAlong(r)' : r \in AbstractPaths'}
  BY <1>2, <1>18, <1>19
<1>22. FiniteBag(executed)' /\ TotalCount(executed)' = TotalCount(pathData)'
  BY <1>17, <1>20
<1> QED
  BY <1>21, <1>22 DEF Matched

\* Each number of pathData.txt gives an executed path, and each of them once.
LEMMA ListedPaths ==
    ASSUME WholeTree, RunInv, Faithful, Matched
    PROVE  /\ \A n \in DOMAIN pathData :
                 /\ numToPath(n) \in DOMAIN executed
                 /\ executed[numToPath(n)] = pathData[n]
           /\ \A q \in DOMAIN executed : \E n \in DOMAIN pathData : numToPath(n) = q
           /\ \A m, n \in DOMAIN pathData : numToPath(m) = numToPath(n) => m = n
           /\ \A n \in DOMAIN pathData : pathData[n] \in Nat
<1>1. FiniteBag(pathData) /\ FiniteBag(executed)
  BY NumberBagIs DEF RunInv, Matched, FiniteBag
<1>2. \A p \in AbstractPaths : numToPath(Number(p)) = BlocksAlong(p)
  BY FaithfulPaths
<1>3. \A p, q \in AbstractPaths : BlocksAlong(p) = BlocksAlong(q) => p = q
  BY FaithfulPaths
<1>4. \A n \in DOMAIN pathData : \E p \in AbstractPaths : n = Number(p)
  BY DEF Matched
<1>5. \A q \in DOMAIN executed : \E p \in AbstractPaths : q = BlocksAlong(p)
  BY DEF Matched
<1>6. \A p \in AbstractPaths : Times(Number(p), pathData) = Times(BlocksAlong(p), executed)
  BY DEF Matched
<1>7. ASSUME NEW p \in AbstractPaths
      PROVE  /\ Number(p) \in DOMAIN pathData <=> BlocksAlong(p) \in DOMAIN executed
             /\ Number(p) \in DOMAIN pathData => executed[BlocksAlong(p)] = pathData[Number(p)]
  BY <1>1, <1>6, TimesAre
<1>8. ASSUME NEW n \in DOMAIN pathData
      PROVE  /\ numToPath(n) \in DOMAIN executed /\ executed[numToPath(n)] = pathData[n]
             /\ pathData[n] \in Nat
  <2>1. PICK p \in AbstractPaths : n = Number(p)
    BY <1>4
  <2>2. pathData[n] \in Nat
    BY <1>1 DEF FiniteBag
  <2> QED
    BY <1>2, <1>7, <2>1, <2>2
<1>9. ASSUME NEW q \in DOMAIN executed PROVE \E n \in DOMAIN pathData : numToPath(n) = q
  <2>1. PICK p \in AbstractPaths : q = BlocksAlong(p)
    BY <1>5
  <2> QED
    BY <1>2, <1>7, <2>1
<1>10. ASSUME NEW m \in DOMAIN pathData, NEW n \in DOMAIN pathData, numToPath(m) = numToPath(n)
       PROVE  m = n
  <2>1. PICK p \in AbstractPaths : m = Number(p)
    BY <1>4
  <2>2. PICK r \in AbstractPaths : n = Number(r)
    BY <1>4
  <2>3. p = r
    BY <1>2, <1>3, <1>10, <2>1, <2>2
  <2> QED
    BY <2>1, <2>2, <2>3
<1> QED
  BY <1>8, <1>9, <1>10

LEMMA Counted ==
    ASSUME WholeTree, RunInv, Faithful, Matched
    PROVE  RegeneratesExecuted
<1>1. BagToSet(executed) = DOMAIN executed /\ BagToSet(pathData) = DOMAIN pathData
  BY DEF BagToSet
<1>2. SUFFICES ASSUME NEW q \in DOMAIN executed \cup {numToPath(n) : n \in DOMAIN pathData}
               PROVE  CountOf(q) = Times(q, executed)
  BY <1>1 DEF RegeneratesExecuted
<1>3. PICK n \in DOMAIN pathData : numToPath(n) = q
  BY <1>2, ListedPaths
<1>4. Times(q, executed) = pathData[n] /\ pathData[n] \in Int
  <2>1. q \in DOMAIN executed /\ executed[q] = pathData[n] /\ pathData[n] \in Nat
    BY <1>3, ListedPaths
  <2> QED
    BY <2>1 DEF Times
<1>5. {m \in DOMAIN pathData : numToPath(m) = q} = {n}
  BY <1>3, ListedPaths
<1>6. SumOver(pathData, {n}) = pathData[n]
  BY <1>4, SumOfOne
<1> QED
  BY <1>1, <1>4, <1>5, <1>6 DEF CountOf

LEMMA HotOnes ==
    ASSUME NEW c \in Nat, NEW total \in Int, NEW t \in Nat, c * 100 >= t * total
    PROVE  IsHot(c, total, t)
<1>1. PICK w \in Int : w = t * total
  OBVIOUS
<1>2. total * t = w
  BY <1>1
<1>3. w <= c * 100
  BY <1>1
<1>4. w \div 100 <= c
  BY <1>3
<1> QED
  BY <1>2, <1>4 DEF IsHot

LEMMA ReportCounted ==
    ASSUME WholeTree, RunInv, CountInv, hotPathInfo
    PROVE  CountInv'
<1>1. /\ pc = "instrumented" /\ pc' = "reported" /\ at = NoBlock /\ at' = at
      /\ UNCHANGED <<graphVars, treeVars, pathData, executed>>
      /\ threshold' \in Thresholds
  BY DEF hotPathInfo, Idle, runVars
<1>2. Faithful' = Faithful
  BY <1>1, PathsKept
<1>3. SUFFICES ASSUME Faithful PROVE Matched' /\ HotPathsComplete'
  BY <1>1, <1>2 DEF CountInv, Done, Running, HotPathsComplete
<1>4. Matched
  BY <1>1, <1>3 DEF CountInv, Done
<1>5. Matched'
  BY <1>1, <1>4, MatchedKept
<1>6. PICK total, t : total = TotalCount(pathData) /\ t = threshold'
  OBVIOUS
<1>7. PICK nums : nums = {n \in DOMAIN pathData : IsHot(pathData[n], total, t)}
  OBVIOUS
<1>8. PICK sorted : /\ sorted = Increasing(nums)
                    /\ hotPaths' = [k \in DOMAIN sorted |-> numToPath(sorted[k])]
  <2>1. BagToSet(pathData) = DOMAIN pathData
    BY DEF BagToSet
  <2> QED
    BY <1>6, <1>7, <2>1 DEF hotPathInfo
<1>9. nums \in SUBSET Nat /\ IsFiniteSet(nums) /\ nums \subseteq DOMAIN pathData
  <2>1. nums \subseteq DOMAIN pathData
    BY <1>7
  <2>2. DOMAIN pathData \subseteq Nat /\ IsFiniteSet(DOMAIN pathData)
    BY NumberBagIs DEF RunInv
  <2> QED
    BY <2>1, <2>2, FS_Subset
<1>10. PICK c \in Nat : sorted \in [1..c -> nums] /\ \A x \in nums : \E k \in 1..c : sorted[k] = x
  BY <1>8, <1>9, IncreasingLists
<1>11. ToSet(hotPaths') = {numToPath(n) : n \in nums}
  BY <1>8, <1>10 DEF ToSet
<1>12. total \in Int /\ t \in Nat /\ total = TotalCount(executed)
  <2>1. FiniteBag(pathData)
    BY NumberBagIs DEF RunInv, FiniteBag
  <2> QED
    BY <1>1, <1>4, <1>6, <2>1, OneAdded, CountsAssumption DEF Matched
<1>13. ToSet(hotPaths') \subseteq DOMAIN executed
  BY <1>3, <1>4, <1>9, <1>11, ListedPaths
<1>14. ASSUME NEW q \in DOMAIN executed, executed[q] * 100 >= t * total
       PROVE  q \in ToSet(hotPaths')
  <2>1. PICK n \in DOMAIN pathData : numToPath(n) = q
    BY <1>3, <1>4, ListedPaths
  <2>2. executed[q] = pathData[n] /\ pathData[n] \in Nat
    BY <1>3, <1>4, <2>1, ListedPaths
  <2>3. IsHot(pathData[n], total, t)
    BY <1>12, <1>14, <2>2, HotOnes
  <2> QED
    BY <1>7, <1>11, <2>1, <2>3
<1>15. /\ ToSet(hotPaths') \subseteq BagToSet(executed')
       /\ \A q \in BagToSet(executed') :
             executed'[q] * 100 >= threshold' * TotalCount(executed') => q \in ToSet(hotPaths')
  BY <1>1, <1>6, <1>12, <1>13, <1>14 DEF BagToSet
<1>16. HotPathsComplete'
  BY <1>15 DEF HotPathsComplete
<1> QED
  BY <1>5, <1>16

LEMMA PassCounted ==
    ASSUME CountInv, PassStep
    PROVE  CountInv'
<1>1. UNCHANGED <<at, pathData, executed>>
  BY DEF PassStep, runVars
<1>2. ~ Done /\ pc' # "reported"
  <2>1. CASE getAbstractGraph \/ DFS \/ FinishBlock \/ Sorted \/ getEdgeValues
    BY <2>1 DEF getAbstractGraph, DFS, FinishBlock, Sorted, getEdgeValues, Done
  <2>2. CASE StartTree
    BY <2>2 DEF StartTree, Done
  <2>3. CASE GrowTree
    BY <2>3 DEF GrowTree, Done
  <2>4. CASE Annotate
    <3>1. pc = "tree" /\ pc' = "instrument"
      BY <2>4, Zenon DEF Annotate
    <3> QED
      BY <3>1 DEF Done
  <2>5. CASE ExitChord \/ Chord \/ BackChord
    BY <2>5 DEF ExitChord, Chord, BackChord, Done
  <2>6. CASE SplitFails \/ Instrumented
    BY <2>6 DEF SplitFails, Instrumented, Done
  <2> QED
    BY <2>1, <2>2, <2>3, <2>4, <2>5, <2>6 DEF PassStep, PassNext
<1>3. at' = NoBlock /\ pathData' = EmptyBag /\ executed' = EmptyBag
  BY <1>1, <1>2 DEF CountInv
<1>4. Matched' /\ Running'
  BY <1>3, EmptyBagIs DEF Matched, Running
<1> QED
  BY <1>2, <1>3, <1>4 DEF CountInv, HotPathsComplete

LEMMA CountsKept ==
    ASSUME CountInv, UNCHANGED vars
    PROVE  CountInv'
<1>1. UNCHANGED <<pc, graphVars, treeVars, at, counter, pathCounter, pathData, segment, segments,
                  executed, threshold, hotPaths>>
  BY DEF vars, passVars, runVars
<1>2. /\ PathsFrom' = PathsFrom /\ AbstractPaths' = AbstractPaths /\ Passable' = Passable
      /\ \A p : Number(p)' = Number(p)
      /\ Faithful' = Faithful
  BY <1>1, PathsKept
<1>3. Matched => Matched'
  BY <1>1, MatchedKept
<1>4. Running => Running'
  <2>1. ASSUME NEW p, OnPath(p) PROVE OnPath(p)'
    <3>1. Along(fn.entry, p)' = Along(fn.entry, p) /\ Inc(fn.entry, at)' = Inc(fn.entry, at)
      BY <1>1 DEF Along, EdgeAt, Inc, graphVars, treeVars
    <3> QED
      BY <1>1, <1>2, <2>1, <3>1 DEF OnPath
  <2> QED
    BY <1>1, <1>2, <2>1 DEF Running
<1>5. HotPathsComplete'
  BY <1>1, <1>2 DEF CountInv, HotPathsComplete
<1> QED
  BY <1>1, <1>2, <1>3, <1>4, <1>5 DEF CountInv, Done

LEMMA CountStep ==
    ASSUME PassInv, RunInv, SplitAll, CountInv, [Next]_vars
    PROVE  CountInv'
<1>1. ASSUME Done PROVE WholeTree /\ SplitInv
  BY <1>1 DEF Done, PassInv, SplitAll, WholeTree, Built, Numbering, ChordsInv
<1>2. CASE PassStep
  BY <1>2, PassCounted
<1>3. CASE UNCHANGED vars
  BY <1>3, CountsKept
<1>4. CASE StartRun
  <2>1. Done
    BY <1>4 DEF StartRun, Idle, Done
  <2> QED
    BY <1>1, <1>4, <2>1, StartCounted
<1>5. CASE \E n \in 1..Cardinality(Blocks) : Branch(n)
  <2>1. PICK n : Branch(n)
    BY <1>5
  <2>2. Done
    BY <2>1 DEF Branch, Done
  <2> QED
    BY <1>1, <2>1, <2>2, BranchCounted
<1>6. CASE Return
  <2>1. Done
    BY <1>6 DEF Return, Done
  <2> QED
    BY <1>1, <1>6, <2>1, ReturnCounted
<1>7. CASE Abort
  BY <1>7, AbortCounted
<1>8. CASE hotPathInfo
  <2>1. Done
    BY <1>8 DEF hotPathInfo, Idle, Done
  <2> QED
    BY <1>1, <1>8, <2>1, ReportCounted
<1> QED
  BY <1>2, <1>3, <1>4, <1>5, <1>6, <1>7, <1>8 DEF Next

LEMMA CountAlways == Spec => [](PassInv /\ RunInv /\ SplitAll /\ CountInv)
<1>1. Init => CountInv
  BY DEF Init, PassInit, CountInv, Done, HotPathsComplete
<1>2. PassInv /\ RunInv /\ SplitAll /\ CountInv /\ [Next]_vars => CountInv'
  BY CountStep
<1> QED
  BY <1>1, <1>2, SplitAlways, PTL DEF Spec

(***************************************************************************)
(* In a function without loops whose tree has the values of its edges, what*)
(* getHotPathInfo regenerates from pathData.txt is, count by count, what   *)
(* the runs that returned executed: the increments met on a path add up to *)
(* the negated sum of its values, however few edges carry them.            *)
(***************************************************************************)
THEOREM CountsAreExecutions == Spec => []CountedAsExecuted
<1>1. PassInv /\ RunInv /\ SplitAll /\ CountInv => CountedAsExecuted
  <2> SUFFICES ASSUME PassInv, RunInv, SplitAll, CountInv, Idle, Faithful PROVE RegeneratesExecuted
    BY DEF CountedAsExecuted
  <2>1. Done
    BY DEF Idle, Done
  <2>2. WholeTree
    BY <2>1 DEF Done, PassInv, SplitAll, WholeTree, Built, Numbering, ChordsInv
  <2>3. Matched
    BY <2>1 DEF CountInv
  <2> QED
    BY <2>2, <2>3, Counted
<1> QED
  BY <1>1, CountAlways, PTL

(***************************************************************************)
(* In such a function hotPathInfo.txt has every path that makes up the     *)
(* threshold of all executions, and none that was not executed.            *)
(***************************************************************************)
THEOREM HotPathsAreComplete == Spec => []HotPathsComplete
<1>1. CountInv => HotPathsComplete
  BY DEF CountInv
<1> QED
  BY <1>1, CountAlways, PTL
=============================================================================

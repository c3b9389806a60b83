----------------------------- MODULE ListProofs -----------------------------
(***************************************************************************)
(* Facts about numbers, sums and sorted sets, for every sequence and every *)
(* set, and induction in the form that the provers can use: over a set of  *)
(* numbers, and recursion over a function that gives the next value.       *)
(***************************************************************************)
EXTENDS Lists, FiniteSetTheorems, SequenceTheorems, WellFoundedInduction, TLAPS

----------------------------------------------------------------------------
(* Induction.                                                              *)

\* A set of numbers has a least one.
LEMMA LeastNumber ==
    ASSUME NEW T \in SUBSET Nat, T # {}
    PROVE  \E x \in T : \A y \in T : x <= y
<1> DEFINE R == {ss \in Nat \X Nat : ss[1] < ss[2]}
<1>1. IsWellFoundedOn(R, Nat)
  BY NatLessThanWellFounded DEF OpToRel
<1>2. PICK x \in T : \A y \in T : ~ (<<y, x>> \in R)
  <2> HIDE DEF R
  <2>1. QED
    BY <1>1, WFMin
<1>3. ASSUME NEW y \in T PROVE x <= y
  <2>1. <<y, x>> \in Nat \X Nat /\ <<y, x>>[1] = y /\ <<y, x>>[2] = x
    OBVIOUS
  <2>2. ~ (y < x)
    BY <1>2, <2>1
  <2>3. QED
    BY <2>2
<1>4. QED
  BY <1>3

\* A set that has each number all of whose predecessors it has, has all numbers.
LEMMA StrongInduction ==
    ASSUME NEW S,
           \A n \in Nat : (\A m \in Nat : m < n => m \in S) => n \in S
    PROVE  \A n \in Nat : n \in S
<1> SUFFICES ASSUME {n \in Nat : n \notin S} # {} PROVE FALSE
  OBVIOUS
<1>1. PICK x \in {n \in Nat : n \notin S} : \A y \in {n \in Nat : n \notin S} : x <= y
  BY LeastNumber
<1>2. \A m \in Nat : m < x => m \in S
  BY <1>1
<1> QED
  BY <1>1, <1>2

\* A set that has 0 and with each number the next has all numbers.
LEMMA SetInduction ==
    ASSUME NEW S, 0 \in S, \A n \in Nat : n \in S => n + 1 \in S
    PROVE  \A n \in Nat : n \in S
<1>1. ASSUME NEW n \in Nat, \A m \in Nat : m < n => m \in S PROVE n \in S
  <2>1. CASE n = 0
    BY <2>1
  <2>2. CASE n # 0
    <3>1. n - 1 \in Nat /\ n - 1 < n /\ (n - 1) + 1 = n
      BY <2>2
    <3> QED
      BY <1>1, <3>1
  <2> QED
    BY <2>1, <2>2
<1> QED
  BY <1>1, StrongInduction

\* A set of numbers that are at most n has a greatest one.
LEMMA GreatestNumber ==
    ASSUME NEW n \in Nat, NEW T \in SUBSET (0..n), T # {}
    PROVE  \E x \in T : \A y \in T : y <= x
<1> DEFINE D == {n - x : x \in T}
<1>1. D \in SUBSET Nat /\ D # {}
  <2>1. \A x \in T : n - x \in Nat
    OBVIOUS
  <2>2. PICK x \in T : TRUE
    OBVIOUS
  <2> QED
    BY <2>1, <2>2
<1>2. PICK d \in D : \A e \in D : d <= e
  BY <1>1, LeastNumber
<1>3. PICK x \in T : d = n - x
  BY <1>2
<1>4. \A y \in T : n - x <= n - y
  BY <1>2, <1>3
<1> QED
  BY <1>4

\* The numbers in the range of a function on 1..n are bounded.
LEMMA BoundedRange ==
    ASSUME NEW n \in Nat, NEW f \in [1..n -> Nat]
    PROVE  \E b \in Nat : \A k \in 1..n : f[k] <= b
<1> DEFINE S == {m \in Nat : m <= n => \E b \in Nat : \A k \in 1..m : f[k] <= b}
<1>1. 0 \in S
  <2>1. 0 \in Nat /\ \A k \in 1..0 : f[k] <= 0
    OBVIOUS
  <2> QED
    BY <2>1
<1>2. ASSUME NEW m \in Nat, m \in S PROVE m + 1 \in S
  <2> SUFFICES ASSUME m + 1 <= n PROVE \E b \in Nat : \A k \in 1..(m + 1) : f[k] <= b
    OBVIOUS
  <2>1. PICK b \in Nat : \A k \in 1..m : f[k] <= b
    BY <1>2
  <2>2. f[m + 1] \in Nat
    OBVIOUS
  <2>3. \A k \in 1..(m + 1) : f[k] <= b + f[m + 1]
    <3> SUFFICES ASSUME NEW k \in 1..(m + 1) PROVE f[k] <= b + f[m + 1]
      OBVIOUS
    <3>1. CASE k = m + 1
      BY <2>2, <3>1
    <3>2. CASE k # m + 1
      <4>1. k \in 1..m /\ f[k] \in Nat
        BY <3>2
      <4> QED
        BY <2>1, <2>2, <4>1
    <3> QED
      BY <3>1, <3>2
  <2> QED
    BY <2>2, <2>3
<1>3. \A m \in Nat : m \in S
  <2> HIDE DEF S
  <2> QED
    BY <1>1, <1>2, SetInduction
<1>4. n \in S
  <2> HIDE DEF S
  <2> QED
    BY <1>3
<1> QED
  BY <1>4

----------------------------------------------------------------------------
(* Recursion.                                                              *)

\* f begins with x0 and has its next value from the last, up to N.
Recurs(f, N, x0, step) == f[0] = x0 /\ \A n \in 1..N : f[n] = step[<<n, f[n - 1]>>]

LEMMA Recursion ==
    ASSUME NEW N \in Nat, NEW X, NEW x0 \in X, NEW step \in [(1..N) \X X -> X]
    PROVE  \E f \in [0..N -> X] : Recurs(f, N, x0, step)
<1> DEFINE upTo(f, m) == f[0] = x0 /\ \A n \in 1..m : f[n] = step[<<n, f[n - 1]>>]
           S == {m \in Nat : m <= N => \E f \in [0..N -> X] : upTo(f, m)}
<1>1. 0 \in S
  <2>1. [k \in 0..N |-> x0] \in [0..N -> X] /\ upTo([k \in 0..N |-> x0], 0)
    OBVIOUS
  <2> QED
    BY <2>1
<1>2. ASSUME NEW m \in Nat, m \in S PROVE m + 1 \in S
  <2> SUFFICES ASSUME m + 1 <= N PROVE \E f \in [0..N -> X] : upTo(f, m + 1)
    OBVIOUS
  <2>1. PICK f \in [0..N -> X] : upTo(f, m)
    BY <1>2
  <2>2. m \in 0..N /\ m + 1 \in 1..N /\ m + 1 \in 0..N
    OBVIOUS
  <2>3. step[<<m + 1, f[m]>>] \in X
    BY <2>2
  <2> DEFINE g == [f EXCEPT ![m + 1] = step[<<m + 1, f[m]>>]]
  <2>4. g \in [0..N -> X]
    BY <2>3
  <2>5. g[m + 1] = step[<<m + 1, f[m]>>] /\ \A k \in 0..m : g[k] = f[k]
    BY <2>2
  <2> HIDE DEF g
  <2>6. g[0] = x0
    BY <2>1, <2>5
  <2>7. ASSUME NEW n \in 1..(m + 1) PROVE g[n] = step[<<n, g[n - 1]>>]
    <3>1. CASE n = m + 1
      <4>1. n - 1 = m /\ m \in 0..m
        BY <3>1
      <4> QED
        BY <2>5, <3>1, <4>1
    <3>2. CASE n # m + 1
      <4>1. n \in 1..m /\ n \in 0..m /\ n - 1 \in 0..m
        BY <3>2
      <4> QED
        BY <2>1, <2>5, <4>1
    <3> QED
      BY <3>1, <3>2
  <2> QED
    BY <2>4, <2>6, <2>7
<1>3. \A m \in Nat : m \in S
  <2> HIDE DEF S
  <2> QED
    BY <1>1, <1>2, SetInduction
<1>4. N \in S
  <2> HIDE DEF S
  <2> QED
    BY <1>3
<1> QED
  BY <1>4 DEF Recurs

\* A value for u that depends only on those for what comes before u in rank: there is
\* a function that has this value for each u.
Solves(f, step, D) == \A u \in D : f[u] = step[<<u, f>>]

Local(step, rank, D, X) ==
    \A u \in D : \A f, g \in [D -> X] :
        (\A v \in D : rank[v] < rank[u] => f[v] = g[v]) => step[<<u, f>>] = step[<<u, g>>]

LEMMA RecursionByRank ==
    ASSUME NEW D, NEW X, NEW x0 \in X, NEW N \in Nat, NEW rank \in [D -> 0..N],
           NEW step \in [D \X [D -> X] -> X],
           Local(step, rank, D, X)
    PROVE  \E f \in [D -> X] : Solves(f, step, D)
<1> DEFINE upTo(f, m) == \A u \in D : rank[u] < m => f[u] = step[<<u, f>>]
           S == {m \in Nat : \E f \in [D -> X] : upTo(f, m)}
<1>1. 0 \in S
  <2>1. [u \in D |-> x0] \in [D -> X]
    OBVIOUS
  <2>2. \A u \in D : ~ (rank[u] < 0)
    OBVIOUS
  <2> QED
    BY <2>1, <2>2
<1>2. ASSUME NEW m \in Nat, m \in S PROVE m + 1 \in S
  <2>1. PICK f \in [D -> X] : upTo(f, m)
    BY <1>2
  <2> DEFINE g == [u \in D |-> IF rank[u] = m THEN step[<<u, f>>] ELSE f[u]]
  <2>2. \A u \in D : step[<<u, f>>] \in X
    OBVIOUS
  <2>3. g \in [D -> X]
    BY <2>2
  <2>4. \A u \in D : g[u] = IF rank[u] = m THEN step[<<u, f>>] ELSE f[u]
    OBVIOUS
  <2> HIDE DEF g
  <2>5. ASSUME NEW u \in D, rank[u] < m + 1 PROVE g[u] = step[<<u, g>>]
    <3>1. rank[u] \in Nat /\ rank[u] <= m /\ \A v \in D : rank[v] \in Nat
      BY <2>5
    <3>2. \A v \in D : rank[v] < rank[u] => rank[v] # m
      BY <3>1
    <3>6. \A v \in D : rank[v] < rank[u] => f[v] = g[v]
      BY <2>4, <3>2
    <3>3. step[<<u, f>>] = step[<<u, g>>]
      BY <2>3, <3>6 DEF Local
    <3>4. CASE rank[u] = m
      BY <2>4, <3>3, <3>4
    <3>5. CASE rank[u] < m
      BY <2>1, <2>4, <3>3, <3>5
    <3>7. rank[u] = m \/ rank[u] < m
      <4>1. \A k \in Nat : k <= m => k = m \/ k < m
        OBVIOUS
      <4> QED
        BY <3>1, <4>1, Zenon
    <3> QED
      BY <3>4, <3>5, <3>7
  <2> QED
    BY <2>3, <2>5
<1>3. N + 1 \in S
  <2> HIDE DEF S
  <2> QED
    BY <1>1, <1>2, SetInduction
<1>4. PICK f \in [D -> X] : upTo(f, N + 1)
  BY <1>3
<1>5. \A u \in D : rank[u] < N + 1
  OBVIOUS
<1> QED
  BY <1>4, <1>5 DEF Solves

----------------------------------------------------------------------------
(* Sums.                                                                   *)

LEMMA SumsAre ==
    ASSUME NEW vals \in Seq(Int)
    PROVE  /\ Sums(vals) \in [0..Len(vals) -> Int]
           /\ Sums(vals)[0] = 0
           /\ \A n \in 1..Len(vals) : Sums(vals)[n] = Sums(vals)[n - 1] + vals[n]
<1> DEFINE N == Len(vals)
           isSum(f) == f = [n \in 0..N |-> IF n = 0 THEN 0 ELSE f[n - 1] + vals[n]]
           step == [p \in (1..N) \X Int |-> p[2] + vals[p[1]]]
<1>1. N \in Nat /\ \A n \in 1..N : vals[n] \in Int
  OBVIOUS
<1>2. step \in [(1..N) \X Int -> Int] /\ \A n \in 1..N, x \in Int : step[<<n, x>>] = x + vals[n]
  <2>1. \A p \in (1..N) \X Int : p[2] + vals[p[1]] \in Int
    BY <1>1
  <2> QED
    BY <2>1
<1> HIDE DEF N, step
<1>3. PICK f \in [0..N -> Int] : f[0] = 0 /\ \A n \in 1..N : f[n] = step[<<n, f[n - 1]>>]
  <2>1. PICK X : X = Int
    OBVIOUS
  <2>2. 0 \in X /\ N \in Nat /\ step \in [(1..N) \X X -> X]
    BY <1>1, <1>2, <2>1
  <2>3. \E f \in [0..N -> X] : Recurs(f, N, 0, step)
    BY <2>2, Recursion
  <2> QED
    BY <2>1, <2>3 DEF Recurs
<1>4. isSum(f)
  <2>1. ASSUME NEW n \in 0..N PROVE f[n] = IF n = 0 THEN 0 ELSE f[n - 1] + vals[n]
    <3>1. CASE n = 0
      BY <1>3, <3>1
    <3>2. CASE n # 0
      <4>1. n \in 1..N /\ n - 1 \in 0..N
        BY <1>1, <3>2
      <4>2. f[n - 1] \in Int
        BY <4>1
      <4> QED
        BY <1>2, <1>3, <3>2, <4>1, <4>2
    <3> QED
      BY <3>1, <3>2
  <2> QED
    BY <2>1
<1>5. PICK g : g = Sums(vals) /\ isSum(g)
  <2>1. Sums(vals) = CHOOSE g : isSum(g)
    BY DEF Sums, N
  <2> QED
    BY <1>4, <2>1
<1>6. g[0] = 0 /\ \A n \in 1..N : g[n] = g[n - 1] + vals[n]
  <2>1. 0 \in 0..N /\ \A n \in 1..N : n \in 0..N /\ n # 0
    BY <1>1
  <2> QED
    BY <1>5, <2>1
<1>7. \A n \in Nat : n \in {m \in Nat : m \in 0..N => g[m] \in Int}
  <2> DEFINE S == {m \in Nat : m \in 0..N => g[m] \in Int}
  <2>1. 0 \in S
    BY <1>6
  <2>2. ASSUME NEW m \in Nat, m \in S PROVE m + 1 \in S
    <3> SUFFICES ASSUME m + 1 \in 0..N PROVE g[m + 1] \in Int
      OBVIOUS
    <3>1. m \in 0..N /\ m + 1 \in 1..N /\ (m + 1) - 1 = m
      BY <1>1
    <3>2. g[m] \in Int /\ vals[m + 1] \in Int
      BY <1>1, <2>2, <3>1
    <3> QED
      BY <1>6, <3>1, <3>2
  <2> HIDE DEF S
  <2>3. \A n \in Nat : n \in S
    BY <2>1, <2>2, SetInduction
  <2> QED
    BY <2>3 DEF S
<1>8. \A n \in 0..N : g[n] \in Int
  BY <1>1, <1>7
<1>9. g \in [0..N -> Int]
  BY <1>5, <1>8
<1> QED
  BY <1>5, <1>6, <1>9 DEF N

LEMMA SumsOfNat ==
    ASSUME NEW vals \in Seq(Nat)
    PROVE  /\ Sums(vals) \in [0..Len(vals) -> Nat]
           /\ Sums(vals)[0] = 0
           /\ \A n \in 1..Len(vals) : Sums(vals)[n] = Sums(vals)[n - 1] + vals[n]
<1>1. PICK s : s = Sums(vals)
  OBVIOUS
<1>2. vals \in Seq(Int)
  OBVIOUS
<1>3. /\ s \in [0..Len(vals) -> Int] /\ s[0] = 0
      /\ \A n \in 1..Len(vals) : s[n] = s[n - 1] + vals[n]
  BY <1>1, <1>2, SumsAre
<1> DEFINE S == {m \in Nat : m \in 0..Len(vals) => s[m] \in Nat}
<1>4. 0 \in S
  BY <1>3
<1>5. ASSUME NEW m \in Nat, m \in S PROVE m + 1 \in S
  <2> SUFFICES ASSUME m + 1 \in 0..Len(vals) PROVE s[m + 1] \in Nat
    OBVIOUS
  <2>1. m \in 0..Len(vals) /\ m + 1 \in 1..Len(vals) /\ (m + 1) - 1 = m
    OBVIOUS
  <2>2. s[m] \in Nat /\ vals[m + 1] \in Nat
    BY <1>5, <2>1
  <2>3. s[m + 1] = s[m] + vals[m + 1]
    BY <1>3, <2>1
  <2> QED
    BY <2>2, <2>3
<1>6. \A m \in 0..Len(vals) : s[m] \in Nat
  <2>1. \A m \in Nat : m \in S
    <3> HIDE DEF S
    <3> QED
      BY <1>4, <1>5, SetInduction
  <2> QED
    BY <2>1
<1> QED
  BY <1>1, <1>3, <1>6

\* The last number of a sequence is added last.
LEMMA TotalToLast ==
    ASSUME NEW vals \in Seq(Int), NEW rest \in Seq(Int), Len(vals) = Len(rest) + 1,
           \A k \in 1..Len(rest) : vals[k] = rest[k]
    PROVE  Total(vals) = Total(rest) + vals[Len(vals)] /\ Total(rest) \in Int
<1> DEFINE N == Len(rest)
           S == {m \in Nat : m <= N => Sums(vals)[m] = Sums(rest)[m]}
<1>1. N \in Nat /\ Len(vals) = N + 1
  OBVIOUS
<1>2. PICK v : v = Sums(vals)
  OBVIOUS
<1>3. PICK r : r = Sums(rest)
  OBVIOUS
<1>4. /\ v \in [0..(N + 1) -> Int] /\ v[0] = 0
      /\ \A n \in 1..(N + 1) : v[n] = v[n - 1] + vals[n]
  BY <1>1, <1>2, SumsAre
<1>5. /\ r \in [0..N -> Int] /\ r[0] = 0
      /\ \A n \in 1..N : r[n] = r[n - 1] + rest[n]
  BY <1>3, SumsAre
<1>6. 0 \in S
  BY <1>2, <1>3, <1>4, <1>5
<1>7. ASSUME NEW m \in Nat, m \in S PROVE m + 1 \in S
  <2> SUFFICES ASSUME m + 1 <= N PROVE v[m + 1] = r[m + 1]
    BY <1>2, <1>3
  <2> HIDE DEF N
  <2>1. m <= N /\ m + 1 \in 1..N /\ m + 1 \in 1..(N + 1) /\ (m + 1) - 1 = m
    BY <1>1
  <2>2. v[m] = r[m]
    BY <1>2, <1>3, <1>7, <2>1
  <2>3. v[m + 1] = v[m] + vals[m + 1] /\ r[m + 1] = r[m] + rest[m + 1]
    BY <1>4, <1>5, <2>1
  <2>4. vals[m + 1] = rest[m + 1]
    BY <2>1 DEF N
  <2> QED
    BY <2>2, <2>3, <2>4
<1>8. N \in S
  <2> HIDE DEF S
  <2> QED
    BY <1>1, <1>6, <1>7, SetInduction
<1>9. v[N] = r[N] /\ r[N] \in Int
  BY <1>1, <1>2, <1>3, <1>5, <1>8
<1>10. v[N + 1] = v[N] + vals[N + 1]
  <2> HIDE DEF N
  <2>1. N + 1 \in 1..(N + 1) /\ (N + 1) - 1 = N
    BY <1>1
  <2> QED
    BY <1>4, <2>1
<1>11. Total(vals) = v[N + 1] /\ Total(rest) = r[N]
  BY <1>1, <1>2, <1>3 DEF Total
<1> QED
  BY <1>1, <1>9, <1>10, <1>11

\* The first number of a sequence can be added last.
LEMMA TotalFromHead ==
    ASSUME NEW vals \in Seq(Int), NEW rest \in Seq(Int), Len(vals) = Len(rest) + 1,
           \A k \in 1..Len(rest) : vals[k + 1] = rest[k]
    PROVE  Total(vals) = vals[1] + Total(rest)
<1> DEFINE N == Len(rest)
           S == {m \in Nat : m <= N => Sums(vals)[m + 1] = vals[1] + Sums(rest)[m]}
<1>1. N \in Nat /\ vals[1] \in Int /\ Len(vals) = N + 1
  OBVIOUS
<1>2. PICK v : v = Sums(vals)
  OBVIOUS
<1>3. PICK r : r = Sums(rest)
  OBVIOUS
<1>4. /\ v \in [0..(N + 1) -> Int] /\ v[0] = 0
      /\ \A n \in 1..(N + 1) : v[n] = v[n - 1] + vals[n]
  BY <1>1, <1>2, SumsAre
<1>5. /\ r \in [0..N -> Int] /\ r[0] = 0
      /\ \A n \in 1..N : r[n] = r[n - 1] + rest[n]
  BY <1>3, SumsAre
<1> HIDE DEF N
<1>6. 0 \in S
  <2>1. 1 \in 1..(N + 1) /\ 1 - 1 = 0
    BY <1>1
  <2>2. v[1] = vals[1] + r[0]
    BY <1>1, <1>4, <1>5, <2>1
  <2> QED
    BY <1>2, <1>3, <2>2
<1>7. ASSUME NEW m \in Nat, m \in S PROVE m + 1 \in S
  <2> SUFFICES ASSUME m + 1 <= N PROVE v[(m + 1) + 1] = vals[1] + r[m + 1]
    BY <1>2, <1>3
  <2>1. v[m + 1] = vals[1] + r[m]
    BY <1>1, <1>2, <1>3, <1>7
  <2>2. /\ m + 1 \in 1..N /\ (m + 1) - 1 = m /\ m \in 0..N /\ m + 1 \in 0..N
        /\ (m + 1) + 1 \in 1..(N + 1) /\ ((m + 1) + 1) - 1 = m + 1
    BY <1>1
  <2>3. v[(m + 1) + 1] = v[m + 1] + vals[(m + 1) + 1]
    BY <1>4, <2>2
  <2>4. r[m + 1] = r[m] + rest[m + 1] /\ r[m] \in Int
    BY <1>5, <2>2
  <2>5. vals[(m + 1) + 1] = rest[m + 1] /\ rest[m + 1] \in Int
    BY <2>2 DEF N
  <2>6. PICK x \in Int, y \in Int : x = r[m] /\ y = rest[m + 1]
    BY <2>4, <2>5
  <2>7. v[(m + 1) + 1] = (vals[1] + x) + y
    BY <2>1, <2>3, <2>5, <2>6
  <2>8. r[m + 1] = x + y
    BY <2>4, <2>6
  <2>9. (vals[1] + x) + y = vals[1] + (x + y)
    BY <1>1
  <2> QED
    BY <2>7, <2>8, <2>9
<1>8. N \in S
  <2> HIDE DEF S
  <2> QED
    BY <1>1, <1>6, <1>7, SetInduction
<1>9. v[N + 1] = vals[1] + r[N]
  BY <1>1, <1>2, <1>3, <1>8
<1> QED
  BY <1>1, <1>2, <1>3, <1>9 DEF Total, N

\* Where each step goes up, a number below the last is between two steps.
LEMMA Steps ==
    ASSUME NEW N \in Nat, NEW s \in [0..N -> Int], s[0] = 0,
           \A n \in 1..N : s[n - 1] < s[n]
    PROVE  /\ \A m, n \in 0..N : m < n => s[m] < s[n]
           /\ \A x \in Nat : x < s[N] => \E n \in 1..N : s[n - 1] <= x /\ x < s[n]
<1>1. ASSUME NEW m \in 0..N PROVE \A n \in 0..N : m < n => s[m] < s[n]
  <2> DEFINE S == {n \in Nat : n \in 0..N /\ m < n => s[m] < s[n]}
  <2>1. 0 \in S
    OBVIOUS
  <2>2. ASSUME NEW n \in Nat, n \in S PROVE n + 1 \in S
    <3> SUFFICES ASSUME n + 1 \in 0..N, m < n + 1 PROVE s[m] < s[n + 1]
      OBVIOUS
    <3>1. n + 1 \in 1..N /\ (n + 1) - 1 = n /\ n \in 0..N /\ (m = n \/ m < n)
      OBVIOUS
    <3>2. s[n] < s[n + 1]
      BY <3>1
    <3>3. s[m] = s[n] \/ s[m] < s[n]
      BY <2>2, <3>1
    <3>4. s[m] \in Int /\ s[n] \in Int /\ s[n + 1] \in Int
      BY <3>1
    <3> QED
      BY <3>2, <3>3, <3>4
  <2>3. \A n \in Nat : n \in S
    <3> HIDE DEF S
    <3> QED
      BY <2>1, <2>2, SetInduction
  <2> QED
    BY <2>3
<1>2. ASSUME NEW x \in Nat, x < s[N] PROVE \E n \in 1..N : s[n - 1] <= x /\ x < s[n]
  <2> DEFINE T == {n \in 0..N : x < s[n]}
  <2>1. N \in T /\ T \in SUBSET Nat
    BY <1>2
  <2>2. PICK n \in T : \A k \in T : n <= k
    <3> HIDE DEF T
    <3> QED
      BY <2>1, LeastNumber
  <2>3. n # 0
    BY <2>2
  <2>4. n \in 1..N /\ n - 1 \in 0..N /\ n - 1 \notin T
    BY <2>2, <2>3
  <2>5. s[n - 1] <= x
    BY <2>4
  <2> QED
    BY <2>2, <2>4, <2>5
<1> QED
  BY <1>1, <1>2

----------------------------------------------------------------------------
(* Sorted sets.                                                            *)

\* The sequence of a finite set in a strict order is one of its elements, each once: the
\* numbers of elements before them differ, and so each number below the cardinality is one.
LEMMA InOrderLists ==
    ASSUME NEW s, IsFiniteSet(s), NEW before,
           \A x \in s : <<x, x>> \notin before,
           \A x, y \in s : x = y \/ <<x, y>> \in before \/ <<y, x>> \in before,
           \A x, y, z \in s : <<x, y>> \in before /\ <<y, z>> \in before => <<x, z>> \in before
    PROVE  /\ Cardinality(s) \in Nat
           /\ InOrder(s, before) \in [1..Cardinality(s) -> s]
           /\ \A x \in s : \E k \in 1..Cardinality(s) : InOrder(s, before)[k] = x
           /\ \A j, k \in 1..Cardinality(s) : InOrder(s, before)[j] = InOrder(s, before)[k] => j = k
           /\ \A j, k \in 1..Cardinality(s) :
                 <<InOrder(s, before)[j], InOrder(s, before)[k]>> \in before => j < k
<1> DEFINE N == Cardinality(s)
           below(n) == {m \in s : <<m, n>> \in before}
           rank == [n \in s |-> Cardinality(below(n))]
<1>1. N \in Nat
  BY FS_CardinalityType
<1>2. ASSUME NEW n \in s
      PROVE  IsFiniteSet(below(n)) /\ Cardinality(below(n)) \in 0..(N - 1)
  <2>1. below(n) \in SUBSET s /\ below(n) # s
    OBVIOUS
  <2>2. /\ IsFiniteSet(below(n)) /\ Cardinality(below(n)) <= N
        /\ Cardinality(below(n)) # N
    BY <2>1, FS_Subset
  <2>3. Cardinality(below(n)) \in Nat
    BY <2>2, FS_CardinalityType
  <2> QED
    BY <1>1, <2>2, <2>3
<1>3. ASSUME NEW m \in s, NEW n \in s, <<m, n>> \in before
      PROVE  Cardinality(below(m)) < Cardinality(below(n))
  <2>1. below(m) \in SUBSET below(n)
    BY <1>3
  <2>2. m \in below(n) /\ m \notin below(m)
    BY <1>3
  <2>3. /\ Cardinality(below(m)) <= Cardinality(below(n))
        /\ Cardinality(below(m)) # Cardinality(below(n))
    BY <1>2, <2>1, <2>2, FS_Subset
  <2>4. Cardinality(below(m)) \in 0..(N - 1) /\ Cardinality(below(n)) \in 0..(N - 1)
    BY <1>2
  <2> HIDE DEF below
  <2> QED
    BY <2>3, <2>4
<1>4. rank \in Injection(s, 0..(N - 1))
  <2>1. rank \in [s -> 0..(N - 1)]
    BY <1>2
  <2>2. ASSUME NEW m \in s, NEW n \in s, rank[m] = rank[n] PROVE m = n
    <3>1. Cardinality(below(m)) = Cardinality(below(n)) /\ Cardinality(below(m)) \in 0..(N - 1)
      BY <1>2, <2>2
    <3>2. ~ (Cardinality(below(m)) < Cardinality(below(n)))
          /\ ~ (Cardinality(below(n)) < Cardinality(below(m)))
      <4> HIDE DEF below, N
      <4> QED
        BY <1>1, <3>1
    <3> HIDE DEF below, rank
    <3> QED
      BY <1>3, <3>2
  <2> HIDE DEF rank
  <2> QED
    BY <2>1, <2>2 DEF Injection, IsInjective
<1>5. IsFiniteSet(0..(N - 1)) /\ Cardinality(0..(N - 1)) = N
  <2>1. /\ IsFiniteSet(0..(N - 1))
        /\ Cardinality(0..(N - 1)) = IF 0 > N - 1 THEN 0 ELSE (N - 1) - 0 + 1
    <3>1. 0 \in Int /\ N - 1 \in Int
      BY <1>1
    <3> HIDE DEF N
    <3> QED
      BY <3>1, FS_Interval
  <2> QED
    BY <1>1, <2>1
<1>6. rank \in Surjection(s, 0..(N - 1))
  <2> HIDE DEF rank
  <2> QED
    BY <1>4, <1>5, FS_Injection
<1>7. ASSUME NEW k \in 1..N PROVE \E n \in s : Cardinality(below(n)) = k - 1
  <2>1. k - 1 \in 0..(N - 1)
    BY <1>1
  <2>2. PICK n \in s : rank[n] = k - 1
    <3> HIDE DEF rank
    <3> QED
      BY <1>6, <2>1 DEF Surjection
  <2> QED
    BY <2>2
<1>8. PICK f : f = InOrder(s, before)
  OBVIOUS
<1>9. f = [k \in 1..N |-> CHOOSE n \in s : Cardinality(below(n)) = k - 1]
  BY <1>8 DEF InOrder
<1>10. ASSUME NEW k \in 1..N PROVE f[k] \in s /\ Cardinality(below(f[k])) = k - 1
  <2>1. f[k] = CHOOSE n \in s : Cardinality(below(n)) = k - 1
    BY <1>9
  <2> HIDE DEF below
  <2> QED
    BY <1>7, <2>1
<1>11. f \in [1..N -> s]
  <2> HIDE DEF below, N
  <2> QED
    BY <1>9, <1>10
<1>12. ASSUME NEW x \in s PROVE \E k \in 1..N : f[k] = x
  <2>1. Cardinality(below(x)) + 1 \in 1..N /\ (Cardinality(below(x)) + 1) - 1 = Cardinality(below(x))
    <3>1. Cardinality(below(x)) \in 0..(N - 1)
      BY <1>2
    <3> HIDE DEF below, N
    <3> QED
      BY <1>1, <3>1
  <2>2. PICK k \in 1..N : k = Cardinality(below(x)) + 1
    BY <2>1
  <2>3. f[k] \in s /\ Cardinality(below(f[k])) = Cardinality(below(x))
    BY <1>10, <2>1, <2>2
  <2>4. rank[f[k]] = rank[x]
    BY <2>3
  <2>5. f[k] = x
    <3> HIDE DEF rank
    <3> QED
      BY <1>4, <2>3, <2>4 DEF Injection, IsInjective
  <2> QED
    BY <2>5
<1>13. ASSUME NEW j \in 1..N, NEW k \in 1..N, f[j] = f[k] PROVE j = k
  <2>1. j - 1 = k - 1
    <3> HIDE DEF below
    <3> QED
      BY <1>10, <1>13
  <2> QED
    BY <1>1, <2>1
<1>14. ASSUME NEW j \in 1..N, NEW k \in 1..N, <<f[j], f[k]>> \in before PROVE j < k
  <2>1. Cardinality(below(f[j])) < Cardinality(below(f[k]))
    BY <1>3, <1>10, <1>14
  <2>2. j - 1 < k - 1
    <3> HIDE DEF below
    <3> QED
      BY <1>10, <2>1
  <2> QED
    BY <1>1, <2>2
<1> QED
  BY <1>1, <1>8, <1>11, <1>12, <1>13, <1>14

\* A finite set of numbers in its order.
LEMMA IncreasingLists ==
    ASSUME NEW ns \in SUBSET Nat, IsFiniteSet(ns)
    PROVE  /\ Cardinality(ns) \in Nat
           /\ Increasing(ns) \in [1..Cardinality(ns) -> ns]
           /\ \A x \in ns : \E k \in 1..Cardinality(ns) : Increasing(ns)[k] = x
           /\ \A j, k \in 1..Cardinality(ns) : Increasing(ns)[j] = Increasing(ns)[k] => j = k
<1> DEFINE before == {p \in ns \X ns : p[1] < p[2]}
<1>1. \A x, y \in ns : <<x, y>> \in before <=> x < y
  OBVIOUS
<1>2. \A x \in ns : x \in Nat
  OBVIOUS
<1>3. Increasing(ns) = InOrder(ns, before)
  BY DEF Increasing
<1> HIDE DEF before
<1>4. \A x \in ns : <<x, x>> \notin before
  BY <1>1, <1>2
<1>5. \A x, y \in ns : x = y \/ <<x, y>> \in before \/ <<y, x>> \in before
  <2> SUFFICES ASSUME NEW x \in ns, NEW y \in ns PROVE x = y \/ x < y \/ y < x
    BY <1>1
  <2> QED
    BY <1>2
<1>6. \A x, y, z \in ns : <<x, y>> \in before /\ <<y, z>> \in before => <<x, z>> \in before
  <2> SUFFICES ASSUME NEW x \in ns, NEW y \in ns, NEW z \in ns, x < y, y < z PROVE x < z
    BY <1>1
  <2> QED
    BY <1>2
<1>7. /\ Cardinality(ns) \in Nat
      /\ InOrder(ns, before) \in [1..Cardinality(ns) -> ns]
      /\ \A x \in ns : \E k \in 1..Cardinality(ns) : InOrder(ns, before)[k] = x
      /\ \A j, k \in 1..Cardinality(ns) : InOrder(ns, before)[j] = InOrder(ns, before)[k] => j = k
  BY <1>4, <1>5, <1>6, InOrderLists, Zenon
<1> QED
  BY <1>3, <1>7

LEMMA PlaceInAt ==
    ASSUME NEW order, NEW x, \E k \in DOMAIN order : order[k] = x
    PROVE  PlaceIn(order, x) \in DOMAIN order /\ order[PlaceIn(order, x)] = x
BY DEF PlaceIn

----------------------------------------------------------------------------
(* Sums over a set.                                                        *)

OneOf(t) == CHOOSE x \in t : TRUE

\* What MapThenSumSet computes for each subset of s.
Adds(sum, f, s) ==
    \A t \in SUBSET s : sum[t] = IF t = {} THEN 0 ELSE f[OneOf(t)] + sum[t \ {OneOf(t)}]

LEMMA SumSolves ==
    ASSUME NEW s, IsFiniteSet(s), NEW f, \A x \in s : f[x] \in Int
    PROVE  \E sum \in [SUBSET s -> Int] : Adds(sum, f, s) /\ SumOver(f, s) = sum[s]
<1> DEFINE D == SUBSET s
           N == Cardinality(s)
           rank == [t \in D |-> Cardinality(t)]
           body(t, g) == IF t = {} THEN 0 ELSE f[OneOf(t)] + g[t \ {OneOf(t)}]
           step == [p \in D \X [D -> Int] |-> body(p[1], p[2])]
<1>1. ASSUME NEW t \in D
      PROVE  /\ IsFiniteSet(t) /\ Cardinality(t) \in 0..N /\ N \in Nat
             /\ t # {} => /\ OneOf(t) \in t /\ OneOf(t) \in s /\ t \ {OneOf(t)} \in D
                          /\ Cardinality(t \ {OneOf(t)}) < Cardinality(t)
  <2>1. IsFiniteSet(t) /\ Cardinality(t) <= N
    BY FS_Subset
  <2>2. Cardinality(t) \in Nat /\ N \in Nat
    BY <2>1, FS_CardinalityType
  <2>3. ASSUME t # {} PROVE OneOf(t) \in t
    BY <2>3 DEF OneOf
  <2>4. ASSUME t # {} PROVE Cardinality(t \ {OneOf(t)}) < Cardinality(t)
    <3>1. Cardinality(t \ {OneOf(t)}) = Cardinality(t) - 1
      BY <2>1, <2>3, <2>4, FS_RemoveElement
    <3> QED
      BY <2>2, <3>1
  <2>5. Cardinality(t) \in 0..N
    BY <2>1, <2>2
  <2> QED
    BY <2>1, <2>2, <2>3, <2>4, <2>5
<1>2. ASSUME NEW t \in D, NEW g \in [D -> Int] PROVE body(t, g) \in Int
  <2>1. CASE t = {}
    BY <2>1
  <2>2. CASE t # {}
    <3>1. f[OneOf(t)] \in Int /\ g[t \ {OneOf(t)}] \in Int
      BY <1>1, <2>2
    <3> QED
      BY <2>2, <3>1
  <2> QED
    BY <2>1, <2>2
<1>3. step \in [D \X [D -> Int] -> Int]
  <2>1. \A p \in D \X [D -> Int] : p[1] \in D /\ p[2] \in [D -> Int]
    OBVIOUS
  <2> HIDE DEF D, body
  <2>2. \A p \in D \X [D -> Int] : body(p[1], p[2]) \in Int
    BY <1>2, <2>1
  <2> QED
    BY <2>2
<1>4. rank \in [D -> 0..N] /\ N \in Nat
  <2>1. s \in D
    OBVIOUS
  <2>2. \A t \in D : Cardinality(t) \in 0..N /\ N \in Nat
    BY <1>1
  <2> HIDE DEF D, N
  <2> QED
    BY <2>1, <2>2
<1>5. ASSUME NEW t \in D, NEW g \in [D -> Int] PROVE step[<<t, g>>] = body(t, g)
  <2> HIDE DEF D, body
  <2>1. <<t, g>> \in D \X [D -> Int]
    OBVIOUS
  <2> QED
    BY <2>1
<1>6. Local(step, rank, D, Int)
  <2> SUFFICES ASSUME NEW t \in D, NEW g \in [D -> Int], NEW h \in [D -> Int],
                      \A v \in D : rank[v] < rank[t] => g[v] = h[v]
               PROVE  step[<<t, g>>] = step[<<t, h>>]
    BY DEF Local
  <2>1. t # {} => g[t \ {OneOf(t)}] = h[t \ {OneOf(t)}]
    BY <1>1
  <2>2. body(t, g) = body(t, h)
    BY <2>1
  <2> HIDE DEF body, step
  <2> QED
    BY <1>5, <2>2
<1>7. PICK sum \in [D -> Int] : Solves(sum, step, D)
  <2>1. PICK E, X, M, r, st : E = D /\ X = Int /\ M = N /\ r = rank /\ st = step
    OBVIOUS
  <2>2. 0 \in X /\ M \in Nat /\ r \in [E -> 0..M] /\ st \in [E \X [E -> X] -> X] /\ Local(st, r, E, X)
    BY <1>3, <1>4, <1>6, <2>1
  <2>3. \E g \in [E -> X] : Solves(g, st, E)
    BY <2>2, RecursionByRank
  <2> QED
    BY <2>1, <2>3
<1>8. sum = [t \in D |-> body(t, sum)]
  <2>1. \A t \in D : sum[t] = body(t, sum)
    <3> HIDE DEF body, step
    <3> QED
      BY <1>5, <1>7 DEF Solves
  <2> HIDE DEF body
  <2> QED
    BY <2>1
<1>9. PICK iter : iter = [t \in D |-> body(t, iter)] /\ SumOver(f, s) = iter[s]
  <2>1. SumOver(f, s) = (CHOOSE g : g = [t \in SUBSET s |-> IF t = {} THEN 0
                                        ELSE f[CHOOSE x \in t : TRUE] + g[t \ {CHOOSE x \in t : TRUE}]])[s]
    BY Zenon DEF SumOver, MapThenSumSet, MapThenFoldSet
  <2>2. SumOver(f, s) = (CHOOSE g : g = [t \in D |-> body(t, g)])[s]
    BY <2>1, Zenon DEF OneOf
  <2> HIDE DEF body, D
  <2> QED
    BY <1>8, <2>2
<1>10. \A t \in D : iter[t] = body(t, iter)
  <2> HIDE DEF body
  <2> QED
    BY <1>9
<1> DEFINE S == {n \in Nat : \A t \in D : Cardinality(t) = n => iter[t] \in Int}
<1>11. ASSUME NEW n \in Nat, \A m \in Nat : m < n => m \in S PROVE n \in S
  <2> SUFFICES ASSUME NEW t \in D, Cardinality(t) = n PROVE iter[t] \in Int
    OBVIOUS
  <2>1. CASE t = {}
    <3>1. iter[t] = body(t, iter)
      <4> HIDE DEF body
      <4> QED
        BY <1>10
    <3>2. body(t, iter) = 0
      BY <2>1
    <3> QED
      BY <3>1, <3>2
  <2>2. CASE t # {}
    <3>1. PICK r \in D : r = t \ {OneOf(t)} /\ Cardinality(r) < n /\ Cardinality(r) \in Nat
      <4>1. PICK r \in D : r = t \ {OneOf(t)} /\ Cardinality(r) < n
        BY <1>1, <2>2
      <4>2. Cardinality(r) \in 0..N /\ N \in Nat
        BY <1>1
      <4> HIDE DEF N
      <4> QED
        BY <4>1, <4>2
    <3>2. iter[r] \in Int
      BY <1>11, <3>1
    <3>3. f[OneOf(t)] \in Int
      BY <1>1, <2>2
    <3>4. iter[t] = f[OneOf(t)] + iter[r]
      BY <1>10, <2>2, <3>1
    <3> QED
      BY <3>2, <3>3, <3>4
  <2> QED
    BY <2>1, <2>2
<1>12. \A n \in Nat : n \in S
  <2> HIDE DEF S
  <2> QED
    BY <1>11, StrongInduction
<1>13. \A t \in D : iter[t] \in Int
  <2> SUFFICES ASSUME NEW t \in D PROVE iter[t] \in Int
    OBVIOUS
  <2>1. Cardinality(t) \in Nat
    <3>1. Cardinality(t) \in 0..N /\ N \in Nat
      BY <1>1
    <3> HIDE DEF N
    <3> QED
      BY <3>1
  <2> QED
    BY <1>12, <2>1
<1>14. iter \in [D -> Int]
  <2> HIDE DEF D, body
  <2> QED
    BY <1>9, <1>13
<1> QED
  BY <1>9, <1>10, <1>14 DEF Adds

\* The sums of two such functions are equal where the functions are.
LEMMA SumsEqual ==
    ASSUME NEW s, IsFiniteSet(s), NEW t, IsFiniteSet(t), NEW f, NEW g, NEW sf, NEW sg,
           Adds(sf, f, s), Adds(sg, g, t),
           NEW r \in SUBSET s, r \in SUBSET t, \A x \in r : f[x] = g[x]
    PROVE  sf[r] = sg[r]
<1> DEFINE S == {n \in Nat : \A q \in SUBSET r : Cardinality(q) = n => sf[q] = sg[q]}
<1>1. ASSUME NEW n \in Nat, \A m \in Nat : m < n => m \in S PROVE n \in S
  <2> SUFFICES ASSUME NEW q \in SUBSET r, Cardinality(q) = n PROVE sf[q] = sg[q]
    OBVIOUS
  <2>1. /\ sf[q] = IF q = {} THEN 0 ELSE f[OneOf(q)] + sf[q \ {OneOf(q)}]
        /\ sg[q] = IF q = {} THEN 0 ELSE g[OneOf(q)] + sg[q \ {OneOf(q)}]
    BY DEF Adds
  <2>2. CASE q = {}
    BY <2>1, <2>2
  <2>3. CASE q # {}
    <3>1. OneOf(q) \in q
      BY <2>3 DEF OneOf
    <3>2. IsFiniteSet(q)
      BY FS_Subset
    <3>3. PICK p \in SUBSET r : p = q \ {OneOf(q)}
      OBVIOUS
    <3>4. IsFiniteSet(p) /\ Cardinality(p) = n - 1
      BY <3>1, <3>2, <3>3, FS_RemoveElement
    <3>5. Cardinality(p) \in Nat
      BY <3>4, FS_CardinalityType
    <3>6. sf[p] = sg[p]
      BY <1>1, <3>4, <3>5
    <3>7. f[OneOf(q)] = g[OneOf(q)]
      BY <3>1
    <3> QED
      BY <2>1, <2>3, <3>3, <3>6, <3>7
  <2> QED
    BY <2>2, <2>3
<1>2. \A n \in Nat : n \in S
  <2> HIDE DEF S
  <2> QED
    BY <1>1, StrongInduction
<1>3. Cardinality(r) \in Nat
  BY FS_Subset, FS_CardinalityType
<1> QED
  BY <1>2, <1>3

LEMMA SumSame ==
    ASSUME NEW s, IsFiniteSet(s), NEW f, NEW g, \A x \in s : f[x] \in Int /\ f[x] = g[x]
    PROVE  SumOver(f, s) = SumOver(g, s)
<1>1. PICK sf : Adds(sf, f, s) /\ SumOver(f, s) = sf[s]
  BY SumSolves
<1>2. PICK sg : Adds(sg, g, s) /\ SumOver(g, s) = sg[s]
  BY SumSolves
<1> QED
  BY <1>1, <1>2, SumsEqual

\* A sum without one of its elements.
LEMMA SumWithout ==
    ASSUME NEW s, IsFiniteSet(s), NEW f, \A x \in s : f[x] \in Int, NEW x \in s
    PROVE  /\ SumOver(f, s) = f[x] + SumOver(f, s \ {x})
           /\ SumOver(f, s) \in Int /\ SumOver(f, s \ {x}) \in Int
<1>1. PICK sum \in [SUBSET s -> Int] : Adds(sum, f, s) /\ SumOver(f, s) = sum[s]
  BY SumSolves
<1> DEFINE S == {n \in Nat : \A t \in SUBSET s : Cardinality(t) = n =>
                               \A y \in t : sum[t] = f[y] + sum[t \ {y}]}
<1>2. ASSUME NEW n \in Nat, \A m \in Nat : m < n => m \in S PROVE n \in S
  <2> SUFFICES ASSUME NEW t \in SUBSET s, Cardinality(t) = n, NEW y \in t
               PROVE  sum[t] = f[y] + sum[t \ {y}]
    OBVIOUS
  <2>1. PICK z : z = OneOf(t)
    OBVIOUS
  <2>2. z \in t /\ sum[t] = f[z] + sum[t \ {z}]
    BY <1>1, <2>1 DEF Adds, OneOf
  <2>3. CASE y = z
    BY <2>2, <2>3
  <2>4. CASE y # z
    <3>1. PICK p \in SUBSET s : p = t \ {y}
      OBVIOUS
    <3>2. PICK q \in SUBSET s : q = t \ {z}
      OBVIOUS
    <3>3. PICK r \in SUBSET s : r = (t \ {y}) \ {z}
      OBVIOUS
    <3>4. IsFiniteSet(t) /\ IsFiniteSet(p) /\ IsFiniteSet(q)
      BY FS_Subset
    <3>5. Cardinality(p) = n - 1 /\ Cardinality(q) = n - 1
      BY <2>2, <3>1, <3>2, <3>4, FS_RemoveElement
    <3>6. Cardinality(p) \in Nat
      BY <3>4, FS_CardinalityType
    <3>7. n - 1 \in S
      BY <1>2, <3>5, <3>6
    <3>8. z \in p /\ p \ {z} = r /\ y \in q /\ q \ {y} = r
      BY <2>2, <2>4, <3>1, <3>2, <3>3
    <3>9. sum[p] = f[z] + sum[r] /\ sum[q] = f[y] + sum[r]
      BY <3>5, <3>7, <3>8
    <3>10. f[z] \in Int /\ f[y] \in Int /\ sum[r] \in Int
      BY <1>1, <2>2
    <3>11. sum[t] = f[z] + sum[q]
      BY <2>2, <3>2
    <3>12. sum[t] = f[y] + sum[p]
      BY <3>9, <3>10, <3>11
    <3> QED
      BY <3>1, <3>12
  <2> QED
    BY <2>3, <2>4
<1>3. \A n \in Nat : n \in S
  <2> HIDE DEF S
  <2> QED
    BY <1>2, StrongInduction
<1>4. sum[s] = f[x] + sum[s \ {x}]
  <2>1. Cardinality(s) \in Nat
    BY FS_CardinalityType
  <2> QED
    BY <1>3, <2>1
<1>5. PICK r \in SUBSET s : r = s \ {x}
  OBVIOUS
<1>6. IsFiniteSet(r) /\ \A y \in r : f[y] \in Int
  BY FS_Subset
<1>7. PICK sr \in [SUBSET r -> Int] : Adds(sr, f, r) /\ SumOver(f, r) = sr[r]
  BY <1>6, SumSolves
<1>8. sr[r] = sum[r]
  BY <1>1, <1>6, <1>7, SumsEqual
<1> QED
  BY <1>1, <1>4, <1>5, <1>7, <1>8

LEMMA SumOfNone ==
    ASSUME NEW f
    PROVE  SumOver(f, {}) = 0
<1>1. IsFiniteSet({}) /\ \A x \in {} : f[x] \in Int
  BY FS_EmptySet
<1>2. PICK sum : Adds(sum, f, {}) /\ SumOver(f, {}) = sum[{}]
  BY <1>1, SumSolves
<1>3. sum[{}] = 0
  BY <1>2 DEF Adds
<1> QED
  BY <1>2, <1>3

LEMMA SumOfOne ==
    ASSUME NEW x, NEW f, f[x] \in Int
    PROVE  SumOver(f, {x}) = f[x]
<1>1. IsFiniteSet({x}) /\ x \in {x} /\ {x} \ {x} = {}
  BY FS_Singleton
<1>2. SumOver(f, {x}) = f[x] + SumOver(f, {x} \ {x})
  BY <1>1, SumWithout
<1> QED
  BY <1>1, <1>2, SumOfNone

----------------------------------------------------------------------------
(* Folds over a set, an element picked at a time.                          *)

\* A part of a finite set is finite, and smaller without one of its elements.
LEMMA SmallerSubset ==
    ASSUME NEW s, IsFiniteSet(s), NEW t \in SUBSET s
    PROVE  /\ Cardinality(s) \in Nat /\ Cardinality(t) \in 0..Cardinality(s)
           /\ \A x \in t : /\ t \ {x} \in SUBSET s
                           /\ Cardinality(t \ {x}) \in Nat
                           /\ Cardinality(t \ {x}) < Cardinality(t)
<1>1. IsFiniteSet(t) /\ Cardinality(t) <= Cardinality(s)
  BY FS_Subset
<1>2. Cardinality(t) \in Nat /\ Cardinality(s) \in Nat
  BY <1>1, FS_CardinalityType
<1>3. ASSUME NEW x \in t
      PROVE  Cardinality(t \ {x}) \in Nat /\ Cardinality(t \ {x}) < Cardinality(t)
  <2>1. Cardinality(t \ {x}) = Cardinality(t) - 1 /\ IsFiniteSet(t \ {x})
    BY <1>1, FS_RemoveElement
  <2>2. Cardinality(t \ {x}) \in Nat
    BY <2>1, FS_CardinalityType
  <2> QED
    BY <1>2, <2>1, <2>2
<1> QED
  BY <1>1, <1>2, <1>3

\* An element of each subset that has one.
Picks(pick, s) == \A t \in SUBSET s : t # {} => pick[t] \in t

\* h has what a fold with op has for each subset of s.
FoldsTo(h, s, base, pick, op) ==
    \A t \in SUBSET s : h[t] = IF t = {} THEN base ELSE op[<<pick[t], h[t \ {pick[t]}]>>]

\* A fold has a value for each subset.
LEMMA FoldSolves ==
    ASSUME NEW s, IsFiniteSet(s), NEW X, NEW base \in X, NEW pick, Picks(pick, s),
           NEW op \in [s \X X -> X]
    PROVE  \E h \in [SUBSET s -> X] : FoldsTo(h, s, base, pick, op)
<1> DEFINE D == SUBSET s
           N == Cardinality(s)
           rank == [t \in D |-> Cardinality(t)]
           body(t, g) == IF t = {} THEN base ELSE op[<<pick[t], g[t \ {pick[t]}]>>]
           step == [p \in D \X [D -> X] |-> body(p[1], p[2])]
<1>1. ASSUME NEW t \in D
      PROVE  /\ N \in Nat /\ Cardinality(t) \in 0..N
             /\ t # {} => /\ pick[t] \in s /\ t \ {pick[t]} \in D
                          /\ Cardinality(t \ {pick[t]}) < Cardinality(t)
  BY SmallerSubset DEF Picks
<1>2. ASSUME NEW t \in D, NEW g \in [D -> X] PROVE body(t, g) \in X
  <2>1. CASE t = {}
    BY <2>1
  <2>2. CASE t # {}
    <3>1. pick[t] \in s /\ g[t \ {pick[t]}] \in X
      BY <1>1, <2>2
    <3> QED
      BY <2>2, <3>1
  <2> QED
    BY <2>1, <2>2
<1>3. step \in [D \X [D -> X] -> X]
  <2>1. \A p \in D \X [D -> X] : p[1] \in D /\ p[2] \in [D -> X]
    OBVIOUS
  <2> HIDE DEF D, body
  <2>2. \A p \in D \X [D -> X] : body(p[1], p[2]) \in X
    BY <1>2, <2>1
  <2> QED
    BY <2>2
<1>4. rank \in [D -> 0..N] /\ N \in Nat
  <2>1. s \in D
    OBVIOUS
  <2>2. \A t \in D : Cardinality(t) \in 0..N /\ N \in Nat
    BY <1>1
  <2> HIDE DEF D, N
  <2> QED
    BY <2>1, <2>2
<1>5. ASSUME NEW t \in D, NEW g \in [D -> X] PROVE step[<<t, g>>] = body(t, g)
  <2> HIDE DEF D, body
  <2>1. <<t, g>> \in D \X [D -> X]
    OBVIOUS
  <2> QED
    BY <2>1
<1>6. Local(step, rank, D, X)
  <2> SUFFICES ASSUME NEW t \in D, NEW g \in [D -> X], NEW h \in [D -> X],
                      \A v \in D : rank[v] < rank[t] => g[v] = h[v]
               PROVE  step[<<t, g>>] = step[<<t, h>>]
    BY DEF Local
  <2>1. t # {} => g[t \ {pick[t]}] = h[t \ {pick[t]}]
    BY <1>1
  <2>2. body(t, g) = body(t, h)
    BY <2>1
  <2> HIDE DEF body, step
  <2> QED
    BY <1>5, <2>2
<1>7. PICK h \in [D -> X] : Solves(h, step, D)
  <2>1. PICK E, M, r, st : E = D /\ M = N /\ r = rank /\ st = step
    OBVIOUS
  <2>2. M \in Nat /\ r \in [E -> 0..M] /\ st \in [E \X [E -> X] -> X] /\ Local(st, r, E, X)
    BY <1>3, <1>4, <1>6, <2>1
  <2>3. \E g \in [E -> X] : Solves(g, st, E)
    BY <2>2, RecursionByRank
  <2> QED
    BY <2>1, <2>3
<1>8. \A t \in D : h[t] = body(t, h)
  <2> HIDE DEF body, step
  <2> QED
    BY <1>5, <1>7 DEF Solves
<1> QED
  BY <1>7, <1>8 DEF FoldsTo

\* What holds of a fold of nothing, and of a fold if of that of an element less, holds of all.
LEMMA FoldInduction ==
    ASSUME NEW s, IsFiniteSet(s), NEW X, NEW pick, \A t \in SUBSET s : t # {} => pick[t] \in t,
           NEW h, h[{}] \in X,
           \A t \in SUBSET s : t # {} /\ h[t \ {pick[t]}] \in X => h[t] \in X
    PROVE  \A t \in SUBSET s : h[t] \in X
<1> DEFINE S == {n \in Nat : \A t \in SUBSET s : Cardinality(t) = n => h[t] \in X}
<1>1. ASSUME NEW n \in Nat, \A m \in Nat : m < n => m \in S PROVE n \in S
  <2> SUFFICES ASSUME NEW t \in SUBSET s, Cardinality(t) = n PROVE h[t] \in X
    OBVIOUS
  <2>1. CASE t = {}
    BY <2>1
  <2>2. CASE t # {}
    <3>1. PICK r \in SUBSET s : r = t \ {pick[t]} /\ Cardinality(r) \in Nat /\ Cardinality(r) < n
      <4>1. pick[t] \in t /\ t \ {pick[t]} \in SUBSET s
        BY <2>2
      <4>2. Cardinality(t \ {pick[t]}) \in Nat /\ Cardinality(t \ {pick[t]}) < Cardinality(t)
        BY <4>1, SmallerSubset
      <4> QED
        BY <4>1, <4>2
    <3>2. h[r] \in X
      BY <1>1, <3>1
    <3> QED
      BY <2>2, <3>1, <3>2
  <2> QED
    BY <2>1, <2>2
<1>2. \A n \in Nat : n \in S
  <2> HIDE DEF S
  <2> QED
    BY <1>1, StrongInduction
<1> SUFFICES ASSUME NEW t \in SUBSET s PROVE h[t] \in X
  OBVIOUS
<1>3. Cardinality(t) \in Nat
  BY SmallerSubset
<1> QED
  BY <1>2, <1>3
=============================================================================

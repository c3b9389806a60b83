--------------------------- MODULE CaloricProofs ---------------------------
(***************************************************************************)
(* Proofs about the caloric-connector walk, for every function that LLVM   *)
(* and the profiler can hand it: its types, its buddy sets are disjoint,   *)
(* and it implements the partition that BuddyPartition states.  The loops  *)
(* over predecessors and buddy sets, in whatever order they run, compute   *)
(* the coarsest partition that splits no buddy set of a predecessor.       *)
(***************************************************************************)
EXTENDS Caloric, SequenceTheorems, TLAPS

----------------------------------------------------------------------------
(* Sequences of pairwise disjoint sets.                                    *)

\* No member of s meets a member of t.
Apart(s, t) == \A m \in DOMAIN s, n \in DOMAIN t : s[m] \cap t[n] = {}

\* A concatenation is disjoint exactly when its parts are and do not meet.
LEMMA DisjointConcat ==
    ASSUME NEW S, NEW s \in Seq(SUBSET S), NEW t \in Seq(SUBSET S)
    PROVE  Disjoint(s \o t) <=> Disjoint(s) /\ Disjoint(t) /\ Apart(s, t)
<1>1. /\ s \o t \in Seq(SUBSET S)
      /\ DOMAIN (s \o t) = 1..(Len(s) + Len(t))
      /\ \A k \in 1..(Len(s) + Len(t)) :
            (s \o t)[k] = IF k <= Len(s) THEN s[k] ELSE t[k - Len(s)]
  BY ConcatProperties, LenProperties
<1>2. Len(s) \in Nat /\ Len(t) \in Nat /\ DOMAIN s = 1..Len(s) /\ DOMAIN t = 1..Len(t)
  BY LenProperties
<1>3. ASSUME Disjoint(s \o t) PROVE Disjoint(s) /\ Disjoint(t) /\ Apart(s, t)
  <2>1. Disjoint(s)
    BY <1>1, <1>2, <1>3 DEF Disjoint
  <2>2. ASSUME NEW m \in DOMAIN t, NEW n \in DOMAIN t, m # n PROVE t[m] \cap t[n] = {}
    <3>1. /\ m + Len(s) \in DOMAIN (s \o t) /\ n + Len(s) \in DOMAIN (s \o t)
          /\ m + Len(s) # n + Len(s)
          /\ (s \o t)[m + Len(s)] = t[m] /\ (s \o t)[n + Len(s)] = t[n]
      BY <1>1, <1>2, <2>2
    <3> QED BY <3>1, <1>3 DEF Disjoint
  <2>3. ASSUME NEW m \in DOMAIN s, NEW n \in DOMAIN t PROVE s[m] \cap t[n] = {}
    <3>1. /\ m \in DOMAIN (s \o t) /\ n + Len(s) \in DOMAIN (s \o t)
          /\ m # n + Len(s)
          /\ (s \o t)[m] = s[m] /\ (s \o t)[n + Len(s)] = t[n]
      BY <1>1, <1>2
    <3> QED BY <3>1, <1>3 DEF Disjoint
  <2> QED BY <2>1, <2>2, <2>3 DEF Disjoint, Apart
<1>4. ASSUME Disjoint(s), Disjoint(t), Apart(s, t) PROVE Disjoint(s \o t)
  <2> SUFFICES ASSUME NEW m \in 1..(Len(s) + Len(t)), NEW n \in 1..(Len(s) + Len(t)), m # n
               PROVE  (s \o t)[m] \cap (s \o t)[n] = {}
    BY <1>1 DEF Disjoint
  <2>1. CASE m <= Len(s) /\ n <= Len(s)
    BY <1>1, <1>2, <1>4, <2>1 DEF Disjoint
  <2>2. CASE m <= Len(s) /\ n > Len(s)
    BY <1>1, <1>2, <1>4, <2>2 DEF Apart
  <2>3. CASE m > Len(s) /\ n <= Len(s)
    BY <1>1, <1>2, <1>4, <2>3 DEF Apart
  <2>4. CASE m > Len(s) /\ n > Len(s)
    <3>1. /\ m - Len(s) \in DOMAIN t /\ n - Len(s) \in DOMAIN t
          /\ m - Len(s) # n - Len(s)
      BY <1>2, <2>4
    <3>2. (s \o t)[m] = t[m - Len(s)] /\ (s \o t)[n] = t[n - Len(s)]
      BY <1>1, <1>2, <2>4
    <3> QED BY <3>1, <3>2, <1>4 DEF Disjoint
  <2> QED BY <1>2, <2>1, <2>2, <2>3, <2>4
<1> QED BY <1>3, <1>4

\* A set that meets no member can be appended.
LEMMA DisjointAppend ==
    ASSUME NEW S, NEW s \in Seq(SUBSET S), NEW x \in SUBSET S,
           Disjoint(s), \A m \in DOMAIN s : s[m] \cap x = {}
    PROVE  Disjoint(Append(s, x))
<1>1. /\ DOMAIN Append(s, x) = 1..(Len(s) + 1)
      /\ \A k \in 1..Len(s) : Append(s, x)[k] = s[k]
      /\ Append(s, x)[Len(s) + 1] = x
  BY AppendProperties, LenProperties
<1>2. Len(s) \in Nat /\ DOMAIN s = 1..Len(s)
  BY LenProperties
<1> QED BY <1>1, <1>2 DEF Disjoint

\* Adding x to each member of a sequence of sets.
LEMMA JoinAll ==
    ASSUME NEW S, NEW s \in Seq(SUBSET S), NEW x \in SUBSET S
    PROVE  /\ [k \in DOMAIN s |-> s[k] \cup x] \in Seq(SUBSET S)
           /\ DOMAIN [k \in DOMAIN s |-> s[k] \cup x] = DOMAIN s
           /\ \A k \in DOMAIN s : [m \in DOMAIN s |-> s[m] \cup x][k] = s[k] \cup x
<1>1. Len(s) \in Nat /\ DOMAIN s = 1..Len(s) /\ \A k \in 1..Len(s) : s[k] \in SUBSET S
  BY LenProperties
<1>2. [k \in 1..Len(s) |-> s[k] \cup x] \in [1..Len(s) -> SUBSET S]
  BY <1>1
<1>3. [k \in 1..Len(s) |-> s[k] \cup x] \in Seq(SUBSET S)
  BY <1>1, <1>2
<1> QED BY <1>1, <1>3

----------------------------------------------------------------------------
(* The inductive invariant.                                                *)

\* A block the walk has not entered has no buddy sets: what is pushed while the
\* block is walked is all there is.
Untouched ==
    /\ pc = "profile" => \A b \in Blocks : BuddySet[b] = << >>
    /\ \A n \in DOMAIN fn.rpo :
          n > pos \/ (n = pos /\ pc \in {"profile", "block"}) => BuddySet[fn.rpo[n]] = << >>

\* What a block in progress holds, the split-off sets included, is disjoint and
\* within alreadyInSets, so paths outside alreadyInSets are new to all of them.
InProgress ==
    /\ pc # "split" => toPush = << >>
    /\ pc \in {"pred", "buddy", "split"} =>
        /\ alreadyInSets \subseteq HotPathSet[BB]
        /\ IncubationPath \subseteq HotPathSet[BB]
        /\ \A m \in DOMAIN Buddies : Buddies[m] \subseteq alreadyInSets
        /\ \A m \in DOMAIN toPush : toPush[m] \subseteq alreadyInSets
        /\ Disjoint(Buddies) /\ Disjoint(toPush) /\ Apart(Buddies, toPush)

WalkInv == /\ fn \in Programs
           /\ TypeOK
           /\ Untouched
           /\ InProgress

LEMMA GraphFacts ==
    ASSUME fn \in Programs
    PROVE  /\ fn.entry \in Blocks
           /\ fn.rpo \in Seq(Blocks)
           /\ Len(fn.rpo) \in Nat /\ Len(fn.rpo) > 0
           /\ DOMAIN fn.rpo = 1..Len(fn.rpo)
           /\ \A n \in DOMAIN fn.rpo : fn.rpo[n] \in Blocks
           /\ fn.rpo[1] = fn.entry
           /\ \A m, n \in DOMAIN fn.rpo : fn.rpo[m] = fn.rpo[n] => m = n
           /\ \A b \in Blocks : PredEdges(fn, b) \subseteq Edges(fn)
           /\ \A e \in Edges(fn) : e[1] \in Blocks
  BY ProgramsAssumption DEF WellFormedGraph, PredEdges, Edges

LEMMA ProfileFacts ==
    ProfileOf(fn) \in [Blocks -> SUBSET DOMAIN fn.paths]
  BY DEF ProfileOf

LEMMA InitWalkInv == Init => WalkInv
<1> SUFFICES ASSUME Init PROVE WalkInv
  OBVIOUS
<1>1. /\ fn \in Programs /\ fn.entry \in Blocks
      /\ DOMAIN fn.rpo = 1..Len(fn.rpo) /\ \A n \in DOMAIN fn.rpo : fn.rpo[n] \in Blocks
  BY GraphFacts DEF Init
<1>2. BuddySet \in [Blocks -> Seq(SUBSET DOMAIN fn.paths)] /\ toPush \in Seq(SUBSET DOMAIN fn.paths)
  BY DEF Init
<1>3. \A b \in Blocks : BuddySet[b] = << >> /\ DOMAIN BuddySet[b] = {}
  BY DEF Init
<1>4. TypeOK
  <2>1. \A b \in Blocks : \A k \in DOMAIN BuddySet[b] : BuddySet[b][k] \subseteq HotPathSet[b]
    BY <1>3
  <2>2. HotPathSet \in [Blocks -> SUBSET DOMAIN fn.paths]
    BY DEF Init
  <2>3. hasColdPath \in BOOLEAN
    BY DEF Init
  <2>4. pos \in Nat \ {0} /\ j \in Nat \ {0} /\ i \in Nat \ {0}
    BY DEF Init
  <2> QED BY <1>1, <1>2, <2>1, <2>2, <2>3, <2>4, Zenon DEF TypeOK, Init
<1>5. Untouched
  BY <1>1, <1>3 DEF Untouched
<1>6. InProgress
  BY DEF Init, InProgress
<1> QED BY <1>1, <1>4, <1>5, <1>6 DEF WalkInv

(***************************************************************************)
(* One lemma per action.                                                   *)
(***************************************************************************)
LEMMA ProfileStep == WalkInv /\ getProfileInfo => WalkInv'
<1> SUFFICES ASSUME WalkInv, getProfileInfo PROVE WalkInv'
  OBVIOUS
<1> USE DEF WalkInv, getProfileInfo, locals
<1>1. \A b \in Blocks : BuddySet[b] = << >> /\ DOMAIN BuddySet[b] = {}
  BY DEF Untouched
<1>2. TypeOK'
  <2>1. (\A b \in Blocks : \A k \in DOMAIN BuddySet[b] : BuddySet[b][k] \subseteq HotPathSet[b])'
    BY <1>1
  <2>2. (HotPathSet \in [Blocks -> SUBSET DOMAIN fn.paths])'
    BY ProfileFacts
  <2> QED BY <2>1, <2>2, Zenon DEF TypeOK
<1>3. Untouched'
  BY <1>1, GraphFacts DEF Untouched
<1>4. InProgress'
  BY DEF InProgress
<1> QED BY <1>2, <1>3, <1>4

LEMMA EntryBlockStep == WalkInv /\ EntryBlock => WalkInv'
<1> SUFFICES ASSUME WalkInv, EntryBlock PROVE WalkInv'
  OBVIOUS
<1> USE DEF WalkInv, EntryBlock
<1>1. /\ BB \in Blocks /\ pos \in Nat \ {0} /\ pc = "block"
      /\ BuddySet \in [Blocks -> Seq(SUBSET DOMAIN fn.paths)]
      /\ HotPathSet \in [Blocks -> SUBSET DOMAIN fn.paths]
  BY GraphFacts DEF TypeOK, BB
<1>2. /\ BuddySet' \in [Blocks -> Seq(SUBSET DOMAIN fn.paths)]
      /\ \A b \in Blocks \ {BB} : BuddySet'[b] = BuddySet[b]
      /\ BuddySet'[BB] = Append(BuddySet[BB], HotPathSet[BB])
  <2>1. Append(BuddySet[BB], HotPathSet[BB]) \in Seq(SUBSET DOMAIN fn.paths)
    BY <1>1, AppendProperties
  <2> QED BY <1>1, <2>1
<1>3. \A k \in DOMAIN BuddySet'[BB] : BuddySet'[BB][k] \subseteq HotPathSet[BB]
  <2>1. \A k \in DOMAIN BuddySet[BB] : BuddySet[BB][k] \subseteq HotPathSet[BB]
    BY <1>1 DEF TypeOK
  <2> QED BY <1>1, <1>2, <2>1, AppendProperties, LenProperties
<1>4. TypeOK'
  <2>1. (\A b \in Blocks : \A k \in DOMAIN BuddySet[b] : BuddySet[b][k] \subseteq HotPathSet[b])'
    BY <1>2, <1>3 DEF TypeOK
  <2>2. (allPaths \subseteq DOMAIN fn.paths /\ IncubationPath \subseteq DOMAIN fn.paths)'
    BY <1>1 DEF TypeOK
  <2>3. (pos \in Nat \ {0})'
    BY <1>1
  <2> QED BY <1>1, <1>2, <2>1, <2>2, <2>3, Zenon DEF TypeOK
<1>5. Untouched'
  <2> SUFFICES ASSUME NEW n \in DOMAIN fn.rpo, n > pos PROVE BuddySet'[fn.rpo[n]] = << >>
    BY <1>1, GraphFacts DEF Untouched
  <2>1. n \in Nat /\ n # pos /\ fn.rpo[n] \in Blocks /\ fn.rpo[n] # BB
    BY <1>1, GraphFacts DEF BB
  <2>2. BuddySet[fn.rpo[n]] = << >>
    BY DEF Untouched
  <2> QED BY <2>1, <2>2, <1>2
<1>6. InProgress'
  BY <1>1 DEF InProgress
<1> QED BY <1>4, <1>5, <1>6

LEMMA EnterBlockStep == WalkInv /\ EnterBlock => WalkInv'
<1> SUFFICES ASSUME WalkInv, EnterBlock PROVE WalkInv'
  OBVIOUS
<1> USE DEF WalkInv, EnterBlock
<1>1. /\ BB \in Blocks /\ pos \in Nat \ {0} /\ pc = "block" /\ BB' = BB
      /\ HotPathSet \in [Blocks -> SUBSET DOMAIN fn.paths]
  BY GraphFacts DEF TypeOK, BB
<1>2. Buddies' = << >> /\ DOMAIN Buddies' = {}
  BY <1>1 DEF Untouched, BB, Buddies
<1>3. toPush' = << >> /\ DOMAIN toPush' = {}
  BY <1>1 DEF InProgress
<1>4. TypeOK'
  <2>1. (allPaths \subseteq DOMAIN fn.paths /\ IncubationPath \subseteq DOMAIN fn.paths)'
    BY <1>1 DEF TypeOK
  <2>2. (preds \subseteq Edges(fn))'
    BY <1>1, GraphFacts
  <2>3. (hasColdPath \in BOOLEAN)'
    OBVIOUS
  <2>4. (alreadyInSets \subseteq DOMAIN fn.paths)'
    OBVIOUS
  <2> QED BY <1>1, <2>1, <2>2, <2>3, <2>4, Zenon DEF TypeOK
<1>5. Untouched'
  BY <1>1, GraphFacts DEF Untouched
<1>6. InProgress'
  BY <1>1, <1>2, <1>3 DEF InProgress, Disjoint, Apart
<1> QED BY <1>4, <1>5, <1>6

\* The facts every action on a block in progress starts from.
LEMMA WalkFacts ==
    ASSUME WalkInv, pc \in {"pred", "buddy", "split"}
    PROVE  /\ BB \in Blocks /\ pos \in Nat \ {0} /\ pos \in DOMAIN fn.rpo /\ pred \in Blocks
           /\ BuddySet \in [Blocks -> Seq(SUBSET DOMAIN fn.paths)]
           /\ HotPathSet \in [Blocks -> SUBSET DOMAIN fn.paths]
           /\ Buddies = BuddySet[BB] /\ Buddies \in Seq(SUBSET DOMAIN fn.paths)
           /\ \A k \in DOMAIN Buddies : Buddies[k] \subseteq HotPathSet[BB]
           /\ alreadyInSets \subseteq HotPathSet[BB]
           /\ IncubationPath \subseteq HotPathSet[BB]
           /\ HotPathSet[BB] \subseteq DOMAIN fn.paths
<1>1. /\ BB \in Blocks /\ pos \in Nat \ {0} /\ pos \in DOMAIN fn.rpo /\ pred \in Blocks
      /\ BuddySet \in [Blocks -> Seq(SUBSET DOMAIN fn.paths)]
      /\ HotPathSet \in [Blocks -> SUBSET DOMAIN fn.paths]
  BY GraphFacts DEF WalkInv, TypeOK, BB
<1> QED BY <1>1 DEF WalkInv, TypeOK, InProgress, Buddies

\* Changing only the block in progress leaves the blocks ahead of it untouched.
LEMMA StillUntouched ==
    ASSUME WalkInv, pc \in {"pred", "buddy", "split"}, UNCHANGED fn,
           \A b \in Blocks \ {BB} : BuddySet'[b] = BuddySet[b],
           \/ pos' = pos /\ pc' \in {"pred", "buddy", "split"}
           \/ pos' = pos + 1 /\ pc' = "block"
    PROVE  Untouched'
<1>a. pos \in Nat \ {0} /\ pos \in DOMAIN fn.rpo
  BY WalkFacts
<1>b. fn \in Programs
  BY DEF WalkInv
<1>c. /\ DOMAIN fn.rpo = 1..Len(fn.rpo) /\ \A n \in DOMAIN fn.rpo : fn.rpo[n] \in Blocks
      /\ \A m, n \in DOMAIN fn.rpo : fn.rpo[m] = fn.rpo[n] => m = n
  BY <1>b, GraphFacts
<1> SUFFICES ASSUME NEW n \in DOMAIN fn.rpo, n > pos PROVE BuddySet'[fn.rpo[n]] = << >>
  BY <1>a, <1>c DEF Untouched
<1>1. n \in Nat /\ n # pos /\ fn.rpo[n] \in Blocks /\ fn.rpo[n] # BB
  BY <1>a, <1>c DEF BB
<1>2. BuddySet[fn.rpo[n]] = << >>
  BY DEF Untouched, WalkInv
<1> QED BY <1>1, <1>2

LEMMA LeaveBlockStep == WalkInv /\ LeaveBlock => WalkInv'
<1> SUFFICES ASSUME WalkInv, LeaveBlock PROVE WalkInv'
  OBVIOUS
<1> USE DEF LeaveBlock, locals
<1> DEFINE joined == [k \in DOMAIN Buddies |-> Buddies[k] \cup IncubationPath]
<1>1. /\ pc = "pred" /\ joined \in Seq(SUBSET DOMAIN fn.paths)
      /\ \A k \in DOMAIN joined : joined[k] \subseteq HotPathSet[BB]
  <2>1. /\ pc = "pred" /\ Buddies \in Seq(SUBSET DOMAIN fn.paths)
        /\ IncubationPath \in SUBSET DOMAIN fn.paths
        /\ IncubationPath \subseteq HotPathSet[BB]
        /\ \A k \in DOMAIN Buddies : Buddies[k] \subseteq HotPathSet[BB]
    BY WalkFacts
  <2> QED BY <2>1, JoinAll
<1>2. /\ BuddySet' \in [Blocks -> Seq(SUBSET DOMAIN fn.paths)]
      /\ \A b \in Blocks \ {BB} : BuddySet'[b] = BuddySet[b]
      /\ BuddySet'[BB] = joined
  <2> HIDE DEF joined
  <2>1. BuddySet' = [BuddySet EXCEPT ![BB] = joined]
    BY WalkFacts, <1>1 DEF joined
  <2> QED BY <1>1, <2>1, WalkFacts
<1> HIDE DEF joined
<1>3. TypeOK'
  <2>1. (\A b \in Blocks : \A k \in DOMAIN BuddySet[b] : BuddySet[b][k] \subseteq HotPathSet[b])'
    BY <1>1, <1>2 DEF TypeOK, WalkInv
  <2>2. (isCaloric \subseteq Blocks)'
    BY WalkFacts, <1>1 DEF TypeOK, WalkInv
  <2>3. (pos \in Nat \ {0})'
    BY WalkFacts, <1>1
  <2> QED BY <1>1, <1>2, <2>1, <2>2, <2>3, Zenon DEF TypeOK, WalkInv
<1>4. Untouched'
  BY <1>1, <1>2, StillUntouched
<1>5. InProgress'
  BY <1>1 DEF InProgress, WalkInv
<1> QED BY <1>3, <1>4, <1>5 DEF WalkInv

LEMMA ReturnStep == WalkInv /\ Return => WalkInv'
<1> SUFFICES ASSUME WalkInv, Return PROVE WalkInv'
  OBVIOUS
<1> USE DEF WalkInv, Return, locals
<1>1. TypeOK'
  BY Zenon DEF TypeOK
<1>2. Untouched'
  BY DEF Untouched
<1>3. InProgress'
  BY DEF InProgress
<1> QED BY <1>1, <1>2, <1>3

LEMMA NextPredStep == WalkInv /\ NextPred => WalkInv'
<1> SUFFICES ASSUME WalkInv, NextPred PROVE WalkInv'
  OBVIOUS
<1> USE DEF NextPred, OtherPreds
<1>1. pc = "pred" /\ BB' = BB /\ Buddies' = Buddies /\ UNCHANGED BuddySet
  BY DEF BB, Buddies
<1>2. TypeOK'
  <2>1. (preds \subseteq Edges(fn))'
    BY DEF TypeOK, WalkInv
  <2>2. (pred \in Blocks)'
    BY GraphFacts DEF TypeOK, WalkInv
  <2>3. (hasColdPath \in BOOLEAN)'
    OBVIOUS
  <2>4. (j \in Nat \ {0})'
    OBVIOUS
  <2> QED BY <1>1, <2>1, <2>2, <2>3, <2>4, Zenon DEF TypeOK, WalkInv
<1>3. Untouched'
  BY <1>1, StillUntouched
<1>4. InProgress'
  BY <1>1 DEF InProgress, WalkInv
<1> QED BY <1>2, <1>3, <1>4 DEF WalkInv

LEMMA PredDoneStep == WalkInv /\ PredDone => WalkInv'
<1> SUFFICES ASSUME WalkInv, PredDone PROVE WalkInv'
  OBVIOUS
<1> USE DEF PredDone, locals
<1>1. pc = "buddy" /\ BB' = BB /\ Buddies' = Buddies /\ UNCHANGED BuddySet
  BY DEF BB, Buddies
<1>2. TypeOK'
  BY <1>1, Zenon DEF TypeOK, WalkInv
<1>3. Untouched'
  BY <1>1, StillUntouched
<1>4. InProgress'
  BY <1>1 DEF InProgress, WalkInv
<1> QED BY <1>2, <1>3, <1>4 DEF WalkInv

LEMMA ColdBuddyStep == WalkInv /\ ColdBuddy => WalkInv'
<1> SUFFICES ASSUME WalkInv, ColdBuddy PROVE WalkInv'
  OBVIOUS
<1> USE DEF ColdBuddy
<1>1. pc = "buddy" /\ BB' = BB /\ Buddies' = Buddies /\ UNCHANGED BuddySet
  BY DEF BB, Buddies
<1>2. TypeOK'
  <2>1. (j \in Nat \ {0})'
    BY DEF TypeOK, WalkInv
  <2> QED BY <1>1, <2>1, Zenon DEF TypeOK, WalkInv
<1>3. Untouched'
  BY <1>1, StillUntouched
<1>4. InProgress'
  BY <1>1 DEF InProgress, WalkInv
<1> QED BY <1>2, <1>3, <1>4 DEF WalkInv

LEMMA HotBuddyStep == WalkInv /\ HotBuddy => WalkInv'
<1> SUFFICES ASSUME WalkInv, HotBuddy PROVE WalkInv'
  OBVIOUS
<1> USE DEF HotBuddy
<1> DEFINE P == DOMAIN fn.paths
<1>1. pc = "buddy" /\ pc' = "split" /\ BB' = BB /\ pos' = pos /\ fn' = fn
  BY DEF BB
<1>2. /\ newPaths \in SUBSET P /\ newPaths \subseteq HotPathSet[BB]
      /\ newPaths \cap alreadyInSets = {}
      /\ oldPaths' \subseteq P
  BY <1>1, WalkFacts DEF newPaths, predBitVector
<1>3. /\ \A m \in DOMAIN Buddies : Buddies[m] \subseteq alreadyInSets
      /\ Disjoint(Buddies)
  BY <1>1 DEF WalkInv, InProgress
<1>4. toPush' = << >> /\ DOMAIN toPush' = {} /\ toPush' \in Seq(SUBSET P)
  OBVIOUS
<1>5. /\ BuddySet' \in [Blocks -> Seq(SUBSET P)]
      /\ \A b \in Blocks \ {BB} : BuddySet'[b] = BuddySet[b]
      /\ \A m \in DOMAIN Buddies' :
            Buddies'[m] = newPaths \/ (m \in DOMAIN Buddies /\ Buddies'[m] = Buddies[m])
      /\ Disjoint(Buddies')
  <2>1. CASE newPaths = {}
    <3>1. BuddySet' = BuddySet /\ Buddies' = Buddies
      BY <1>1, <2>1 DEF Buddies
    <3> QED BY <3>1, <1>1, <1>3, WalkFacts
  <2>2. CASE newPaths # {}
    <3>1. /\ Append(Buddies, newPaths) \in Seq(SUBSET P)
          /\ DOMAIN Append(Buddies, newPaths) = 1..(Len(Buddies) + 1)
          /\ DOMAIN Buddies = 1..Len(Buddies)
          /\ \A m \in 1..Len(Buddies) : Append(Buddies, newPaths)[m] = Buddies[m]
          /\ Append(Buddies, newPaths)[Len(Buddies) + 1] = newPaths
          /\ Len(Buddies) \in Nat
      BY <1>1, <1>2, WalkFacts, AppendProperties, LenProperties
    <3>2. BuddySet' = [BuddySet EXCEPT ![BB] = Append(Buddies, newPaths)]
      BY <2>2, <1>1, WalkFacts
    <3>3. BuddySet'[BB] = Append(Buddies, newPaths) /\ Buddies' = BuddySet'[BB]
      BY <3>2, <1>1, WalkFacts DEF Buddies
    <3>4. Disjoint(Append(Buddies, newPaths))
      BY <1>1, <1>2, <1>3, WalkFacts, DisjointAppend
    <3>5. /\ BuddySet' \in [Blocks -> Seq(SUBSET P)]
          /\ \A b \in Blocks \ {BB} : BuddySet'[b] = BuddySet[b]
      BY <1>1, <3>1, <3>2, WalkFacts
    <3>6. \A m \in DOMAIN Buddies' :
            Buddies'[m] = newPaths \/ (m \in DOMAIN Buddies /\ Buddies'[m] = Buddies[m])
      <4>1. DOMAIN Buddies' = DOMAIN Buddies \cup {Len(Buddies) + 1}
        BY <3>1, <3>3
      <4>2. \A m \in DOMAIN Buddies : Buddies'[m] = Buddies[m]
        BY <3>1, <3>3
      <4>3. Buddies'[Len(Buddies) + 1] = newPaths
        BY <3>1, <3>3
      <4> QED BY <4>1, <4>2, <4>3
    <3> QED BY <3>3, <3>4, <3>5, <3>6
  <2> QED BY <2>1, <2>2
<1>6. TypeOK'
  <2>1. (\A b \in Blocks : \A k \in DOMAIN BuddySet[b] : BuddySet[b][k] \subseteq HotPathSet[b])'
    <3>1. \A k \in DOMAIN Buddies' : Buddies'[k] \subseteq HotPathSet[BB]
      BY <1>1, <1>2, <1>5, WalkFacts
    <3>2. Buddies' = BuddySet'[BB]
      BY <1>1 DEF Buddies
    <3> QED BY <1>5, <3>1, <3>2 DEF TypeOK, WalkInv
  <2>2. (alreadyInSets \subseteq DOMAIN fn.paths)'
    BY <1>1, <1>2 DEF TypeOK, WalkInv
  <2>3. (i \in Nat \ {0})'
    OBVIOUS
  <2> QED BY <1>1, <1>2, <1>4, <1>5, <2>1, <2>2, <2>3, Zenon DEF TypeOK, WalkInv
<1>7. Untouched'
  BY <1>1, <1>5, StillUntouched
<1>8. InProgress'
  <2>1. (/\ alreadyInSets \subseteq HotPathSet[BB] /\ IncubationPath \subseteq HotPathSet[BB])'
    BY <1>1, <1>2, WalkFacts
  <2>2. (\A m \in DOMAIN Buddies : Buddies[m] \subseteq alreadyInSets)'
    BY <1>3, <1>5
  <2> QED BY <1>1, <1>4, <1>5, <2>1, <2>2 DEF InProgress, Disjoint, Apart
<1> QED BY <1>1, <1>6, <1>7, <1>8 DEF WalkInv

LEMMA SplitStep == WalkInv /\ Split => WalkInv'
<1> SUFFICES ASSUME WalkInv, Split PROVE WalkInv'
  OBVIOUS
<1> USE DEF Split
<1> DEFINE P == DOMAIN fn.paths
           rest == [Buddies EXCEPT ![i] = Buddies[i] \ temp]
<1>1. /\ pc = "split" /\ pc' = "split" /\ BB' = BB /\ pos' = pos /\ fn' = fn
      /\ i \in DOMAIN Buddies /\ i' = i + 1
  BY DEF BB
<1>2. /\ \A m \in DOMAIN Buddies : Buddies[m] \subseteq alreadyInSets
      /\ \A m \in DOMAIN toPush : toPush[m] \subseteq alreadyInSets
      /\ Disjoint(Buddies) /\ Disjoint(toPush) /\ Apart(Buddies, toPush)
      /\ toPush \in Seq(SUBSET P) /\ i \in Nat \ {0}
  BY <1>1 DEF WalkInv, InProgress, TypeOK
<1>3. temp \in SUBSET P /\ temp \subseteq Buddies[i]
  BY <1>1, WalkFacts DEF temp
<1>4. oldPaths' \subseteq P
  BY DEF WalkInv, TypeOK
<1>5. /\ BuddySet' \in [Blocks -> Seq(SUBSET P)] /\ toPush' \in Seq(SUBSET P)
      /\ \A b \in Blocks \ {BB} : BuddySet'[b] = BuddySet[b]
      /\ DOMAIN Buddies' = DOMAIN Buddies
      /\ \A m \in DOMAIN Buddies : Buddies'[m] \subseteq Buddies[m]
      /\ \A m \in DOMAIN toPush' : toPush'[m] \subseteq alreadyInSets
      /\ Disjoint(Buddies') /\ Disjoint(toPush') /\ Apart(Buddies', toPush')
  <2>1. CASE ~SplitsOff
    <3>1. BuddySet' = BuddySet /\ Buddies' = Buddies /\ toPush' = toPush
      BY <1>1, <2>1 DEF Buddies
    <3> QED BY <3>1, <1>1, <1>2, WalkFacts
  <2>2. CASE SplitsOff
    <3>1. /\ rest \in Seq(SUBSET P) /\ DOMAIN rest = DOMAIN Buddies
          /\ rest[i] = Buddies[i] \ temp
          /\ \A m \in DOMAIN Buddies : m # i => rest[m] = Buddies[m]
      <4>1. /\ Buddies \in Seq(SUBSET P) /\ DOMAIN Buddies = 1..Len(Buddies)
            /\ Buddies[i] \ temp \in SUBSET P /\ i \in 1..Len(Buddies)
        BY <1>1, WalkFacts, LenProperties
      <4> QED BY <4>1, ExceptSeq, LenProperties
    <3>2. BuddySet' = [BuddySet EXCEPT ![BB] = rest] /\ toPush' = Append(toPush, temp)
      BY <2>2, <1>1, WalkFacts
    <3>3. Buddies' = rest
      BY <3>2, <1>1, WalkFacts DEF Buddies
    <3>4. /\ Append(toPush, temp) \in Seq(SUBSET P)
          /\ \A m \in DOMAIN Append(toPush, temp) :
                \/ Append(toPush, temp)[m] = temp
                \/ m \in DOMAIN toPush /\ Append(toPush, temp)[m] = toPush[m]
      BY <1>2, <1>3, AppendProperties, LenProperties
    <3>5. Disjoint(Append(toPush, temp))
      <4>1. \A m \in DOMAIN toPush : toPush[m] \cap temp = {}
        BY <1>1, <1>2, <1>3 DEF Apart
      <4> QED BY <4>1, <1>2, <1>3, DisjointAppend
    <3>6. Disjoint(rest)
      BY <1>2, <3>1 DEF Disjoint
    <3>7. Apart(rest, Append(toPush, temp))
      <4> SUFFICES ASSUME NEW m \in DOMAIN rest, NEW n \in DOMAIN Append(toPush, temp)
                   PROVE  rest[m] \cap Append(toPush, temp)[n] = {}
        BY DEF Apart
      <4>1. CASE Append(toPush, temp)[n] = temp
        BY <4>1, <1>1, <1>2, <1>3, <3>1 DEF Disjoint
      <4>2. CASE n \in DOMAIN toPush /\ Append(toPush, temp)[n] = toPush[n]
        BY <4>2, <1>2, <3>1 DEF Apart
      <4> QED BY <4>1, <4>2, <3>4
    <3>8. \A m \in DOMAIN Buddies : rest[m] \subseteq Buddies[m]
      BY <3>1
    <3>9. BuddySet' \in [Blocks -> Seq(SUBSET P)]
          /\ \A b \in Blocks \ {BB} : BuddySet'[b] = BuddySet[b]
      <4> HIDE DEF rest
      <4> QED BY <1>1, <3>1, <3>2, WalkFacts
    <3> HIDE DEF rest
    <3> QED BY <1>1, <1>2, <1>3, <3>1, <3>2, <3>3, <3>4, <3>5, <3>6, <3>7, <3>8, <3>9
  <2> QED BY <2>1, <2>2
<1>6. TypeOK'
  <2>1. (\A b \in Blocks : \A k \in DOMAIN BuddySet[b] : BuddySet[b][k] \subseteq HotPathSet[b])'
    <3>1. \A k \in DOMAIN Buddies' : Buddies'[k] \subseteq HotPathSet[BB]
      BY <1>1, <1>5, WalkFacts
    <3>2. Buddies' = BuddySet'[BB]
      BY <1>1 DEF Buddies
    <3> QED BY <1>5, <3>1, <3>2 DEF TypeOK, WalkInv
  <2>2. (i \in Nat \ {0})'
    BY <1>1, <1>2
  <2> QED BY <1>1, <1>4, <1>5, <2>1, <2>2, Zenon DEF TypeOK, WalkInv
<1>7. Untouched'
  BY <1>1, <1>5, StillUntouched
<1>8. InProgress'
  <2>1. (/\ alreadyInSets \subseteq HotPathSet[BB] /\ IncubationPath \subseteq HotPathSet[BB])'
    BY <1>1, WalkFacts
  <2>2. (\A m \in DOMAIN Buddies : Buddies[m] \subseteq alreadyInSets)'
    BY <1>2, <1>5
  <2> QED BY <1>1, <1>5, <2>1, <2>2 DEF InProgress
<1> QED BY <1>1, <1>6, <1>7, <1>8 DEF WalkInv

LEMMA SplitDoneStep == WalkInv /\ SplitDone => WalkInv'
<1> SUFFICES ASSUME WalkInv, SplitDone PROVE WalkInv'
  OBVIOUS
<1> USE DEF SplitDone
<1> DEFINE P == DOMAIN fn.paths
<1>1. pc = "split" /\ pc' = "buddy" /\ BB' = BB /\ pos' = pos /\ fn' = fn /\ toPush' = << >>
  BY DEF BB
<1>2. /\ \A m \in DOMAIN Buddies : Buddies[m] \subseteq alreadyInSets
      /\ \A m \in DOMAIN toPush : toPush[m] \subseteq alreadyInSets
      /\ Disjoint(Buddies) /\ Disjoint(toPush) /\ Apart(Buddies, toPush)
      /\ toPush \in Seq(SUBSET P)
      /\ j \in Nat \ {0}
  BY <1>1 DEF WalkInv, InProgress, TypeOK
<1>3. /\ Pushed \in Seq(SUBSET P)
      /\ \A m \in DOMAIN Pushed : Pushed[m] \subseteq alreadyInSets
      /\ Disjoint(Pushed)
  <2>1. Buddies \in Seq(SUBSET P)
    BY <1>1, WalkFacts
  <2>2. /\ Buddies \o toPush \in Seq(SUBSET P)
        /\ DOMAIN (Buddies \o toPush) = 1..(Len(Buddies) + Len(toPush))
        /\ \A k \in 1..(Len(Buddies) + Len(toPush)) :
              (Buddies \o toPush)[k] = IF k <= Len(Buddies) THEN Buddies[k]
                                       ELSE toPush[k - Len(Buddies)]
    BY <1>2, <2>1, ConcatProperties, LenProperties
  <2>3. /\ Len(Buddies) \in Nat /\ DOMAIN Buddies = 1..Len(Buddies)
        /\ Len(toPush) \in Nat /\ DOMAIN toPush = 1..Len(toPush)
    BY <1>2, <2>1, LenProperties
  <2>4. \A m \in DOMAIN (Buddies \o toPush) : (Buddies \o toPush)[m] \subseteq alreadyInSets
    BY <1>2, <2>2, <2>3
  <2>5. Disjoint(Buddies \o toPush)
    BY <1>2, <2>1, DisjointConcat
  <2> QED BY <2>2, <2>4, <2>5 DEF Pushed
<1>4. /\ BuddySet' \in [Blocks -> Seq(SUBSET P)]
      /\ \A b \in Blocks \ {BB} : BuddySet'[b] = BuddySet[b]
      /\ BuddySet'[BB] = Pushed /\ Buddies' = Pushed
  <2>1. BuddySet' = [BuddySet EXCEPT ![BB] = Pushed]
    OBVIOUS
  <2>2. BuddySet'[BB] = Pushed
    BY <1>1, <2>1, WalkFacts
  <2> QED BY <1>1, <1>3, <2>1, <2>2, WalkFacts DEF Buddies
<1>5. TypeOK'
  <2>1. (\A b \in Blocks : \A k \in DOMAIN BuddySet[b] : BuddySet[b][k] \subseteq HotPathSet[b])'
    <3>1. \A k \in DOMAIN Pushed : Pushed[k] \subseteq HotPathSet[BB]
      BY <1>1, <1>3, WalkFacts
    <3> QED BY <1>4, <3>1 DEF TypeOK, WalkInv
  <2>2. (j \in Nat \ {0})'
    BY <1>2
  <2>3. (toPush \in Seq(SUBSET DOMAIN fn.paths))'
    BY <1>1
  <2> QED BY <1>1, <1>4, <2>1, <2>2, <2>3, Zenon DEF TypeOK, WalkInv
<1>6. Untouched'
  BY <1>1, <1>4, StillUntouched
<1>7. InProgress'
  <2>1. (/\ alreadyInSets \subseteq HotPathSet[BB] /\ IncubationPath \subseteq HotPathSet[BB])'
    BY <1>1, WalkFacts
  <2>2. (\A m \in DOMAIN Buddies : Buddies[m] \subseteq alreadyInSets)'
    BY <1>3, <1>4
  <2>3. DOMAIN toPush' = {}
    BY <1>1
  <2> QED BY <1>1, <1>3, <1>4, <2>1, <2>2, <2>3 DEF InProgress, Disjoint, Apart
<1> QED BY <1>1, <1>5, <1>6, <1>7 DEF WalkInv

LEMMA WalkInvStep == WalkInv /\ [Next]_vars => WalkInv'
<1> SUFFICES ASSUME WalkInv, [Next]_vars PROVE WalkInv'
  OBVIOUS
<1>1. CASE UNCHANGED vars
  <2>1. BB' = BB /\ Buddies' = Buddies
    BY <1>1 DEF vars, control, BB, Buddies
  <2> QED BY <1>1, <2>1, Zenon DEF vars, control, locals, WalkInv, TypeOK, Untouched, InProgress
<1> QED BY <1>1, ProfileStep, EntryBlockStep, EnterBlockStep, LeaveBlockStep, ReturnStep,
           NextPredStep, PredDoneStep, ColdBuddyStep, HotBuddyStep, SplitStep,
           SplitDoneStep DEF Next

----------------------------------------------------------------------------
(* The theorems.                                                           *)

\* Whatever the function and its hot paths, the walk keeps its types, and the buddy
\* sets of a block hold only hot paths of this block.
THEOREM TypeCorrect == Spec => []TypeOK
<1>1. WalkInv => TypeOK
  BY DEF WalkInv
<1> QED BY <1>1, InitWalkInv, WalkInvStep, PTL DEF Spec

\* Whatever the function and its hot paths, loops included, the buddy sets of a
\* block in progress are disjoint, as the comment in getCaloricConnector says.
THEOREM BuddiesAlwaysDisjoint == Spec => []BuddiesDisjoint
<1>1. WalkInv => BuddiesDisjoint
  <2> SUFFICES ASSUME WalkInv, pc \in {"pred", "buddy", "split"}
               PROVE  Disjoint(Buddies \o toPush)
    BY DEF BuddiesDisjoint
  <2>1. Buddies \in Seq(SUBSET DOMAIN fn.paths) /\ toPush \in Seq(SUBSET DOMAIN fn.paths)
    BY WalkFacts DEF WalkInv, TypeOK
  <2> QED BY <2>1, DisjointConcat DEF WalkInv, InProgress
<1> QED BY <1>1, InitWalkInv, WalkInvStep, PTL DEF Spec

----------------------------------------------------------------------------
(* Families of sets: F is the family built so far, D the sets it is to     *)
(* refine.                                                                 *)

NoEmpty(F) == {} \notin F

\* Distinct members do not meet.
Separate(F) == \A B, C \in F : B = C \/ B \cap C = {}

\* No member of F is split by S.
Respects(F, S) == \A B \in F : B \subseteq S \/ B \cap S = {}

\* S is a union of members of F.
Handled(S, F) == S \subseteq UNION F /\ Respects(F, S)

\* Paths in different members of F are told apart by a member of D.
Coarse(F, D) ==
    \A p, q \in UNION F : \/ \E B \in F : p \in B /\ q \in B
                          \/ \E S \in D : ~(p \in S <=> q \in S)

\* Each path of F comes from a member of D that F covers.
Grounded(F, D) == \A p \in UNION F : \E S \in D : p \in S /\ S \subseteq UNION F

\* G is F with the set new, the part of S outside F, as a further member.
AddsTo(G, F, S, new) == new = S \ UNION F /\ new # {} /\ G = F \cup {new}

\* G is F with the member B split into the set part, what it shares with old, and the rest.
SplitsFrom(G, F, B, old, part) ==
    /\ B \in F /\ part = old \cap B /\ part # {} /\ part # B
    /\ G = (F \ {B}) \cup {B \ part, part}

\* A family that is separate, splits what it must and no more is the coarsest partition.
LEMMA FamilyIsAtoms ==
    ASSUME NEW F, NEW D, NoEmpty(F), Separate(F), Coarse(F, D), Grounded(F, D),
           \A S \in D : Handled(S, F)
    PROVE  F = Partition!Atoms(D)
<1> DEFINE Like(q) == {p \in UNION D : \A S \in D : p \in S <=> q \in S}
<1>1. UNION F = UNION D
  BY DEF Grounded, Handled
<1>2. ASSUME NEW B \in F, NEW q \in B PROVE B = Like(q)
  <2>1. ASSUME NEW p \in B PROVE p \in Like(q)
    <3>1. p \in UNION D
      BY <1>1
    <3>2. ASSUME NEW S \in D PROVE p \in S <=> q \in S
      BY DEF Handled, Respects
    <3> QED BY <3>1, <3>2
  <2>2. ASSUME NEW p \in Like(q) PROVE p \in B
    <3>1. p \in UNION F /\ q \in UNION F /\ \A S \in D : p \in S <=> q \in S
      BY <1>1
    <3>2. PICK C \in F : p \in C /\ q \in C
      BY <3>1 DEF Coarse
    <3> QED BY <3>2 DEF Separate
  <2> QED BY <2>1, <2>2
<1>3. Partition!Atoms(D) = {Like(q) : q \in UNION D}
  BY DEF Partition!Atoms
<1>4. ASSUME NEW B \in F PROVE \E q \in UNION D : B = Like(q)
  <2>1. PICK q : q \in B
    BY DEF NoEmpty
  <2>2. B = Like(q) /\ q \in UNION D
    BY <1>1, <1>2, <2>1
  <2> HIDE DEF Like
  <2> QED BY <2>2
<1>5. ASSUME NEW q \in UNION D PROVE Like(q) \in F
  <2>1. PICK B \in F : q \in B
    BY <1>1
  <2>2. B = Like(q)
    BY <1>2, <2>1
  <2> HIDE DEF Like
  <2> QED BY <2>2
<1> HIDE DEF Like
<1> QED BY <1>3, <1>4, <1>5

\* The paths of an arrival that are new to the family join it as a member.
LEMMA Adding ==
    ASSUME NEW F, NEW D, NEW S \in D, NEW new, NEW G,
           NoEmpty(F), Coarse(F, D), Grounded(F, D), AddsTo(G, F, S, new)
    PROVE  /\ NoEmpty(G)
           /\ UNION G = (UNION F) \cup new
           /\ Coarse(G, D) /\ Grounded(G, D)
           /\ S \subseteq UNION G
           /\ Respects(G, new)
           /\ \A T : Handled(T, F) => Handled(T, G)
<1> USE DEF AddsTo, NoEmpty
<1>1. UNION G = (UNION F) \cup new /\ S \subseteq UNION G
  <2>1. ASSUME NEW x PROVE x \in UNION G <=> x \in UNION F \/ x \in new
    OBVIOUS
  <2>2. ASSUME NEW x \in S PROVE x \in UNION F \/ x \in new
    OBVIOUS
  <2> HIDE DEF AddsTo
  <2> QED BY <2>1, <2>2
<1>2. Coarse(G, D)
  <2> SUFFICES ASSUME NEW p \in UNION G, NEW q \in UNION G
               PROVE  \/ \E B \in G : p \in B /\ q \in B
                      \/ \E T \in D : ~(p \in T <=> q \in T)
    BY DEF Coarse
  <2>1. CASE p \in UNION F /\ q \in UNION F
    <3>1. CASE \E B \in F : p \in B /\ q \in B
      BY <3>1
    <3> QED BY <2>1, <3>1 DEF Coarse
  <2>2. CASE p \in new /\ q \in new
    BY <2>2
  <2>3. CASE p \in UNION F /\ q \in new
    <3>1. PICK T \in D : p \in T /\ T \subseteq UNION F
      BY <2>3 DEF Grounded
    <3>2. q \notin T
      BY <2>3, <3>1
    <3> QED BY <3>1, <3>2
  <2>4. CASE q \in UNION F /\ p \in new
    <3>1. PICK T \in D : q \in T /\ T \subseteq UNION F
      BY <2>4 DEF Grounded
    <3>2. p \notin T
      BY <2>4, <3>1
    <3> QED BY <3>1, <3>2
  <2> QED BY <1>1, <2>1, <2>2, <2>3, <2>4
<1>3. Grounded(G, D)
  <2> SUFFICES ASSUME NEW p \in UNION G
               PROVE  \E T \in D : p \in T /\ T \subseteq UNION G
    BY DEF Grounded
  <2>1. CASE p \in UNION F
    <3>1. PICK T \in D : p \in T /\ T \subseteq UNION F
      BY <2>1 DEF Grounded
    <3> QED BY <1>1, <3>1
  <2>2. CASE p \in new
    BY <1>1, <2>2
  <2> QED BY <1>1, <2>1, <2>2
<1>4. Respects(G, new)
  BY DEF Respects
<1>5. ASSUME NEW T, Handled(T, F) PROVE Handled(T, G)
  <2>1. T \cap new = {}
    BY <1>5 DEF Handled
  <2> QED BY <1>1, <1>5, <2>1 DEF Handled, Respects
<1> QED BY <1>1, <1>2, <1>3, <1>4, <1>5

\* Splitting the part of B that is in the arrival S off from B, where the rest of S has
\* been dealt with already.
LEMMA SplittingOff ==
    ASSUME NEW F, NEW D, NEW S \in D, NEW old, NEW B \in F, NEW part, NEW G,
           NoEmpty(F), Separate(F), Coarse(F, D), Grounded(F, D),
           old \subseteq S, Respects(F, S \ old),
           SplitsFrom(G, F, B, old, part)
    PROVE  /\ NoEmpty(G)
           /\ UNION G = UNION F
           /\ Coarse(G, D) /\ Grounded(G, D)
           /\ Respects(G, S \ (old \ part))
           /\ \A T : Handled(T, F) => Handled(T, G)
<1> USE DEF SplitsFrom, NoEmpty
<1>1. UNION G = UNION F
  <2>1. B = (B \ part) \cup part
    OBVIOUS
  <2>2. ASSUME NEW x \in UNION F PROVE x \in UNION G
    <3>1. PICK C \in F : x \in C
      OBVIOUS
    <3>2. CASE C = B
      BY <3>1, <3>2, <2>1
    <3>3. CASE C # B
      BY <3>1, <3>3
    <3> QED BY <3>2, <3>3
  <2>3. ASSUME NEW x \in UNION G PROVE x \in UNION F
    BY <2>1
  <2> QED BY <2>2, <2>3
<1>2. NoEmpty(G)
  OBVIOUS
<1>3. B \cap (S \ old) = {}
  BY DEF Respects
<1>4. Coarse(G, D)
  <2> SUFFICES ASSUME NEW p \in UNION G, NEW q \in UNION G
               PROVE  \/ \E C \in G : p \in C /\ q \in C
                      \/ \E T \in D : ~(p \in T <=> q \in T)
    BY DEF Coarse
  <2> SUFFICES ASSUME \A T \in D : p \in T <=> q \in T
               PROVE  \E C \in G : p \in C /\ q \in C
    OBVIOUS
  <2>1. PICK C \in F : p \in C /\ q \in C
    <3>1. p \in UNION F /\ q \in UNION F
      BY <1>1
    <3> QED BY <3>1 DEF Coarse
  <2>2. CASE C = B
    <3>1. p \in S <=> q \in S
      OBVIOUS
    <3>2. p \in part <=> q \in part
      BY <2>1, <2>2, <3>1, <1>3
    <3>3. CASE p \in part
      BY <3>2, <3>3
    <3>4. CASE p \notin part
      <4>1. p \in B \ part /\ q \in B \ part
        BY <2>1, <2>2, <3>2, <3>4
      <4> QED BY <4>1
    <3> QED BY <3>3, <3>4
  <2>3. CASE C # B
    BY <2>1, <2>3
  <2> QED BY <2>2, <2>3
<1>5. Grounded(G, D)
  <2> SUFFICES ASSUME NEW p \in UNION G
               PROVE  \E T \in D : p \in T /\ T \subseteq UNION G
    BY DEF Grounded
  <2>1. p \in UNION F
    BY <1>1
  <2>2. PICK T \in D : p \in T /\ T \subseteq UNION F
    BY <2>1 DEF Grounded
  <2> QED BY <1>1, <2>2
<1>6. Respects(G, S \ (old \ part))
  <2> SUFFICES ASSUME NEW C \in G
               PROVE  C \subseteq S \ (old \ part) \/ C \cap (S \ (old \ part)) = {}
    BY DEF Respects
  <2>1. CASE C \in F /\ C # B
    <3>1. C \cap B = {}
      BY <2>1 DEF Separate
    <3> QED BY <2>1, <3>1 DEF Respects
  <2>2. CASE C = B \ part
    BY <2>2, <1>3
  <2>3. CASE C = part
    BY <2>3
  <2> QED BY <2>1, <2>2, <2>3
<1>7. ASSUME NEW T, Handled(T, F) PROVE Handled(T, G)
  BY <1>1, <1>7 DEF Handled, Respects
<1> QED BY <1>1, <1>2, <1>4, <1>5, <1>6, <1>7

----------------------------------------------------------------------------
(* The inductive invariant, on top of WalkInv.                             *)

Busy == pc \in {"pred", "buddy", "split"}

Members(s) == {s[k] : k \in DOMAIN s}

\* The buddy sets of the block in progress.
Family == Members(Buddies) \cup Members(toPush)

\* Buddy set k of block u, cut down to the paths that come to the current block.
Cut(u, k) == BuddySet[u][k] \cap HotPathSet[BB]

\* The sets that arrive from predecessors other than the block itself.
Arrivals == UNION {{Cut(u, k) : k \in DOMAIN BuddySet[u]} : u \in Preds(fn, BB) \ {BB}}

\* The predecessors the loop has taken an edge from.
LookedAt == {e[1] : e \in PredEdges(fn, BB) \ preds}

\* Buddy set k of block u has been worked into the family.
Visited(u, k) == /\ u \in LookedAt \ {BB}
                 /\ pc # "pred" /\ u = pred => k < j

Seen == UNION {HotPathSet[fn.rpo[k]] : k \in 1..(pos - 1)}

\* The profile is read once, and allPaths holds what the blocks behind the walk hold.
PathsSeen ==
    /\ pos <= Len(fn.rpo) + 1
    /\ pc = "profile" => pos = 1
    /\ pc # "profile" => HotPathSet = ProfileOf(fn)
    /\ ~Busy => allPaths = Seen
    /\ Busy => /\ allPaths = Seen \cup HotPathSet[BB]
               /\ IncubationPath = HotPathSet[BB] \ Seen

\* The family never splits more than the arrivals call for.
Grouped ==
    /\ NoEmpty(Family)
    /\ UNION Family = alreadyInSets
    /\ Coarse(Family, Arrivals)
    /\ Grounded(Family, Arrivals)

\* And it splits all that the arrivals looked at so far call for.
Worked ==
    /\ preds \subseteq PredEdges(fn, BB)
    /\ pc # "pred" => pred \in LookedAt
    /\ \A u \in Blocks : \A k \in DOMAIN BuddySet[u] :
          Visited(u, k) => Handled(Cut(u, k), Family)

\* Something cold arrives exactly if the flag says so, as far as the loop has come.
ColdSoFar ==
    /\ hasColdPath => \/ \E u \in Preds(fn, BB) : HotPathSet[u] = {}
                      \/ {} \in Arrivals
    /\ \A u \in LookedAt : HotPathSet[u] = {} => hasColdPath
    /\ \A u \in Blocks : \A k \in DOMAIN BuddySet[u] :
          Visited(u, k) /\ Cut(u, k) = {} => hasColdPath

\* The sets of a block that is its own predecessor need no split: each is found whole.
SplittingSelf ==
    /\ toPush = << >>
    /\ \A m \in DOMAIN Buddies : Buddies[m] \subseteq oldPaths \/ oldPaths \cap Buddies[m] = {}

\* The arriving set is covered; what is no longer in oldPaths has been split off, and
\* what still is lies ahead of i.
SplittingOther ==
    /\ j \in DOMAIN BuddySet[pred]
    /\ Cut(pred, j) # {}
    /\ oldPaths \subseteq Cut(pred, j)
    /\ Cut(pred, j) \subseteq UNION Family
    /\ Respects(Family, Cut(pred, j) \ oldPaths)
    /\ \A m \in DOMAIN Buddies : m < i => oldPaths \cap Buddies[m] = {}
    /\ \A m \in DOMAIN toPush : oldPaths \cap toPush[m] = {}

Splitting == IF pred = BB THEN SplittingSelf ELSE SplittingOther

PartitionInv ==
    /\ PathsSeen
    /\ Busy => Grouped /\ Worked /\ ColdSoFar
    /\ pc = "split" => Splitting

----------------------------------------------------------------------------
(* What the actions on a block in progress leave alone.                    *)

\* The members of the family, and that they do not meet.
LEMMA FamilyFacts ==
    ASSUME WalkInv, Busy
    PROVE  /\ Separate(Family)
           /\ \A m \in DOMAIN Buddies : Buddies[m] \in Family
           /\ \A m \in DOMAIN toPush : toPush[m] \in Family
           /\ \A B \in Family : \/ \E m \in DOMAIN Buddies : B = Buddies[m]
                                \/ \E m \in DOMAIN toPush : B = toPush[m]
<1>1. /\ \A m \in DOMAIN Buddies : Buddies[m] \in Family
      /\ \A m \in DOMAIN toPush : toPush[m] \in Family
      /\ \A B \in Family : \/ \E m \in DOMAIN Buddies : B = Buddies[m]
                           \/ \E m \in DOMAIN toPush : B = toPush[m]
  BY DEF Family, Members
<1>2. Disjoint(Buddies) /\ Disjoint(toPush) /\ Apart(Buddies, toPush)
  BY DEF WalkInv, InProgress, Busy
<1>3. ASSUME NEW B \in Family, NEW C \in Family PROVE B = C \/ B \cap C = {}
  <2>1. CASE \E m \in DOMAIN Buddies : B = Buddies[m]
    BY <1>1, <1>2, <2>1 DEF Disjoint, Apart
  <2>2. CASE \E m \in DOMAIN toPush : B = toPush[m]
    BY <1>1, <1>2, <2>2 DEF Disjoint, Apart
  <2> QED BY <1>1, <2>1, <2>2
<1> QED BY <1>1, <1>3 DEF Separate

\* The edges into a block come from blocks, and a successor is reached by an edge.
LEMMA PredFacts ==
    ASSUME fn \in Programs, NEW b \in Blocks
    PROVE  /\ Preds(fn, b) \subseteq Blocks
           /\ \A e \in PredEdges(fn, b) : e[1] \in Preds(fn, b)
           /\ \A u \in Preds(fn, b) : \E e \in PredEdges(fn, b) : e[1] = u
           /\ \A u \in Blocks : b \in Succs(fn, u) => u \in Preds(fn, b)
<1>1. PredEdges(fn, b) \subseteq Edges(fn) /\ \A e \in Edges(fn) : e[1] \in Blocks
  BY GraphFacts
<1>2. ASSUME NEW u \in Blocks, b \in Succs(fn, u) PROVE u \in Preds(fn, b)
  <2>1. PICK n \in DOMAIN fn.succ[u] : fn.succ[u][n] = b
    BY <1>2 DEF Succs
  <2>2. <<u, n>> \in Edges(fn) /\ <<u, n>>[1] = u /\ <<u, n>>[2] = n
    BY <2>1 DEF Edges
  <2> QED BY <2>1, <2>2 DEF Preds, PredEdges
<1> QED BY <1>1, <1>2 DEF Preds

\* What arrives at the block in progress does not change while it is worked on.
LEMMA SameArrivals ==
    ASSUME WalkInv, Busy, UNCHANGED <<fn, HotPathSet, pos>>,
           \A b \in Blocks \ {BB} : BuddySet'[b] = BuddySet[b]
    PROVE  /\ BB' = BB /\ BB \in Blocks
           /\ Arrivals' = Arrivals
           /\ PredEdges(fn, BB)' = PredEdges(fn, BB)
           /\ Preds(fn, BB)' = Preds(fn, BB) /\ Preds(fn, BB) \subseteq Blocks
           /\ \A u \in Blocks \ {BB} : /\ DOMAIN BuddySet'[u] = DOMAIN BuddySet[u]
                                      /\ \A k : Cut(u, k)' = Cut(u, k)
<1>1. BB' = BB /\ BB \in Blocks /\ fn \in Programs
  BY WalkFacts DEF BB, Busy, WalkInv
<1>2. Preds(fn, BB) \subseteq Blocks
  BY <1>1, PredFacts
<1>3. Preds(fn, BB)' = Preds(fn, BB) /\ PredEdges(fn, BB)' = PredEdges(fn, BB)
  BY <1>1
<1>4. \A u \in Blocks \ {BB} : /\ DOMAIN BuddySet'[u] = DOMAIN BuddySet[u]
                               /\ \A k : Cut(u, k)' = Cut(u, k)
  BY <1>1 DEF Cut
<1>5. Arrivals' = Arrivals
  BY <1>1, <1>2, <1>3, <1>4 DEF Arrivals
<1> QED BY <1>1, <1>2, <1>3, <1>4, <1>5

\* Each arriving set is one of the arrivals.
LEMMA CutArrives ==
    ASSUME WalkInv, Busy, NEW u \in Preds(fn, BB) \ {BB}, NEW k \in DOMAIN BuddySet[u]
    PROVE  Cut(u, k) \in Arrivals
  BY DEF Arrivals

\* The bookkeeping of allPaths is the business of the block loop alone.
LEMMA SameSeen ==
    ASSUME WalkInv, PathsSeen, Busy, Busy',
           UNCHANGED <<fn, HotPathSet, pos, allPaths, IncubationPath>>
    PROVE  PathsSeen'
<1>1. BB' = BB /\ Seen' = Seen
  BY DEF BB, Seen
<1> QED BY <1>1 DEF PathsSeen, Busy

(***************************************************************************)
(* One lemma per action.                                                   *)
(***************************************************************************)
LEMMA NextPredPartition ==
    ASSUME WalkInv, PartitionInv, NextPred
    PROVE  PartitionInv'
<1> USE DEF NextPred, OtherPreds
<1>1. /\ pc = "pred" /\ pc' = "buddy" /\ Busy /\ Busy' /\ BuddySet' = BuddySet
      /\ toPush' = toPush /\ alreadyInSets' = alreadyInSets /\ j' = 1
  BY DEF Busy
<1>2. PICK e \in preds : /\ preds' = preds \ {e} /\ pred' = e[1]
                         /\ hasColdPath' = (hasColdPath \/ HotPathSet[e[1]] = {})
  OBVIOUS
<1>3. /\ BB' = BB /\ BB \in Blocks /\ Arrivals' = Arrivals
      /\ PredEdges(fn, BB)' = PredEdges(fn, BB) /\ Preds(fn, BB)' = Preds(fn, BB)
      /\ \A u \in Blocks \ {BB} : /\ DOMAIN BuddySet'[u] = DOMAIN BuddySet[u]
                                 /\ \A k : Cut(u, k)' = Cut(u, k)
  BY <1>1, SameArrivals, Zenon
<1>4. Family' = Family
  BY <1>1, <1>3 DEF Family, Members, Buddies
<1>5. Grouped /\ Worked /\ ColdSoFar /\ PathsSeen
  BY <1>1 DEF PartitionInv
<1>6. preds \subseteq PredEdges(fn, BB) /\ e[1] \in Preds(fn, BB) /\ fn \in Programs
  BY <1>3, <1>5, PredFacts DEF Worked, WalkInv
<1>7. LookedAt' = LookedAt \cup {e[1]}
  BY <1>2, <1>3, <1>6 DEF LookedAt
<1>8. ASSUME NEW u \in Blocks, NEW k \in DOMAIN BuddySet'[u], Visited(u, k)'
      PROVE  Visited(u, k) /\ u \in Blocks \ {BB} /\ k \in DOMAIN BuddySet[u]
  <2>1. k \in Nat \ {0}
    BY <1>1, WalkFacts, LenProperties
  <2>2. u # pred' /\ u # BB /\ u \in LookedAt'
    BY <1>1, <1>3, <1>8, <2>1 DEF Visited
  <2> QED BY <1>1, <1>2, <1>7, <2>2 DEF Visited
<1>9. Grouped'
  BY <1>1, <1>3, <1>4, <1>5 DEF Grouped
<1>10. Worked'
  <2>1. (preds \subseteq PredEdges(fn, BB))'
    BY <1>2, <1>3, <1>6
  <2>2. (pc # "pred" => pred \in LookedAt)'
    BY <1>2, <1>7
  <2>3. (\A u \in Blocks : \A k \in DOMAIN BuddySet[u] :
            Visited(u, k) => Handled(Cut(u, k), Family))'
    BY <1>3, <1>4, <1>5, <1>8 DEF Worked
  <2> QED BY <2>1, <2>2, <2>3 DEF Worked
<1>11. ColdSoFar'
  <2>1. (hasColdPath => \/ \E u \in Preds(fn, BB) : HotPathSet[u] = {}
                        \/ {} \in Arrivals)'
    BY <1>2, <1>3, <1>5, <1>6 DEF ColdSoFar
  <2>2. (\A u \in LookedAt : HotPathSet[u] = {} => hasColdPath)'
    BY <1>2, <1>5, <1>7 DEF ColdSoFar
  <2>3. (\A u \in Blocks : \A k \in DOMAIN BuddySet[u] :
            Visited(u, k) /\ Cut(u, k) = {} => hasColdPath)'
    BY <1>2, <1>3, <1>5, <1>8 DEF ColdSoFar
  <2> QED BY <2>1, <2>2, <2>3 DEF ColdSoFar
<1>12. PathsSeen'
  BY <1>1, <1>5, SameSeen
<1> QED BY <1>1, <1>9, <1>10, <1>11, <1>12 DEF PartitionInv

LEMMA PredDonePartition ==
    ASSUME WalkInv, PartitionInv, PredDone
    PROVE  PartitionInv'
<1> USE DEF PredDone, locals
<1>1. /\ pc = "buddy" /\ pc' = "pred" /\ Busy /\ Busy' /\ BuddySet' = BuddySet
      /\ toPush' = toPush /\ alreadyInSets' = alreadyInSets /\ preds' = preds
      /\ hasColdPath' = hasColdPath
  BY DEF Busy
<1>2. /\ BB' = BB /\ BB \in Blocks /\ Arrivals' = Arrivals
      /\ PredEdges(fn, BB)' = PredEdges(fn, BB) /\ Preds(fn, BB)' = Preds(fn, BB)
      /\ \A u \in Blocks \ {BB} : /\ DOMAIN BuddySet'[u] = DOMAIN BuddySet[u]
                                 /\ \A k : Cut(u, k)' = Cut(u, k)
  BY <1>1, SameArrivals, Zenon
<1>3. Family' = Family /\ LookedAt' = LookedAt
  BY <1>1, <1>2 DEF Family, Members, Buddies, LookedAt
<1>4. Grouped /\ Worked /\ ColdSoFar /\ PathsSeen
  BY <1>1 DEF PartitionInv
<1>5. ASSUME NEW u \in Blocks, NEW k \in DOMAIN BuddySet'[u], Visited(u, k)'
      PROVE  Visited(u, k) /\ u \in Blocks \ {BB} /\ k \in DOMAIN BuddySet[u]
  <2>1. /\ DOMAIN BuddySet[u] = 1..Len(BuddySet[u]) /\ Len(BuddySet[u]) \in Nat
        /\ j \in Nat \ {0}
    BY <1>1, WalkFacts, LenProperties DEF WalkInv, TypeOK
  <2>2. u # BB /\ u \in LookedAt
    BY <1>2, <1>3, <1>5 DEF Visited
  <2>3. u = pred => k < j
    BY <1>1, <2>1
  <2> QED BY <1>1, <2>2, <2>3 DEF Visited
<1>6. Grouped'
  BY <1>1, <1>2, <1>3, <1>4 DEF Grouped
<1>7. Worked'
  <2>1. (\A u \in Blocks : \A k \in DOMAIN BuddySet[u] :
            Visited(u, k) => Handled(Cut(u, k), Family))'
    BY <1>2, <1>3, <1>4, <1>5 DEF Worked
  <2> QED BY <1>1, <1>2, <1>4, <2>1 DEF Worked
<1>8. ColdSoFar'
  <2>1. (\A u \in Blocks : \A k \in DOMAIN BuddySet[u] :
            Visited(u, k) /\ Cut(u, k) = {} => hasColdPath)'
    BY <1>1, <1>2, <1>4, <1>5 DEF ColdSoFar
  <2> QED BY <1>1, <1>2, <1>3, <1>4, <2>1 DEF ColdSoFar
<1>9. PathsSeen'
  BY <1>1, <1>4, SameSeen
<1> QED BY <1>1, <1>6, <1>7, <1>8, <1>9 DEF PartitionInv

\* The arriving set the loop is at comes from a predecessor looked at.
LEMMA CurrentArrival ==
    ASSUME WalkInv, PartitionInv, pc = "buddy", j \in DOMAIN BuddySet[pred]
    PROVE  /\ predBitVector = Cut(pred, j)
           /\ pred \in Preds(fn, BB) /\ pred \in LookedAt /\ pred \in Blocks
           /\ pred # BB => Cut(pred, j) \in Arrivals
           /\ pred = BB => predBitVector = Buddies[j] /\ j \in DOMAIN Buddies
                           /\ predBitVector # {} /\ predBitVector \subseteq alreadyInSets
<1>1. Busy /\ BB \in Blocks /\ fn \in Programs /\ pred \in Blocks
  BY WalkFacts DEF Busy, WalkInv
<1>2. pred \in LookedAt /\ pred \in Preds(fn, BB)
  BY <1>1, PredFacts DEF PartitionInv, Worked, LookedAt
<1>3. ASSUME pred = BB
      PROVE  predBitVector = Buddies[j] /\ j \in DOMAIN Buddies
             /\ predBitVector # {} /\ predBitVector \subseteq alreadyInSets
  <2>1. j \in DOMAIN Buddies /\ Buddies[j] \subseteq HotPathSet[BB]
    BY <1>1, <1>3, WalkFacts DEF Buddies
  <2>2. Buddies[j] \in Family
    BY <1>1, <2>1, FamilyFacts
  <2>3. Buddies[j] # {} /\ Buddies[j] \subseteq alreadyInSets
    BY <1>1, <2>2 DEF PartitionInv, Grouped, NoEmpty
  <2> QED BY <1>3, <2>1, <2>3 DEF predBitVector, Buddies
<1> QED BY <1>1, <1>2, <1>3, CutArrives DEF predBitVector, Cut

LEMMA ColdBuddyPartition ==
    ASSUME WalkInv, PartitionInv, ColdBuddy
    PROVE  PartitionInv'
<1> USE DEF ColdBuddy
<1>1. /\ pc = "buddy" /\ pc' = "buddy" /\ Busy /\ Busy' /\ BuddySet' = BuddySet
      /\ toPush' = toPush /\ alreadyInSets' = alreadyInSets /\ preds' = preds
      /\ hasColdPath' = TRUE /\ pred' = pred /\ j' = j + 1
  BY DEF Busy
<1>2. /\ BB' = BB /\ BB \in Blocks /\ Arrivals' = Arrivals
      /\ PredEdges(fn, BB)' = PredEdges(fn, BB) /\ Preds(fn, BB)' = Preds(fn, BB)
      /\ \A u \in Blocks \ {BB} : /\ DOMAIN BuddySet'[u] = DOMAIN BuddySet[u]
                                 /\ \A k : Cut(u, k)' = Cut(u, k)
  BY <1>1, SameArrivals, Zenon
<1>3. Family' = Family /\ LookedAt' = LookedAt
  BY <1>1, <1>2 DEF Family, Members, Buddies, LookedAt
<1>4. Grouped /\ Worked /\ ColdSoFar /\ PathsSeen
  BY <1>1 DEF PartitionInv
<1>5. Cut(pred, j) = {} /\ pred # BB /\ {} \in Arrivals
  BY <1>1, CurrentArrival
<1>6. ASSUME NEW u \in Blocks, NEW k \in DOMAIN BuddySet'[u], Visited(u, k)'
      PROVE  /\ u \in Blocks \ {BB} /\ k \in DOMAIN BuddySet[u]
             /\ Visited(u, k) \/ Cut(u, k) = {}
  <2>1. /\ DOMAIN BuddySet[u] = 1..Len(BuddySet[u]) /\ Len(BuddySet[u]) \in Nat
        /\ j \in Nat \ {0}
    BY <1>1, WalkFacts, LenProperties DEF WalkInv, TypeOK
  <2>2. u # BB /\ u \in LookedAt /\ (u = pred => k < j + 1)
    BY <1>1, <1>2, <1>3, <1>6 DEF Visited
  <2>3. CASE u = pred /\ k = j
    BY <1>1, <1>5, <2>2, <2>3
  <2>4. CASE u = pred => k < j
    BY <1>1, <2>2, <2>4 DEF Visited
  <2> QED BY <1>1, <2>1, <2>2, <2>3, <2>4
<1>7. Grouped'
  BY <1>1, <1>2, <1>3, <1>4 DEF Grouped
<1>8. Worked'
  <2>1. Handled({}, Family)
    BY DEF Handled, Respects
  <2>2. (\A u \in Blocks : \A k \in DOMAIN BuddySet[u] :
            Visited(u, k) => Handled(Cut(u, k), Family))'
    BY <1>2, <1>3, <1>4, <1>6, <2>1 DEF Worked
  <2> QED BY <1>1, <1>2, <1>3, <1>4, <2>2 DEF Worked
<1>9. ColdSoFar'
  BY <1>1, <1>2, <1>5 DEF ColdSoFar
<1>10. PathsSeen'
  BY <1>1, <1>4, SameSeen
<1> QED BY <1>1, <1>7, <1>8, <1>9, <1>10 DEF PartitionInv

LEMMA HotBuddyPartition ==
    ASSUME WalkInv, PartitionInv, HotBuddy
    PROVE  PartitionInv'
<1> USE DEF HotBuddy
<1> DEFINE S == Cut(pred, j)
<1>1. /\ pc = "buddy" /\ pc' = "split" /\ Busy /\ Busy' /\ preds' = preds
      /\ hasColdPath' = hasColdPath /\ pred' = pred /\ j' = j
      /\ j \in DOMAIN BuddySet[pred] /\ predBitVector # {}
      /\ toPush' = << >> /\ DOMAIN toPush' = {} /\ i' = 1
      /\ oldPaths' = alreadyInSets \cap predBitVector
      /\ alreadyInSets' = alreadyInSets \cup newPaths
  BY DEF Busy
<1>2. \A b \in Blocks \ {BB} : BuddySet'[b] = BuddySet[b]
  BY <1>1, WalkFacts
<1>3. /\ BB' = BB /\ BB \in Blocks /\ Arrivals' = Arrivals
      /\ PredEdges(fn, BB)' = PredEdges(fn, BB) /\ Preds(fn, BB)' = Preds(fn, BB)
      /\ \A u \in Blocks \ {BB} : /\ DOMAIN BuddySet'[u] = DOMAIN BuddySet[u]
                                 /\ \A k : Cut(u, k)' = Cut(u, k)
  BY <1>1, <1>2, SameArrivals, Zenon
<1>4. Grouped /\ Worked /\ ColdSoFar /\ PathsSeen
  BY <1>1 DEF PartitionInv
<1>5. LookedAt' = LookedAt
  BY <1>1, <1>3 DEF LookedAt
<1>6. ASSUME NEW u \in Blocks, NEW k \in DOMAIN BuddySet'[u], Visited(u, k)'
      PROVE  Visited(u, k) /\ u \in Blocks \ {BB} /\ k \in DOMAIN BuddySet[u]
  BY <1>1, <1>3, <1>5, <1>6 DEF Visited
<1>7. /\ predBitVector = S /\ pred \in Blocks
      /\ newPaths = S \ UNION Family /\ UNION Family = alreadyInSets
      /\ pred # BB => S \in Arrivals /\ Cut(pred, j)' = S /\ j \in DOMAIN BuddySet'[pred]
      /\ pred = BB => newPaths = {} /\ S = Buddies[j] /\ j \in DOMAIN Buddies
  <2>1. /\ predBitVector = S /\ pred \in Blocks
        /\ pred # BB => S \in Arrivals
        /\ pred = BB => /\ predBitVector = Buddies[j] /\ j \in DOMAIN Buddies
                        /\ predBitVector \subseteq alreadyInSets
    BY <1>1, CurrentArrival
  <2>2. UNION Family = alreadyInSets
    BY <1>4 DEF Grouped
  <2>3. newPaths = S \ alreadyInSets
    BY <2>1 DEF newPaths
  <2> QED BY <1>1, <1>3, <2>1, <2>2, <2>3
<1>8. /\ Family' = IF newPaths = {} THEN Family ELSE Family \cup {newPaths}
      /\ newPaths = {} => Buddies' = Buddies
  <2>1. toPush = << >>
    BY <1>1 DEF WalkInv, InProgress
  <2>2. ASSUME newPaths = {} PROVE Buddies' = Buddies
    BY <1>3, <2>2 DEF Buddies
  <2>3. CASE newPaths = {}
    BY <1>1, <2>1, <2>2, <2>3 DEF Family, Members
  <2>4. CASE newPaths # {}
    <3>1. Buddies' = Append(Buddies, newPaths)
      BY <1>1, <1>3, <2>4, WalkFacts DEF Buddies
    <3>2. /\ DOMAIN Append(Buddies, newPaths) = DOMAIN Buddies \cup {Len(Buddies) + 1}
          /\ \A m \in DOMAIN Buddies : Append(Buddies, newPaths)[m] = Buddies[m]
          /\ Append(Buddies, newPaths)[Len(Buddies) + 1] = newPaths
      <4>1. Buddies \in Seq(SUBSET DOMAIN fn.paths) /\ newPaths \in SUBSET DOMAIN fn.paths
        BY <1>1, WalkFacts DEF newPaths, predBitVector
      <4>2. /\ DOMAIN Append(Buddies, newPaths) = 1..(Len(Buddies) + 1)
            /\ \A m \in 1..Len(Buddies) : Append(Buddies, newPaths)[m] = Buddies[m]
            /\ Append(Buddies, newPaths)[Len(Buddies) + 1] = newPaths
        BY <4>1, AppendProperties, LenProperties
      <4>3. DOMAIN Buddies = 1..Len(Buddies) /\ Len(Buddies) \in Nat
        BY <4>1, LenProperties
      <4> QED BY <4>2, <4>3
    <3>3. Members(Append(Buddies, newPaths)) = Members(Buddies) \cup {newPaths}
      BY <3>2 DEF Members
    <3>4. Members(toPush) = {} /\ Members(toPush') = {}
      BY <1>1, <2>1 DEF Members
    <3>5. Members(Buddies)' = Members(Buddies') /\ Members(toPush)' = Members(toPush')
      BY DEF Members
    <3> QED BY <2>4, <3>1, <3>3, <3>4, <3>5 DEF Family
  <2> QED BY <2>2, <2>3, <2>4
<1>9. /\ Grouped'
      /\ \A T : Handled(T, Family) => Handled(T, Family')
      /\ pred # BB => S \subseteq UNION Family' /\ Respects(Family', newPaths)
  <2>1. CASE newPaths = {}
    <3>1. Family' = Family /\ alreadyInSets' = alreadyInSets
      BY <1>1, <1>8, <2>1
    <3>2. Respects(Family, newPaths)
      BY <2>1 DEF Respects
    <3> QED BY <1>3, <1>4, <1>7, <2>1, <3>1, <3>2 DEF Grouped
  <2>2. CASE newPaths # {}
    <3>1. pred # BB /\ Family' = Family \cup {newPaths} /\ S \in Arrivals
      BY <1>7, <1>8, <2>2
    <3>2. AddsTo(Family', Family, S, newPaths)
      BY <1>7, <2>2, <3>1 DEF AddsTo
    <3>3. NoEmpty(Family) /\ Coarse(Family, Arrivals) /\ Grounded(Family, Arrivals)
      BY <1>4 DEF Grouped
    <3>4. /\ NoEmpty(Family') /\ UNION Family' = (UNION Family) \cup newPaths
          /\ Coarse(Family', Arrivals) /\ Grounded(Family', Arrivals)
          /\ S \subseteq UNION Family' /\ Respects(Family', newPaths)
          /\ \A T : Handled(T, Family) => Handled(T, Family')
      <4> HIDE DEF HotBuddy, S
      <4> QED BY ONLY <3>1, <3>2, <3>3, Adding
    <3> QED BY <1>1, <1>3, <1>7, <3>4 DEF Grouped
  <2> QED BY <2>1, <2>2
<1>10. Worked'
  <2>1. (\A u \in Blocks : \A k \in DOMAIN BuddySet[u] :
            Visited(u, k) => Handled(Cut(u, k), Family))'
    BY <1>3, <1>4, <1>6, <1>9 DEF Worked
  <2> QED BY <1>1, <1>3, <1>4, <1>5, <2>1 DEF Worked
<1>11. ColdSoFar'
  <2>1. (\A u \in Blocks : \A k \in DOMAIN BuddySet[u] :
            Visited(u, k) /\ Cut(u, k) = {} => hasColdPath)'
    BY <1>1, <1>3, <1>4, <1>6 DEF ColdSoFar
  <2> QED BY <1>1, <1>3, <1>4, <1>5, <2>1 DEF ColdSoFar
<1>12. PathsSeen'
  BY <1>1, <1>4, SameSeen
<1>13. Splitting'
  <2>1. CASE pred = BB
    <3>1. Buddies' = Buddies /\ oldPaths' = alreadyInSets \cap Buddies[j]
      BY <1>1, <1>7, <1>8, <2>1
    <3>2. Buddies[j] \in Family /\ Buddies[j] \subseteq alreadyInSets
      BY <1>1, <1>7, <2>1, FamilyFacts
    <3>3. ASSUME NEW m \in DOMAIN Buddies
          PROVE  Buddies[m] \subseteq oldPaths' \/ oldPaths' \cap Buddies[m] = {}
      BY <1>1, <3>1, <3>2, FamilyFacts DEF Separate
    <3> QED BY <1>1, <1>3, <2>1, <3>1, <3>3 DEF Splitting, SplittingSelf
  <2>2. CASE pred # BB
    <3>1. S \ oldPaths' = newPaths /\ oldPaths' \subseteq S
      BY <1>1, <1>7 DEF newPaths
    <3>2. \A m \in DOMAIN Buddies' : ~(m < i')
      <4>1. Buddies' \in Seq(SUBSET DOMAIN fn.paths)
        BY <1>3, HotBuddyStep DEF Buddies, WalkInv, TypeOK
      <4> QED BY <1>1, <4>1, LenProperties
    <3>3. SplittingOther'
      BY <1>1, <1>7, <1>9, <2>2, <3>1, <3>2 DEF SplittingOther
    <3> QED BY <1>1, <1>3, <2>2, <3>3 DEF Splitting
  <2> QED BY <2>1, <2>2
<1> QED BY <1>1, <1>9, <1>10, <1>11, <1>12, <1>13 DEF PartitionInv

\* What a turn of the splitting loop does to the family.
LEMMA SplitFamily ==
    ASSUME WalkInv, Busy, NoEmpty(Family), Split
    PROVE  /\ i \in DOMAIN Buddies /\ Buddies[i] \in Family
           /\ DOMAIN Buddies' = DOMAIN Buddies
           /\ \A m \in DOMAIN Buddies : m # i => Buddies'[m] = Buddies[m]
           /\ Buddies'[i] \subseteq Buddies[i]
           /\ ~SplitsOff => Family' = Family /\ Buddies' = Buddies /\ toPush' = toPush
           /\ SplitsOff => /\ SplitsFrom(Family', Family, Buddies[i], oldPaths, temp)
                           /\ \A m \in DOMAIN toPush' :
                                 toPush'[m] = temp \/ \E n \in DOMAIN toPush : toPush'[m] = toPush[n]
<1> USE DEF Split
<1>1. /\ BB' = BB /\ BB \in Blocks /\ i \in DOMAIN Buddies /\ Buddies[i] \in Family
      /\ Buddies \in Seq(SUBSET DOMAIN fn.paths) /\ toPush \in Seq(SUBSET DOMAIN fn.paths)
      /\ temp \in SUBSET DOMAIN fn.paths /\ temp \subseteq Buddies[i]
  <2>1. BB' = BB /\ BB \in Blocks /\ i \in DOMAIN Buddies /\ Buddies[i] \in Family
        /\ Buddies \in Seq(SUBSET DOMAIN fn.paths)
    BY WalkFacts, FamilyFacts DEF BB
  <2>2. toPush \in Seq(SUBSET DOMAIN fn.paths) /\ oldPaths \subseteq DOMAIN fn.paths
    BY DEF WalkInv, TypeOK
  <2> QED BY <2>1, <2>2 DEF temp
<1>2. CASE ~SplitsOff
  <2>1. BuddySet' = BuddySet /\ Buddies' = Buddies /\ toPush' = toPush
    BY <1>1, <1>2 DEF Buddies
  <2>2. Family' = Family
    BY <2>1 DEF Family, Members
  <2> QED BY <1>1, <1>2, <2>1, <2>2
<1>3. CASE SplitsOff
  <2> DEFINE B == Buddies[i]
             rest == [Buddies EXCEPT ![i] = B \ temp]
  <2>1. BuddySet' = [BuddySet EXCEPT ![BB] = rest] /\ toPush' = Append(toPush, temp)
    BY <1>1, <1>3, WalkFacts DEF Buddies
  <2>2. Buddies' = rest
    BY <1>1, <2>1, WalkFacts DEF Buddies
  <2>3. /\ DOMAIN rest = DOMAIN Buddies /\ rest[i] = B \ temp
        /\ \A m \in DOMAIN Buddies : m # i => rest[m] = Buddies[m]
    BY <1>1
  <2>4. /\ DOMAIN Append(toPush, temp) = DOMAIN toPush \cup {Len(toPush) + 1}
        /\ \A m \in DOMAIN toPush : Append(toPush, temp)[m] = toPush[m]
        /\ Append(toPush, temp)[Len(toPush) + 1] = temp
    <3>1. /\ DOMAIN Append(toPush, temp) = 1..(Len(toPush) + 1)
          /\ \A m \in 1..Len(toPush) : Append(toPush, temp)[m] = toPush[m]
          /\ Append(toPush, temp)[Len(toPush) + 1] = temp
      BY <1>1, AppendProperties, LenProperties
    <3>2. DOMAIN toPush = 1..Len(toPush) /\ Len(toPush) \in Nat
      BY <1>1, LenProperties
    <3> QED BY <3>1, <3>2
  <2>5. Members(Append(toPush, temp)) = Members(toPush) \cup {temp}
    BY <2>4 DEF Members
  <2>6. B # {} /\ Disjoint(Buddies) /\ Apart(Buddies, toPush)
    BY <1>1 DEF NoEmpty, WalkInv, InProgress, Busy
  <2>7. Members(rest) = (Members(Buddies) \ {B}) \cup {B \ temp}
    <3>1. \A m \in DOMAIN Buddies : m # i => Buddies[m] # B
      BY <1>1, <2>6 DEF Disjoint
    <3> HIDE DEF rest
    <3> QED BY <1>1, <2>3, <3>1 DEF Members
  <2>8. B \notin Members(toPush)
    BY <1>1, <2>6 DEF Apart, Members
  <2>9. Family' = Members(rest) \cup Members(Append(toPush, temp))
    BY <2>1, <2>2 DEF Family, Members
  <2>10. SplitsFrom(Family', Family, B, oldPaths, temp)
    <3> HIDE DEF rest, B
    <3>1. temp # {} /\ temp # B
      BY <1>3 DEF SplitsOff, B
    <3>2. Family' = (Family \ {B}) \cup {B \ temp, temp}
      BY <2>5, <2>7, <2>8, <2>9 DEF Family
    <3> QED BY <1>1, <3>1, <3>2 DEF SplitsFrom, B, temp
  <2>11. \A m \in DOMAIN toPush' :
            toPush'[m] = temp \/ \E n \in DOMAIN toPush : toPush'[m] = toPush[n]
    BY <2>1, <2>4
  <2> QED BY <1>1, <1>3, <2>2, <2>3, <2>10, <2>11
<1> QED BY <1>2, <1>3

LEMMA SplitPartition ==
    ASSUME WalkInv, PartitionInv, Split
    PROVE  PartitionInv'
<1> USE DEF Split
<1> DEFINE S == Cut(pred, j)
<1>1. /\ pc = "split" /\ pc' = "split" /\ Busy /\ Busy' /\ preds' = preds
      /\ hasColdPath' = hasColdPath /\ pred' = pred /\ j' = j
      /\ oldPaths' = oldPaths \ temp /\ i' = i + 1 /\ i \in Nat
      /\ alreadyInSets' = alreadyInSets
  BY DEF Busy, WalkInv, TypeOK
<1>2. \A b \in Blocks \ {BB} : BuddySet'[b] = BuddySet[b]
  BY <1>1, WalkFacts
<1>3. /\ BB' = BB /\ BB \in Blocks /\ Arrivals' = Arrivals
      /\ PredEdges(fn, BB)' = PredEdges(fn, BB) /\ Preds(fn, BB)' = Preds(fn, BB)
      /\ \A u \in Blocks \ {BB} : /\ DOMAIN BuddySet'[u] = DOMAIN BuddySet[u]
                                 /\ \A k : Cut(u, k)' = Cut(u, k)
  BY <1>1, <1>2, SameArrivals, Zenon
<1>4. Grouped /\ Worked /\ ColdSoFar /\ PathsSeen /\ Splitting
  BY <1>1 DEF PartitionInv
<1>5. LookedAt' = LookedAt
  BY <1>1, <1>3 DEF LookedAt
<1>6. ASSUME NEW u \in Blocks, NEW k \in DOMAIN BuddySet'[u], Visited(u, k)'
      PROVE  Visited(u, k) /\ u \in Blocks \ {BB} /\ k \in DOMAIN BuddySet[u]
  BY <1>1, <1>3, <1>5, <1>6 DEF Visited
<1>7. /\ i \in DOMAIN Buddies /\ Buddies[i] \in Family
      /\ DOMAIN Buddies' = DOMAIN Buddies
      /\ \A m \in DOMAIN Buddies : m # i => Buddies'[m] = Buddies[m]
      /\ Buddies'[i] \subseteq Buddies[i]
      /\ ~SplitsOff => Family' = Family /\ Buddies' = Buddies /\ toPush' = toPush
      /\ SplitsOff => /\ SplitsFrom(Family', Family, Buddies[i], oldPaths, temp)
                      /\ \A m \in DOMAIN toPush' :
                            toPush'[m] = temp \/ \E n \in DOMAIN toPush : toPush'[m] = toPush[n]
  BY <1>1, <1>4, SplitFamily DEF Grouped
<1>8. /\ NoEmpty(Family) /\ Separate(Family)
      /\ Coarse(Family, Arrivals) /\ Grounded(Family, Arrivals)
      /\ UNION Family = alreadyInSets
  BY <1>1, <1>4, FamilyFacts DEF Grouped
<1>9. temp = oldPaths \cap Buddies[i]
  BY DEF temp
<1>10. pred = BB => ~SplitsOff
  BY <1>4, <1>7, <1>9 DEF Splitting, SplittingSelf, SplitsOff
<1>11. pred # BB => /\ S \in Arrivals /\ j \in DOMAIN BuddySet[pred] /\ oldPaths \subseteq S /\ S # {}
                    /\ S \subseteq UNION Family /\ Respects(Family, S \ oldPaths)
                    /\ \A m \in DOMAIN Buddies : m < i => oldPaths \cap Buddies[m] = {}
                    /\ \A m \in DOMAIN toPush : oldPaths \cap toPush[m] = {}
                    /\ Cut(pred, j)' = S /\ pred \in Blocks
  <2> SUFFICES ASSUME pred # BB PROVE /\ S \in Arrivals /\ SplittingOther
                                      /\ Cut(pred, j)' = S /\ pred \in Blocks
    BY DEF SplittingOther
  <2>1. pred \in Preds(fn, BB) /\ pred \in Blocks
    BY <1>1, <1>3, <1>4, PredFacts, WalkFacts DEF Worked, LookedAt, WalkInv
  <2>2. SplittingOther
    BY <1>4 DEF Splitting
  <2> QED BY <1>1, <1>3, <2>1, <2>2, CutArrives DEF SplittingOther
<1>12. /\ NoEmpty(Family') /\ UNION Family' = UNION Family
       /\ Coarse(Family', Arrivals) /\ Grounded(Family', Arrivals)
       /\ \A T : Handled(T, Family) => Handled(T, Family')
       /\ pred # BB => Respects(Family', S \ oldPaths')
  <2>1. CASE ~SplitsOff
    <3>1. ASSUME pred # BB PROVE Respects(Family, S \ oldPaths')
      <4>1. temp = {} \/ temp = Buddies[i]
        BY <2>1 DEF SplitsOff
      <4>2. CASE temp = {}
        <5>1. oldPaths' = oldPaths
          BY <1>1, <4>2
        <5> QED BY <1>11, <3>1, <5>1
      <4>3. CASE temp = Buddies[i]
        <5> SUFFICES ASSUME NEW C \in Family
                     PROVE  C \subseteq S \ oldPaths' \/ C \cap (S \ oldPaths') = {}
          BY DEF Respects
        <5>1. CASE C = Buddies[i]
          BY <1>1, <1>9, <1>11, <3>1, <4>3, <5>1
        <5>2. CASE C # Buddies[i]
          <6>1. C \cap temp = {}
            BY <1>7, <1>8, <4>3, <5>2 DEF Separate
          <6>2. C \subseteq S \ oldPaths \/ C \cap (S \ oldPaths) = {}
            BY <1>11, <3>1 DEF Respects
          <6> QED BY <1>1, <6>1, <6>2
        <5> QED BY <5>1, <5>2
      <4> QED BY <4>1, <4>2, <4>3
    <3> QED BY <1>7, <1>8, <2>1, <3>1
  <2>2. CASE SplitsOff
    <3>1. SplitsFrom(Family', Family, Buddies[i], oldPaths, temp) /\ pred # BB
      BY <1>7, <1>10, <2>2
    <3>2. S \in Arrivals /\ oldPaths \subseteq S /\ Respects(Family, S \ oldPaths)
      BY <1>11, <3>1
    <3>3. /\ NoEmpty(Family') /\ UNION Family' = UNION Family
          /\ Coarse(Family', Arrivals) /\ Grounded(Family', Arrivals)
          /\ Respects(Family', S \ (oldPaths \ temp))
          /\ \A T : Handled(T, Family) => Handled(T, Family')
      <4> HIDE DEF Split, S
      <4> QED BY ONLY <1>7, <1>8, <1>9, <3>1, <3>2, SplittingOff
    <3> QED BY <1>1, <3>3
  <2> QED BY <2>1, <2>2
<1>13. Grouped'
  BY <1>1, <1>3, <1>8, <1>12 DEF Grouped
<1>14. Worked'
  <2>1. (\A u \in Blocks : \A k \in DOMAIN BuddySet[u] :
            Visited(u, k) => Handled(Cut(u, k), Family))'
    BY <1>3, <1>4, <1>6, <1>12 DEF Worked
  <2> QED BY <1>1, <1>3, <1>4, <1>5, <2>1 DEF Worked
<1>15. ColdSoFar'
  <2>1. (\A u \in Blocks : \A k \in DOMAIN BuddySet[u] :
            Visited(u, k) /\ Cut(u, k) = {} => hasColdPath)'
    BY <1>1, <1>3, <1>4, <1>6 DEF ColdSoFar
  <2> QED BY <1>1, <1>3, <1>4, <1>5, <2>1 DEF ColdSoFar
<1>16. PathsSeen'
  BY <1>1, <1>4, SameSeen
<1>17. Splitting'
  <2>1. CASE pred = BB
    <3>1. SplittingSelf /\ Buddies' = Buddies /\ toPush' = toPush
          /\ (temp = {} \/ temp = Buddies[i])
      BY <1>4, <1>7, <1>10, <2>1 DEF Splitting, SplitsOff
    <3>2. ASSUME NEW m \in DOMAIN Buddies
          PROVE  Buddies[m] \subseteq oldPaths' \/ oldPaths' \cap Buddies[m] = {}
      <4>1. Buddies[m] \in Family
        BY <1>1, FamilyFacts
      <4>2. Buddies[m] = Buddies[i] \/ Buddies[m] \cap Buddies[i] = {}
        BY <1>7, <1>8, <4>1 DEF Separate
      <4> QED BY <1>1, <1>9, <3>1, <4>2 DEF SplittingSelf
    <3> QED BY <1>1, <1>3, <2>1, <3>1, <3>2 DEF Splitting, SplittingSelf
  <2>2. CASE pred # BB
    <3>1. ASSUME NEW m \in DOMAIN Buddies', m < i'
          PROVE  oldPaths' \cap Buddies'[m] = {}
      <4>1. CASE m = i
        BY <1>1, <1>7, <1>9, <4>1
      <4>2. CASE m # i
        <5>1. m \in DOMAIN Buddies /\ m < i
          <6>1. m \in Nat
            BY <1>1, <1>7, WalkFacts, LenProperties
          <6> QED BY <1>1, <1>7, <3>1, <4>2, <6>1
        <5> QED BY <1>1, <1>7, <1>11, <2>2, <4>2, <5>1
      <4> QED BY <4>1, <4>2
    <3>2. ASSUME NEW m \in DOMAIN toPush'
          PROVE  oldPaths' \cap toPush'[m] = {}
      BY <1>1, <1>7, <1>11, <2>2
    <3>3. /\ j' \in DOMAIN BuddySet'[pred'] /\ oldPaths' \subseteq S /\ S \subseteq UNION Family'
          /\ S # {}
          /\ Respects(Family', S \ oldPaths') /\ Cut(pred, j)' = S
      BY <1>1, <1>3, <1>11, <1>12, <2>2
    <3>4. SplittingOther'
      BY <3>1, <3>2, <3>3 DEF SplittingOther
    <3> QED BY <1>1, <1>3, <2>2, <3>4 DEF Splitting
  <2> QED BY <2>1, <2>2
<1> QED BY <1>1, <1>13, <1>14, <1>15, <1>16, <1>17 DEF PartitionInv

\* When the splitting loop ends, the arriving set has been worked in.
LEMMA SplitComplete ==
    ASSUME WalkInv, PartitionInv, SplitDone, pred # BB
    PROVE  Handled(Cut(pred, j), Family) /\ Cut(pred, j) # {}
<1> USE DEF SplitDone
<1> DEFINE S == Cut(pred, j)
<1>1. /\ Busy /\ S # {} /\ oldPaths \subseteq S /\ S \subseteq UNION Family
      /\ Respects(Family, S \ oldPaths)
      /\ \A m \in DOMAIN Buddies : m < i => oldPaths \cap Buddies[m] = {}
      /\ \A m \in DOMAIN toPush : oldPaths \cap toPush[m] = {}
  BY DEF PartitionInv, Splitting, SplittingOther, Busy
<1>2. oldPaths = {}
  <2>1. CASE i \notin DOMAIN Buddies
    <3>1. \A m \in DOMAIN Buddies : m < i
      <4>1. DOMAIN Buddies = 1..Len(Buddies) /\ Len(Buddies) \in Nat /\ i \in Nat \ {0}
        BY <1>1, WalkFacts, LenProperties DEF Busy, WalkInv, TypeOK
      <4> QED BY <2>1, <4>1
    <3>2. SUFFICES ASSUME NEW p \in oldPaths PROVE FALSE
      OBVIOUS
    <3>3. PICK B \in Family : p \in B
      BY <1>1
    <3> QED BY <1>1, <3>1, <3>3, FamilyFacts
  <2> QED BY <2>1
<1>3. S \ oldPaths = S
  BY <1>2
<1> QED BY <1>1, <1>3 DEF Handled

LEMMA SplitDonePartition ==
    ASSUME WalkInv, PartitionInv, SplitDone
    PROVE  PartitionInv'
<1> USE DEF SplitDone
<1>1. /\ pc = "split" /\ pc' = "buddy" /\ Busy /\ Busy' /\ preds' = preds
      /\ hasColdPath' = hasColdPath /\ pred' = pred /\ j' = j + 1
      /\ toPush' = << >> /\ DOMAIN toPush' = {} /\ alreadyInSets' = alreadyInSets
  BY DEF Busy
<1>2. \A b \in Blocks \ {BB} : BuddySet'[b] = BuddySet[b]
  BY <1>1, WalkFacts
<1>3. /\ BB' = BB /\ BB \in Blocks /\ Arrivals' = Arrivals
      /\ PredEdges(fn, BB)' = PredEdges(fn, BB) /\ Preds(fn, BB)' = Preds(fn, BB)
      /\ \A u \in Blocks \ {BB} : /\ DOMAIN BuddySet'[u] = DOMAIN BuddySet[u]
                                 /\ \A k : Cut(u, k)' = Cut(u, k)
  BY <1>1, <1>2, SameArrivals, Zenon
<1>4. Grouped /\ Worked /\ ColdSoFar /\ PathsSeen
  BY <1>1 DEF PartitionInv
<1>5. LookedAt' = LookedAt
  BY <1>1, <1>3 DEF LookedAt
<1>6. Family' = Family
  <2>1. Buddies' = Buddies \o toPush
    BY <1>1, <1>3, WalkFacts DEF Buddies, Pushed
  <2>2. /\ DOMAIN Buddies = 1..Len(Buddies) /\ Len(Buddies) \in Nat
        /\ DOMAIN toPush = 1..Len(toPush) /\ Len(toPush) \in Nat
        /\ DOMAIN (Buddies \o toPush) = 1..(Len(Buddies) + Len(toPush))
        /\ \A k \in 1..(Len(Buddies) + Len(toPush)) :
              (Buddies \o toPush)[k] = IF k <= Len(Buddies) THEN Buddies[k]
                                       ELSE toPush[k - Len(Buddies)]
    <3>1. Buddies \in Seq(SUBSET DOMAIN fn.paths) /\ toPush \in Seq(SUBSET DOMAIN fn.paths)
      BY <1>1, WalkFacts DEF WalkInv, TypeOK
    <3> QED BY <3>1, ConcatProperties, LenProperties
  <2>3. \A m \in DOMAIN Buddies : /\ m \in DOMAIN (Buddies \o toPush)
                                  /\ (Buddies \o toPush)[m] = Buddies[m]
    BY <2>2
  <2>4. \A m \in DOMAIN toPush : /\ m + Len(Buddies) \in DOMAIN (Buddies \o toPush)
                                 /\ (Buddies \o toPush)[m + Len(Buddies)] = toPush[m]
    BY <2>2
  <2>5. \A m \in DOMAIN (Buddies \o toPush) :
            \/ m \in DOMAIN Buddies /\ (Buddies \o toPush)[m] = Buddies[m]
            \/ /\ m - Len(Buddies) \in DOMAIN toPush
               /\ (Buddies \o toPush)[m] = toPush[m - Len(Buddies)]
    BY <2>2
  <2>6. Members(Buddies \o toPush) = Members(Buddies) \cup Members(toPush)
    BY <2>3, <2>4, <2>5 DEF Members
  <2>7. Members(toPush') = {}
    BY <1>1 DEF Members
  <2>8. Family' = Members(Buddies') \cup Members(toPush')
    BY DEF Family, Members
  <2> QED BY <2>1, <2>6, <2>7, <2>8 DEF Family
<1>7. ASSUME NEW u \in Blocks, NEW k \in DOMAIN BuddySet'[u], Visited(u, k)'
      PROVE  /\ u \in Blocks \ {BB} /\ k \in DOMAIN BuddySet[u]
             /\ Visited(u, k) \/ (Handled(Cut(u, k), Family) /\ Cut(u, k) # {})
  <2>1. u # BB /\ u \in LookedAt /\ (u = pred => k < j + 1)
    BY <1>1, <1>3, <1>5, <1>7 DEF Visited
  <2>2. /\ DOMAIN BuddySet[u] = 1..Len(BuddySet[u]) /\ Len(BuddySet[u]) \in Nat
        /\ j \in Nat \ {0}
    BY <1>1, WalkFacts, LenProperties DEF WalkInv, TypeOK
  <2>3. CASE u = pred /\ k = j
    BY <1>3, <2>1, <2>3, SplitComplete
  <2>4. CASE u = pred => k < j
    BY <1>3, <2>1, <2>4 DEF Visited
  <2> QED BY <1>3, <2>1, <2>2, <2>3, <2>4
<1>8. Grouped'
  BY <1>1, <1>3, <1>4, <1>6 DEF Grouped
<1>9. Worked'
  <2>1. (\A u \in Blocks : \A k \in DOMAIN BuddySet[u] :
            Visited(u, k) => Handled(Cut(u, k), Family))'
    BY <1>3, <1>4, <1>6, <1>7 DEF Worked
  <2> QED BY <1>1, <1>3, <1>4, <1>5, <2>1 DEF Worked
<1>10. ColdSoFar'
  <2>1. (\A u \in Blocks : \A k \in DOMAIN BuddySet[u] :
            Visited(u, k) /\ Cut(u, k) = {} => hasColdPath)'
    BY <1>1, <1>3, <1>4, <1>7 DEF ColdSoFar
  <2> QED BY <1>1, <1>3, <1>4, <1>5, <2>1 DEF ColdSoFar
<1>11. PathsSeen'
  BY <1>1, <1>4, SameSeen
<1> QED BY <1>1, <1>8, <1>9, <1>10, <1>11 DEF PartitionInv

\* Walking past the current block adds its hot paths to those seen.
LEMMA SeenGrows ==
    ASSUME WalkInv, pos \in DOMAIN fn.rpo, pos' = pos + 1, UNCHANGED <<fn, HotPathSet>>
    PROVE  Seen' = Seen \cup HotPathSet[BB] /\ pos' <= Len(fn.rpo) + 1
<1>1. pos \in Nat \ {0} /\ DOMAIN fn.rpo = 1..Len(fn.rpo) /\ Len(fn.rpo) \in Nat
  BY GraphFacts DEF WalkInv, TypeOK
<1>2. 1..(pos' - 1) = (1..(pos - 1)) \cup {pos}
  BY <1>1
<1> QED BY <1>1, <1>2 DEF Seen, BB

LEMMA BlockLoopPartition ==
    ASSUME WalkInv, PartitionInv, EntryBlock \/ EnterBlock \/ Return \/ getProfileInfo
    PROVE  PartitionInv'
<1>1. CASE getProfileInfo
  <2>1. pos = 1 /\ 1..(1 - 1) = {} /\ Seen = {} /\ Seen' = {}
    BY <1>1 DEF getProfileInfo, PartitionInv, PathsSeen, Seen
  <2> QED BY <1>1, <2>1 DEF getProfileInfo, PartitionInv, PathsSeen, Busy, locals
<1>2. CASE EntryBlock
  <2>1. Seen' = Seen \cup HotPathSet[BB] /\ pos' <= Len(fn.rpo) + 1
    BY <1>2, SeenGrows DEF EntryBlock
  <2> QED BY <1>2, <2>1 DEF EntryBlock, PartitionInv, PathsSeen, Busy
<1>3. CASE EnterBlock
  <2> USE <1>3 DEF EnterBlock
  <2>1. /\ pc = "block" /\ pc' = "pred" /\ BB' = BB /\ Seen' = Seen
        /\ preds' = PredEdges(fn, BB) /\ PredEdges(fn, BB)' = PredEdges(fn, BB)
        /\ hasColdPath' = FALSE /\ alreadyInSets' = {}
    BY DEF BB, Seen
  <2>2. /\ Buddies' = << >> /\ toPush' = << >>
        /\ DOMAIN Buddies' = {} /\ DOMAIN toPush' = {}
    <3>1. pos \in Nat \ {0} /\ toPush = << >>
      BY DEF WalkInv, TypeOK, InProgress
    <3>2. BuddySet[BB] = << >>
      BY <3>1 DEF WalkInv, Untouched, BB
    <3> QED BY <2>1, <3>1, <3>2 DEF Buddies
  <2>3. Family' = {} /\ LookedAt' = {}
    BY <2>1, <2>2 DEF Family, Members, LookedAt
  <2>4. PathsSeen'
    BY <2>1 DEF PartitionInv, PathsSeen, Busy
  <2>5. Grouped'
    BY <2>1, <2>3 DEF Grouped, NoEmpty, Coarse, Grounded
  <2>6. Worked'
    BY <2>1, <2>3 DEF Worked, Visited
  <2>7. ColdSoFar'
    BY <2>1, <2>3 DEF ColdSoFar, Visited
  <2> QED BY <2>1, <2>4, <2>5, <2>6, <2>7 DEF PartitionInv
<1>4. CASE Return
  <2>1. Seen' = Seen
    BY <1>4 DEF Return, Seen
  <2> QED BY <1>4, <2>1 DEF Return, PartitionInv, PathsSeen, Busy, locals
<1> QED BY <1>1, <1>2, <1>3, <1>4

LEMMA LeaveBlockPartition ==
    ASSUME WalkInv, PartitionInv, LeaveBlock
    PROVE  PartitionInv'
<1>1. Busy /\ pos \in DOMAIN fn.rpo /\ pc = "pred"
  BY WalkFacts DEF LeaveBlock, Busy
<1>2. Seen' = Seen \cup HotPathSet[BB] /\ pos' <= Len(fn.rpo) + 1
  BY <1>1, SeenGrows DEF LeaveBlock
<1> QED BY <1>1, <1>2 DEF LeaveBlock, PartitionInv, PathsSeen, Busy, locals

LEMMA InitPartition == Init => PartitionInv
<1> SUFFICES ASSUME Init PROVE PartitionInv
  OBVIOUS
<1>1. Seen = {}
  BY DEF Init, Seen
<1>2. Len(fn.rpo) \in Nat
  BY GraphFacts DEF Init
<1> QED BY <1>1, <1>2 DEF Init, PartitionInv, PathsSeen, Busy

LEMMA PartitionInvStep == WalkInv /\ PartitionInv /\ [Next]_vars => PartitionInv'
<1> SUFFICES ASSUME WalkInv, PartitionInv, [Next]_vars PROVE PartitionInv'
  OBVIOUS
<1>1. CASE UNCHANGED vars
  <2>1. /\ BB' = BB /\ Buddies' = Buddies /\ UNCHANGED <<control, locals>>
        /\ UNCHANGED <<fn, HotPathSet, allPaths, BuddySet, isCaloric>>
    BY <1>1 DEF vars, control, BB, Buddies
  <2>2. /\ Family' = Family /\ LookedAt' = LookedAt /\ Seen' = Seen /\ Arrivals' = Arrivals
        /\ \A u, k : Cut(u, k)' = Cut(u, k) /\ (Visited(u, k)' <=> Visited(u, k))
    BY <2>1 DEF Family, Members, LookedAt, Seen, Arrivals, Cut, Visited, control, locals
  <2> QED BY <2>1, <2>2 DEF PartitionInv, PathsSeen, Busy, Grouped, Worked, ColdSoFar,
             Splitting, SplittingSelf, SplittingOther, control, locals
<1> QED BY <1>1, BlockLoopPartition, LeaveBlockPartition, NextPredPartition,
           PredDonePartition, ColdBuddyPartition, HotBuddyPartition, SplitPartition,
           SplitDonePartition DEF Next

----------------------------------------------------------------------------
(* What a block has when the walk leaves it.                               *)

\* With all predecessors looked at, the buddy sets are the coarsest partition of what
\* arrived that splits none of it.
LEMMA LeftWithAtoms ==
    ASSUME WalkInv, PartitionInv, LeaveBlock
    PROVE  /\ Members(Buddies) = Partition!Atoms(Arrivals)
           /\ UNION Members(Buddies) = alreadyInSets
           /\ \A S \in Arrivals : S \subseteq alreadyInSets
           /\ hasColdPath <=> \/ \E u \in Preds(fn, BB) : HotPathSet[u] = {}
                              \/ {} \in Arrivals
<1>1. /\ pc = "pred" /\ preds = {} /\ Busy /\ BB \in Blocks /\ fn \in Programs
      /\ toPush = << >>
  BY WalkFacts DEF LeaveBlock, Busy, WalkInv, InProgress
<1>2. Grouped /\ Worked /\ ColdSoFar
  BY <1>1 DEF PartitionInv
<1>3. LookedAt = Preds(fn, BB)
  BY <1>1 DEF LookedAt, Preds
<1>4. Members(toPush) = {} /\ Family = Members(Buddies)
  BY <1>1 DEF Family, Members
<1>5. ASSUME NEW S \in Arrivals
      PROVE  \E u \in Blocks : \E k \in DOMAIN BuddySet[u] : Visited(u, k) /\ S = Cut(u, k)
  <2>1. PICK u \in Preds(fn, BB) \ {BB} : \E k \in DOMAIN BuddySet[u] : S = Cut(u, k)
    BY DEF Arrivals
  <2>2. u \in Blocks
    BY <1>1, <2>1, PredFacts
  <2> QED BY <1>1, <1>3, <2>1, <2>2 DEF Visited
<1>6. ASSUME NEW S \in Arrivals
      PROVE  Handled(S, Family) /\ (S = {} => hasColdPath)
  BY <1>2, <1>5 DEF Worked, ColdSoFar
<1>7. Family = Partition!Atoms(Arrivals)
  BY <1>1, <1>2, <1>6, FamilyFacts, FamilyIsAtoms DEF Grouped
<1>8. hasColdPath <=> \/ \E u \in Preds(fn, BB) : HotPathSet[u] = {}
                      \/ {} \in Arrivals
  BY <1>2, <1>3, <1>6 DEF ColdSoFar
<1>9. \A S \in Arrivals : S \subseteq UNION Family
  BY <1>6 DEF Handled
<1>10. UNION Family = alreadyInSets
  BY <1>2 DEF Grouped
<1> QED BY <1>4, <1>7, <1>8, <1>9, <1>10

\* The buddy sets after the incubating paths have joined.
LEMMA LeftJoined ==
    ASSUME WalkInv, PartitionInv, LeaveBlock
    PROVE  /\ DOMAIN BuddySet'[BB] = DOMAIN Buddies
           /\ \A k \in DOMAIN Buddies : BuddySet'[BB][k] = Buddies[k] \cup IncubationPath
           /\ \A b \in Blocks \ {BB} : BuddySet'[b] = BuddySet[b]
<1>1. BB \in Blocks /\ BuddySet \in [Blocks -> Seq(SUBSET DOMAIN fn.paths)]
      /\ Buddies = BuddySet[BB]
  BY WalkFacts DEF LeaveBlock
<1> QED BY <1>1 DEF LeaveBlock

----------------------------------------------------------------------------
(* The theorems.                                                           *)

\* Whatever the function, while a block that is its own predecessor is walked over, no
\* step changes the number of its buddy sets: the iterator of getCaloricConnector over
\* BuddySet[pred] stays valid.
LEMMA SelfLoopStep ==
    ASSUME WalkInv, PartitionInv, [Next]_vars, pc \in {"buddy", "split"}, pred = BB
    PROVE  Len(BuddySet[BB])' = Len(BuddySet[BB])
<1>1. Busy /\ Buddies = BuddySet[BB] /\ Buddies \in Seq(SUBSET DOMAIN fn.paths)
  BY WalkFacts DEF Busy
<1>2. CASE UNCHANGED BuddySet /\ UNCHANGED <<fn, pos>>
  BY <1>2 DEF BB
<1>3. CASE HotBuddy
  <2>1. newPaths = {}
    BY <1>3, CurrentArrival DEF HotBuddy, newPaths
  <2> QED BY <1>3, <2>1 DEF HotBuddy, BB
<1>4. CASE Split
  <2>1. SplittingSelf /\ i \in DOMAIN Buddies
    BY <1>4, <1>1 DEF Split, PartitionInv, Splitting
  <2>2. ~SplitsOff
    BY <2>1 DEF SplittingSelf, SplitsOff, temp
  <2> QED BY <1>4, <2>2 DEF Split, BB
<1>5. CASE SplitDone
  <2>1. toPush = << >>
    BY <1>5 DEF SplitDone, PartitionInv, Splitting, SplittingSelf
  <2>2. Pushed = Buddies
    BY <1>1, <2>1 DEF Pushed
  <2>3. BuddySet' = [BuddySet EXCEPT ![BB] = Buddies] /\ BB' = BB
    BY <1>5, <2>2 DEF SplitDone, BB
  <2> QED BY <1>1, <2>3, WalkFacts
<1>6. CASE PredDone \/ ColdBuddy
  BY <1>6, <1>2 DEF PredDone, ColdBuddy
<1>7. CASE UNCHANGED vars
  BY <1>7, <1>2 DEF vars, control
<1> QED BY <1>3, <1>4, <1>5, <1>6, <1>7 DEF Next, getProfileInfo, EntryBlock, EnterBlock,
       LeaveBlock, Return, NextPred

\* The length of the buddy sets of a self loop never changes while they are read.
THEOREM SelfLoopNeverGrows == Spec => SelfLoopHarmless
<1>1. WalkInv /\ PartitionInv /\ [Next]_vars =>
          [(pc \in {"buddy", "split"} /\ pred = BB)
              => Len(BuddySet[BB])' = Len(BuddySet[BB])]_vars
  BY SelfLoopStep
<1> QED BY <1>1, InitWalkInv, WalkInvStep, InitPartition, PartitionInvStep, PTL
        DEF Spec, SelfLoopHarmless

\* Path p is in exactly one of the sets of s.
InOneOf(p, s) == \E k \in DOMAIN s : p \in s[k] /\ \A m \in DOMAIN s : p \in s[m] => m = k

\* The part of HotPathsCarried about the block at place n of the traversal.
CarriedAt(n) == \A p \in HotPathSet[fn.rpo[n]] :
                    ComesTo(fn, p, fn.rpo[n]) => InOneOf(p, BuddySet[fn.rpo[n]])

LEMMA CarriedByPlaces ==
    HotPathsCarried <=> \A n \in DOMAIN fn.rpo : n < pos /\ pc # "profile" => CarriedAt(n)
  BY DEF HotPathsCarried, CarriedAt, InOneOf

\* A path that comes to a block along edges of the function comes from a predecessor that
\* the walk has left, and comes to this predecessor in the same way.
LEMMA ComesFromPred ==
    ASSUME WalkInv, PartitionInv, LeaveBlock, NEW p \in HotPathSet[BB], ComesTo(fn, p, BB)
    PROVE  \E n \in DOMAIN fn.rpo :
              /\ n < pos /\ fn.rpo[n] \in Preds(fn, BB) \ {BB}
              /\ p \in HotPathSet[fn.rpo[n]] /\ ComesTo(fn, p, fn.rpo[n])
<1>1. /\ pc = "pred" /\ BB \in Blocks /\ BB # fn.entry /\ fn \in Programs
      /\ pos \in DOMAIN fn.rpo /\ HotPathSet = ProfileOf(fn)
      /\ p \in DOMAIN fn.paths
  BY WalkFacts DEF LeaveBlock, WalkInv, TypeOK, PartitionInv, PathsSeen
<1> DEFINE path == fn.paths[p]
<1>2. path \in Seq(Blocks)
  BY <1>1, ProgramsAssumption DEF WellFormedPath
<1>3. PICK m \in DOMAIN path :
         /\ path[1] = fn.entry /\ path[m] = BB
         /\ \A k \in 1..(m - 1) : Forward(fn, path[k], path[k + 1])
  BY DEF ComesTo
<1>4. /\ m \in Nat /\ m > 1 /\ m - 1 \in DOMAIN path /\ m - 1 \in 1..(m - 1)
      /\ path[m - 1] \in Blocks /\ (m - 1) + 1 = m
  <2>1. DOMAIN path = 1..Len(path) /\ Len(path) \in Nat
    BY <1>2, LenProperties
  <2>2. m # 1
    BY <1>1, <1>3
  <2>3. m \in Nat /\ m > 1 /\ m - 1 \in DOMAIN path /\ m - 1 \in 1..(m - 1) /\ (m - 1) + 1 = m
    BY <2>1, <2>2
  <2> QED BY <1>2, <2>3, ElementOfSeq
<1>5. Forward(fn, path[m - 1], BB)
  BY <1>3, <1>4
<1>6. PICK n \in DOMAIN fn.rpo, q \in DOMAIN fn.rpo :
         n < q /\ fn.rpo[n] = path[m - 1] /\ fn.rpo[q] = BB
  BY <1>5 DEF Forward, Before
<1>7. n < pos /\ fn.rpo[n] # BB
  <2>1. q = pos /\ n \in Nat /\ q \in Nat
    BY <1>1, <1>6, GraphFacts DEF BB
  <2>2. fn.rpo[n] # fn.rpo[q]
    BY <1>1, <1>6, <2>1, GraphFacts
  <2> QED BY <1>6, <2>1, <2>2
<1>8. fn.rpo[n] \in Preds(fn, BB)
  BY <1>1, <1>4, <1>5, <1>6, PredFacts DEF Forward
<1>9. p \in HotPathSet[fn.rpo[n]]
  BY <1>1, <1>4, <1>6 DEF ProfileOf, BlocksOf
<1>10. ComesTo(fn, p, fn.rpo[n])
  <2>1. \A k \in 1..((m - 1) - 1) : Forward(fn, path[k], path[k + 1])
    BY <1>3, <1>4
  <2> QED BY <1>3, <1>4, <1>6, <2>1 DEF ComesTo
<1> QED BY <1>6, <1>7, <1>8, <1>9, <1>10

\* So the block the walk leaves carries it once: it arrived in a buddy set of that
\* predecessor, and it is not among the incubating paths.
LEMMA LeaveBlockCarries ==
    ASSUME WalkInv, PartitionInv, LeaveBlock, HotPathsCarried,
           NEW p \in HotPathSet[BB], ComesTo(fn, p, BB)
    PROVE  InOneOf(p, BuddySet'[BB])
<1>1. PICK n \in DOMAIN fn.rpo :
         /\ n < pos /\ fn.rpo[n] \in Preds(fn, BB) \ {BB}
         /\ p \in HotPathSet[fn.rpo[n]] /\ ComesTo(fn, p, fn.rpo[n])
  BY ComesFromPred
<1> DEFINE u == fn.rpo[n]
<1>2. /\ pc = "pred" /\ Busy /\ pos \in Nat /\ n \in Nat \ {0} /\ Disjoint(Buddies)
  <2>1. pc = "pred" /\ Busy /\ Disjoint(Buddies) /\ pos \in Nat /\ fn \in Programs
    BY WalkFacts DEF LeaveBlock, Busy, WalkInv, InProgress
  <2>2. n \in Nat \ {0}
    BY <2>1, GraphFacts
  <2> QED BY <2>1, <2>2
<1>3. PICK k \in DOMAIN BuddySet[u] : p \in BuddySet[u][k]
  BY <1>1, <1>2, CarriedByPlaces DEF CarriedAt, InOneOf
<1>4. p \in Cut(u, k) /\ Cut(u, k) \in Arrivals
  BY <1>1, <1>2, <1>3, CutArrives DEF Cut
<1>5. PICK m \in DOMAIN Buddies : p \in Buddies[m]
  BY <1>4, LeftWithAtoms DEF Members
<1>6. p \notin IncubationPath
  <2>1. n \in 1..(pos - 1)
    BY <1>1, <1>2
  <2>2. p \in Seen
    BY <1>1, <2>1 DEF Seen
  <2> QED BY <1>2, <2>2 DEF PartitionInv, PathsSeen
<1>7. \A q \in DOMAIN Buddies : p \in Buddies[q] => q = m
  BY <1>2, <1>5 DEF Disjoint
<1> QED BY <1>5, <1>6, <1>7, LeftJoined DEF InOneOf

LEMMA EntryBlockCarries ==
    ASSUME WalkInv, EntryBlock, NEW p \in HotPathSet[BB]
    PROVE  InOneOf(p, BuddySet'[BB])
<1>1. /\ BB \in Blocks /\ BuddySet \in [Blocks -> Seq(SUBSET DOMAIN fn.paths)]
      /\ pos \in DOMAIN fn.rpo /\ pc = "block"
  BY GraphFacts DEF EntryBlock, WalkInv, TypeOK, BB
<1>2. BuddySet[BB] = << >>
  BY <1>1, GraphFacts DEF WalkInv, Untouched, BB, TypeOK
<1>3. BuddySet'[BB] = <<HotPathSet[BB]>>
  BY <1>1, <1>2 DEF EntryBlock
<1> QED BY <1>3 DEF InOneOf

\* A step that leaves the blocks behind the walk alone keeps what they carry.
LEMMA StillCarried ==
    ASSUME WalkInv, HotPathsCarried, UNCHANGED <<fn, HotPathSet>>, pc # "profile",
           NEW n \in DOMAIN fn.rpo, n < pos, BuddySet'[fn.rpo[n]] = BuddySet[fn.rpo[n]]
    PROVE  CarriedAt(n)'
  BY CarriedByPlaces DEF CarriedAt

LEMMA CarriedStep ==
    ASSUME WalkInv, PartitionInv, HotPathsCarried, [Next]_vars
    PROVE  HotPathsCarried'
<1> SUFFICES ASSUME NEW n \in DOMAIN fn'.rpo, n < pos', pc' # "profile"
             PROVE  CarriedAt(n)'
  BY CarriedByPlaces DEF HotPathsCarried, CarriedAt, InOneOf
<1>1. /\ fn' = fn /\ n \in Nat \ {0} /\ pos \in Nat \ {0} /\ fn \in Programs
      /\ fn.rpo[n] \in Blocks
  <2>1. fn' = fn
    BY DEF Next, vars, getProfileInfo, EntryBlock, EnterBlock, LeaveBlock, Return, NextPred,
           PredDone, ColdBuddy, HotBuddy, Split, SplitDone
  <2> QED BY <2>1, GraphFacts DEF WalkInv, TypeOK
<1>2. CASE getProfileInfo
  BY <1>1, <1>2 DEF getProfileInfo, PartitionInv, PathsSeen
<1>3. CASE EntryBlock
  <2>1. pos' = pos + 1 /\ pc = "block" /\ HotPathSet' = HotPathSet /\ pos \in DOMAIN fn.rpo
        /\ \A b \in Blocks \ {BB} : BuddySet'[b] = BuddySet[b]
    BY <1>3 DEF EntryBlock, WalkInv, TypeOK
  <2>2. CASE n = pos
    BY <1>1, <1>3, <2>1, <2>2, EntryBlockCarries DEF CarriedAt, BB
  <2>3. CASE n < pos
    <3>1. fn.rpo[n] # BB
      BY <1>1, <2>1, <2>3, GraphFacts DEF BB
    <3> QED BY <1>1, <2>1, <2>3, <3>1, StillCarried
  <2> QED BY <1>1, <2>1, <2>2, <2>3
<1>4. CASE LeaveBlock
  <2>1. pos' = pos + 1 /\ pc = "pred" /\ HotPathSet' = HotPathSet /\ pos \in DOMAIN fn.rpo
        /\ \A b \in Blocks \ {BB} : BuddySet'[b] = BuddySet[b]
    BY <1>4, LeftJoined, WalkFacts DEF LeaveBlock
  <2>2. CASE n = pos
    BY <1>1, <1>4, <2>1, <2>2, LeaveBlockCarries DEF CarriedAt, BB
  <2>3. CASE n < pos
    <3>1. fn.rpo[n] # BB
      BY <1>1, <2>1, <2>3, GraphFacts DEF BB
    <3> QED BY <1>1, <2>1, <2>3, <3>1, StillCarried
  <2> QED BY <1>1, <2>1, <2>2, <2>3
<1>5. CASE EnterBlock \/ Return \/ NextPred \/ PredDone \/ ColdBuddy \/ UNCHANGED vars
  <2>1. UNCHANGED <<HotPathSet, BuddySet, pos>> /\ pc # "profile"
    BY <1>5 DEF EnterBlock, Return, NextPred, PredDone, ColdBuddy, vars, control, locals
  <2> QED BY <1>1, <2>1, StillCarried
<1>6. CASE HotBuddy \/ Split \/ SplitDone
  <2>1. UNCHANGED <<HotPathSet, pos>> /\ pc \in {"pred", "buddy", "split"}
        /\ \A b \in Blocks \ {BB} : BuddySet'[b] = BuddySet[b]
    BY <1>6, WalkFacts DEF HotBuddy, Split, SplitDone
  <2>2. fn.rpo[n] # BB /\ n < pos
    BY <1>1, <2>1, GraphFacts, WalkFacts DEF BB
  <2> QED BY <1>1, <2>1, <2>2, StillCarried
<1> QED BY <1>2, <1>3, <1>4, <1>5, <1>6 DEF Next

\* Whatever the function, every hot path that comes to a block along the function's
\* edges is in exactly one of the buddy sets getCaloricConnector leaves the block with.
THEOREM HotPathsAlwaysCarried == Spec => []HotPathsCarried
<1>1. Init => HotPathsCarried
  BY DEF Init, HotPathsCarried
<1> QED BY <1>1, InitWalkInv, WalkInvStep, InitPartition, PartitionInvStep, CarriedStep, PTL
        DEF Spec

----------------------------------------------------------------------------
(* The refinement.                                                         *)

\* The buddy sets BuddyPartition is shown.
Shown == [b \in Blocks |-> IF pos \in DOMAIN fn.rpo /\ b = BB THEN {}
                           ELSE {BuddySet[b][k] : k \in DOMAIN BuddySet[b]}]

\* What is shown at the block the walk has just come to, and at the others.
LEMMA ShownNext ==
    ASSUME WalkInv, WalkInv', pos \in DOMAIN fn.rpo, pos' = pos + 1, UNCHANGED fn,
           pc' = "block", \A b \in Blocks \ {BB} : BuddySet'[b] = BuddySet[b]
    PROVE  Shown' = [Shown EXCEPT ![BB] = Members(BuddySet'[BB])]
<1>1. /\ BB \in Blocks /\ pos \in Nat \ {0} /\ fn \in Programs
      /\ DOMAIN fn.rpo = 1..Len(fn.rpo) /\ Len(fn.rpo) \in Nat
  BY GraphFacts DEF WalkInv, TypeOK, BB
<1> SUFFICES ASSUME NEW b \in Blocks
             PROVE  Shown'[b] = [Shown EXCEPT ![BB] = Members(BuddySet'[BB])][b]
  BY <1>1 DEF Shown
<1>2. CASE pos' \in DOMAIN fn'.rpo /\ b = BB'
  <2>1. BuddySet'[b] = << >>
    BY <1>1, <1>2 DEF WalkInv, Untouched, BB
  <2>2. b # BB
    BY <1>1, <1>2, GraphFacts DEF BB
  <2>3. BuddySet[b] = << >>
    BY <2>1, <2>2
  <2> QED BY <1>1, <1>2, <2>2, <2>3 DEF Shown
<1>3. CASE ~(pos' \in DOMAIN fn'.rpo /\ b = BB')
  BY <1>1, <1>3 DEF Shown, Members
<1> QED BY <1>2, <1>3

\* A step that neither moves the walk nor touches the blocks shown is not seen.
LEMMA ShownSame ==
    ASSUME UNCHANGED <<fn, pos>>,
           \A b \in Blocks : (pos \in DOMAIN fn.rpo /\ b = BB) \/ BuddySet'[b] = BuddySet[b]
    PROVE  Shown' = Shown
<1>1. BB' = BB
  BY DEF BB
<1> QED BY <1>1 DEF Shown

\* BuddyPartition means the same by predecessors and profile.
LEMMA SameOperators ==
    /\ \A b : Partition!Preds(fn, b) = Preds(fn, b)
    /\ Partition!ProfileOf(fn) = ProfileOf(fn)
<1>1. \A b : Partition!Preds(fn, b) = Preds(fn, b)
  BY DEF Partition!Preds, Partition!PredEdges, Partition!Edges, Preds, PredEdges, Edges
<1>2. Partition!ProfileOf(fn) = ProfileOf(fn)
  BY DEF Partition!ProfileOf, Partition!BlocksOf, ProfileOf, BlocksOf
<1> QED BY <1>1, <1>2

\* The arrivals of the walk are those BuddyPartition speaks of.
LEMMA ArrivalsShown ==
    ASSUME WalkInv, PartitionInv, LeaveBlock
    PROVE  Partition!Arriving(BB) = Arrivals
<1>1. /\ BB \in Blocks /\ pos \in DOMAIN fn.rpo /\ Preds(fn, BB) \subseteq Blocks
      /\ HotPathSet = ProfileOf(fn)
  BY WalkFacts, PredFacts DEF LeaveBlock, WalkInv, PartitionInv, PathsSeen
<1> DEFINE From(u) == {S \cap ProfileOf(fn)[BB] : S \in Shown[u]}
<1>2. From(BB) = {}
  BY <1>1 DEF Shown
<1>3. ASSUME NEW u \in Preds(fn, BB) \ {BB}
      PROVE  From(u) = {Cut(u, k) : k \in DOMAIN BuddySet[u]}
  <2>1. Shown[u] = {BuddySet[u][k] : k \in DOMAIN BuddySet[u]}
    BY <1>1 DEF Shown
  <2> QED BY <1>1, <2>1 DEF Cut
<1>4. ASSUME NEW S PROVE S \in UNION {From(u) : u \in Preds(fn, BB)} <=> S \in Arrivals
  <2> HIDE DEF From
  <2> QED BY <1>2, <1>3 DEF Arrivals
<1>5. Partition!Arriving(BB) = UNION {From(u) : u \in Preds(fn, BB)}
  BY SameOperators DEF Partition!Arriving, Shown
<1> HIDE DEF From
<1> QED BY <1>4, <1>5

\* The step that leaves a block is the step of BuddyPartition for that block.
LEMMA LeaveBlockRefines ==
    ASSUME WalkInv, PartitionInv, WalkInv', LeaveBlock, NEW b \in Blocks, b = BB
    PROVE  Partition!Block(b)
<1>1. /\ BB \in Blocks /\ pos \in DOMAIN fn.rpo /\ BB # fn.entry /\ fn \in Programs
      /\ pc = "pred" /\ pc' = "block" /\ pos' = pos + 1 /\ UNCHANGED fn
      /\ HotPathSet = ProfileOf(fn)
      /\ IncubationPath = HotPathSet[BB] \ Seen
      /\ \A c \in Blocks \ {BB} : BuddySet'[c] = BuddySet[c]
  BY WalkFacts, LeftJoined DEF LeaveBlock, WalkInv, TypeOK, PartitionInv, PathsSeen, Busy
<1>2. Shown' = [Shown EXCEPT ![BB] = Members(BuddySet'[BB])]
  BY <1>1, ShownNext
<1>3. Partition!Arriving(BB) = Arrivals
  BY ArrivalsShown
<1>4. Partition!Incubating(BB) = IncubationPath
  BY <1>1 DEF Partition!Incubating, Seen
<1>5. Members(BuddySet'[BB]) = {A \cup Partition!Incubating(BB) :
                                   A \in Partition!Atoms(Partition!Arriving(BB))}
  <2>1. Members(BuddySet'[BB]) = {A \cup IncubationPath : A \in Members(Buddies)}
    BY LeftJoined DEF Members
  <2> QED BY <1>3, <1>4, <2>1, LeftWithAtoms
<1>6. Partition!ColdArrives(BB) <=> hasColdPath
  <2>1. hasColdPath <=> \/ \E u \in Preds(fn, BB) : ProfileOf(fn)[u] = {}
                        \/ {} \in Partition!Arriving(BB)
    BY <1>1, <1>3, LeftWithAtoms
  <2> QED BY <2>1, SameOperators DEF Partition!ColdArrives
<1>7. isCaloric' = IF ProfileOf(fn)[BB] # {} /\ Partition!ColdArrives(BB)
                   THEN isCaloric \cup {BB} ELSE isCaloric
  BY <1>1, <1>6 DEF LeaveBlock, IsCaloric
<1>8. ProfileOf(fn)' = ProfileOf(fn)
  BY <1>1
<1> QED BY <1>1, <1>2, <1>5, <1>7, <1>8 DEF Partition!Block, Shown, BB

LEMMA EntryBlockRefines ==
    ASSUME WalkInv, PartitionInv, WalkInv', EntryBlock, NEW b \in Blocks, b = BB
    PROVE  Partition!Block(b)
<1>1. /\ BB \in Blocks /\ pos \in DOMAIN fn.rpo /\ BB = fn.entry /\ fn \in Programs
      /\ pc = "block" /\ pc' = "block" /\ pos' = pos + 1 /\ UNCHANGED <<fn, isCaloric>>
      /\ HotPathSet = ProfileOf(fn)
      /\ \A c \in Blocks \ {BB} : BuddySet'[c] = BuddySet[c]
      /\ BuddySet \in [Blocks -> Seq(SUBSET DOMAIN fn.paths)]
  BY GraphFacts DEF EntryBlock, WalkInv, TypeOK, PartitionInv, PathsSeen, BB
<1>2. Shown' = [Shown EXCEPT ![BB] = Members(BuddySet'[BB])]
  BY <1>1, ShownNext
<1>3. BuddySet[BB] = << >>
  BY <1>1, GraphFacts DEF WalkInv, Untouched, BB, TypeOK
<1>4. BuddySet'[BB] = <<HotPathSet[BB]>>
  BY <1>1, <1>3 DEF EntryBlock
<1>5. Members(BuddySet'[BB]) = {HotPathSet[BB]}
  BY <1>4 DEF Members
<1>6. ProfileOf(fn)' = ProfileOf(fn)
  BY <1>1
<1> QED BY <1>1, <1>2, <1>5, <1>6 DEF Partition!Block, Shown, BB

LEMMA StepRefines ==
    ASSUME WalkInv, PartitionInv, WalkInv', [Next]_vars
    PROVE  [Partition!WalkNext]_(Partition!walkVars)
<1>1. CASE EntryBlock \/ LeaveBlock
  <2>1. BB \in Blocks
    BY <1>1, WalkFacts, GraphFacts DEF EntryBlock, LeaveBlock, WalkInv, BB
  <2>2. PICK b \in Blocks : b = BB
    BY <2>1
  <2>3. Partition!Block(b)
    BY <1>1, <2>2, EntryBlockRefines, LeaveBlockRefines
  <2> QED BY <2>3 DEF Partition!WalkNext
<1>2. ASSUME UNCHANGED <<fn, pos, isCaloric>>,
             \A b \in Blocks : (pos \in DOMAIN fn.rpo /\ b = BB) \/ BuddySet'[b] = BuddySet[b]
      PROVE  UNCHANGED Partition!walkVars
  <2>1. Shown' = Shown /\ ProfileOf(fn)' = ProfileOf(fn)
    BY <1>2, ShownSame
  <2> QED BY <1>2, <2>1 DEF Partition!walkVars, Shown
<1>3. CASE \/ getProfileInfo \/ EnterBlock \/ Return \/ NextPred \/ PredDone \/ ColdBuddy
           \/ UNCHANGED vars
  <2>1. UNCHANGED <<fn, pos, isCaloric, BuddySet>>
    BY <1>3 DEF getProfileInfo, EnterBlock, Return, NextPred, PredDone, ColdBuddy, vars,
                control, locals
  <2> QED BY <1>2, <2>1
<1>4. CASE HotBuddy \/ Split \/ SplitDone
  <2>1. UNCHANGED <<fn, pos, isCaloric>> /\ pos \in DOMAIN fn.rpo
        /\ \A b \in Blocks \ {BB} : BuddySet'[b] = BuddySet[b]
    BY <1>4, WalkFacts DEF HotBuddy, Split, SplitDone
  <2> QED BY <1>2, <2>1
<1> QED BY <1>1, <1>3, <1>4 DEF Next

\* The walk starts where BuddyPartition starts.
LEMMA InitRefines == Init => Partition!WalkInit
<1> SUFFICES ASSUME Init PROVE Partition!WalkInit
  OBVIOUS
<1>1. \A b \in Blocks : {BuddySet[b][k] : k \in DOMAIN BuddySet[b]} = {}
  BY DEF Init
<1>2. Shown = [b \in Blocks |-> {}]
  BY <1>1 DEF Shown
<1> QED BY <1>2, SameOperators DEF Init, Partition!WalkInit, Shown

\* Whatever the function and whatever order the predecessors come in, the loops of
\* getCaloricConnector implement BuddyPartition: each block's buddy sets become the
\* coarsest partition that splits no arriving buddy set, joined by the incubating paths,
\* and the hot blocks that something cold reaches are the caloric connectors.
THEOREM WalkImplementsPartition == Spec => ImplementsPartition
<1>1. WalkInv /\ PartitionInv /\ WalkInv' /\ [Next]_vars
          => [Partition!WalkNext]_(Partition!walkVars)
  BY StepRefines
<1> QED BY <1>1, InitWalkInv, WalkInvStep, InitPartition, PartitionInvStep, InitRefines, PTL
        DEF Spec, ImplementsPartition, Partition!WalkSpec
=============================================================================

----------------------------- MODULE FirstHpssa -----------------------------
(***************************************************************************)
(* HPSSAPass::run of src/HPSSA.cpp, the pass before HPSSA_new.cpp, and     *)
(* then TDestruction.  getCaloricConnector and Search are the same in both.*)
(* This pass has no AllocateArgs: for each phi it walks the blocks once in *)
(* reverse postorder, carries the definitions the phi gets along hot paths *)
(* with it, and inserts taus with all their arguments on the way.  Search  *)
(* then renames these arguments too.                                       *)
(***************************************************************************)
EXTENDS TDestruction

VARIABLES
    defAccumulator,  \* for the phi at hand the pairs <<value, path>> at each block
    currPaths,       \* for the phi at hand the paths followed to each block
    J                \* the place of its walk in the traversal

(***************************************************************************)
(* What LLVM guarantees of the traversal, which comes from a depth-first   *)
(* search: it has the successors of its blocks, after them but for those   *)
(* that back edges lead to.  A back edge is an edge of the function between*)
(* its blocks, to one that does not return.                                *)
(***************************************************************************)
TraversalForm(f) ==
    /\ \A u \in Reachable(f) : \A v \in Succs(f, u) :
          v \in Reachable(f) /\ (Before(f, u, v) \/ <<u, v>> \in f.back)
    /\ \A e \in f.back :
          e[1] \in Reachable(f) /\ e[2] \in Succs(f, e[1]) /\ f.succ[e[2]] # << >>

ASSUME TraversalAssumption == \A f \in Programs : TraversalForm(f)

accVars == <<defAccumulator, currPaths, J>>
firstVars == <<pipelineVars, accVars>>

BB   == fn.rpo[pos]
curr == fn.rpo[J]

FirstInit ==
    /\ PipelineInit
    /\ defAccumulator = [c \in Blocks |-> {}]
    /\ currPaths = [c \in Blocks |-> {}]
    /\ J = 1

\* DT.dominates(phi, c) of a phi in block b: not in b itself.
dominates(b, c) == b # c /\ b \in Above[c]

\* What defAccumulator has of phi z of block b at first.
Accumulated(z, b) ==
    UNION {{<<phiOp[z][u], p>> : p \in HotPathSet[b] \cap HotPathSet[u]} : u \in Preds(fn, b)}

\* The walk from the next phi of the block begins, if the block is on a hot path.
FirstPhi ==
    /\ pc = "insert" /\ pos \in DOMAIN fn.rpo /\ it \in DOMAIN fn.phis[BB]
    /\ IF HotPathSet[BB] = {}
       THEN it' = it + 1 /\ UNCHANGED <<pc, accVars>>
       ELSE /\ currPaths' = [c \in Blocks |-> IF c = BB THEN HotPathSet[BB] ELSE {}]
            /\ defAccumulator' = [c \in Blocks |->
                   IF c = BB THEN Accumulated(fn.phis[BB][it], BB) ELSE {}]
            /\ J' = pos
            /\ pc' = "walk"
            /\ UNCHANGED it
    /\ UNCHANGED <<walkVars, textVars, DT, visit, searchVars, allocVars, toBeRemoved>>

BreaksOff_Never == J \notin DOMAIN fn.rpo  \* mutant: blocks not dominated are passed over

\* The walk is over at the end of the traversal or at the dominance frontier.
BreaksOff == J \in DOMAIN fn.rpo => curr # BB /\ ~dominates(BB, curr)

\* The definitions and paths at the successors the phi's block dominates get those that
\* go on there from here.
onward(s) == IF s \in Succs(fn, curr) /\ dominates(BB, s)
             THEN HotPathSet[s] \cap currPaths[curr] ELSE {}

flowing(s) == {d \in defAccumulator[curr] : d[2] \in onward(s)}

\* What is at block s when the definitions at curr have flowed there.
Arrived(s) == defAccumulator[s] \cup flowing(s)

\* One block of the walk: a caloric connector that a definition reaches gets a tau with
\* all of them, in front of its first instruction that is not a phi.
FirstInsertTau ==
    /\ pc = "walk" /\ ~BreaksOff
    /\ IF curr \in isCaloric /\ defAccumulator[curr] # {}
       THEN Insert(fn.phis[BB][it], [c \in {curr} |-> {d[1] : d \in defAccumulator[curr]}])
       ELSE UNCHANGED <<taus, operand, args>>
    /\ defAccumulator' = [s \in Blocks |-> Arrived(s)]
    /\ currPaths' = [s \in Blocks |-> currPaths[s] \cup onward(s)]
    /\ J' = J + 1
    /\ UNCHANGED <<walkVars, phiOp, useOf, pc, DT, visit, searchVars, allocVars, it,
                   toBeRemoved>>

WalkEnds ==
    /\ pc = "walk" /\ BreaksOff
    /\ it' = it + 1
    /\ pc' = "insert"
    /\ UNCHANGED <<walkVars, textVars, DT, visit, searchVars, allocVars, toBeRemoved, accVars>>

FirstConnect == Connect \/ Connected

FirstSearch == Inserted \/ Search \/ SearchTau \/ SearchUses \/ SearchChild
               \/ SearchedChildren \/ SearchPop \/ SearchReturn

\* The pass is over after Search.
FirstReturn ==
    /\ pc = "allocate"
    /\ pc' = "hpssa"
    /\ UNCHANGED <<walkVars, textVars, DT, visit, searchVars, allocVars, it>>

FirstNext ==
    \/ FirstPhi \/ FirstInsertTau \/ WalkEnds
    \/ (FirstConnect \/ NextBlock \/ FirstSearch \/ FirstReturn)
       /\ UNCHANGED <<toBeRemoved, accVars>>
    \/ (Collect \/ RemoveTau \/ AllRemoved) /\ UNCHANGED accVars

\* As in PipelineSpec, one pass runs after the other.
FirstSpec == FirstInit /\ [][FirstNext]_firstVars /\ WF_firstVars(FirstNext)

----------------------------------------------------------------------------
(* Properties.                                                             *)

\* The value of the program that a value of the rewritten one stands for.
Root(v) == IF v \in TauNames THEN v.phi ELSE v

\* The values phi z of block b gets on an edge, on hot paths that go on to block c: what
\* the walk is meant to find.
ReachingDefs(z, c) ==
    LET b == HomeOf(z)
    IN {fn.op[z][u] : u \in {v \in Preds(fn, b) :
                                HotPathSet[v] \cap HotPathSet[b] \cap HotPathSet[c] # {}}}

\* A block that b does not dominate comes between b and c in the traversal.
CutOff(b, c) ==
    \E j, k, n \in DOMAIN fn.rpo : /\ fn.rpo[j] = b /\ fn.rpo[n] = c
                                   /\ j < k /\ k <= n /\ b \notin Above[fn.rpo[k]]

\* No path lists blocks that it does not go through in one piece.
PathsConnected ==
    \A p \in DOMAIN fn.paths : \A n \in 1..(Len(fn.paths[p]) - 1) :
        fn.paths[p][n + 1] \in Succs(fn, fn.paths[p][n])

\* One walk in reverse postorder finds what it is meant to, although it goes along edges
\* and not along paths: the phi's values reach exactly the caloric connectors on hot
\* paths below it, and each tau has exactly the values of the paths through it, except
\* where the walk breaks off.  In the end, after Search renamed arguments and erased
\* spurious taus, those that remain have the same arguments under their newest names.
DefsFlow ==
    PathsConnected =>
        /\ pc \notin {"connect", "insert", "walk"} =>
            \A t \in LiveTaus : {Root(v) : v \in args[t]} = ReachingDefs(t.phi, t.at)
        /\ pc = "search" /\ renaming_stack = << >> =>
            \A z \in Phis : \A c \in isCaloric :
                (Tau(z, c) \in LiveTaus) <=> /\ HomeOf(z) \in Above[c]
                                             /\ ~CutOff(HomeOf(z), c)
                                             /\ ReachingDefs(z, c) # {}
=============================================================================

------------------------------ MODULE Caloric ------------------------------
(***************************************************************************)
(* getProfileInfo and getCaloricConnector of src/HPSSA_new.cpp: the pass   *)
(* reads the hot paths, then walks the blocks in reverse postorder and     *)
(* sorts the hot paths of each block into buddy sets, the sets of paths    *)
(* that carry the same definitions.  One action is one turn of one of the  *)
(* function's loops: over the blocks, over the predecessors of a block,    *)
(* over the buddy sets of a predecessor, and over the buddy sets of the    *)
(* block itself, which the third loop splits.                              *)
(*                                                                         *)
(* A BitVector is the set of its bits: the operators used (|=, &=, ^=,     *)
(* any, none) mean the same whatever the sizes of the two vectors.  The    *)
(* order of predecessors is LLVM's use-list order, so any order is taken.  *)
(***************************************************************************)
EXTENDS Cfg

VARIABLES
    fn,             \* the function the pass runs on
    pc,             \* the loop that is about to take a turn
    HotPathSet,     \* for each block the hot paths through it
    allPaths,       \* the hot paths seen in the blocks walked so far
    BuddySet,       \* for each block the vector of its buddy sets
    isCaloric,      \* the blocks found to be caloric connectors
    pos,            \* the place of the walk in fn.rpo
    IncubationPath, \* the hot paths first seen at the current block
    alreadyInSets,  \* the hot paths the current block's buddy sets hold
    hasColdPath,    \* a cold definition reaches the current block
    preds,          \* the incoming edges still to be looked at
    pred,           \* the predecessor being looked at
    j,              \* the place of the walk in BuddySet[pred]
    oldPaths,       \* the paths of the arriving buddy set not yet split off
    i,              \* the place of the walk in the current block's buddy sets
    toPush          \* the buddy sets split off so far

control == <<pc, pos, preds, pred, j, i>>
locals  == <<IncubationPath, alreadyInSets, hasColdPath, oldPaths, toPush>>
vars    == <<fn, HotPathSet, allPaths, BuddySet, isCaloric, control, locals>>

BB == fn.rpo[pos]

Buddies == BuddySet[BB]

Init ==
    /\ fn \in Programs
    /\ pc = "profile"
    /\ HotPathSet = [b \in Blocks |-> {}]
    /\ allPaths = {}
    /\ BuddySet = [b \in Blocks |-> << >>]
    /\ isCaloric = {}
    /\ pos = 1
    /\ IncubationPath = {} /\ alreadyInSets = {} /\ hasColdPath = FALSE
    /\ preds = {} /\ pred = fn.entry /\ j = 1
    /\ oldPaths = {} /\ i = 1 /\ toPush = << >>

----------------------------------------------------------------------------
(* Reading hotPathInfo.txt.                                                *)

getProfileInfo ==
    /\ pc = "profile"
    /\ HotPathSet' = ProfileOf(fn)
    /\ pc' = "block"
    /\ UNCHANGED <<fn, allPaths, BuddySet, isCaloric, pos, preds, pred, j, i, locals>>

----------------------------------------------------------------------------
(* The loop over the blocks.                                               *)

\* The entry block: all its hot paths form one buddy set, an empty one too.
EntryBlock ==
    /\ pc = "block" /\ pos \in DOMAIN fn.rpo
    /\ BB = fn.entry
    /\ allPaths' = allPaths \cup HotPathSet[BB]
    /\ BuddySet' = [BuddySet EXCEPT ![BB] = Append(@, HotPathSet[BB])]
    /\ IncubationPath' = HotPathSet[BB] \ allPaths
    /\ pos' = pos + 1
    /\ UNCHANGED <<fn, HotPathSet, isCaloric, pc, preds, pred, j, i,
                   alreadyInSets, hasColdPath, oldPaths, toPush>>

EnterBlock ==
    /\ pc = "block" /\ pos \in DOMAIN fn.rpo
    /\ BB # fn.entry
    /\ IncubationPath' = HotPathSet[BB] \ allPaths
    /\ allPaths' = allPaths \cup HotPathSet[BB]
    /\ alreadyInSets' = {}
    /\ hasColdPath' = FALSE
    /\ preds' = PredEdges(fn, BB)
    /\ pc' = "pred"
    /\ UNCHANGED <<fn, HotPathSet, BuddySet, isCaloric, pos, pred, j, i,
                   oldPaths, toPush>>

IsCaloric_Cold == hasColdPath  \* mutant: a block on no hot path counts

IsCaloric == HotPathSet[BB] # {} /\ hasColdPath

\* All predecessors are done: the incubating paths join every buddy set.
LeaveBlock ==
    /\ pc = "pred" /\ preds = {}
    /\ BuddySet' = [BuddySet EXCEPT
                       ![BB] = [k \in DOMAIN @ |-> @[k] \cup IncubationPath]]
    /\ isCaloric' = IF IsCaloric
                    THEN isCaloric \cup {BB} ELSE isCaloric
    /\ pos' = pos + 1
    /\ pc' = "block"
    /\ UNCHANGED <<fn, HotPathSet, allPaths, preds, pred, j, i, locals>>

Return ==
    /\ pc = "block" /\ pos \notin DOMAIN fn.rpo
    /\ pc' = "done"
    /\ UNCHANGED <<fn, HotPathSet, allPaths, BuddySet, isCaloric, pos, preds, pred,
                   j, i, locals>>

----------------------------------------------------------------------------
(* The loop over the predecessors.                                         *)

OtherPreds_Same(e) == preds  \* mutant: the iterator is not advanced

OtherPreds(e) == preds \ {e}

NextPred ==
    /\ pc = "pred"
    /\ \E e \in preds :
          /\ preds' = OtherPreds(e)
          /\ pred' = e[1]
          /\ hasColdPath' = (hasColdPath \/ HotPathSet[e[1]] = {})
    /\ j' = 1
    /\ pc' = "buddy"
    /\ UNCHANGED <<fn, HotPathSet, allPaths, BuddySet, isCaloric, pos, i,
                   IncubationPath, alreadyInSets, oldPaths, toPush>>

----------------------------------------------------------------------------
(* The loop over the buddy sets of a predecessor.                          *)

predBitVector_Uncut == BuddySet[pred][j]  \* mutant: paths that go elsewhere stay

\* The hot paths of the buddy set that go on to the block.
predBitVector == BuddySet[pred][j] \cap HotPathSet[BB]

newPaths_All == predBitVector  \* mutant: the old paths are not taken out

newPaths == predBitVector \ (alreadyInSets \cap predBitVector)

PredDone ==
    /\ pc = "buddy" /\ j \notin DOMAIN BuddySet[pred]
    /\ pc' = "pred"
    /\ UNCHANGED <<fn, HotPathSet, allPaths, BuddySet, isCaloric, pos, preds, pred,
                   j, i, locals>>

\* A hot definition of the predecessor that no hot path takes to the block.
ColdBuddy ==
    /\ pc = "buddy" /\ j \in DOMAIN BuddySet[pred]
    /\ predBitVector = {}
    /\ hasColdPath' = TRUE
    /\ j' = j + 1
    /\ UNCHANGED <<fn, HotPathSet, allPaths, BuddySet, isCaloric, pc, pos, preds,
                   pred, i, IncubationPath, alreadyInSets, oldPaths, toPush>>

\* Its paths that are new to the block form a buddy set of their own; the others
\* are to be split off the buddy sets that hold them.
HotBuddy ==
    /\ pc = "buddy" /\ j \in DOMAIN BuddySet[pred]
    /\ predBitVector # {}
    /\ oldPaths' = alreadyInSets \cap predBitVector
    /\ BuddySet' = IF newPaths = {} THEN BuddySet
                   ELSE [BuddySet EXCEPT ![BB] = Append(@, newPaths)]
    /\ alreadyInSets' = alreadyInSets \cup newPaths
    /\ toPush' = << >>
    /\ i' = 1
    /\ pc' = "split"
    /\ UNCHANGED <<fn, HotPathSet, allPaths, isCaloric, pos, preds, pred, j,
                   IncubationPath, hasColdPath>>

----------------------------------------------------------------------------
(* The loop over the block's own buddy sets.                               *)

\* The part of buddy set i that the arriving one holds as well.
temp == oldPaths \cap Buddies[i]

SplitsOff_Whole == temp # {}  \* mutant: a buddy set can be split into itself

SplitsOff == temp # {} /\ temp # Buddies[i]

Split ==
    /\ pc = "split" /\ i \in DOMAIN Buddies /\ oldPaths # {}
    /\ IF SplitsOff
       THEN /\ BuddySet' = [BuddySet EXCEPT ![BB][i] = @ \ temp]
            /\ toPush' = Append(toPush, temp)
       ELSE UNCHANGED <<BuddySet, toPush>>
    /\ oldPaths' = oldPaths \ temp
    /\ i' = i + 1
    /\ UNCHANGED <<fn, HotPathSet, allPaths, isCaloric, pc, pos, preds, pred, j,
                   IncubationPath, alreadyInSets, hasColdPath>>

Pushed_Lost == Buddies  \* mutant: what was split off is dropped

Pushed == Buddies \o toPush

SplitDone ==
    /\ pc = "split" /\ (i \notin DOMAIN Buddies \/ oldPaths = {})
    /\ BuddySet' = [BuddySet EXCEPT ![BB] = Pushed]
    /\ toPush' = << >>
    /\ j' = j + 1
    /\ pc' = "buddy"
    /\ UNCHANGED <<fn, HotPathSet, allPaths, isCaloric, pos, preds, pred, i,
                   IncubationPath, alreadyInSets, hasColdPath, oldPaths>>

Next == \/ getProfileInfo
        \/ EntryBlock \/ EnterBlock \/ LeaveBlock \/ Return
        \/ NextPred
        \/ PredDone \/ ColdBuddy \/ HotBuddy
        \/ Split \/ SplitDone

\* The pass runs to its end on its own; nothing it waits for can fail to come.
Spec == Init /\ [][Next]_vars /\ WF_vars(Next)
----------------------------------------------------------------------------
(* Properties.                                                             *)

\* Each variable has its type, and the buddy sets of a block hold only hot paths
\* of this block.
TypeOK ==
    /\ pc \in {"profile", "block", "pred", "buddy", "split", "done"}
    /\ HotPathSet \in [Blocks -> SUBSET DOMAIN fn.paths]
    /\ allPaths \subseteq DOMAIN fn.paths
    /\ BuddySet \in [Blocks -> Seq(SUBSET DOMAIN fn.paths)]
    /\ \A b \in Blocks : \A k \in DOMAIN BuddySet[b] : BuddySet[b][k] \subseteq HotPathSet[b]
    /\ isCaloric \subseteq Blocks
    /\ pos \in Nat \ {0}
    /\ pc \in {"pred", "buddy", "split"} => pos \in DOMAIN fn.rpo /\ BB # fn.entry
    /\ IncubationPath \subseteq DOMAIN fn.paths
    /\ alreadyInSets \subseteq DOMAIN fn.paths
    /\ hasColdPath \in BOOLEAN
    /\ preds \subseteq Edges(fn)
    /\ pred \in Blocks
    /\ j \in Nat \ {0}
    /\ oldPaths \subseteq DOMAIN fn.paths
    /\ i \in Nat \ {0}
    /\ toPush \in Seq(SUBSET DOMAIN fn.paths)

Disjoint(s) == \A m, n \in DOMAIN s : m # n => s[m] \cap s[n] = {}

\* "All buddy sets in the child block are disjoint at this stage" (the comment in
\* the loop that splits them): while a block's predecessors are looked at, no hot
\* path is in two of its buddy sets, those just split off included, although the
\* buddy sets of a predecessor may overlap once paths have incubated there.
BuddiesDisjoint ==
    pc \in {"pred", "buddy", "split"} => Disjoint(Buddies \o toPush)

\* Every hot path that comes to a block from the entry along the function's edges is
\* carried by exactly one of the block's buddy sets once the block is done: none is lost
\* and none is counted twice, whatever splits, joins and loops lie above, and whatever
\* other paths incubate there.
HotPathsCarried ==
    \A n \in DOMAIN fn.rpo :
        n < pos /\ pc # "profile" =>
            LET s == BuddySet[fn.rpo[n]]
            IN \A p \in HotPathSet[fn.rpo[n]] :
                  ComesTo(fn, p, fn.rpo[n]) =>
                      \E k \in DOMAIN s : p \in s[k] /\ \A m \in DOMAIN s : p \in s[m] => m = k

\* A block that is its own predecessor is walked over while it may grow: the loop
\* over BuddySet[pred] would read through an invalidated iterator if the block's
\* buddy sets were pushed to in that loop.  They never are.
SelfLoopHarmless ==
    [][(pc \in {"buddy", "split"} /\ pred = BB)
          => Len(BuddySet[BB])' = Len(BuddySet[BB])]_vars

\* The buddy sets of the block in progress are not visible in the abstract walk.
Partition == INSTANCE BuddyPartition WITH
    HotPathSet <- ProfileOf(fn),
    buddies <- [b \in Blocks |-> IF pos \in DOMAIN fn.rpo /\ b = BB THEN {}
                                 ELSE {BuddySet[b][k] : k \in DOMAIN BuddySet[b]}]

\* The loops implement the partition that BuddyPartition states in one step.
ImplementsPartition == Partition!WalkSpec

\* "hot paths from this parent to current block" (the comment where predBitVector is
\* formed): the paths a buddy set of a predecessor is cut down to take the edge from
\* this predecessor.  They need not: a path that leaves the predecessor elsewhere and
\* comes to the block later is kept, and the edge, cold as it is, counts as hot.
PathsFromParent ==
    pc = "buddy" /\ j \in DOMAIN BuddySet[pred] =>
        \A p \in predBitVector : \E n \in 1..(Len(fn.paths[p]) - 1) :
            fn.paths[p][n] = pred /\ fn.paths[p][n + 1] = BB

\* The walk ends.
Terminates == <>(pc = "done")
=============================================================================

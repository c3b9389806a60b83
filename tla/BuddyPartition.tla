--------------------------- MODULE BuddyPartition ---------------------------
(***************************************************************************)
(* What getCaloricConnector promises, one block at a time.                 *)
(*                                                                         *)
(* The buddy sets of a block are the hot paths grouped by what reached the *)
(* block together: two paths share a buddy set exactly when every buddy    *)
(* set of a predecessor that reaches the block holds both or neither.  The *)
(* hot paths first seen at the block (incubating there) may carry any of   *)
(* the definitions, so they join every buddy set.  A hot block is a        *)
(* caloric connector when something cold arrives as well: an edge from a   *)
(* block on no hot path, or a buddy set of a predecessor none of whose     *)
(* paths goes on to the block.                                             *)
(***************************************************************************)
EXTENDS Cfg

VARIABLES fn,          \* the function
          HotPathSet,  \* for each block the hot paths through it
          pos,         \* the blocks before this place of the traversal are done
          buddies,     \* for each block that is done the set of its buddy sets
          isCaloric    \* the caloric connectors found so far

walkVars == <<fn, HotPathSet, pos, buddies, isCaloric>>

(***************************************************************************)
(* The coarsest partition of UNION D that splits no member of D.           *)
(***************************************************************************)
Atoms(D) == {{p \in UNION D : \A S \in D : p \in S <=> q \in S} : q \in UNION D}

\* The buddy sets of predecessors, cut down to the paths that go on to b.
Arriving(b) == UNION {{S \cap HotPathSet[b] : S \in buddies[u]} : u \in Preds(fn, b)}

Incubating(b) == HotPathSet[b] \ UNION {HotPathSet[fn.rpo[k]] : k \in 1..(pos - 1)}

ColdArrives(b) == \/ \E u \in Preds(fn, b) : HotPathSet[u] = {}
                  \/ {} \in Arriving(b)

WalkInit ==
    /\ fn \in Programs
    /\ HotPathSet = ProfileOf(fn)
    /\ pos = 1
    /\ buddies = [b \in Blocks |-> {}]
    /\ isCaloric = {}

Block(b) ==
    /\ pos \in DOMAIN fn.rpo
    /\ b = fn.rpo[pos]
    /\ pos' = pos + 1
    /\ IF b = fn.entry
       THEN /\ buddies' = [buddies EXCEPT ![b] = {HotPathSet[b]}]
            /\ UNCHANGED isCaloric
       ELSE /\ buddies' = [buddies EXCEPT
                              ![b] = {A \cup Incubating(b) : A \in Atoms(Arriving(b))}]
            /\ isCaloric' = IF HotPathSet[b] # {} /\ ColdArrives(b)
                            THEN isCaloric \cup {b} ELSE isCaloric
    /\ UNCHANGED <<fn, HotPathSet>>

WalkNext == \E b \in Blocks : Block(b)

WalkSpec == WalkInit /\ [][WalkNext]_walkVars
=============================================================================

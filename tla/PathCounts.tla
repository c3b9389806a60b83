----------------------------- MODULE PathCounts -----------------------------
(***************************************************************************)
(* The paths of a function from the profiler that numbers them to the file *)
(* the HPSSA pass reads: BallLarusProfiler.cpp instruments main, the       *)
(* program runs and counts the numbers it computes (pathProfiler.cpp),     *)
(* each run that returns adds its counts to pathData.txt, and              *)
(* getHotPathInfo regenerates the blocks of the numbers that are counted   *)
(* often (GeneratePath.cpp).                                               *)
(***************************************************************************)
EXTENDS BallLarus

CONSTANTS MaxRuns,    \* the program runs at most so often
          MaxRounds,  \* and takes at most so many back edges in a run
          Thresholds  \* in percent

ASSUME CountsAssumption == MaxRuns \in Nat /\ MaxRounds \in Nat /\ Thresholds \subseteq Nat

VARIABLES
    at,           \* the block the program is in
    counter,      \* the global of this name
    pathCounter,  \* how often each value of it was counted in this run
    pathData,     \* the counts of pathData.txt
    threshold,    \* the argument of getHotPathInfo
    hotPaths,     \* the paths it writes to hotPathInfo.txt
    runs, rounds, \* how many runs began, how many back edges this one took
    segment,      \* history: the blocks since the entry or the last back edge,
                  \* between the entry and the exit as a path of the abstract graph
    segments,     \* history: the segments this run completed
    executed      \* history: those of the runs that returned

runVars == <<at, counter, pathCounter, pathData, runs, rounds, segment, segments, executed>>
vars == <<passVars, runVars, threshold, hotPaths>>

Init ==
    /\ PassInit
    /\ at = NoBlock /\ counter = 0 /\ pathCounter = EmptyBag
    /\ pathData = EmptyBag
    /\ threshold = 0 /\ hotPaths = << >>
    /\ runs = 0 /\ rounds = 0
    /\ segment = << >> /\ segments = EmptyBag /\ executed = EmptyBag

----------------------------------------------------------------------------
(* A run of the instrumented program.                                      *)

Idle == pc = "instrumented" /\ at = NoBlock

StartRun ==
    /\ Idle /\ runs < MaxRuns
    /\ at' = fn.entry
    /\ counter' = 0 /\ pathCounter' = EmptyBag
    /\ runs' = runs + 1 /\ rounds' = 0
    /\ segment' = <<fn.entry>> /\ segments' = EmptyBag
    /\ UNCHANGED <<passVars, pathData, executed, threshold, hotPaths>>

\* What the inserted instructions leave in the register and in the counts.
Executed(i, st) ==
    CASE i.do = "add"   -> [st EXCEPT !.r = @ + i.arg]
      [] i.do = "set"   -> [st EXCEPT !.r = i.arg]
      [] i.do = "count" -> [st EXCEPT !.counts = @ (+) SetToBag({st.r})]

Execute(code) ==
    LET after[k \in 0..Len(code)] ==
            IF k = 0 THEN [r |-> counter, counts |-> pathCounter]
            ELSE Executed(code[k], after[k - 1])
    IN after[Len(code)]

\* The program takes the n-th edge out of its block.
Branch(n) ==
    /\ pc = "instrumented" /\ at # NoBlock /\ n \in DOMAIN fn.succ[at]
    /\ LET v == fn.succ[at][n]
           after == Execute(onEdge[<<at, n>>])
       IN /\ at' = v
          /\ counter' = after.r /\ pathCounter' = after.counts
          /\ IF isBackedge(at, v)
             THEN /\ rounds < MaxRounds
                  /\ rounds' = rounds + 1
                  /\ segments' = segments (+) SetToBag({Append(segment, fn.exit)})
                  /\ segment' = <<fn.entry, v>>
             ELSE /\ segment' = Append(segment, v)
                  /\ UNCHANGED <<rounds, segments>>
    /\ UNCHANGED <<passVars, pathData, runs, executed, threshold, hotPaths>>

Abs_Signed(n) == n  \* mutant: the number as it is

Abs(n) == IF n < 0 THEN -n ELSE n

Times(x, counts) == IF x \in DOMAIN counts THEN counts[x] ELSE 0

\* What the lines of pathData.txt add up to, with the same number on one or two.
Dumped(counts) ==
    [m \in {Abs(n) : n \in DOMAIN counts} |->
        Times(m, counts) + (IF m = 0 THEN 0 ELSE Times(-m, counts))]

\* The count in front of the return, the last one, dumps them all.
Return ==
    /\ pc = "instrumented" /\ at = fn.exit
    /\ LET after == Execute(atExit)
       IN /\ counter' = after.r /\ pathCounter' = after.counts
          /\ pathData' = pathData (+) Dumped(after.counts)
    /\ segments' = segments (+) SetToBag({segment})
    /\ executed' = executed (+) segments'
    /\ at' = NoBlock
    /\ UNCHANGED <<passVars, runs, rounds, segment, threshold, hotPaths>>

\* A block that cannot return ends the program, and its counts are lost.
Abort ==
    /\ pc = "instrumented" /\ at \notin {NoBlock, fn.exit} /\ fn.succ[at] = << >>
    /\ at' = NoBlock
    /\ UNCHANGED <<passVars, counter, pathCounter, pathData, runs, rounds, segment,
                   segments, executed, threshold, hotPaths>>

----------------------------------------------------------------------------
(* GeneratePath.cpp.                                                       *)

MaxEdge_First(u, n) == 1  \* mutant: the first edge that is not too large

\* The edge of the largest value that is at most n.
MaxEdge(u, n) ==
    CHOOSE k \in DOMAIN G[u] :
        /\ G[u][k].val <= n
        /\ \A m \in DOMAIN G[u] :
              G[u][m].val <= n => G[u][m].val < G[u][k].val \/ (G[u][m].val = G[u][k].val /\ k <= m)

numToPath(hotPathNum) ==
    LET path[p \in Members \X Nat] ==
            IF p[1] = fn.exit THEN <<p[1]>>
            ELSE LET e == G[p[1]][MaxEdge(p[1], p[2])]
                 IN <<p[1]>> \o path[<<e.to, p[2] - e.val>>]
    IN path[<<fn.entry, hotPathNum>>]

\* How many paths were counted.
TotalCount(counts) == SumOver(counts, BagToSet(counts))

IsHot_Above(count, total, t) == count > (total * t) \div 100  \* mutant: not as often

IsHot(count, total, t) == count >= (total * t) \div 100

hotPathInfo ==
    /\ Idle
    /\ threshold' \in Thresholds
    /\ LET nums == {n \in BagToSet(pathData) :
                        IsHot(pathData[n], TotalCount(pathData), threshold')}
           sorted == Increasing(nums)
       IN hotPaths' = [k \in DOMAIN sorted |-> numToPath(sorted[k])]
    /\ pc' = "reported"
    /\ UNCHANGED <<graphVars, orderVars, pos, treeVars, codeVars, runVars>>

PassStep == PassNext /\ UNCHANGED <<runVars, threshold, hotPaths>>

Next == \/ PassStep
        \/ StartRun
        \/ \E n \in 1..Cardinality(Blocks) : Branch(n)
        \/ Return
        \/ Abort
        \/ hotPathInfo

\* The compiler goes on with the pass; nobody has to run the program.
Spec == Init /\ [][Next]_vars /\ WF_vars(PassStep)

----------------------------------------------------------------------------
(* Type invariant: a register may be negative, a number in the file not.   *)
TypeOK ==
    /\ pc \in {"abstract", "sort", "values", "tree", "instrument", "failed",
               "instrumented", "reported"}
    /\ \A u \in DOMAIN G : \A n \in DOMAIN G[u] :
          G[u][n].from = u /\ G[u][n].to \in Members /\ G[u][n].val \in Nat
    /\ inMST \subseteq Members /\ ToSet(finish) \subseteq Members
    /\ counter \in Int /\ DOMAIN pathCounter \subseteq Int
    /\ DOMAIN pathData \subseteq Nat /\ IsABag(pathData)
    /\ at \in Members \cup {NoBlock}
    /\ runs \in 0..MaxRuns /\ rounds \in 0..MaxRounds
    /\ \A k \in DOMAIN hotPaths : hotPaths[k] \in Seq(Members)

(***************************************************************************)
(* The paths from each block to the exit in the abstract graph, each the   *)
(* sequence of its edges as block and place.                               *)
(***************************************************************************)
PathsFrom ==
    LET from[u \in Members] ==
            IF u = fn.exit THEN {<< >>}
            ELSE UNION {{<<<<u, n>>>> \o q : q \in from[G[u][n].to]} : n \in DOMAIN G[u]}
    IN from

AbstractPaths == PathsFrom[fn.entry]

EdgeAt(e) == G[e[1]][e[2]]

Number(p) == Total([k \in DOMAIN p |-> EdgeAt(p[k]).val])

BlocksAlong(p) == [k \in 1..(Len(p) + 1) |-> IF k = 1 THEN fn.entry ELSE EdgeAt(p[k - 1]).to]

(***************************************************************************)
(* The values of the edges add up to a number of its own for each path, 0  *)
(* the first and NumPaths of the entry the number of them: getEdgeValues   *)
(* meets each block after those its edges lead to.                         *)
(***************************************************************************)
NumbersUnique ==
    pc = "tree" =>
        /\ Cardinality(AbstractPaths) = NumPaths[fn.entry]
        /\ {Number(p) : p \in AbstractPaths} = 0..(NumPaths[fn.entry] - 1)

(***************************************************************************)
(* numToPath, which sees only blocks and values and never looks back, finds*)
(* the path of each number in the graph that the profiler dumped.          *)
(***************************************************************************)
RegeneratesNumbered ==
    pc = "instrumented" /\ runs = 0 => \A p \in AbstractPaths : numToPath(Number(p)) = BlocksAlong(p)

(***************************************************************************)
(* Whatever numbers the program counts, right or wrong, each line of       *)
(* hotPathInfo.txt is a path as the HPSSA pass expects one.                *)
(***************************************************************************)
HotPathsWellFormed == \A k \in DOMAIN hotPaths : WellFormedPath(fn, hotPaths[k])

\* The blocks from one of the tree up to the root, and those whose edges to the block
\* above them are the path between two.
Above ==
    LET above[u \in Members] ==
            {u} \cup (IF parent[u].block = NoBlock THEN {} ELSE above[parent[u].block])
    IN above

treePath(above, u, v) == (above[u] \ above[v]) \cup (above[v] \ above[u])

(***************************************************************************)
(* The tree getIncValues grows is a spanning tree of maximal values: an    *)
(* edge off it is not worth more than any edge on the tree path between    *)
(* its ends, those to which one of the two ends is below.  The comment at  *)
(* BallLarusProfiler.h:28, "chord edge of the minimal spanning tree", says *)
(* the opposite.                                                           *)
(***************************************************************************)
TreeMaximal ==
    pc = "instrument" =>
        \A c \in ToSet(chords) : \A w \in treePath(Above, c.from, c.to) : distance[w] >= c.val

(***************************************************************************)
(* Where every block can return, run never asks LLVM to split an edge that *)
(* is not there: the two dummy edges of a back edge are not both chords,   *)
(* which would split it twice, since the one from the entry has a value    *)
(* above all those below its header.                                       *)
(***************************************************************************)
SplitsSucceed == (\A u \in Members : fn.succ[u] = << >> => u = fn.exit) => pc # "failed"

(***************************************************************************)
(* How often path q was counted, as getHotPathInfo regenerates it.         *)
(***************************************************************************)
CountOf(q) == SumOver(pathData, {n \in BagToSet(pathData) : numToPath(n) = q})

RegeneratesExecuted ==
    \A q \in BagToSet(executed) \cup {numToPath(n) : n \in BagToSet(pathData)} :
        CountOf(q) = Times(q, executed)

(***************************************************************************)
(* The sum of increments along a path is the number of the path, negated,  *)
(* if each edge on the tree, in either direction, has the value that the   *)
(* tree was grown with and each edge off it has value 0.                   *)
(***************************************************************************)
TreeValued ==
    \A u \in Members : \A e \in ToSet(G[u]) :
        e.val = IF chordEdge(e) THEN 0 ELSE Inc(e.from, e.to)

Faithful == fn.back = {} /\ TreeValued

(***************************************************************************)
(* In a function without loops with such values the paths regenerated from *)
(* pathData.txt are, count by count, those the runs that returned          *)
(* executed: the increments on few edges give the same numbers as the      *)
(* values on all of them.                                                  *)
(***************************************************************************)
CountedAsExecuted == Idle /\ Faithful => RegeneratesExecuted

(***************************************************************************)
(* In such a function getHotPathInfo misses no path: one that makes up the *)
(* threshold of all executions is in the file, and only executed ones are. *)
(***************************************************************************)
HotPathsComplete ==
    pc = "reported" /\ Faithful =>
        /\ ToSet(hotPaths) \subseteq BagToSet(executed)
        /\ \A q \in BagToSet(executed) :
              executed[q] * 100 >= threshold * TotalCount(executed) => q \in ToSet(hotPaths)

(***************************************************************************)
(* The pass ends: its depth-first search and its loop over notInMST do.    *)
(***************************************************************************)
InstrumentationEnds == <>(pc \in {"failed", "instrumented", "reported"})

(***************************************************************************)
(* What "dumpAbstractGraph(AbstractGraph); // to regenerate the path" asks *)
(* of loops too: what is regenerated was executed.                         *)
(***************************************************************************)
LoopsRegenerated == Idle /\ TreeValued => RegeneratesExecuted
=============================================================================

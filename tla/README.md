# HPSSA-LLVM in TLA+

HPSSA-LLVM turns LLVM SSA into Hot Path SSA form: a profiler finds the hot paths of a
function, the HPSSA pass inserts `tau` calls that carry the values a phi has on hot paths,
a speculative constant propagation (SCCP) reads them, and TDestruction takes the taus out
again.  This directory models these parts in TLA+, checks them with TLC on small
instances, and proves the properties that matter most for every instance with TLAPS.

The code runs in one thread.  What makes it hard is not concurrency but order and
staleness: every pass walks a graph in an order that LLVM leaves open (use lists, the
children of a dominator tree node, maps ordered by address), rewrites it on the way, and
keeps copies, addresses and flags that must still mean the same when they are read.

## 1. The system

| component | state | operations | talks to |
|---|---|---|---|
| Ball-Larus profiler (`BallLarusProfiler.cpp`) | abstract graph, edge values, spanning tree, increments | `getAbstractGraph`, `getEdgeValues`, `getIncValues`, instrumentation | writes `AbstractGraph.txt`, instruments `main` |
| its run time and path regeneration (`pathProfiler.cpp`, `GeneratePath.cpp`) | the path register, `pathCounter`, `pathData.txt` | `counter`, `hotPathInfo`, `numToPath` | writes `hotPathInfo.txt` |
| basic block profiler (`BBProfiler/`) | the log of block ids | `counter`, `bbReader` | writes `profileInfo.txt`, same format |
| HPSSA pass (`HPSSA_new.cpp`): caloric connectors | `HotPathSet`, `BuddySet`, `allPaths`, `isCaloric` | `getProfileInfo`, `getCaloricConnector` | reads `hotPathInfo.txt` |
| HPSSA pass: taus | the function, `renaming_stack`, `stackmap`, `hasTau`, `phiStack`, `defAcc` | insertion in `run`, `Search`, `AllocateArgs` | uses `isCaloric`, rewrites the function |
| TDestruction (`TDestruction.cpp`) | the taus to remove | `run` | rewrites what HPSSA left |
| value lattice (`SpecValueLattice.h`) | tag, shadow tag, constant or range, extension count | copies, `mark...`, `mergeIn`, `mergeInSpec` | elements live in the solver's `ValueState` |
| SCCP solver (`SCCPSolverTau.cpp`) | `ValueState`, three work lists, feasible edges, executable blocks | `solve`, `visitPHINode`, `visitTauNode`, other visits, `resolvedUndefsIn` | reads the function with taus |
| SCCP pass (`SCCPTau.cpp`) | the function | `simplifyInstsInBlock`, `tryToReplaceWithConstant` | asks the solver |
| first HPSSA pass (`HPSSA.cpp`) | as HPSSA; for one phi at a time `defAccumulator`, `currPaths` | insertion with arguments in `run`, `Search` | what `HPSSA_new.cpp` replaces |
| TConditional (`TConditional.cpp`) | the function | an unfinished draft | |

What is hard in each, and what makes it correct:

- **Caloric connectors.**  The third loop of `getCaloricConnector` splits buddy sets and is
  right only if they are disjoint, while those of a predecessor may overlap; a block can be
  its own predecessor; predecessors come in any order.  Correct: the buddy sets are the
  partition of the hot paths by what reached the block together, whatever the order.
- **Taus.**  Search renames through stacks that outlive the subtree they belong to, erases
  taus while others still use them, and rewrites phis of successors it has or has not
  visited; AllocateArgs replaces (and frees) taus whose addresses frames hold.  Correct: each
  use reads the innermost tau above it, a tau has all its hot arguments, and taking the taus
  out gives back the program.
- **Lattice and solver.**  `mergeIn` has cases for speculative elements that are only sound
  because of how elements are copied; taus move down; a count with eight bits decides when a
  range stops growing.  Correct: an element covers what its operands allow, climbs, and its
  users hear of each change.  The solver takes values from three work lists in an order that
  use lists decide, finds edges feasible late, visits a tau in two ways, and holds references
  into a map that grows.  Correct: it ends with nothing left to visit, and what the pass folds
  with it is what every execution computes on which the guesses hold.
- **First HPSSA pass.**  One walk in reverse postorder carries the definitions of a phi along
  edges, and breaks off where the phi's dominance ends; Search renames the arguments of taus
  and erases those it takes for unused.  Correct: each tau has exactly the values of the hot
  paths through it, and no tau that another one reads is erased.
- **Profilers.**  Path numbers are sums over edges, kept by increments on few of them that a
  spanning tree gives; which tree depends on addresses; edges are split while the list of
  edges to split was made before.  Correct: numbers are unique, a number regenerates its
  path, no split fails, and the paths regenerated are those that were executed.

## 2. The modules

| module | models | proved in |
|---|---|---|
| `Cfg` | functions as the passes see them: edges, traversal, back edges, dominators, hot paths; assumptions about LLVM and the profilers | |
| `BuddyPartition` | abstract: the buddy sets of a block in one step | |
| `Caloric` | `getProfileInfo`, `getCaloricConnector`, one action per loop turn; refines `BuddyPartition` | `CaloricProofs` |
| `TauForm` | the operands of a function, taus, `replaceAllUsesWith` | `TauProofs` |
| `HpssaPass` | `HPSSAPass::run`: insertion, `Search`, `AllocateArgs`, one action per loop turn | `TauProofs`, `RenamingProofs` |
| `TDestruction` | `TDSTRPass::run` after HPSSA: the pipeline | `TauProofs` |
| `FirstHpssa` | `HPSSAPass::run` of `HPSSA.cpp`, then TDestruction | `TauProofs`, `RenamingProofs` |
| `SpecLattice` | `SpecValueLatticeElement` and the operations phis use | `PhiVisitProofs`, `SccpProofs` |
| `PhiVisit` | `visitPHINode` and what one phi sees of the solver | `PhiVisitProofs` |
| `TauLattice` | the other operations of the lattice: marking, speculating, `mergeInSpec`, ranges of results | `SccpProofs` |
| `SpecSccp` | `SCCPTauInstVisitor`: the visitors, work lists, `solve`, `resolvedUndefsIn` | `SccpProofs` |
| `SccpPass` | `runSCCP`: the solver, the rewriting, and one execution of the result | `SccpProofs` |
| `Lists` | sums, and the elements of a set in an order | `ListProofs` |
| `BallLarus` | `BallLarusProfilerPass::run`: numbering and instrumentation | `BallLarusProofs`, `PathCountsProofs` |
| `PathCounts` | runs of the instrumented program, `pathData.txt`, `hotPathInfo`, `numToPath` | `PathCountsProofs` |
| `CfgInstances`, `MCCaloric`, `MCHpssa`, `MCFirst`, `MCPhiVisit`, `MCSccp`, `MCBallLarus` | instances for TLC | |

`Caloric` is composed with the rest through its abstract specification: `HpssaPass` takes
the one-step `Block` of `BuddyPartition` as its first phase, and the run `caloric` shows
that the loops implement that step.  `TDestruction` extends `HpssaPass`, so both passes run
on one function one after the other.  `PathCounts` extends `BallLarus` and ends with the hot
paths that `Cfg` assumes: `HotPathsWellFormed` checks that assumption where it comes from.
`FirstHpssa` extends `TDestruction` and replaces the insertion and AllocateArgs of
`HpssaPass`: the caloric connectors and Search are the same text in both passes.  `PhiVisit`
and `SpecSccp` stand on the same lattice: the one takes a phi's visit apart operand by
operand, with anything happening around it; the other has whole visits, and the whole solver.

### Functions and profiles (`Cfg`)

A function is a record: entry, successors in terminator order (a block named twice is two
edges), the reverse postorder and the back edges LLVM computes, and the hot paths.
`ProgramsAssumption` says what LLVM and the profilers guarantee of it.  Two kinds of hot
path are admitted.  `numToPath` of the Ball-Larus profiler lists a path that begins or ends
at a back edge with the dummy edges of its abstract graph, *entry, header, ..., tail, exit*;
the basic block profiler logs *header, ..., tail*, in a file of the same format.  The pass
reads the first, but the incubation code of `getCaloricConnector` only acts on paths of the
second kind: with all paths through the entry, nothing is ever first seen later.  The runs
take every profile of either kind.  A malformed or missing file is not modelled.

### `Caloric`

The variables are the code's own; a `BitVector` is the set of its bits.  `pc` names the loop
about to take a turn: `EntryBlock`/`EnterBlock`/`LeaveBlock`/`Return` (the blocks),
`NextPred` (the predecessors, in any order), `PredDone`/`ColdBuddy`/`HotBuddy` (the buddy
sets of a predecessor), `Split`/`SplitDone` (the block's own buddy sets).

### `TauForm`, `HpssaPass`, `TDestruction`

A value is a model value; an instruction has one operand.  A tau is named by its phi, its
block and its generation, so that an address that `ReplaceInstWithInst` has freed differs
from the tau that took its place.  `ValuesAssumption` says that a phi and an instruction stand
in one place each and that a program has no taus of its own; `SsaAssumption` says that a phi has an
operand for each predecessor and at least one, and that a use is defined in a block that
dominates it, where control can get there.  That each reachable block but the entry has an
immediate dominator is no assumption: `ImmediateDominator` proves it of the definition of
`Dominators`.  The walk of `HPSSA.cpp` is bounded by places of the traversal, so `FirstHpssa`
adds `TraversalAssumption`: LLVM's reverse postorder comes from a depth-first search, which lists
the successors of its blocks, after them but for those that back edges lead to.

`InsertTaus` is one phi of one block.  A call of Search is `Search` (the phis of the block),
`SearchTau` (one tau: renamed, then pushed), `SearchUses` (the other instructions, and the
successors' phis), `SearchChild` and `SearchedChildren` (the recursion), `SearchPop` (one stack
that has a tau of the block on top: popped, and the tau erased if nothing reads it by then) and
`SearchReturn`.  A call of AllocateArgs is `AllocatePhis`, `AllocateTau` for each tau,
`AllocateSuccessors`, `AllocateChild`, `AllocateReturn`.  `visit` is the call stack of these two
recursive walks of the dominator tree; Search takes children in any order, AllocateArgs in the
order of `topoNum`; `varstack` has the stacks that the loop at `HPSSA_new.cpp:159` has yet to
pop, in any order since a map of pointers is ordered by addresses.  Frames are sets of pairs of
a value and a path.

What AllocateArgs adds to `defAcc` for joins below (`HPSSA_new.cpp:276-291`) is modelled,
and nothing reads it: `defAcc[{BB, &phi}]` is read for the block's own phis, and those have
frames on their stacks only after that.

### `SpecLattice`, `PhiVisit`

An element is a record, with the data that its tag does not use at the default.  The
integers, the other constants and the union of ranges are parameters: `RangesAssumption`
asks only that a union contains both ranges.  A copy (the copy constructor, also behind
`*this = RHS`) keeps tag and data and is never speculative.  `PhiVisit` is `visitPHINode`
for one phi, one action per early return and per operand; the rest of the solver changes
operands and edges at any time between visits, up or down, since `visitTauNode` resets a
tau to unknown.  `due` says that the work lists hold something that will visit the phi.

The first range that a phi gets is a copy of an operand's, with the operand's own extension count,
which may be more than `visitPHINode` says it allows ("up to 1 range extension per active incoming
value and one additional extension", `SCCPSolverTau.cpp:832`); the phi is then overdefined early.
That is a loss of precision, and no property is about it.

`Meaning` gives the run-time values an element allows.  A constant also allows undef: it may
stand for it "assuming all uses of the result will be replaced" (`SpecValueLattice.h:44`).

### `TauLattice`, `SpecSccp`, `SccpPass`

A function is a record of blocks, instructions, arguments and constants; an instruction has
the visitor it belongs to, its operands, and for terminators its successors (`WellFormed`).
What an instruction computes is a parameter, `Eval`: the model has the decisions of the
visitors (which elements they look at, what they mark, when they give up), and the arithmetic
of `ConstantRange` and of constant folding is external.  `Undef` is a constant of its own.
`FunctionsAssumption` says that functions are well-formed, an instruction with as many operands as
it needs (`Arity`), and what LLVM promises of the arithmetic (`Computes`): it gives values,
integers where ranges are computed of integers, and casts, negations and addresses of constants can
always be folded.  `HullAssumption` says of `Hull` that it covers what it is given.

`phase` is the work list being drained, and `agenda` the calls that one step of `solve` has
yet to make, in the order of the code: `Visit` is an instruction, `VisitTau` a `visitTauNode`,
`MarkEdgeExecutable` an edge, whose action adds the visits of the phis and taus of the block.
`PopOverdefined`, `PopInst` and `PopBlock` take the next value or block and put its users, in
any order, on the agenda; `ResolveBlock` is one turn of `resolvedUndefsIn`.

Two things of the C++ are kept because results depend on them.  `visitTauNode` holds
references into `ValueState` while it looks up other values; a `DenseMap` moves its storage
when it grows, and the move constructor drops that an element is a guess
(`SpecValueLattice.h:188`).  `Grow` and `VisitTauMoved` are the two ways this can happen, at any
time a value is first looked up, once in a run (`moved`).  And a tau that `solve` takes
from a work list is visited as the call it is (`visitCallInst`, which ends in
`handleCallOverdefined`, `SCCPSolverTau.cpp:1560`), which overdefines it, while one visited with its
block becomes a guess.

`SccpPass` replaces instructions as `tryToReplaceWithConstant` does and then executes the
result: what was kept gives one of the values it can give (`Possible`), what was replaced
gives its replacement.  `Possible` is the meaning of the *original* instruction, so that
`FoldedIsActual` compares the two programs value by value.  An execution on which a tau's
replacement is not the value of its safe operand was speculated wrongly and ends there: that
is the contract of speculation, for which the pass leaves calls of `assignSpecValue`.  One
that branches on undef ends too.

### `FirstHpssa`

The walk from one phi is a loop of its own: `FirstPhi` begins it with the definitions of the
phi that come along hot paths, `FirstInsertTau` is one block `curr` of it (the tau, then what
flows on to the successors), and `WalkEnds` breaks it off at the first block that the phi's
block does not dominate.  `defAccumulator` and `currPaths` are those of the phi at hand: the
code's maps are keyed by the phi and no other one reads them.  `Search` of `HpssaPass` then
renames the operands and the arguments.

### `BallLarus`, `PathCounts`

The pass is one action per turn of its loops: `getAbstractGraph`; `DFS`, `FinishBlock`,
`Sorted` (the calls of `DFS` are the variable `stack`); `getEdgeValues`, a block at a time;
`StartTree`, `GrowTree`, `Annotate` for `getIncValues`; and one action per kind of chord for
the last loop of `run`.  `Inc` of the code is a table for each pair of blocks of the tree;
here it is the difference of two potentials, which is what the loop at
`BallLarusProfiler.cpp:201` fills in.  The code on an edge is the sequence of what it does
to the register: `add`, `count`, `set`.  An edge is split when it has code; splitting one that
is not there, or no longer, is `SplitFails`.  The maps of the pass are ordered by the
addresses of blocks, `f.address`.  Functions have one return (`UnifyFunctionExitNodesPass`
runs before) and no unreachable blocks, and numbers do not overflow, as line 6 assumes.

`PathCounts` runs the result: the program branches as it likes, may stop in a block that
cannot return, which loses its counts, and dumps them when it returns.  The histories
`segment`, `segments` and `executed` record which paths really were executed.  After some
runs `hotPathInfo` picks the hot numbers and regenerates their blocks.

`MainAssumption` says what LLVM guarantees of the function: its layout and its addresses list
each block once, the exit has no successors, each block but the entry is reached by an edge
that goes forward in the traversal, and the edges that do not are the back edges.
`CountsAssumption` bounds runs, rounds and thresholds by natural numbers.  What counts and
values add up to is `Sums` (along a sequence, a function of the place) and `SumOver` (over a set,
a fold) of `Lists`; neither is a recursive operator, so that they can be proved about.

## 3. What the runs check

| run | instance | shows |
|---|---|---|
| `caloric` | six graphs, every choice of at most three hot paths of either kind, every order of predecessors | `TypeOK`, `BuddiesDisjoint`, `HotPathsCarried`, `SelfLoopHarmless`, `ImplementsPartition`, `Terminates` |
| `caloric_edge` | the same with one hot path | violates `PathsFromParent` |
| `hpssa` | three programs (two joins with two phis, a loop with a branch, nested loops), at most three hot paths | `TypeOK`, `InnermostTau`, `NoSpuriousTau`, `StackDiscipline`, `HotArgsComplete`, `RestoresOriginal`, `PipelineTerminates` |
| `hpssa_shared_operand` | a phi with the same phi on two edges | violates `UsesDominated` |
| `hpssa_freed_tau` | a phi carried round a loop | violates `ArgsAlive` |
| `first_hpssa` | these and three more (a walk that breaks off late and early, a join of joins) | `TypeOK`, `InnermostTau`, `ArgsAlive`, `RestoresOriginal`, `DefsFlow` |
| `phi_visit` | two-bit integers with wrapping ranges, one, two and too many operands | `TypeOK`, `PhiCovers`, `PhiClimbs`, `ChangesQueued` |
| `sccp` | thirty-five functions: nested taus, two taus round a loop found late, loops, a widened counter, joins of three, functions without taus, undefined values | `PassTypeOK`, `ExecutableByEdges`, `Settled`, `FoldedIsActual`, `TakenIsFeasible`, `GuessesMarked`, `ValuesClimb`, `SolverEnds` |
| `sccp_undef_tau` | the same | violates `KnownTauNotUndef` |
| `sccp_stale_guess` | the same | violates `RangesExtend` |
| `ball_larus` | ten functions, six of them with every order of addresses, two runs of two back edges each | `TypeOK`, `NumbersUnique`, `RegeneratesNumbered`, `HotPathsWellFormed`, `TreeMaximal`, `SplitsSucceed`, `CountedAsExecuted`, `HotPathsComplete`, `InstrumentationEnds` |
| `ball_larus_loop` | a loop | violates `LoopsRegenerated` |

**Bounds.**  Three hot paths are enough for a set to be split and for the parts to meet
again with a third; the graphs bring out each situation of the walk (`MCCaloric` lists
them).  The programs of `MCHpssa` have up to two phis in a block and two taus of one phi
above another.  `HighDegree` is 2 where the code has 64: three operands are "too many".  Two
bits give every way two ranges can lie to each other, full unions and wrapped ones included.
`MCOperands` has an element of each state, guesses of both kinds, and the extension count of
a phi with three operands.  In `MCSccp` `HighDegree` is 3, so that phis of two and three
operands are merged and one of four is not; the functions have at most six blocks, one has eight, which is
enough for an edge to become feasible after its block, for a tau below a tau, for a loop to be
found after its header was visited, and for a range to be widened round it.  Arguments take
two or three values in the executions.  The functions of `MCBallLarus` have up to seven blocks; all 120 orders
of addresses matter for the tree and for which edges are split, and the loops need only as
many back edges as it takes to begin a path at one and end it at the next.

**Fairness.**  The passes are sequential and wait for nothing, so weak fairness of the next
step is all that `Terminates`, `PipelineTerminates`, `SolverEnds`
and `InstrumentationEnds` assume; nobody has to run the instrumented program.  `FairSpec` of
`SccpPass` writes it as *infinitely many steps change something, or the execution ends*: a step
is always enabled before the end, so this is weak fairness of `Next`, and TLC need not
enumerate the steps a second time for it.  `PhiVisit` is the view of one
phi on a solver that may be done with it, so it has no fairness and no liveness.  The runs of
the passes stop when the pass is done, so deadlock is not checked there; in `PhiVisit` and `SccpPass` it is.

**Properties with an exception.**  `Settled` leaves out taus: a tau that a work list overdefines
would come out of another `visitTauNode` as a guess, so there is nothing to settle on; what
must hold of them is `FoldedIsActual`.  `ValuesClimb` leaves them out since each visit begins a
tau anew, and with them what may fold them: calls, casts, loads, negations and addresses are marked
with what they fold to, not merged with it, so they follow a tau down (`Steady`;
`sccp_stale_guess`).  Phis, arithmetic, comparisons and selections merge, and are not excepted
whatever they read.  `GuessesMarked` holds until `ValueState` outgrows its storage; then a guess can
become a plain constant.  `DefsFlow` says where the walk breaks off (`CutOff`) and is about
profiles whose paths follow edges.  `CountedAsExecuted` and `HotPathsComplete` are about
functions without loops in which each edge of the tree has the value its neighbours in the
tree are joined by and each other edge has value 0 (`TreeValued`).  Elsewhere the increments
do not stand for the values: the increment of a chord leaves out its own value, and edges
between the same two blocks share one.  `TwoDiamonds` and `CannotReturn` are such
functions, `Switch` is too.  `SplitsSucceed` is about functions without a block that cannot return.  `InnermostTau` and `NoSpuriousTau` except functions in
which a phi has the same phi on two edges: that is what `hpssa_shared_operand` is about.  `HotArgsComplete`
asks for the value a back edge brings only where one back edge enters the header:
`getIncubationPaths` (`HPSSA_new.cpp:172`) does not count a path as incubating if it ends at
*any* predecessor, so with two back edges a path that ends at one of them never gets the
value the other one brings.

## 4. Where code and comments disagree

- **A cold edge taken for hot** (`caloric_edge`).  "hot paths from this parent to current
  block" (`HPSSA_new.cpp:353`) are all hot paths through both, also those that go another way.
- **A tau that does not dominate** (`hpssa_shared_operand`).  Search replaces all equal
  operands of a successor's phi when it looks at one edge (`HPSSA_new.cpp:142`).
- **A freed tau as an argument** (`hpssa_freed_tau`).  Frames keep the address of a tau that
  `ReplaceInstWithInst` frees (`HPSSA_new.cpp:268`).
- **Loops regenerated wrongly** (`ball_larus_loop`).  "to regenerate the path"
  (`BallLarusProfiler.cpp:390`), but what a back edge adds before the count and sets after it
  are swapped (lines 381-385), and the path it ends lacks the increment of the edge from the
  exit to the entry.
- **The wrong tree** (`ball_larus`).  "chord edge of the minimal spanning tree"
  (`headers/BallLarusProfiler.h:28`), but an edge takes another one's place if its value is larger
  (`BallLarusProfiler.cpp:224`), and the comment has it the wrong way round: what holds is its
  opposite, `TreeMaximal`.  The code needs it that way; `SplitsSucceed` rests on it.
- **A known tau taken for undef** (`sccp_undef_tau`).  "If they are constant and don't agree, the
  PHI is a constant range" (`SCCPSolverTau.cpp:859`), but where the safe operand is overdefined
  and the hot arguments are different constants, `mergeInSpec` leaves the tau unknown, and
  `SCCPTau.cpp:150` replaces what is unknown with undef.
- **A range that is replaced** (`sccp_stale_guess`).  "NewR must be a superset of the existing
  range" (`SpecValueLattice.h:388`, asserted at line 414), but `handleCallOverdefined` marks a call
  with what it folds to now (`SCCPSolverTau.cpp:1405`).  A tau that is visited with its block may
  become another guess, and its users are not told; one that is visited for another reason folds the
  new guess over the old one.

## 5. What is proved

From `ProgramsAssumption` alone, for every function and profile and every order of
predecessors (`CaloricProofs`):

- `TypeCorrect`: buddy sets hold only hot paths of their block, and the loops stay in bounds;
- `BuddiesAlwaysDisjoint`: the buddy sets of the block in progress are disjoint;
- `SelfLoopNeverGrows`: a block that is its own predecessor never adds to what it is reading;
- `HotPathsAlwaysCarried`: a hot path that comes to a block is in exactly one buddy set of it;
- `WalkImplementsPartition`: the loops implement `BuddyPartition`, step by step.

`BuddiesDisjoint` is not inductive.  The invariant `WalkInv` adds `Untouched` (a block that
the walk has not come to has no buddy set, or what it starts with would not be disjoint from
what is pushed) and `InProgress` (all buddy sets, and those split off and not yet pushed, are
within `alreadyInSets`, so that `newPaths` is new to all of them; and the parts split off
meet neither each other nor what they were split from).  The lemmas on concatenated,
appended and shrunk sequences of disjoint sets carry `HotBuddy`, `Split` and `SplitDone`.

Disjointness says nothing of *which* sets come out, so the refinement needs more: the
invariant `PartitionInv` compares the sets kept so far with the buddy sets that have arrived
so far.  `Grouped` says that two hot paths are in one set exactly if no buddy set that was
looked at tells them apart; `Worked` and `Splitting` say the same half-way, for the buddy set at
hand and the sets it has been compared with; `ColdSoFar` says that `isCaloric` was set exactly
if one of those had a path that does not go on.  When `LeaveBlock` adds the incubating paths,
this is the partition that `BuddyPartition!Block` picks in one step; every other step stutters.
`PathsSeen` (what `allPaths` holds) gives `HotPathsAlwaysCarried`.  TLC checks `PartitionInv`
on the instance of `caloric` too.

From the assumptions on programs (`ProgramsAssumption`, `SsaAssumption`,
`ValuesAssumption`), for every function and profile, every order of the children of a
dominator tree node and of the maps, and every order of removal (`TauProofs`).  For
`HPSSA_new.cpp` followed by TDestruction:

- `TausTyped`: taus stand under the block they are named for, each has its operand and its
  arguments as long as it lives, and no stack is empty or asked for what it does not have;
- `StacksDisciplined`: Search leaves each renaming stack with the phi alone, and a phi has frames
  of the calls of AllocateArgs in progress and of no other;
- `PipelineRestores`: taking the taus out gives back the program.

And for `HPSSA.cpp` followed by TDestruction:

- `FirstTausTyped` and `FirstRestores`: the same of this pass;
- `FirstArgsAlive`: no argument of a tau was erased.

`RestoresOriginal` speaks of the end alone.  The invariant `TauInv` says of every state that
each use reads what it read in the program or a live tau of it (`ReadsOriginal`).  To keep it
while taus are erased, every tau that something reads must live; that hangs on what Search
erases, so the invariant describes its stacks: `OnStack` (a renaming stack has the phi, and above
it the taus of exactly the blocks of the calls in progress that have one, inner ones on top),
`Mapped` (what `stackmap` and `hasTau` know), `PushedInOrder` (of the block at hand, the taus
before `it`), `Chain` (the calls go down the dominator tree) and `VisitedOnce` (no block is
searched twice, although `hasTau` is never reset).  `Ranked` says that a tau reads only taus of
blocks nearer to the entry, which is why replacing a tau by its operand never puts it back: the
depth is existentially quantified, since nothing in the code computes it.  Both passes share the
invariant, one lemma for each action they share, and the end.  `FirstArgsAlive` adds that
arguments are program values until Search.  TLC checks the invariant on the instances of both runs, with
the depth given as a definition.

From the same assumptions, for every function in which the operands of a phi are told apart
(`DistinctOperands`; `hpssa_shared_operand` is what happens otherwise), what Search is for
(`RenamingProofs`):

- `UsesInnermost` and `FirstUsesInnermost`: after the Search of either pass each use of a phi reads
  the tau of the nearest block above it that has one, or the phi, and so does each tau;
- `NoTauSpurious`: no tau that the Search of `HPSSA_new.cpp` keeps is without a reader.

They need a theory of dominators, which `TauProofs` takes from that of `Dominators` (a block is
on every path from the entry): the blocks above a block form a chain, the last of them is its
immediate dominator, and that is above each predecessor. The invariant `NameInv` divides the
blocks that control can reach into those searched and those `Awaited`, below a child that some
call has yet to visit. Of the former each use has its name (`Named`) and each tau was pushed
(`Pushed`); of the latter an instruction reads what it read in the program, and an operand of a
phi that the phi's own call renamed before its edge's reads a tau above its edge. The calls in
progress are a chain of the dominator tree, so the top of a stack is the innermost tau above the
block at hand: that is the heart (`TopIsName`), and it is why the call of a child must pop what
it pushed. `NoTauSpurious` is a race: a tau is erased when it is popped with no user, but users
are renamed away from it by calls that are still to come. `Kept` says that a tau off its stack
has a reader that no later step renames (`Read`): an instruction, a tau, or an operand of an
edge that was searched or that control never reaches. When the stack's top is erased, its
readers move to what is below it, which is still on the stack and is looked at later. That
arguments do not count as readers is because this pass allocates them afterwards
(`NoArguments`); in `HPSSA.cpp` arguments are there first. TLC was asked first: on the programs
of `first_hpssa` both invariants hold in the pipeline, and `NameInv` in the first pass.

From these and `TraversalAssumption`, for every function, every profile whose paths follow edges,
and shared operands or not, what the walks of `HPSSA.cpp` find (`RenamingProofs`):

- `DefinitionsFlow`: each tau has as arguments exactly the values that the hot paths through its
  block bring to its phi, and once all taus are placed, a hot block has a tau of a phi above it
  exactly if it should: if such a path goes through, and the walk does not break off before
  (`CutOff`).

The walk goes from block to block by edges and in the traversal's order, while `ReachingDefs`
only asks for blocks on a path in common. Nothing could come of paths that leave the blocks
below the phi and come back; but whatever is above a block is above the predecessors of it
(`ComesFromAbove`), and before it (`AboveBefore`). `PathOrder` says that a hot path goes forward
in the traversal, so a path through the phi's block and one below it enters the latter from a
block below the phi's that was walked already. `WalkedFrom` says what the walk has: each block
holds paths of the phi's block only, with the values these paths bring (`ValuesOn`), and has all
of those that come to it from a block the walk has passed; every block below the phi's, and
before the place where the walk would break off, has thus all of them when its turn comes
(`WalkFinds`). `PlacedSoFar` carries what was found over to later walks, `ArgsFlow` to the end:
what Search and TDestruction put in the place of an argument has the same `Root` (`LaterFlow`).
TLC checked `FlowInv` on the programs of `first_hpssa` before it was proved.

From `RangesAssumption` and `PhiAssumption`, for every integer type, every union of ranges
that contains both, and every number of operands (`PhiVisitProofs`):

- `TypeCorrect`: elements stay well formed, no range is ever full;
- `PhiAlwaysCovers`: a phi with no visit due allows what its operands allow on feasible edges;
- `PhiAlwaysClimbs`: no step takes a value away from a phi;
- `ChangesAlwaysQueued`: a change of the element puts the phi in a work list.

The invariant is `TypeOK`, `PhiCovers` and `InProgress`: during a visit the working copy
covers the phi and every feasible operand before `i`.  `MergeLemma` is the heart: `mergeIn`
covers both sides **if the right-hand side is not speculative**.  The visit meets that
premise because each operand is copied first and a copy never is (`CopyLemma`): the same
merge with the element itself would lose the operand.

From the assumptions on functions and ranges, for every function, every integer type, every union and hull
of ranges and whatever instructions compute (`SccpProofs`):

- `GuessesAlwaysMarked`: no tau is replaced with a value that no call of `assignSpecValue` marks,
  until the map of elements grows;
- `AlwaysExecutableByEdges`: the executable blocks are the entry and the ends of the feasible
  edges, and a block is on the work list once at most;
- `AlwaysPassTypeOK`: each element is well formed, with no range empty or full, and the execution of
  the rewritten function computes values;
- `AlwaysClimb`: no step takes a value away from what is known of an instruction (`ValuesClimb`).

`GuessesMarked` speaks of what was replaced; the invariant `MarkedInv` adds that the element of
every tau, as long as the map has not grown, is marked as a guess if it is a constant, and
that `resolvedUndefsIn`, which rewrites the function, leaves it in form.  A tau gets a new
element in three ways: as a call (`VisitedAsTau`: overdefined), by `visitTauNode`
(`MergedSpeculation`: every way through `mergeInSpec` ends unknown, overdefined or marked), and
by the merge of that into itself (`SelfMerge`: what comes out is a guess or overdefined).

`ExecutableByEdges` is not inductive as it stands: a call that waits to mark an edge must come from
an executable block.  `ExecInv` adds that (`Pending`), and that the function stays well-formed
when a branch on undef gets a constant (`FixedWellFormed`); what the elements are does not
matter.  The successors a terminator marks and the phis and taus that are visited again come in the
order of `Ascending`, and `AscendingSeq` is a counting argument: no two elements of a finite set of
numbers have as many smaller ones.  TLC checks `ExecInv` on the instance of `sccp` too.

`PassTypeOK` is inductive together with `ExecInv`, as sequences instead of sets of their elements
(`TypesInv`); the work is in the visitors.  Each ends with an operation of the lattice, and each
operation has a lemma that it returns an element that *rises* from the one it was given (`Rises`:
unknown, undef, a constant or a range that grows, overdefined).  A phi folds `mergeIn` over its
feasible operands in their order (`MergedArgsElement`, with `FoldInduction` of `ListProofs`); ranges
of results need the hull to be a range and constants to fold to values (`Computes`).  What the
solver knows is needed for the execution too: a replacement is a value because the element it was
read from is well formed.

`AlwaysClimb` is `RisesMeans` for the visitors that merge, which is all but a few.  Those that *mark*
what their operands fold to have no such lemma: marking replaces a range.  `ClimbInv` says that an
instruction that is marked agrees with its operands (`Agrees`): if they are constants now, it is
unknown, overdefined or what they fold to; if they may still become constants, it is unknown or
overdefined.  Since the operands rise as well (`AgreesKept`: a constant stays the same one until
it stops being one), what is marked next is what was marked before.  The argument fails where an
operand is begun anew, and trying it is how `sccp_stale_guess` was found: `Steady` is where it
holds.  TLC checks `TypesInv` and `ClimbInv` on the instance of `sccp` too.

From `ProgramsAssumption`, `MainAssumption` and `CountsAssumption`, for every function, every
layout and order of addresses, every number of runs and every threshold (`BallLarusProofs`,
`PathCountsProofs`, on `ListProofs`):

- `TypesOfPathCounts`: the abstract graph has edges between blocks, with natural values, and
  `pathData.txt` counts natural numbers only, although the register may be negative;
- `PathsAreNumbered`: the values of the edges give each path from the entry to the exit a number
  of its own, and all numbers below `NumPaths` of the entry are used;
- `PathsAreRegenerated`: `numToPath` finds the path of each number;
- `ReportedPaths`: whatever the program counts, right or wrong, each line of `hotPathInfo.txt` is
  a path that the HPSSA pass can read, which is what `Cfg` assumes of profiles;
- `TreeOfLargeValues`: the tree is a spanning tree of maximal values;
- `SplitsNeverFail`: where every block can return, no split of an edge fails;
- `CountsAreExecutions` and `HotPathsAreComplete`: without loops and with the values of the tree
  (`Faithful`), `pathData.txt` has the executions, path by path, and `hotPathInfo.txt` has
  exactly executed paths and among them all that make up the threshold.

The invariant of the pass is `PassInv`.  `GraphInv`: the abstract graph is the one that
`getAbstractGraph` built, up to values, and every edge of it leads to a block of higher rank (its
place in the traversal, the exit last), so that walks end.  `OrderInv`: `DFS` finishes a block
after all its targets; the calls in progress have growing ranks, so none of them is met again.
`ValuesInv`: the values out of a numbered block are the prefix sums of `NumPaths` of its targets.
From these, `BlockNumbers` carries *the paths from here have the numbers 0 up to `NumPaths` - 1,
each once* from the targets to the block, and `Backwards` from the exit to the entry;
`BlockRegenerated` does the same for `numToPath`: the largest value that is at most a number
belongs to the edge of its path, because the prefix sums grow.

`TreeInv` is the exchange argument for a maximal spanning tree that `getIncValues` grows by
Prim's algorithm with two directions: a function `above` gives each block of the tree those
between it and the root, and `Maximal` compares each edge with the path it would close, also for
blocks that are still outside (their best edge to the tree, and two of them with each other).
`SplitAll` adds what the splits need.  A dummy edge from the entry to a header comes after the
other edges of the entry, through which every block is reached, so its value is at least the
`NumPaths` of every other block (`HeadOutweighs`) and larger than every value between two of them
(`HeadHeavier`); so such an edge is on the tree (`HeadsJoined`): the blocks are otherwise
connected by edges of smaller values.  So a back edge is off the tree with one half at most, and each chord stands for an
edge of the function of its own (`ChordPlaceIs`).  `SplitInv` then says of each edge of the
function that it has code exactly if its chord was passed (`Passed`); edges between the same two
blocks are chords together (`Parallel`) and are passed in the order in which LLVM finds them.

`CountInv` is about the runs.  While the program runs, `OnPath` says that the blocks so far are
those of a path `p` of the abstract graph, that each way on from here completes `p`, and that the
register is the potential of the block, less the potential of the entry, less the number of `p`:
a chord adds the difference of potentials and has value 0, an edge of the tree adds nothing and has
that difference as its value (`EdgeCounts`).  At the exit the last increment closes the cycle and
the register is the negated number of `p`, which the dump turns round.  `Matched` compares
`pathData` with the history `executed`; that numbers tell paths apart is `PathsAreNumbered`,
and that blocks do is `EntryTold`, since with values of the tree no two edges join the same blocks
(`NoParallel`).  TLC checks these invariants on the instance of `ball_larus` too.

Recursive functions (`numToPath`, `PathsFrom`, `Above`, `Execute`, `Sums`) are `CHOOSE`s, of which
nothing is known until some function solves the recursion.  `RecursionByRank` of `ListProofs`
gives one, without induction over operators: it takes the recursion as a function from places and
functions, and a rank that goes down.  `SumSolves` does this for the fold behind `SumOver`.

Only model-checked: liveness, and

- `HotArgsComplete` of `HPSSA_new.cpp`.  It is not true of every function, so it cannot be a
  theorem: on the function of `hpssa_freed_tau`, where a frame keeps the address of a freed tau, TLC
  finds it violated too.  What it says beyond that, `hpssa` shows on its three programs;
- of the solver `FoldedIsActual`, `TakenIsFeasible` and `Settled`.  They are about the fixpoint that
  the solver ends with: for each value that is out of date some call must be waiting that will bring
  it up to date, through three work lists, edges found late and taus whose users are not told.  That
  invariant is open; that elements are well formed and climb is what it would rest on.

## 6. What is left out, and the plan

Not modelled, with the reason:

- **TConditional**: a draft that creates phis without inserting them and puts an addition behind
  a terminator; the part that would rewrite taus is commented out.  It has no behaviour to
  state properties of.
- **Backedge printer**: prints, and changes no state.
- **Basic block profiler**: the format of its log is covered by the hot paths of the second kind;
  its counter and reader are not.
- **Parts of the solver**: structs, invokes, indirect branches, predicate info, and the entry
  points of an interprocedural pass (tracked returns and globals, argument specialization),
  which `runSCCP` does not call; the branch of `handleCallResult` for intrinsics whose range
  `ConstantRange::intrinsic` computes (`SCCPSolverTau.cpp:1536-1553`), which it does reach, so
  that an intrinsic is a call like others here; in the rewriting, the signed extension that
  becomes unsigned.
- **The LLVM patch** (what its verifier demands is `UsesDominated`), logging, the vendored
  profiler, test programs and documents.
- **A malformed or missing profile**: `getProfileInfo` trusts the file.

Still to come, in this order:

1. A run with two back edges into one header, for what incubation loses there
   (`HPSSA_new.cpp:172`), and one with both kinds of profile for paths seen later than the entry.
2. The basic block profiler: the log of block ids and `bbReader`.
3. **Theorems**: `Settled` and `FoldedIsActual`, the soundness of what the solver folds, on top of
   `AlwaysPassTypeOK` and `AlwaysClimb`.

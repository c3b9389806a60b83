----------------------------- MODULE HpssaPass -----------------------------
(***************************************************************************)
(* HPSSAPass::run of src/HPSSA_new.cpp on one function: getCaloricConnector*)
(* (one block a step, as BuddyPartition states it and Caloric implements   *)
(* it), the insertion of taus, the renaming of Search and the argument     *)
(* allocation of AllocateArgs.  Search and AllocateArgs recurse over the   *)
(* dominator tree: "visit" is their call stack, each call with the         *)
(* children it has yet to visit.                                           *)
(*                                                                         *)
(* A frame, which maps values to BitVectors, is the set of its pairs       *)
(* <<value, path>>; the arguments of a tau after the first are a set, since*)
(* frames are ordered by address.                                          *)
(***************************************************************************)
EXTENDS TauForm

VARIABLES
    pc,              \* the part of the pass that takes the next step
    DT,              \* the immediate dominator of each block but the entry
    visit,           \* the calls of Search or AllocateArgs in progress
    renaming_stack,  \* for each phi visited the values that stand for it
    hasTau,          \* the pairs <<block, phi>> whose tau Search has pushed
    stackmap,        \* for each phi and tau visited its phi
    varstack,        \* the phis whose stacks Search has yet to pop
    defAcc,          \* for each <<block, phi>> the definitions accumulated
    phiStack,        \* for each phi the pairs <<frame, block>> pushed
    it               \* the place of a loop in the phis or taus of a block

searchVars == <<renaming_stack, hasTau, stackmap, varstack>>
allocVars  == <<defAcc, phiStack>>
vars == <<walkVars, textVars, pc, DT, visit, searchVars, allocVars, it>>

Called == Last(visit).block    \* the block of the call in progress
ToVisit == Last(visit).todo    \* its children that are still to be visited

\* For each block the blocks above it in the dominator tree, itself included.
Above == LET up[b \in {fn.entry} \cup DOMAIN DT] ==
                 IF b = fn.entry THEN {b} ELSE {b} \cup up[DT[b]]
         IN up

Call(b) == [block |-> b, todo |-> {c \in DOMAIN DT : DT[c] = b}]

\* The call in progress calls itself on child c.
VisitChild(c) ==
    visit' = Append([visit EXCEPT ![Len(visit)].todo = @ \ {c}], Call(c))

Init ==
    /\ WalkInit
    /\ Original
    /\ pc = "connect"
    /\ DT = DominatorTree(fn)
    /\ visit = << >>
    /\ renaming_stack = << >> /\ hasTau = {} /\ stackmap = << >>
    /\ varstack = {}
    /\ defAcc = [x \in Blocks \X Phis |-> {}]
    /\ phiStack = [z \in Phis |-> << >>]
    /\ it = 1

----------------------------------------------------------------------------
(* run: the caloric connectors, then the taus.                             *)

Connect ==
    /\ pc = "connect"
    /\ WalkNext
    /\ UNCHANGED <<textVars, pc, DT, visit, searchVars, allocVars, it>>

Connected ==
    /\ pc = "connect" /\ pos \notin DOMAIN fn.rpo
    /\ pos' = 1
    /\ pc' = "insert"
    /\ UNCHANGED <<fn, HotPathSet, buddies, isCaloric, textVars, DT, visit,
                   searchVars, allocVars, it>>

\* The blocks that get a tau for each phi of b: those b dominates and shares a hot
\* path with that are caloric connectors.
Refining(b) ==
    {c \in Reachable(fn) : /\ b \in Above[c]
                           /\ HotPathSet[b] \cap HotPathSet[c] # {}
                           /\ c \in isCaloric}

\* The next phi of the block.
InsertTaus ==
    /\ pc = "insert" /\ pos \in DOMAIN fn.rpo /\ it \in DOMAIN fn.phis[fn.rpo[pos]]
    /\ Insert(fn.phis[fn.rpo[pos]][it], [c \in Refining(fn.rpo[pos]) |-> {}])
    /\ it' = it + 1
    /\ UNCHANGED <<walkVars, phiOp, useOf, pc, DT, visit, searchVars, allocVars>>

NextBlock ==
    /\ pc = "insert" /\ pos \in DOMAIN fn.rpo /\ it \notin DOMAIN fn.phis[fn.rpo[pos]]
    /\ pos' = pos + 1
    /\ it' = 1
    /\ UNCHANGED <<fn, HotPathSet, buddies, isCaloric, textVars, pc, DT, visit,
                   searchVars, allocVars>>

Inserted ==
    /\ pc = "insert" /\ pos \notin DOMAIN fn.rpo
    /\ visit' = <<Call(fn.entry)>>
    /\ pc' = "search"
    /\ UNCHANGED <<walkVars, textVars, DT, searchVars, allocVars, it>>

----------------------------------------------------------------------------
(* Search: the uses of a phi are renamed to the tau above them.            *)

\* What replaceUsesOfWith(phi, renaming_stack[phi].back()) over all phis makes of v.
Renamed(v) == IF v \in DOMAIN renaming_stack THEN Last(renaming_stack[v]) ELSE v

\* The phis of the block are renamed, and each then stands for itself.
Search ==
    /\ pc = "search"
    /\ LET phis == ToSet(fn.phis[Called])
       IN /\ phiOp' = [z \in Phis |->
                        IF z \in phis
                        THEN [u \in DOMAIN phiOp[z] |-> Renamed(phiOp[z][u])]
                        ELSE phiOp[z]]
          /\ renaming_stack' = Over([z \in phis |-> <<z>>], renaming_stack)
          /\ stackmap' = Over([z \in phis |-> z], stackmap)
    /\ it' = 1
    /\ pc' = "rename"
    /\ UNCHANGED <<walkVars, taus, operand, args, useOf, DT, visit, hasTau, varstack, allocVars>>

\* The next tau of the block is renamed and pushed.
SearchTau ==
    /\ pc = "rename" /\ it \in DOMAIN taus[Called]
    /\ LET t == taus[Called][it]
           parPhi == Renamed(operand[t])
           z == stackmap[parPhi]
       IN /\ operand' = [operand EXCEPT ![t] = parPhi]
          /\ args' = [args EXCEPT ![t] = {Renamed(v) : v \in @}]
          /\ renaming_stack' = [renaming_stack EXCEPT ![z] = Append(@, t)]
          /\ stackmap' = Over([v \in {t} |-> z], stackmap)
          /\ hasTau' = hasTau \cup {<<Called, z>>}
    /\ it' = it + 1
    /\ UNCHANGED <<walkVars, taus, phiOp, useOf, pc, DT, visit, varstack, allocVars>>

Outgoing_Kept(v) == v  \* mutant: successors' phis are left to themselves

\* What an operand on an edge out of the block is replaced by.
Outgoing(v) == IF v \in DOMAIN stackmap THEN Last(renaming_stack[stackmap[v]]) ELSE v

\* The other instructions are renamed, and the operands the successors' phis take from
\* the block.  replaceUsesOfWith replaces all operands of a phi that are equal, not
\* just the one of this edge.
SearchUses ==
    /\ pc = "rename" /\ it \notin DOMAIN taus[Called]
    /\ useOf' = [i \in Insts |-> IF i \in ToSet(fn.body[Called]) THEN Renamed(useOf[i])
                                 ELSE useOf[i]]
    /\ phiOp' = [z \in Phis |->
                  IF HomeOf(z) \in Succs(fn, Called)
                  THEN LET V == phiOp[z][Called]
                       IN [u \in DOMAIN phiOp[z] |-> Sub(V, Outgoing(V), phiOp[z][u])]
                  ELSE phiOp[z]]
    /\ pc' = "searched"
    /\ UNCHANGED <<walkVars, taus, operand, args, DT, visit, searchVars, allocVars, it>>

\* The children come in the order of the dominator tree's own lists: any order.
SearchChild ==
    /\ pc = "searched"
    /\ \E c \in ToVisit : VisitChild(c)
    /\ pc' = "search"
    /\ UNCHANGED <<walkVars, textVars, DT, searchVars, allocVars, it>>

PoppedAt_All(b) == DOMAIN renaming_stack  \* mutant: hasTau is not asked

\* The phis whose stack has a tau of block b on top.
PoppedAt(b) == {z \in DOMAIN renaming_stack : <<b, z>> \in hasTau}

SearchedChildren ==
    /\ pc = "searched" /\ ToVisit = {}
    /\ varstack' = PoppedAt(Called)
    /\ pc' = "pop"
    /\ UNCHANGED <<walkVars, textVars, DT, visit, renaming_stack, hasTau, stackmap,
                   allocVars, it>>

\* A tau of the block is popped, in the order of the phis' addresses: any order.  It is
\* erased if it has no use by then.
SearchPop ==
    /\ pc = "pop"
    /\ \E z \in varstack :
          LET t == Last(renaming_stack[z])
          IN /\ IF Unused(t)
                THEN /\ taus' = Without(t)
                     /\ operand' = Restrict(operand, DOMAIN operand \ {t})
                     /\ args' = Restrict(args, DOMAIN args \ {t})
                ELSE UNCHANGED <<taus, operand, args>>
             /\ renaming_stack' = [renaming_stack EXCEPT ![z] = Front(@)]
             /\ varstack' = varstack \ {z}
    /\ UNCHANGED <<walkVars, phiOp, useOf, pc, DT, visit, hasTau, stackmap, allocVars, it>>

SearchReturn ==
    /\ pc = "pop" /\ varstack = {}
    /\ IF Len(visit) > 1
       THEN visit' = Front(visit) /\ pc' = "searched"
       ELSE visit' = <<Call(fn.entry)>> /\ pc' = "allocate"
    /\ UNCHANGED <<walkVars, textVars, DT, searchVars, allocVars, it>>

----------------------------------------------------------------------------
(* AllocateArgs: each tau gets the values its phi has on hot paths.        *)

Hot == HotPathSet[Called]

\* getIncubationPaths: the hot paths no predecessor is on.
incubationPaths == Hot \ UNION {HotPathSet[u] : u \in Preds(fn, Called)}

\* d with the paths added to each of its values.
Spread(d, paths) == {<<e[1], p>> : e \in d, p \in paths}

\* The operand of phi z from u with these paths.
Arrives(z, u, paths) == {<<phiOp[z][u], p>> : p \in paths}

isPlain(v) == v \notin Phis /\ v \notin TauNames

deFrame_Paper(z) == defAcc[<<Called, z>>]  \* mutant: without "our idea, not in paper"

\* The frame of the operands that come along hot paths.
deFrame(z) ==
    defAcc[<<Called, z>>]
    \cup UNION {Arrives(z, u, HotPathSet[u] \cap Hot) : u \in Preds(fn, Called)}

\* The frame that has the incubating paths as well.
newFrame(z, topFrame) ==
    LET plain == {u \in Preds(fn, Called) : isPlain(phiOp[z][u])}
        tails == {u \in Preds(fn, Called) : <<u, Called>> \in fn.back}
    IN topFrame
       \cup Spread(topFrame, incubationPaths)
       \cup (UNION {Arrives(z, u, incubationPaths \cup (HotPathSet[u] \cap Hot)) : u \in plain})
       \cup UNION {Arrives(z, u, incubationPaths) : u \in tails}

topFrame(frames) == IF frames = << >> THEN {} ELSE Last(frames)[1]

\* The frames of the block's own phis are pushed.  A deFrame never has a value
\* without a path, so that the sets of pairs lose nothing: defAcc of a phi and its
\* own block gets its first entry here.
AllocatePhis ==
    /\ pc = "allocate"
    /\ LET own(z) == IF deFrame(z) = {} THEN phiStack[z]
                     ELSE Append(phiStack[z], <<deFrame(z), Called>>)
       IN /\ phiStack' = [z \in Phis |->
                 IF z \notin ToSet(fn.phis[Called]) THEN phiStack[z]
                 ELSE IF incubationPaths = {} THEN own(z)
                 ELSE Append(own(z), <<newFrame(z, topFrame(own(z))), Called>>)]
          /\ defAcc' = [x \in DOMAIN defAcc |->
                 IF x[1] = Called /\ x[2] \in ToSet(fn.phis[Called])
                 THEN deFrame(x[2]) ELSE defAcc[x]]
    /\ it' = 1
    /\ pc' = "taus"
    /\ UNCHANGED <<walkVars, textVars, DT, visit, searchVars>>

\* The next tau of the block is replaced by one with all its arguments.  Frames keep
\* the address of the old tau, which is freed.
AllocateTau ==
    /\ pc = "taus" /\ it \in DOMAIN taus[Called]
    /\ LET old == taus[Called][it]
           new == [old EXCEPT !.gen = 2]
           frame == topFrame(phiStack[old.phi])
           hotArgs == {d[1] : d \in {e \in frame : e[2] \in Hot}}
           others == DOMAIN operand \ {old}
       IN IF phiStack[old.phi] = << >>
          THEN UNCHANGED textVars
          ELSE /\ taus' = [taus EXCEPT ![Called][it] = new]
               /\ operand' = Over([t \in {new} |-> operand[old]],
                                Restrict(OperandWith(old, new), others))
               /\ args' = Over([t \in {new} |-> {Sub(old, new, x) : x \in hotArgs}],
                             Restrict(ArgsWith(old, new), others))
               /\ phiOp' = PhiOpWith(old, new)
               /\ useOf' = UseOfWith(old, new)
    /\ it' = it + 1
    /\ UNCHANGED <<walkVars, pc, DT, visit, searchVars, defAcc, phiStack>>

\* What the top frames hold on paths that go on to a join is accumulated there.
AllocateSuccessors ==
    /\ pc = "taus" /\ it \notin DOMAIN taus[Called]
    /\ defAcc' = [x \in DOMAIN defAcc |->
          IF x[1] \in Succs(fn, Called) /\ Cardinality(PredEdges(fn, x[1])) > 1
          THEN defAcc[x] \cup {d \in topFrame(phiStack[x[2]]) : d[2] \in Hot \cap HotPathSet[x[1]]}
          ELSE defAcc[x]]
    /\ pc' = "allocated"
    /\ UNCHANGED <<walkVars, textVars, DT, visit, searchVars, phiStack, it>>

IsNext_Strict(c) == \A d \in ToVisit : Before(fn, c, d)  \* mutant: before itself too

IsNext(c) == \A d \in ToVisit \ {c} : Before(fn, c, d)

\* The children come in the order of topoNum.
AllocateChild ==
    /\ pc = "allocated"
    /\ \E c \in ToVisit : IsNext(c) /\ VisitChild(c)
    /\ pc' = "allocate"
    /\ UNCHANGED <<walkVars, textVars, DT, searchVars, allocVars, it>>

\* Mutant: one frame at most is taken off.
Popped_One(frames, b) ==
    IF frames # << >> /\ Last(frames)[2] = b THEN Front(frames) ELSE frames

\* pStack::pop takes the frames off the top that are of block b.
Popped(frames, b) ==
    SubSeq(frames, 1, Max({0} \cup {n \in DOMAIN frames : frames[n][2] # b}))

AllocateReturn ==
    /\ pc = "allocated" /\ ToVisit = {}
    /\ phiStack' = [z \in Phis |-> Popped(phiStack[z], Called)]
    /\ visit' = Front(visit)
    /\ pc' = IF Len(visit) > 1 THEN "allocated" ELSE "hpssa"
    /\ UNCHANGED <<walkVars, textVars, DT, searchVars, defAcc, it>>

Next == \/ Connect \/ Connected \/ InsertTaus \/ NextBlock \/ Inserted
        \/ Search \/ SearchTau \/ SearchUses \/ SearchChild
        \/ SearchedChildren \/ SearchPop \/ SearchReturn
        \/ AllocatePhis \/ AllocateTau \/ AllocateSuccessors
        \/ AllocateChild \/ AllocateReturn

\* The pass is sequential and waits for nothing.
Spec == Init /\ [][Next]_vars /\ WF_vars(Next)

----------------------------------------------------------------------------
(* Properties.                                                             *)

\* Search is over: the renaming is what the rest of the pipeline works on.
renamed == pc \in {"allocate", "taus", "allocated", "hpssa"}

\* Each variable has its type; the taus are named for the block they stand in and
\* have their arguments as long as they live.
TypeOK ==
    /\ pc \in {"connect", "insert", "walk", "search", "rename", "searched", "pop",
               "allocate", "taus", "allocated", "hpssa", "destroy", "done"}
    /\ \A b \in Blocks : \A t \in ToSet(taus[b]) : t \in TauNames /\ t.at = b
    /\ DOMAIN operand = LiveTaus /\ DOMAIN args = LiveTaus
    /\ DOMAIN useOf = Insts /\ DOMAIN phiOp = Phis
    /\ \A z \in Phis : DOMAIN phiOp[z] = DOMAIN fn.op[z]
    /\ DOMAIN renaming_stack \subseteq Phis
    /\ \A z \in DOMAIN renaming_stack : renaming_stack[z] # << >> /\ renaming_stack[z][1] = z
    /\ hasTau \subseteq Blocks \X Phis
    /\ \A v \in DOMAIN stackmap : stackmap[v] \in Phis
    /\ \A x \in Blocks \X Phis : \A d \in defAcc[x] : d[2] \in HotPathSet[x[1]]
    /\ DOMAIN phiStack = Phis
    /\ visit # << >> => Called \in Reachable(fn) /\ ToVisit \subseteq Reachable(fn)
    /\ it \in Nat \ {0}

\* No phi has the same operand, if it is another phi, on two edges.
DistinctOperands(f) ==
    \A z \in DOMAIN f.op : \A u, w \in DOMAIN f.op[z] :
        u # w /\ f.op[z][u] = f.op[z][w] => f.op[z][u] \notin DOMAIN f.op

\* v is the name of phi z at the end of block b: its tau in the nearest block above
\* that has one, else z itself.
IsNameOf(v, z, b) ==
    LET above == {t \in LiveTaus : t.phi = z /\ t.at \in Above[b]}
    IN IF above = {} THEN v = z
       ELSE v \in above /\ \A t \in above : t.at \in Above[v.at]

IsRenamed(old, v, b) == IF old \in Phis THEN IsNameOf(v, old, b) ELSE v = old

\* After Search every use of a phi reads the tau nearest above it that was kept: in
\* instructions, in the taus below, and in other phis on the edge the operand comes
\* by, whatever the order in which Search visits a block and the predecessors of its
\* phis, and although uses are rewritten while spurious taus are erased.  Nothing
\* AllocateArgs replaces changes that.  (A phi with equal operands is the exception.)
InnermostTau ==
    renamed /\ DistinctOperands(fn) =>
        /\ \A b \in Reachable(fn) : \A i \in ToSet(fn.body[b]) :
              IsRenamed(fn.use[i], useOf[i], b)
        /\ \A z \in Phis : \A u \in DOMAIN phiOp[z] \cap Reachable(fn) :
              IsRenamed(fn.op[z][u], phiOp[z][u], u)
        /\ \A t \in LiveTaus : IsNameOf(operand[t], t.phi, DT[t.at])

\* "The tau inserted is spurious": a tau survives Search only if the program, not
\* just the argument list of another tau, reads it.  Erasing the tau of a block makes
\* the one above it spurious in turn, which must be found out later.  (Of equal operands
\* of a phi one edge's tau replaces the other's when that one is off its stack.)
NoSpuriousTau ==
    renamed /\ DistinctOperands(fn) => \A t \in LiveTaus :
        \/ \E z \in Phis : \E u \in DOMAIN phiOp[z] : phiOp[z][u] = t
        \/ \E i \in Insts : useOf[i] = t
        \/ \E s \in LiveTaus : operand[s] = t

\* "Whenever pop is called in the algorithm, the frames corresponding to BB (if any)
\* are in the top" (pStack): the frames of a phi are there exactly while its block's
\* call of AllocateArgs is in progress, and Search leaves of each renaming stack the
\* phi alone, so that the next reader of either never meets a stale definition.
StackDiscipline ==
    /\ renamed => \A z \in DOMAIN renaming_stack : renaming_stack[z] = <<z>>
    /\ \A z \in Phis : \A n \in DOMAIN phiStack[z] :
          \E k \in DOMAIN visit : visit[k].block = phiStack[z][n][2]

\* Path p takes the edge from u to b.
Takes(p, u, b) == \E n \in 1..(Len(fn.paths[p]) - 1) :
                     fn.paths[p][n] = u /\ fn.paths[p][n + 1] = b

BackEdgesTo(b) == {e \in fn.back : e[2] = b}

\* Path p begins at b, whatever the profile lists before it.
BeginsAt(p, b) ==
    \/ fn.paths[p][1] = b
    \/ /\ Len(fn.paths[p]) > 1
       /\ fn.paths[p][1] = fn.entry /\ fn.paths[p][2] = b
       /\ fn.entry \notin Preds(fn, b)

\* A tau misses no hot definition: for each hot path through its phi's block and its
\* own, the value the phi has on this path is among its arguments.  On a path that
\* begins at the phi's block, a loop header, this is the value the back edge brings
\* (where one back edge does: with two of them, see the README).
HotArgsComplete ==
    pc = "hpssa" => \A t \in LiveTaus :
        LET b == HomeOf(t.phi)
        IN \A p \in HotPathSet[b] \cap HotPathSet[t.at] : \A u \in Preds(fn, b) :
              \/ Takes(p, u, b)
              \/ BeginsAt(p, b) /\ BackEdgesTo(b) = {<<u, b>>}
              => phiOp[t.phi][u] \in args[t]

\* The patched verifier (assets/patch/verifier.patch) skips the dominance check for
\* the arguments of taus and for nothing else: what an instruction or the edge into a
\* phi reads must be defined above it.  Search breaks this where a phi has the same
\* phi on two edges, for it renames both operands when it looks at one edge.
UsesDominated ==
    renamed =>
        /\ \A z \in Phis : \A u \in DOMAIN phiOp[z] :
              phiOp[z][u] \in LiveTaus => phiOp[z][u].at \in Above[u]
        /\ \A b \in Reachable(fn) : \A i \in ToSet(fn.body[b]) :
              useOf[i] \in LiveTaus => useOf[i].at \in Above[b]

\* "Replacing the original tau instruction": once it is replaced, no tau is given the
\* original as an argument.  A frame pushed before a loop's taus are replaced holds
\* their old addresses, though, and the taus below read them when they are freed.
ArgsAlive == \A t \in LiveTaus : args[t] \cap TauNames \subseteq LiveTaus
=============================================================================

------------------------------ MODULE SpecSccp ------------------------------
(***************************************************************************)
(* SCCPTauInstVisitor of src/SCCPSolverTau.cpp, the solver of the          *)
(* speculative SCCP pass, as runSCCP uses it: on one function, arguments   *)
(* overdefined, nothing tracked across calls, no predicate info.           *)
(*                                                                         *)
(* The solver keeps an element for each value and three work lists.  What  *)
(* it does next within one step of solve() is in agenda, the calls yet to  *)
(* be made in this order:                                                  *)
(*   <<"visit", I>>     InstVisitor::visit                                 *)
(*   <<"tau", I>>       visitTauNode                                       *)
(*   <<"edge", A, B>>   markEdgeExecutable                                 *)
(* A function is a record, see WellFormed; an instruction has              *)
(*   op      the visitor it belongs to        fn    which operation it is  *)
(*   args    its operands, an argument, constant or instruction each       *)
(*   from    the blocks a phi's operands come from                         *)
(*   to      the successors of a terminator                                *)
(*   cases   the case values of a switch, whose default is to[1]           *)
(*   md      the range its metadata gives, {} for none                     *)
(* Structs, invokes and indirect branches are left out.                    *)
(***************************************************************************)
EXTENDS TauLattice, Integers, SequencesExt

CONSTANTS Functions,   \* the functions the pass runs on
          HighDegree,  \* a phi with more operands is overdefined: 64 in the code
          Eval(_, _)   \* the value an instruction gives for the values of its operands

Terminators == {"br", "condbr", "switch", "ret"}
IntegerOps == {"binary", "cast", "cmp"}   \* their range follows from their operands'
Ops == IntegerOps \cup {"phi", "tau", "unary", "fbinary", "pcast", "select", "gep", "load",
                        "call", "other", "store"} \cup Terminators

Instrs(g) == DOMAIN g.ins
Blocks(g) == DOMAIN g.code

\* The number of successors of an instruction.
Successors(in) ==
    CASE in.op = "br" -> 1
      [] in.op = "condbr" -> 2
      [] in.op = "switch" -> Len(in.cases) + 1
      [] OTHER -> 0

\* The number of operands is right.
Arity(in) ==
    CASE in.op \in {"cast", "pcast", "unary", "load", "condbr", "switch"} -> Len(in.args) = 1
      [] in.op \in {"binary", "fbinary", "cmp"} -> Len(in.args) = 2
      [] in.op = "select" -> Len(in.args) = 3
      [] in.op = "tau" -> Len(in.args) >= 2
      [] in.op = "phi" -> Len(in.from) = Len(in.args)
      [] OTHER -> TRUE

WellFormed(g) ==
    /\ DOMAIN g = {"entry", "order", "code", "ins", "args", "consts"}
    /\ Instrs(g) \cap (DOMAIN g.args \cup DOMAIN g.consts) = {}
    /\ IsFiniteSet(Instrs(g)) /\ IsFiniteSet(DOMAIN g.args)
    /\ g.entry \in Blocks(g)
    /\ g.order \in Seq(Blocks(g))
    /\ ToSet(g.order) = Blocks(g) /\ Len(g.order) = Cardinality(Blocks(g))
    /\ \A b \in Blocks(g) : g.code[b] \in Seq(Instrs(g)) \ {<<>>}
    /\ UNION {ToSet(g.code[b]) : b \in Blocks(g)} = Instrs(g)
    /\ 0 \in Range(g.consts) /\ Range(g.consts) \subseteq AllValues
    /\ \A a \in DOMAIN g.args : g.args[a] \subseteq AllValues
    /\ \A I \in Instrs(g) :
        /\ DOMAIN g.ins[I] = {"op", "fn", "args", "from", "to", "cases", "md", "block"}
        /\ g.ins[I].op \in Ops
        /\ g.ins[I].block \in Blocks(g)
        /\ g.ins[I].cases \in Seq(Range(g.consts))
        /\ g.ins[I].to \in Seq(Blocks(g))
        /\ Len(g.ins[I].to) = Successors(g.ins[I])
        /\ g.ins[I].args \in Seq(Instrs(g) \cup DOMAIN g.args \cup DOMAIN g.consts)
        /\ g.ins[I].from \in Seq(Blocks(g))
        /\ g.ins[I].md \in Ranges \cup {{}}
        /\ g.ins[I].op = "tau" => g.ins[I].fn = "" /\ g.ins[I].md = {}
        /\ Arity(g.ins[I])

\* What an instruction gives for constants is a value, or None if it cannot be folded, which
\* casts, negations and addresses always can be.  A result of integers is an integer where
\* ranges are computed of it.  (With more than two operands, an execution looks at two.)
Computes(g) ==
    \A I \in Instrs(g) : g.ins[I].op \notin Terminators =>
        \A n \in {Len(g.ins[I].args), 2} : \A as \in [1..n -> Ints \cup Consts] :
            /\ Eval(g.ins[I], as) \in AllValues \cup {None}
            /\ g.ins[I].op \in {"cast", "pcast", "unary", "gep"} => Eval(g.ins[I], as) # None
            /\ g.ins[I].op \in {"binary", "cast"} /\ as \in [1..n -> Ints] =>
                  Eval(g.ins[I], as) \in Ints

FunctionsAssumption ==
    /\ HighDegree \in 1..254
    /\ {0, 1} \subseteq Ints /\ None \notin AllValues
    /\ \A g \in Functions : WellFormed(g) /\ Computes(g)

ASSUME FunctionsAssumption

VARIABLES
    f,                        \* the function
    ValueState,               \* the element of each value
    BBExecutable,             \* the executable blocks
    KnownFeasibleEdges,       \* the feasible edges
    OverdefinedInstWorkList,  \* values that became overdefined, to be taken from the end
    InstWorkList,             \* values that changed otherwise
    BBWorkList,               \* blocks that became executable
    agenda,                   \* the calls to be made before the next is taken
    phase,                    \* the work list that is being drained, or what comes after
    cursor,                   \* the block that resolvedUndefsIn looks at
    MadeChange,               \* whether it has changed anything
    moved                     \* ValueState has outgrown its storage

lists == <<OverdefinedInstWorkList, InstWorkList, BBWorkList>>
solverVars == <<f, ValueState, BBExecutable, KnownFeasibleEdges, lists, agenda, cursor,
                MadeChange, moved>>
vars == <<solverVars, phase>>

Values(g) == Instrs(g) \cup DOMAIN g.args \cup DOMAIN g.consts

\* getValueState, when a value is looked up for the first time; arguments are marked
\* overdefined by runSCCP.
Seed(g, v) ==
    IF v \in DOMAIN g.consts THEN markConstantValue(unknown, g.consts[v], FALSE).elem
    ELSE IF v \in DOMAIN g.args THEN overdefined ELSE unknown

\* runSCCP up to the first call of solve().
Init ==
    /\ f \in Functions
    /\ ValueState = [v \in Values(f) |-> Seed(f, v)]
    /\ BBExecutable = {f.entry}
    /\ KnownFeasibleEdges = {}
    /\ OverdefinedInstWorkList \in SetToSeqs(DOMAIN f.args)
    /\ InstWorkList = <<>>
    /\ BBWorkList = <<f.entry>>
    /\ agenda = <<>>
    /\ phase = "overdefined"
    /\ cursor = 0
    /\ MadeChange = FALSE
    /\ moved = FALSE

\* The numbers of a set in their order.
Ascending(ns) ==
    [k \in 1..Cardinality(ns) |-> CHOOSE n \in ns : Cardinality({m \in ns : m < n}) = k - 1]

ins(I) == f.ins[I]
St(v) == Copied(ValueState[v])
Arg(I, k) == St(ins(I).args[k])
IsTerminator(I) == ins(I).op \in Terminators

----------------------------------------------------------------------------
(* What a visit makes of the element of I, and whether it reports a change.*)

\* The operands at the positions ks, merged in this order until overdefined, and their
\* number.
MergedArgs(I, start, ks) ==
    LET merge(acc, k) ==
            IF acc.count > 0 /\ isOverdefined(acc.elem) THEN acc
            ELSE [elem |-> mergeIn(acc.elem, Arg(I, k), DefaultOptions).elem,
                  count |-> acc.count + 1]
    IN FoldLeft(merge, [elem |-> start, count |-> 0], ks)

\* mergeInValue of a working copy, then setNumRangeExtensions of the larger count, of which
\* the element keeps eight bits.
Settle(e, working, count) ==
    LET merged == mergeIn(e, Copied(working), MergeOptions(FALSE, TRUE, count + 1))
    IN [merged EXCEPT !.elem.NumRangeExtensions = IF @ < count THEN count % 256 ELSE @]

isEdgeFeasible(from, to) == <<from, to>> \in KnownFeasibleEdges

visitPHINode(I) ==
    LET e == ValueState[I]
        feasible == {k \in DOMAIN ins(I).args : isEdgeFeasible(ins(I).from[k], ins(I).block)}
        working == MergedArgs(I, Copied(e), Ascending(feasible))
    IN CASE isOverdefined(e) -> Unchanged(e)
         [] ~isOverdefined(e) /\ Len(ins(I).args) > HighDegree -> markOverdefined(e)
         [] OTHER -> Settle(e, working.elem, working.count)

\* The arguments of a tau that lie on hot paths, merged; one constant is a guess.
Beta(I) ==
    LET n == Len(ins(I).args)
        merged == MergedArgs(I, Arg(I, 2), [k \in 1..(n - 1) |-> k + 1])
        b == merged.elem
        guess == CASE isConstantRange(b) /\ isSingleElement(b.Range) ->
                        markSpeculativeConstantRange(b, b.Range, DefaultOptions).elem
                   [] isConstant(b) -> markSpeculativeConstant(b, b.ConstVal).elem
                   [] OTHER -> b
    IN [merged EXCEPT !.elem = guess]

\* Mutant: a copy of the tau's element is changed and merged.
TauState_Copy(I) ==
    Copied(mergeInSpec(Arg(I, 1), Beta(I).elem, markUnknown(ValueState[I]).elem))

\* The tau's own element, reset and then changed in place.
TauState(I) == mergeInSpec(Arg(I, 1), Beta(I).elem, markUnknown(ValueState[I]).elem)

\* In the end the element is merged into itself.
visitTauNode(I) == Settle(TauState(I), TauState(I), Beta(I).count)

SimplifyBinOp(I) ==
    IF isConst(Arg(I, 1)) /\ isConst(Arg(I, 2))
    THEN Eval(ins(I), <<getConstant(Arg(I, 1)), getConstant(Arg(I, 2))>>) ELSE None

\* What the instruction can give for the ranges of its operands, as a range.
ResultRange(I) ==
    LET results == IF Len(ins(I).args) = 1
                   THEN {Eval(ins(I), <<m>>) : m \in RangeOf(Arg(I, 1))}
                   ELSE {Eval(ins(I), <<m, n>>) : m \in RangeOf(Arg(I, 1)),
                                                  n \in RangeOf(Arg(I, 2))}
    IN getRange(Hull(results))

visitBinaryOperator(I) ==
    LET e == ValueState[I]  V1 == Arg(I, 1)  V2 == Arg(I, 2)
        folded == IF isConstant(V1) \/ isConstant(V2) THEN SimplifyBinOp(I) ELSE None
    IN IF isOverdefined(e) \/ isUnknownOrUndef(V1) \/ isUnknownOrUndef(V2) THEN Unchanged(e)
       ELSE IF isOverdefined(V1) /\ isOverdefined(V2) THEN markOverdefined(e)
       \* I is not a constant, so that markSpeculativeConstant only pushes it.
       ELSE IF isSpecConstant(V1) \/ isSpecConstant(V2) THEN Changed(e)
       ELSE IF folded # None
            THEN mergeIn(e, markConstantValue(unknown, folded, TRUE).elem, DefaultOptions)
       ELSE IF ins(I).op # "binary" THEN markOverdefined(e)
       ELSE mergeIn(e, ResultRange(I), DefaultOptions)

visitCastInst(I) ==
    LET e == ValueState[I]
    IN IF isOverdefined(e) \/ isUnknownOrUndef(Arg(I, 1)) THEN Unchanged(e)
       ELSE IF isConst(Arg(I, 1))
            THEN markConstantValue(e, Eval(ins(I), <<getConstant(Arg(I, 1))>>), FALSE)
       ELSE IF ins(I).op = "cast" THEN mergeIn(e, ResultRange(I), DefaultOptions)
       ELSE markOverdefined(e)

visitUnaryOperator(I) ==
    LET e == ValueState[I]
    IN IF isOverdef(e) THEN markOverdefined(e)
       ELSE IF isConst(Arg(I, 1))
            THEN markConstantValue(e, Eval(ins(I), <<getConstant(Arg(I, 1))>>), FALSE)
       ELSE IF isUnknownOrUndef(Arg(I, 1)) THEN Unchanged(e) ELSE markOverdefined(e)

\* getCompare: 1, 0, Undef, or None if e and other do not decide the comparison.
getCompare(pred, e, other) ==
    LET holds(m, n) == Eval(pred, <<m, n>>) = 1
        Decided(S, T) ==
            CASE \A m \in S, n \in T : holds(m, n) -> 1
              [] \A m \in S, n \in T : ~holds(m, n) -> 0
              [] OTHER -> None
    IN CASE isUnknownOrUndef(e) \/ isUnknownOrUndef(other) -> Undef
         [] isConstant(e) /\ isConstant(other) -> Decided({e.ConstVal}, {other.ConstVal})
         [] isConstantRange(e) /\ isConstantRange(other) -> Decided(e.Range, other.Range)
         [] /\ pred.fn \in {"eq", "ne"}
            /\ {e.Tag, other.Tag} = ConstTags /\ e.ConstVal = other.ConstVal ->
                IF holds(e.ConstVal, e.ConstVal) THEN 0 ELSE 1
         [] OTHER -> None

visitCmpInst(I) ==
    LET e == ValueState[I]
        c == getCompare(ins(I), Arg(I, 1), Arg(I, 2))
    IN IF isOverdef(e) THEN markOverdefined(e)
       ELSE IF c = Undef THEN Unchanged(e)
       ELSE IF c # None
            THEN mergeIn(e, markConstantValue(unknown, c, FALSE).elem, DefaultOptions)
       ELSE markOverdefined(e)

\* With a condition that is not a constant the result can be either value.
visitSelectInst(I) ==
    LET e == ValueState[I]
        first == mergeIn(e, Arg(I, 2), DefaultOptions)
        second == mergeIn(first.elem, Arg(I, 3), DefaultOptions)
    IN IF isOverdefined(e) \/ isUnknownOrUndef(Arg(I, 1)) THEN Unchanged(e)
       ELSE IF isConst(Arg(I, 1))
            THEN mergeIn(e, Arg(I, IF getConstant(Arg(I, 1)) = 0 THEN 3 ELSE 2), DefaultOptions)
       ELSE [second EXCEPT !.changed = first.changed \/ second.changed]

\* The positions of the operands that are not constants; the first one decides.
Open(I) == {k \in DOMAIN ins(I).args : ~isConst(Arg(I, k))}
Constants(I) == [k \in DOMAIN ins(I).args |-> getConstant(Arg(I, k))]

visitGetElementPtrInst(I) ==
    LET e == ValueState[I]
    IN IF isOverdef(e) THEN markOverdefined(e)
       ELSE IF Open(I) = {} THEN markConstantValue(e, Eval(ins(I), Constants(I)), FALSE)
       ELSE IF isUnknownOrUndef(Arg(I, Min(Open(I)))) THEN Unchanged(e)
       ELSE markOverdefined(e)

getValueFromMetadata(I) == IF ins(I).md = {} THEN overdefined ELSE getRange(ins(I).md)

FromMetadata(I) == mergeIn(ValueState[I], getValueFromMetadata(I), DefaultOptions)

\* A load from null is undefined and waits for ever; other constant pointers may point
\* to constant memory.
visitLoadInst(I) ==
    LET e == ValueState[I]
        loaded == Eval(ins(I), <<getConstant(Arg(I, 1))>>)
    IN IF isOverdefined(e) \/ isUnknownOrUndef(Arg(I, 1)) THEN Unchanged(e)
       ELSE IF ~isConst(Arg(I, 1)) THEN FromMetadata(I)
       ELSE IF loaded = Undef THEN Unchanged(e)
       ELSE IF loaded # None THEN markConstantValue(e, loaded, FALSE)
       ELSE FromMetadata(I)

\* handleCallResult of a callee that is not tracked.  A tau that comes here is a call
\* like any other; it cannot be folded.
handleCallOverdefined(I) ==
    LET e == ValueState[I]
        result == Eval(ins(I), Constants(I))
    IN IF ins(I).fn # "foldable" THEN FromMetadata(I)
       ELSE IF Open(I) # {}
            THEN IF isUnknownOrUndef(Arg(I, Min(Open(I)))) THEN Unchanged(e)
                 ELSE markOverdefined(e)
       ELSE IF isOverdef(e) THEN markOverdefined(e)
       ELSE IF result # None THEN markConstantValue(e, result, FALSE)
       ELSE FromMetadata(I)

visitInstruction(I) == markOverdefined(ValueState[I])

\* InstVisitor::visit, for what is not a terminator.  Stores and calls without a result
\* change nothing here.
visit(I) ==
    LET op == ins(I).op
    IN CASE op = "phi" -> visitPHINode(I)
         [] op \in {"binary", "fbinary"} -> visitBinaryOperator(I)
         [] op \in {"cast", "pcast"} -> visitCastInst(I)
         [] op = "unary" -> visitUnaryOperator(I)
         [] op = "cmp" -> visitCmpInst(I)
         [] op = "select" -> visitSelectInst(I)
         [] op = "gep" -> visitGetElementPtrInst(I)
         [] op = "load" -> visitLoadInst(I)
         [] op \in {"call", "tau"} -> handleCallOverdefined(I)
         [] op = "other" -> visitInstruction(I)
         [] op = "store" -> Unchanged(ValueState[I])

\* The positions of the successors of a switch for the value n, but for the default.
CasesOf(I, n) == {k \in 2..Len(ins(I).to) : ins(I).cases[k - 1] = n}

\* Mutant: a range that a case covers is taken not to leave anything to the default.
RangeSuccessors_Covered(I, r) ==
    LET hit == UNION {CasesOf(I, n) : n \in r} IN IF hit = {} THEN {1} ELSE hit

RangeSuccessors(I, r) == {1} \cup UNION {CasesOf(I, n) : n \in r}

\* The positions of the successors that the terminator I can go to.
getFeasibleSuccessors(I) ==
    LET cond == Arg(I, 1)
        hit == CasesOf(I, getConstant(cond))
    IN CASE ins(I).op = "br" \/ (ins(I).op = "switch" /\ ins(I).cases = <<>>) -> {1}
         [] ins(I).op = "ret" -> {}
         [] ins(I).op = "condbr" ->
                IF isConst(cond) THEN {IF getConstant(cond) = 0 THEN 2 ELSE 1}
                ELSE IF isUnknownOrUndef(cond) THEN {} ELSE {1, 2}
         [] ins(I).op = "switch" /\ ins(I).cases # <<>> ->
                IF isConst(cond)
                THEN IF hit = {} THEN {1} ELSE hit
                ELSE IF cond.Tag = "constantrange" THEN RangeSuccessors(I, cond.Range)
                ELSE IF isUnknownOrUndef(cond) THEN {} ELSE DOMAIN ins(I).to

----------------------------------------------------------------------------
(* The calls on the agenda.                                                *)

Calling(call) == agenda # <<>> /\ Head(agenda)[1] = call
Callee == Head(agenda)[2]

Revisits_None(b) == <<>>   \* mutant: a new edge into an executable block changes nothing

\* markEdgeExecutable looks at the phis and taus of a block that is executable already.
Revisits(b) ==
    LET at(op) == Ascending({k \in DOMAIN f.code[b] : ins(f.code[b][k]).op = op})
    IN [j \in DOMAIN at("phi") |-> <<"visit", f.code[b][at("phi")[j]]>>]
       \o [j \in DOMAIN at("tau") |-> <<"tau", f.code[b][at("tau")[j]]>>]

\* pushToWorkList(IV, V), if the visit reports a change.
Pushed(I, r) ==
    /\ OverdefinedInstWorkList' =
            IF r.changed /\ isOverdefined(r.elem) THEN Append(OverdefinedInstWorkList, I)
            ELSE OverdefinedInstWorkList
    /\ InstWorkList' =
            IF r.changed /\ ~isOverdefined(r.elem) THEN Append(InstWorkList, I)
            ELSE InstWorkList

NewBlock_Again(b) == <<b>>   \* mutant: the block is pushed with every edge

\* markBlockExecutable pushes a block once.
NewBlock(b) == IF b \in BBExecutable THEN <<>> ELSE <<b>>

MarkEdgeExecutable ==
    /\ Calling("edge")
    /\ LET b == Head(agenda)[3]
           known == isEdgeFeasible(Callee, b)
           revisited == ~known /\ b \in BBExecutable
       IN /\ KnownFeasibleEdges' = KnownFeasibleEdges \cup {<<Callee, b>>}
          /\ BBExecutable' = BBExecutable \cup {b}
          /\ BBWorkList' = IF known THEN BBWorkList ELSE BBWorkList \o NewBlock(b)
          /\ agenda' = (IF revisited THEN Revisits(b) ELSE <<>>) \o Tail(agenda)
    /\ UNCHANGED <<f, ValueState, OverdefinedInstWorkList, InstWorkList, phase, cursor,
                   MadeChange, moved>>

\* operandChangedState: nothing to do while the user's block is not executable.
NotExecutable ==
    /\ Calling("visit") /\ ins(Callee).block \notin BBExecutable
    /\ agenda' = Tail(agenda)
    /\ UNCHANGED <<f, ValueState, BBExecutable, KnownFeasibleEdges, lists, phase, cursor,
                   MadeChange, moved>>

VisitTerminator ==
    /\ Calling("visit") /\ ins(Callee).block \in BBExecutable /\ IsTerminator(Callee)
    /\ LET feasible == Ascending(getFeasibleSuccessors(Callee))
       IN agenda' = [k \in DOMAIN feasible |->
                        <<"edge", ins(Callee).block, ins(Callee).to[feasible[k]]>>]
                    \o Tail(agenda)
    /\ UNCHANGED <<f, ValueState, BBExecutable, KnownFeasibleEdges, lists, phase, cursor,
                   MadeChange, moved>>

Visit ==
    /\ Calling("visit") /\ ins(Callee).block \in BBExecutable /\ ~IsTerminator(Callee)
    /\ ValueState' = [ValueState EXCEPT ![Callee] = visit(Callee).elem]
    /\ Pushed(Callee, visit(Callee))
    /\ agenda' = Tail(agenda)
    /\ UNCHANGED <<f, BBExecutable, KnownFeasibleEdges, BBWorkList, phase, cursor,
                   MadeChange, moved>>

VisitTau ==
    /\ Calling("tau")
    /\ ValueState' = [ValueState EXCEPT ![Callee] = visitTauNode(Callee).elem]
    /\ Pushed(Callee, visitTauNode(Callee))
    /\ agenda' = Tail(agenda)
    /\ UNCHANGED <<f, BBExecutable, KnownFeasibleEdges, BBWorkList, phase, cursor,
                   MadeChange, moved>>

\* An element that is moved to new storage is constructed anew, and is no guess then.
Moved == [v \in DOMAIN ValueState |-> [ValueState[v] EXCEPT !.spec = FALSE]]

\* Looking up a value inserts it, and then the map may grow.
Grow ==
    /\ agenda # <<>> /\ ~moved
    /\ \E v \in DOMAIN ValueState : isUnknown(ValueState[v])
    /\ ValueState' = Moved
    /\ moved' = TRUE
    /\ UNCHANGED <<f, BBExecutable, KnownFeasibleEdges, lists, agenda, phase, cursor,
                   MadeChange>>

\* The map grows while visitTauNode looks up the operands: TauState then refers to the
\* storage given back, and what is found there at the end is merged into the element that
\* was moved.
VisitTauMoved ==
    /\ Calling("tau") /\ ~moved
    /\ \E v \in ToSet(ins(Callee).args) : isUnknown(ValueState[v]) \/ v \in DOMAIN f.consts
    /\ LET settled == Settle(Moved[Callee], TauState(Callee), Beta(Callee).count)
       IN /\ ValueState' = [Moved EXCEPT ![Callee] = settled.elem]
          /\ Pushed(Callee, settled)
    /\ moved' = TRUE
    /\ agenda' = Tail(agenda)
    /\ UNCHANGED <<f, BBExecutable, KnownFeasibleEdges, BBWorkList, phase, cursor, MadeChange>>

----------------------------------------------------------------------------
(* solve().                                                                *)

Uses(v) == UNION {{I} \X {k \in DOMAIN ins(I).args : ins(I).args[k] = v} : I \in Instrs(f)}

\* The uses of a value come in the order of its use list.
markUsersAsChanged(v) ==
    \E users \in SetToSeqs(Uses(v)) :
        agenda' = [k \in DOMAIN users |-> <<"visit", users[k][1]>>]

Idle(list) == phase = list /\ agenda = <<>>

PopOverdefined ==
    /\ Idle("overdefined") /\ OverdefinedInstWorkList # <<>>
    /\ OverdefinedInstWorkList' = Front(OverdefinedInstWorkList)
    /\ markUsersAsChanged(Last(OverdefinedInstWorkList))
    /\ UNCHANGED <<f, ValueState, BBExecutable, KnownFeasibleEdges, InstWorkList, BBWorkList,
                   phase, cursor, MadeChange, moved>>

\* The users of a value that is overdefined by now are left to the other list.
PopInst ==
    /\ Idle("instructions") /\ InstWorkList # <<>>
    /\ InstWorkList' = Front(InstWorkList)
    /\ IF isOverdefined(ValueState[Last(InstWorkList)])
       THEN agenda' = <<>> ELSE markUsersAsChanged(Last(InstWorkList))
    /\ UNCHANGED <<f, ValueState, BBExecutable, KnownFeasibleEdges, OverdefinedInstWorkList,
                   BBWorkList, phase, cursor, MadeChange, moved>>

PopBlock ==
    /\ Idle("blocks") /\ BBWorkList # <<>>
    /\ BBWorkList' = Front(BBWorkList)
    /\ LET code == f.code[Last(BBWorkList)]
       IN agenda' = [k \in DOMAIN code |->
                        <<IF ins(code[k]).op = "tau" THEN "tau" ELSE "visit", code[k]>>]
    /\ UNCHANGED <<f, ValueState, BBExecutable, KnownFeasibleEdges, OverdefinedInstWorkList,
                   InstWorkList, phase, cursor, MadeChange, moved>>

\* The list being drained is empty: the next one, round and round while any has entries.
NextList ==
    /\ \/ Idle("overdefined") /\ OverdefinedInstWorkList = <<>> /\ phase' = "instructions"
       \/ Idle("instructions") /\ InstWorkList = <<>> /\ phase' = "blocks"
       \/ /\ Idle("blocks") /\ BBWorkList = <<>>
          /\ phase' = IF lists = <<(<<>>), (<<>>), (<<>>)>> THEN "undefs" ELSE "overdefined"
    /\ cursor' = 1
    /\ MadeChange' = FALSE
    /\ UNCHANGED <<f, ValueState, BBExecutable, KnownFeasibleEdges, lists, agenda, moved>>

----------------------------------------------------------------------------
(* resolvedUndefsIn, a block at a time.                                    *)

\* The unknown results that are driven to overdefined; those of taus and loads are not.
IsUndef(I) == /\ ins(I).op \notin Terminators \cup {"tau", "load", "store"}
              /\ isUnknownOrUndef(ValueState[I])

Undefs(b) ==
    LET at == Ascending({k \in DOMAIN f.code[b] : IsUndef(f.code[b][k])})
    IN [j \in DOMAIN at |-> f.code[b][at[j]]]

\* A branch or a switch on a value nothing is known of goes to the second successor.
Forced(b, I) ==
    /\ ins(I).op = "condbr" \/ (ins(I).op = "switch" /\ ins(I).cases # <<>>)
    /\ isUnknownOrUndef(ValueState[ins(I).args[1]])
    /\ ins(I).args[1] \notin ToSet(Undefs(b))

Opened_Again(b, I) == Forced(b, I)   \* mutant: an edge that was forced before is new

\* The edge this makes feasible was not.
Opened(b, I) == Forced(b, I) /\ ~isEdgeFeasible(b, ins(I).to[2])

\* A condition that is undef is replaced by the constant that leads there.
Fixed(I) ==
    LET n == IF ins(I).op = "condbr" THEN 0 ELSE ins(I).cases[1]
        c == CHOOSE c \in DOMAIN f.consts : f.consts[c] = n
    IN [f EXCEPT !.ins[I].args = <<c>>]

ResolveBlock ==
    /\ Idle("undefs") /\ cursor <= Len(f.order)
    /\ LET b == f.order[cursor]
           I == Last(f.code[b])
           live == b \in BBExecutable
           marked == IF live THEN Undefs(b) ELSE <<>>
           forced == live /\ Forced(b, I)
           undef == forced /\ ins(I).args[1] \in DOMAIN f.consts
       IN /\ ValueState' = [v \in DOMAIN ValueState |->
                                IF v \in ToSet(marked) THEN markOverdefined(ValueState[v]).elem
                                ELSE ValueState[v]]
          /\ OverdefinedInstWorkList' = OverdefinedInstWorkList \o marked
          /\ f' = IF undef THEN Fixed(I) ELSE f
          /\ agenda' = IF forced THEN <<<<"edge", b, ins(I).to[2]>>>> ELSE <<>>
          /\ MadeChange' = (MadeChange \/ marked # <<>> \/ undef
                            \/ (live /\ Opened(b, I)))
    /\ cursor' = cursor + 1
    /\ UNCHANGED <<BBExecutable, KnownFeasibleEdges, InstWorkList, BBWorkList, phase, moved>>

\* The loop of runSCCP: solve again if anything changed.
Resolved ==
    /\ Idle("undefs") /\ cursor > Len(f.order)
    /\ phase' = IF MadeChange THEN "overdefined" ELSE "solved"
    /\ UNCHANGED solverVars

Solve ==
    \/ MarkEdgeExecutable \/ NotExecutable \/ VisitTerminator \/ Visit
    \/ VisitTau \/ VisitTauMoved \/ Grow
    \/ PopOverdefined \/ PopInst \/ PopBlock \/ NextList
    \/ ResolveBlock \/ Resolved

----------------------------------------------------------------------------
Calls(g) == {<<c, I>> : c \in {"visit", "tau"}, I \in Instrs(g)}
            \cup {<<"edge", a, b>> : a \in Blocks(g), b \in Blocks(g)}

Phases == {"overdefined", "instructions", "blocks", "undefs", "solved", "ready", "running",
           "ended"}

TypeOK ==
    /\ ValueState \in [Values(f) -> Elements]
    /\ BBExecutable \subseteq Blocks(f)
    /\ KnownFeasibleEdges \subseteq Blocks(f) \X Blocks(f)
    /\ ToSet(OverdefinedInstWorkList) \cup ToSet(InstWorkList) \subseteq Values(f)
    /\ ToSet(BBWorkList) \subseteq Blocks(f)
    /\ ToSet(agenda) \subseteq Calls(f)
    /\ phase \in Phases
    /\ cursor \in 0..(Len(f.order) + 1)
    /\ MadeChange \in BOOLEAN /\ moved \in BOOLEAN

\* The executable blocks are the entry and the ends of the feasible edges, which begin at
\* executable blocks; a block is on the work list once at most.
ExecutableByEdges ==
    /\ f.entry \in BBExecutable
    /\ \A e \in KnownFeasibleEdges : e[1] \in BBExecutable /\ e[2] \in BBExecutable
    /\ \A b \in BBExecutable \ {f.entry} : \E a \in BBExecutable : isEdgeFeasible(a, b)
    /\ ToSet(BBWorkList) \subseteq BBExecutable
    /\ IsInjective(BBWorkList)

\* When the solver is done, nothing it would visit again changes: no executable
\* instruction but a tau disagrees with its operands, and no successor that a
\* terminator can reach is missing.
Settled ==
    phase = "solved" =>
        \A I \in Instrs(f) : ins(I).block \in BBExecutable =>
            IF IsTerminator(I)
            THEN \A k \in getFeasibleSuccessors(I) : isEdgeFeasible(ins(I).block, ins(I).to[k])
            ELSE ins(I).op # "tau" =>
                    LET r == visit(I) IN Meaning(r.elem) = Meaning(ValueState[I])

\* The visitors that mark an instruction with the constant that it folds to, where the
\* others merge it.
Marking == {"cast", "pcast", "unary", "gep", "load", "call"}
MarksConstant(v) == v \in Instrs(f) /\ ins(v).op \in Marking
IsTau(v) == v \in Instrs(f) /\ ins(v).op = "tau"

\* What is never begun anew: all values but taus, and in a function with taus the
\* instructions that fold what may have been begun anew.
Steady(v) ==
    /\ ~IsTau(v)
    /\ MarksConstant(v) =>
          \/ \A I \in Instrs(f) : ~IsTau(I)
          \/ \A k \in DOMAIN ins(v).args :
                ~IsTau(ins(v).args[k]) /\ ~MarksConstant(ins(v).args[k])

\* What is known of a value only gets less; taus alone are begun anew, and what folds them.
ValuesClimb ==
    [][\A v \in Values(f) :
        Steady(v) => Meaning(ValueState[v]) \subseteq Meaning(ValueState'[v])]_vars

\* "NewR must be a superset of the existing range or the object must be undef": a visit
\* extends the range that an instruction has, and does not replace it.
RangesExtend ==
    Calling("visit") /\ ins(Callee).block \in BBExecutable /\ ~IsTerminator(Callee) =>
        LET e == ValueState[Callee]  new == visit(Callee).elem
        IN isConstantRange(e) /\ isConstantRange(new) => e.Range \subseteq new.Range

\* The solver comes to an end.
SolverEnds == <>(phase = "solved")
=============================================================================

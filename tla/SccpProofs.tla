----------------------------- MODULE SccpProofs -----------------------------
(***************************************************************************)
(* Proofs about the speculative SCCP pass, for functions of every form,    *)
(* integers of every width, and whatever instructions compute.             *)
(***************************************************************************)
EXTENDS SccpPass, ListProofs

Fields == {"Tag", "spec", "ConstVal", "Range", "NumRangeExtensions"}

\* An element that solver and pass treat as a constant is a guess.
Marked(e) == DOMAIN e = Fields /\ (isConst(e) => e.spec = TRUE)

Marks(r) == "elem" \in DOMAIN r /\ Marked(r.elem)

\* What an element of a tau can be after mergeInSpec.
Speculated(e) ==
    /\ DOMAIN e = Fields
    /\ \/ e.Tag \in {"unknown", "overdefined"}
       \/ e.spec = TRUE /\ e.Tag \in {"constant", "constantrange"}

----------------------------------------------------------------------------
(* The lattice.                                                            *)

\* An element that is overdefined is no constant.
LEMMA OverdefinedMarked ==
    ASSUME NEW e, DOMAIN e = Fields
    PROVE  /\ Marks(markOverdefined(e))
           /\ DOMAIN markOverdefined(e).elem = Fields
           /\ markOverdefined(e).elem.Tag = "overdefined"
<1>1. CASE isOverdefined(e)
  BY <1>1 DEF markOverdefined, Unchanged, Marks, Marked, isConst, isConstant, isConstantRange,
              RangeTags, isOverdefined
<1>2. CASE ~isOverdefined(e)
  <2> DEFINE o == [e EXCEPT !.Tag = "overdefined", !.ConstVal = None, !.Range = {}]
  <2>1. markOverdefined(e) = [elem |-> o, changed |-> TRUE]
    BY <1>2 DEF markOverdefined, Changed
  <2>2. DOMAIN o = Fields /\ o.Tag = "overdefined"
    BY DEF Fields
  <2> HIDE DEF o
  <2> QED
    BY <2>1, <2>2 DEF Marks, Marked, isConst, isConstant, isConstantRange, RangeTags
<1> QED
  BY <1>1, <1>2

\* What mergeInSpec makes of a tau that was reset is a guess, unknown or overdefined,
\* whatever the operands are.
LEMMA MergedSpeculation ==
    ASSUME NEW x0, NEW beta, NEW tau, DOMAIN tau = Fields, tau.Tag = "unknown"
    PROVE  Speculated(mergeInSpec(x0, beta, tau))
<1> DEFINE c == markSpeculativeConstant(tau, beta.ConstVal).elem
           r == markSpeculativeConstantRange(tau, beta.Range, DefaultOptions).elem
<1>1. mergeInSpec(x0, beta, tau) \in {tau, c, r}
  BY DEF mergeInSpec
<1>2. Speculated(tau)
  BY DEF Speculated
<1>3. Speculated(c)
  <2>1. c = [tau EXCEPT !.Tag = "constant", !.spec = TRUE, !.ConstVal = beta.ConstVal,
                        !.Range = {}]
    BY DEF markSpeculativeConstant, isSpecConstant, isConstant, Changed
  <2> QED
    BY <2>1 DEF Speculated, Fields
<1>4. Speculated(r)
  <2> DEFINE m == markConstantRange(tau, beta.Range, DefaultOptions)
  <2>1. CASE beta.Range = Ints
    <3>1. r = markOverdefined(tau).elem
      BY <2>1 DEF markSpeculativeConstantRange, markConstantRange
    <3> QED
      BY <3>1, OverdefinedMarked DEF Speculated
  <2>2. CASE beta.Range # Ints
    <3>1. ~isConstantRange(tau)
      BY DEF isConstantRange, RangeTags
    <3>2. r = [m EXCEPT !.elem.spec = TRUE].elem
      BY <2>2, <3>1 DEF markSpeculativeConstantRange
    <3>3. m = Changed([tau EXCEPT !.Tag = RangeTag(tau, DefaultOptions),
                                  !.Range = beta.Range, !.NumRangeExtensions = 0])
      BY <2>2, <3>1 DEF markConstantRange
    <3>4. RangeTag(tau, DefaultOptions) = "constantrange"
      BY DEF RangeTag, DefaultOptions, MergeOptions
    <3> DEFINE e == [tau EXCEPT !.Tag = "constantrange", !.Range = beta.Range,
                                !.NumRangeExtensions = 0]
    <3>5. m = [elem |-> e, changed |-> TRUE]
      BY <3>3, <3>4 DEF Changed
    <3>6. r = [e EXCEPT !.spec = TRUE]
      BY <3>2, <3>5
    <3>7. DOMAIN e = Fields /\ e.Tag = "constantrange"
      BY DEF Fields
    <3> HIDE DEF e, m, r
    <3> QED
      BY <3>6, <3>7 DEF Speculated, Fields
  <2> QED
    BY <2>1, <2>2
<1> QED
  BY <1>1, <1>2, <1>3, <1>4

\* Merging a guess into itself leaves a guess or something overdefined.
LEMMA SelfMerge ==
    ASSUME NEW e, Speculated(e), NEW opts
    PROVE  Marks(mergeIn(e, Copied(e), opts))
<1> DEFINE rhs == Copied(e)
<1>1. /\ rhs.Tag = e.Tag /\ rhs.ConstVal = e.ConstVal /\ rhs.Range = e.Range
      /\ ~isGuess(rhs)
  <2>1. rhs = [e EXCEPT !.spec = FALSE,
                        !.NumRangeExtensions = IF isConstantRange(e) THEN @ ELSE 0]
    BY DEF Copied
  <2>2. /\ rhs.Tag = e.Tag /\ rhs.ConstVal = e.ConstVal /\ rhs.Range = e.Range
        /\ rhs.spec = FALSE
    BY <2>1 DEF Speculated, Fields
  <2> QED
    BY <2>2 DEF isGuess, isSpecConstant, isSpecRange
<1> HIDE DEF rhs
<1>2. CASE e.Tag \in {"unknown", "overdefined"}
  <2>1. mergeIn(e, rhs, opts) = Unchanged(e)
    BY <1>1, <1>2 DEF mergeIn, isUnknown, isOverdefined
  <2> QED
    BY <1>2, <2>1 DEF rhs, Unchanged, Marks, Marked, Speculated, isConst, isConstant,
                      isConstantRange, RangeTags
<1>3. CASE e.Tag = "constant"
  <2>1. mergeIn(e, rhs, opts) = MergedConst(e, rhs)
    BY <1>1, <1>3 DEF mergeIn, isUnknown, isUndef, isOverdefined, isConstantRange, RangeTags,
                      ConstTags
  <2>2. MergedConst(e, rhs) = Unchanged(e)
    BY <1>1, <1>3 DEF MergedConst
  <2> QED
    BY <1>3, <2>1, <2>2 DEF rhs, Unchanged, Marks, Marked, Speculated
<1>4. CASE e.Tag = "constantrange"
  <2> DEFINE o == [opts EXCEPT !.MayIncludeUndef = (rhs.Tag = "constantrange_including_undef")]
             r == UnionWith(e.Range, rhs.Range)
  <2>1. mergeIn(e, rhs, opts) = MergedRange(e, rhs, opts)
    BY <1>1, <1>4 DEF mergeIn, isUnknown, isUndef, isOverdefined, isConstantRange, RangeTags,
                      ConstTags
  <2>2. MergedRange(e, rhs, opts) = markConstantRange(e, r, o)
    BY <1>1, <1>4 DEF MergedRange, isUndef, isConstantRange, RangeTags, ConstTags
  <2>3. DOMAIN e = Fields /\ e.spec = TRUE
    BY <1>4 DEF Speculated
  <2>. SUFFICES Marks(markConstantRange(e, r, o))
    BY <2>1, <2>2 DEF rhs
  <2> HIDE DEF o, r
  <2>4. CASE r = Ints
    BY <2>3, <2>4, OverdefinedMarked DEF markConstantRange
  <2>5. CASE r # Ints /\ e.Range = r
    <3>1. markConstantRange(e, r, o) = SameRange(e, o)
      BY <1>4, <2>5 DEF markConstantRange, isConstantRange, RangeTags
    <3> QED
      BY <2>3, <3>1 DEF SameRange, Marks, Marked, Fields
  <2>6. CASE r # Ints /\ e.Range # r
    <3>1. markConstantRange(e, r, o) = Extended(e, r, o)
      BY <1>4, <2>6 DEF markConstantRange, isConstantRange, RangeTags
    <3> DEFINE count == (e.NumRangeExtensions + 1) % 256
               kept == IF o.CheckWiden THEN count ELSE e.NumRangeExtensions
    <3>2. \/ Extended(e, r, o) = markOverdefined([e EXCEPT !.NumRangeExtensions = count])
          \/ Extended(e, r, o) = Changed([e EXCEPT !.Tag = RangeTag(e, o), !.Range = r,
                                                   !.NumRangeExtensions = kept])
      BY DEF Extended
    <3>3. DOMAIN [e EXCEPT !.NumRangeExtensions = count] = Fields
      BY <2>3
    <3>4. Marked([e EXCEPT !.Tag = RangeTag(e, o), !.Range = r, !.NumRangeExtensions = kept])
      BY <2>3 DEF Marked, Fields
    <3> HIDE DEF count, kept
    <3> QED
      BY <3>1, <3>2, <3>3, <3>4, OverdefinedMarked DEF Changed, Marks
  <2> QED
    BY <2>4, <2>5, <2>6
<1> QED
  BY <1>2, <1>3, <1>4 DEF Speculated

\* The end of a visit of a tau.
LEMMA SettledMarked ==
    ASSUME NEW e, Speculated(e), NEW n
    PROVE  Marked(Settle(e, e, n).elem)
<1> DEFINE opts == MergeOptions(FALSE, TRUE, n + 1)
           merged == mergeIn(e, Copied(e), opts)
           m == merged.elem
           s == Settle(e, e, n).elem
<1>1. Marks(merged)
  BY SelfMerge
<1>2. Settle(e, e, n)
        = [merged EXCEPT !.elem.NumRangeExtensions = IF @ < n THEN n % 256 ELSE @]
  BY DEF Settle
<1> HIDE DEF merged
<1>3. s = [m EXCEPT !.NumRangeExtensions = IF @ < n THEN n % 256 ELSE @]
  BY <1>1, <1>2 DEF Marks
<1>4. /\ DOMAIN s = Fields /\ s.Tag = m.Tag /\ s.spec = m.spec /\ s.Range = m.Range
  BY <1>1, <1>3 DEF Marks, Marked, Fields
<1> QED
  BY <1>1, <1>4 DEF Marks, Marked, isConst, isConstant, isConstantRange

----------------------------------------------------------------------------
(* The pass.                                                               *)

\* The form of a function, which resolvedUndefsIn does not change, and that nothing
\* but visitTauNode folds a tau.
FormOf(g) ==
    /\ DOMAIN g = {"entry", "order", "code", "ins", "args", "consts"}
    /\ \A I \in Instrs(g) :
        /\ DOMAIN g.ins[I] = {"op", "fn", "args", "from", "to", "cases", "md", "block"}
        /\ g.ins[I].op = "tau" => g.ins[I].fn = "" /\ g.ins[I].md = {}

\* Until the map of elements has grown, what is constant about a tau is a guess.
MarkedInv ==
    /\ FormOf(f)
    /\ Instrs(f) \subseteq DOMAIN ValueState
    /\ ~moved => \A I : IsTau(I) => Marked(ValueState[I])
    /\ GuessesMarked

\* Fixing the condition of a terminator leaves the form of the function.
LEMMA FixedForm ==
    ASSUME NEW I, FormOf(f)
    PROVE  /\ FormOf(Fixed(I))
           /\ Instrs(Fixed(I)) = Instrs(f)
           /\ \A J \in Instrs(f) : Fixed(I).ins[J].op = f.ins[J].op
<1> DEFINE c == CHOOSE c \in DOMAIN f.consts :
                    f.consts[c] = IF ins(I).op = "condbr" THEN 0 ELSE ins(I).cases[1]
<1>1. Fixed(I) = [f EXCEPT !.ins[I].args = <<c>>]
  BY DEF Fixed
<1> HIDE DEF c
<1>2. Fixed(I).ins = [f.ins EXCEPT ![I].args = <<c>>]
  BY <1>1 DEF FormOf
<1>3. DOMAIN Fixed(I).ins = DOMAIN f.ins /\ DOMAIN Fixed(I) = DOMAIN f
  BY <1>1, <1>2
<1>4. \A J \in Instrs(f) : /\ DOMAIN Fixed(I).ins[J] = DOMAIN f.ins[J]
                           /\ Fixed(I).ins[J].op = f.ins[J].op
                           /\ Fixed(I).ins[J].fn = f.ins[J].fn
                           /\ Fixed(I).ins[J].md = f.ins[J].md
  <2> SUFFICES ASSUME NEW J \in Instrs(f)
               PROVE  /\ DOMAIN Fixed(I).ins[J] = DOMAIN f.ins[J]
                      /\ Fixed(I).ins[J].op = f.ins[J].op
                      /\ Fixed(I).ins[J].fn = f.ins[J].fn
                      /\ Fixed(I).ins[J].md = f.ins[J].md
    OBVIOUS
  <2>1. Fixed(I).ins[J] = IF J = I THEN [f.ins[J] EXCEPT !.args = <<c>>] ELSE f.ins[J]
    BY <1>2 DEF Instrs
  <2>2. DOMAIN f.ins[J] = {"op", "fn", "args", "from", "to", "cases", "md", "block"}
    BY DEF FormOf
  <2> QED
    BY <2>1, <2>2
<1> QED
  BY <1>3, <1>4 DEF FormOf, Instrs

\* A tau that is visited like a call becomes overdefined.
LEMMA VisitedTau ==
    ASSUME NEW I, IsTau(I), FormOf(f), DOMAIN ValueState[I] = Fields
    PROVE  Marked(visit(I).elem)
<1> DEFINE e == ValueState[I]
<1>1. visit(I) = handleCallOverdefined(I)
  BY DEF IsTau, visit
<1>2. handleCallOverdefined(I) = FromMetadata(I) /\ getValueFromMetadata(I) = overdefined
  BY DEF IsTau, FormOf, Instrs, ins, handleCallOverdefined, getValueFromMetadata
<1>3. overdefined.Tag = "overdefined" /\ overdefined.spec = FALSE
  BY DEF overdefined, markOverdefined, unknown, isOverdefined, Changed
<1>4. FromMetadata(I) = mergeIn(e, overdefined, DefaultOptions)
  BY <1>2 DEF FromMetadata
<1>5. CASE isOverdefined(e)
  <2>1. mergeIn(e, overdefined, DefaultOptions) = Unchanged(e)
    BY <1>3, <1>5 DEF mergeIn, isUnknown, isOverdefined
  <2> QED
    BY <1>1, <1>2, <1>4, <1>5, <2>1 DEF Unchanged, Marked, isOverdefined, isConst,
        isConstant, isConstantRange, RangeTags
<1>6. CASE ~isOverdefined(e)
  <2>1. mergeIn(e, overdefined, DefaultOptions) = markOverdefined(e)
    BY <1>3, <1>6 DEF mergeIn, isUnknown, isOverdefined, isGuess, isSpecConstant, isSpecRange
  <2> QED
    BY <1>1, <1>2, <1>4, <2>1, OverdefinedMarked DEF Marks
<1> QED
  BY <1>5, <1>6

\* A tau that is visited as one is a guess, if anything.
LEMMA VisitedAsTau ==
    ASSUME NEW I, DOMAIN ValueState[I] = Fields
    PROVE  Marked(visitTauNode(I).elem)
<1> DEFINE e == ValueState[I]
           reset == markUnknown(e).elem
<1>1. DOMAIN reset = Fields /\ reset.Tag = "unknown"
  BY DEF markUnknown, isUnknown, Unchanged, Changed, Fields
<1>2. TauState(I) = mergeInSpec(Arg(I, 1), Beta(I).elem, reset)
  BY DEF TauState
<1> HIDE DEF reset
<1>3. Speculated(TauState(I))
  BY <1>1, <1>2, MergedSpeculation
<1> QED
  BY <1>3, SettledMarked DEF visitTauNode

\* The function does not change its form, and what was replaced stays replaced.
LEMMA SubstKept ==
    ASSUME GuessesMarked, subst' = subst, moved' = moved, Instrs(f)' = Instrs(f),
           \A I \in Instrs(f) : ins(I).op' = ins(I).op
    PROVE  GuessesMarked'
BY DEF GuessesMarked

\* It holds at first: every element of a tau is unknown and nothing is replaced.
LEMMA MarkedInvInit == PassInit => MarkedInv
<1> SUFFICES ASSUME PassInit PROVE MarkedInv
  OBVIOUS
<1>1. WellFormed(f) /\ ValueState = [v \in Values(f) |-> Seed(f, v)]
  BY FunctionsAssumption DEF PassInit, Init, FunctionsAssumption
<1>2. FormOf(f)
  BY <1>1 DEF WellFormed, FormOf
<1>3. Instrs(f) \subseteq DOMAIN ValueState
  BY <1>1 DEF Values
<1>4. ASSUME NEW I, IsTau(I) PROVE Marked(ValueState[I])
  <2>1. ValueState[I] = unknown
    BY <1>1, <1>4 DEF IsTau, Values, Seed, WellFormed
  <2> QED
    BY <2>1 DEF unknown, Marked, Fields, isConst, isConstant, isConstantRange, RangeTags
<1>5. GuessesMarked
  BY DEF PassInit, Kept, GuessesMarked
<1> QED
  BY <1>2, <1>3, <1>4, <1>5 DEF MarkedInv

\* It holds after each step of the solver, of the rewriting and of the execution.
LEMMA MarkedInvStep == MarkedInv /\ [Next]_passVars => MarkedInv'
<1> SUFFICES ASSUME MarkedInv, [Next]_passVars PROVE MarkedInv'
  OBVIOUS
<1> USE DEF MarkedInv
\* Steps that change neither the function nor an element nor a replacement.
<1>1. ASSUME f' = f, ValueState' = ValueState, moved' = moved, subst' = subst
      PROVE  MarkedInv'
  BY <1>1, SubstKept DEF IsTau, ins, Instrs
\* A step that gives one element a new value.
<1>2. ASSUME NEW I, NEW e, f' = f, ValueState' = [ValueState EXCEPT ![I] = e], moved' = moved,
             subst' = subst, ~moved /\ IsTau(I) => Marked(e)
      PROVE  MarkedInv'
  <2>1. GuessesMarked'
    BY <1>2, SubstKept DEF ins, Instrs
  <2>2. ASSUME ~moved, NEW J, IsTau(J) PROVE Marked(ValueState'[J])
    BY <1>2, <2>2 DEF IsTau
  <2>3. FormOf(f)' /\ (Instrs(f) \subseteq DOMAIN ValueState)'
    BY <1>2
  <2> QED
    BY <1>2, <2>1, <2>2, <2>3 DEF IsTau, ins, Instrs
<1>3. CASE Visit /\ UNCHANGED <<subst, runVars>>
  <2>1. ASSUME ~moved, IsTau(Callee) PROVE Marked(visit(Callee).elem)
    BY <2>1, VisitedTau DEF Marked
  <2> QED
    BY <1>2, <1>3, <2>1 DEF Visit
<1>4. CASE VisitTau /\ UNCHANGED <<subst, runVars>>
  <2>1. ASSUME ~moved, IsTau(Callee) PROVE Marked(visitTauNode(Callee).elem)
    BY <2>1, VisitedAsTau DEF Marked
  <2> QED
    BY <1>2, <1>4, <2>1 DEF VisitTau
\* Where the map grows nothing is promised any more.
<1>5. CASE (VisitTauMoved \/ Grow) /\ UNCHANGED <<subst, runVars>>
  <2>1. f' = f /\ moved' = TRUE /\ DOMAIN ValueState' = DOMAIN ValueState
    BY <1>5 DEF VisitTauMoved, Grow, Moved
  <2> QED
    BY <2>1 DEF GuessesMarked, Instrs
<1>6. CASE ResolveBlock /\ UNCHANGED <<subst, runVars>>
  <2> DEFINE b == f.order[cursor]
             T == Last(f.code[b])
             marked == IF b \in BBExecutable THEN Undefs(b) ELSE <<>>
  <2>1. f' = f \/ f' = Fixed(T)
    BY <1>6 DEF ResolveBlock
  <2>2. /\ ValueState' = [v \in DOMAIN ValueState |->
                            IF v \in ToSet(marked) THEN markOverdefined(ValueState[v]).elem
                            ELSE ValueState[v]]
        /\ moved' = moved /\ subst' = subst
    BY <1>6 DEF ResolveBlock
  <2> HIDE DEF marked, T
  <2>3. /\ FormOf(f') /\ Instrs(f') = Instrs(f)
        /\ \A J \in Instrs(f) : f'.ins[J].op = f.ins[J].op
    BY <2>1, FixedForm
  <2>4. GuessesMarked'
    BY <2>2, <2>3, SubstKept DEF ins, Instrs
  <2>5. ASSUME ~moved, NEW J, IsTau(J) PROVE Marked(ValueState'[J])
    <3>1. Marked(ValueState[J]) /\ J \in DOMAIN ValueState
      BY <2>5 DEF IsTau
    <3>2. Marked(markOverdefined(ValueState[J]).elem)
      BY <3>1, OverdefinedMarked DEF Marked, Marks
    <3> QED
      BY <2>2, <3>1, <3>2
  <2>6. \A J : IsTau(J)' => IsTau(J)
    BY <2>3 DEF IsTau, ins, Instrs
  <2> QED
    BY <2>2, <2>3, <2>4, <2>5, <2>6 DEF Instrs
<1>7. CASE runSCCP
  <2>1. f' = f /\ ValueState' = ValueState /\ moved' = moved
    BY <1>7 DEF runSCCP, solverVars
  <2>2. ASSUME ~moved, NEW I \in Instrs(f), ins(I).op = "tau", subst'[I][1] = "constant"
        PROVE  subst'[I][2] = Undef
    <3>1. subst'[I] = tryToReplaceWithConstant(I)
      BY <1>7, <2>2 DEF runSCCP, Kept
    <3>2. Marked(ValueState[I])
      BY <2>2 DEF IsTau
    <3>3. CASE isConst(ValueState[I])
      BY <2>2, <3>1, <3>2, <3>3 DEF tryToReplaceWithConstant, Marked, Kept
    <3>4. CASE ~isConst(ValueState[I])
      BY <2>2, <3>1, <3>4 DEF tryToReplaceWithConstant, Kept
    <3> QED
      BY <3>3, <3>4
  <2>3. GuessesMarked'
    BY <2>1, <2>2 DEF GuessesMarked, ins, Instrs
  <2> QED
    BY <2>1, <2>3 DEF IsTau, ins, Instrs
<1>8. CASE /\ \/ MarkEdgeExecutable \/ NotExecutable \/ VisitTerminator
              \/ PopOverdefined \/ PopInst \/ PopBlock \/ NextList \/ Resolved
           /\ UNCHANGED <<subst, runVars>>
  BY <1>1, <1>8 DEF MarkEdgeExecutable, NotExecutable, VisitTerminator, PopOverdefined,
      PopInst, PopBlock, NextList, Resolved, solverVars
<1>9. CASE Start \/ Execute \/ Branch \/ End \/ Ended \/ UNCHANGED passVars
  BY <1>1, <1>9 DEF Start, Execute, Branch, End, Ended, passVars, vars, solverVars
<1> QED
  BY <1>3, <1>4, <1>5, <1>6, <1>7, <1>8, <1>9 DEF Next, Solve

\* No tau is ever replaced with a constant that no call of assignSpecValue marks, until
\* the map of elements grows: the taus are visited in two ways and at any time, merged
\* into themselves and driven to overdefined, and every way keeps the mark.
THEOREM GuessesAlwaysMarked == Spec => []GuessesMarked
<1>1. PassInit => MarkedInv
  BY MarkedInvInit
<1>2. MarkedInv /\ [Next]_passVars => MarkedInv'
  BY MarkedInvStep
<1>3. MarkedInv => GuessesMarked
  BY DEF MarkedInv
<1> QED
  BY <1>1, <1>2, <1>3, PTL DEF Spec

----------------------------------------------------------------------------
(* The blocks and edges the solver holds to be executable.                 *)

\* Fixing the condition of a terminator leaves the function well-formed, and all but this
\* operand as it is.
LEMMA FixedWellFormed ==
    ASSUME WellFormed(f), NEW I \in Instrs(f),
           \/ ins(I).op = "condbr"
           \/ ins(I).op = "switch" /\ ins(I).cases # <<>>
    PROVE  /\ WellFormed(Fixed(I))
           /\ Fixed(I).entry = f.entry /\ Fixed(I).code = f.code /\ Fixed(I).order = f.order
           /\ Fixed(I).args = f.args /\ Fixed(I).consts = f.consts
           /\ Instrs(Fixed(I)) = Instrs(f)
           /\ \A J \in Instrs(f) : /\ Fixed(I).ins[J].op = f.ins[J].op
                                   /\ Fixed(I).ins[J].block = f.ins[J].block
                                   /\ J # I => Fixed(I).ins[J] = f.ins[J]
<1> DEFINE n == IF ins(I).op = "condbr" THEN 0 ELSE ins(I).cases[1]
           c == CHOOSE c \in DOMAIN f.consts : f.consts[c] = n
           g == Fixed(I)
           h == [f.ins[I] EXCEPT !.args = <<c>>]
<1>1. n \in Range(f.consts)
  <2>1. CASE ins(I).op = "condbr"
    BY <2>1 DEF WellFormed
  <2>2. CASE ins(I).op = "switch" /\ ins(I).cases # <<>>
    <3>1. ins(I).cases \in Seq(Range(f.consts))
      BY DEF WellFormed, ins
    <3>2. ins(I).cases[1] \in Range(f.consts)
      BY <2>2, <3>1
    <3> QED
      BY <2>2, <3>2
  <2> QED
    BY <2>1, <2>2
<1>2. c \in DOMAIN f.consts
  BY <1>1 DEF Range
<1>3. g = [f EXCEPT !.ins[I].args = <<c>>]
  BY DEF Fixed
<1> HIDE DEF c, n, g
<1>4. /\ DOMAIN f = {"entry", "order", "code", "ins", "args", "consts"}
      /\ DOMAIN f.ins[I] = {"op", "fn", "args", "from", "to", "cases", "md", "block"}
  BY DEF WellFormed
<1>5. /\ DOMAIN g = DOMAIN f
      /\ g.entry = f.entry /\ g.order = f.order /\ g.code = f.code
      /\ g.args = f.args /\ g.consts = f.consts
      /\ g.ins = [f.ins EXCEPT ![I] = h]
  BY <1>3, <1>4
<1>6. /\ DOMAIN h = DOMAIN f.ins[I]
      /\ h.op = f.ins[I].op /\ h.fn = f.ins[I].fn /\ h.to = f.ins[I].to
      /\ h.cases = f.ins[I].cases /\ h.md = f.ins[I].md /\ h.block = f.ins[I].block
      /\ h.from = f.ins[I].from /\ h.args = <<c>>
  BY <1>4
<1> HIDE DEF h
<1>7. Instrs(g) = Instrs(f) /\ Blocks(g) = Blocks(f)
  BY <1>5 DEF Instrs, Blocks
<1>8. ASSUME NEW J \in Instrs(f)
      PROVE  /\ DOMAIN g.ins[J] = {"op", "fn", "args", "from", "to", "cases", "md", "block"}
             /\ g.ins[J].op = f.ins[J].op /\ g.ins[J].fn = f.ins[J].fn
             /\ g.ins[J].to = f.ins[J].to /\ g.ins[J].cases = f.ins[J].cases
             /\ g.ins[J].md = f.ins[J].md /\ g.ins[J].block = f.ins[J].block
             /\ g.ins[J].from = f.ins[J].from
             /\ J # I => g.ins[J] = f.ins[J]
             /\ J = I => Len(g.ins[J].args) = 1
             /\ g.ins[J].args \in Seq(Instrs(f) \cup DOMAIN f.args \cup DOMAIN f.consts)
  <2>1. g.ins[J] = IF J = I THEN h ELSE f.ins[J]
    BY <1>5, <1>8 DEF Instrs
  <2>2. <<c>> \in Seq(Instrs(f) \cup DOMAIN f.args \cup DOMAIN f.consts)
    BY <1>2
  <2>3. CASE J = I
    <3>1. Len(<<c>>) = 1
      OBVIOUS
    <3> QED
      BY <1>4, <1>6, <2>1, <2>2, <2>3, <3>1
  <2>4. CASE J # I
    BY <2>1, <2>4 DEF WellFormed
  <2> QED
    BY <2>3, <2>4
<1>9. ASSUME NEW J \in Instrs(f) PROVE Successors(g.ins[J]) = Successors(f.ins[J])
  BY <1>8 DEF Successors
<1>10. WellFormed(g)
  <2>1. /\ DOMAIN g = {"entry", "order", "code", "ins", "args", "consts"}
        /\ Instrs(g) \cap (DOMAIN g.args \cup DOMAIN g.consts) = {}
        /\ IsFiniteSet(Instrs(g)) /\ IsFiniteSet(DOMAIN g.args)
        /\ g.entry \in Blocks(g)
        /\ g.order \in Seq(Blocks(g))
        /\ ToSet(g.order) = Blocks(g) /\ Len(g.order) = Cardinality(Blocks(g))
        /\ 0 \in Range(g.consts) /\ Range(g.consts) \subseteq AllValues
        /\ \A a \in DOMAIN g.args : g.args[a] \subseteq AllValues
    BY <1>5, <1>7 DEF WellFormed
  <2>2. /\ \A b \in Blocks(g) : g.code[b] \in Seq(Instrs(g)) \ {<<>>}
        /\ UNION {ToSet(g.code[b]) : b \in Blocks(g)} = Instrs(g)
    <3>1. /\ \A b \in Blocks(f) : f.code[b] \in Seq(Instrs(f)) \ {<<>>}
          /\ UNION {ToSet(f.code[b]) : b \in Blocks(f)} = Instrs(f)
      BY DEF WellFormed
    <3>2. {ToSet(g.code[b]) : b \in Blocks(g)} = {ToSet(f.code[b]) : b \in Blocks(f)}
      BY <1>5, <1>7
    <3> QED
      BY <1>5, <1>7, <3>1, <3>2
  <2>3. ASSUME NEW J \in Instrs(g)
        PROVE  /\ DOMAIN g.ins[J] = {"op", "fn", "args", "from", "to", "cases", "md", "block"}
               /\ g.ins[J].op \in Ops
               /\ g.ins[J].block \in Blocks(g)
               /\ g.ins[J].cases \in Seq(Range(g.consts))
               /\ g.ins[J].to \in Seq(Blocks(g))
               /\ Len(g.ins[J].to) = Successors(g.ins[J])
               /\ g.ins[J].args \in Seq(Instrs(g) \cup DOMAIN g.args \cup DOMAIN g.consts)
               /\ g.ins[J].from \in Seq(Blocks(g))
               /\ g.ins[J].md \in Ranges \cup {{}}
               /\ g.ins[J].op = "tau" => g.ins[J].fn = "" /\ g.ins[J].md = {}
               /\ Arity(g.ins[J])
    <3>1. J \in Instrs(f)
      BY <1>7, <2>3
    <3>2. /\ f.ins[J].op \in Ops /\ f.ins[J].block \in Blocks(f)
          /\ f.ins[J].cases \in Seq(Range(f.consts))
          /\ f.ins[J].to \in Seq(Blocks(f))
          /\ Len(f.ins[J].to) = Successors(f.ins[J])
          /\ f.ins[J].from \in Seq(Blocks(f))
          /\ f.ins[J].md \in Ranges \cup {{}}
          /\ f.ins[J].op = "tau" => f.ins[J].fn = "" /\ f.ins[J].md = {}
          /\ Arity(f.ins[J])
      BY <3>1 DEF WellFormed
    <3>3. Arity(g.ins[J])
      <4>1. CASE J # I
        BY <1>8, <3>1, <3>2, <4>1
      <4>2. CASE J = I
        BY <1>8, <3>1, <4>2 DEF Arity, ins
      <4> QED
        BY <4>1, <4>2
    <3> QED
      BY <1>5, <1>7, <1>8, <1>9, <3>1, <3>2, <3>3
  <2> QED
    BY <2>1, <2>2, <2>3 DEF WellFormed
<1> QED
  BY <1>5, <1>7, <1>8, <1>10 DEF g

\* A finite set of numbers in its order is a sequence of its elements: the numbers of
\* smaller elements differ, and so each number below the cardinality is one of them.
LEMMA AscendingSeq ==
    ASSUME NEW ns \in SUBSET Nat, IsFiniteSet(ns)
    PROVE  Ascending(ns) \in Seq(ns)
<1> DEFINE N == Cardinality(ns)
           below(n) == {m \in ns : m < n}
           rank == [n \in ns |-> Cardinality(below(n))]
<1>1. N \in Nat
  BY FS_CardinalityType
<1>2. ASSUME NEW n \in ns
      PROVE  IsFiniteSet(below(n)) /\ Cardinality(below(n)) \in 0..(N - 1)
  <2>1. below(n) \in SUBSET ns /\ below(n) # ns
    OBVIOUS
  <2>2. /\ IsFiniteSet(below(n)) /\ Cardinality(below(n)) <= N
        /\ Cardinality(below(n)) # N
    BY <2>1, FS_Subset
  <2>3. Cardinality(below(n)) \in Nat
    BY <2>2, FS_CardinalityType
  <2> QED
    BY <1>1, <2>2, <2>3
<1>3. ASSUME NEW m \in ns, NEW n \in ns, m < n
      PROVE  Cardinality(below(m)) # Cardinality(below(n))
  <2>1. below(m) \in SUBSET below(n)
    <3>1. ASSUME NEW x \in ns, x < m PROVE x < n
      <4>1. x \in Nat /\ m \in Nat /\ n \in Nat
        OBVIOUS
      <4> QED
        BY <1>3, <3>1, <4>1
    <3> QED
      BY <3>1
  <2>2. m \in below(n) /\ m \notin below(m)
    BY <1>3
  <2> QED
    BY <1>2, <2>1, <2>2, FS_Subset
<1>4. rank \in Injection(ns, 0..(N - 1))
  <2>1. rank \in [ns -> 0..(N - 1)]
    BY <1>2
  <2>2. ASSUME NEW m \in ns, NEW n \in ns, rank[m] = rank[n] PROVE m = n
    <3>1. m < n \/ n < m \/ m = n
      OBVIOUS
    <3> QED
      BY <1>3, <2>2, <3>1
  <2> HIDE DEF rank
  <2> QED
    BY <2>1, <2>2 DEF Injection, IsInjective
<1>5. IsFiniteSet(0..(N - 1)) /\ Cardinality(0..(N - 1)) = N
  <2>1. /\ IsFiniteSet(0..(N - 1))
        /\ Cardinality(0..(N - 1)) = IF 0 > N - 1 THEN 0 ELSE (N - 1) - 0 + 1
    <3>1. 0 \in Int /\ N - 1 \in Int
      BY <1>1
    <3> HIDE DEF N
    <3> QED
      BY <3>1, FS_Interval
  <2> QED
    BY <1>1, <2>1
<1>6. rank \in Surjection(ns, 0..(N - 1))
  <2> HIDE DEF rank
  <2> QED
    BY <1>4, <1>5, FS_Injection
<1>7. ASSUME NEW k \in 1..N PROVE \E n \in ns : Cardinality(below(n)) = k - 1
  <2>1. PICK n \in ns : rank[n] = k - 1
    <3>1. k - 1 \in 0..(N - 1)
      BY <1>1
    <3> HIDE DEF rank
    <3> QED
      BY <1>6, <3>1 DEF Surjection
  <2> QED
    BY <2>1
<1>8. Ascending(ns) \in [1..N -> ns]
  BY <1>7 DEF Ascending
<1> QED
  BY <1>1, <1>8

\* The successors that a terminator can go to are some of its successors.
LEMMA FeasibleAreSuccessors ==
    ASSUME WellFormed(f), NEW I \in Instrs(f), IsTerminator(I)
    PROVE  getFeasibleSuccessors(I) \subseteq DOMAIN ins(I).to
<1>1. /\ ins(I).to \in Seq(Blocks(f)) /\ Len(ins(I).to) = Successors(ins(I))
      /\ ins(I).cases \in Seq(Range(f.consts))
      /\ ins(I).op \in Terminators
  BY DEF WellFormed, ins, IsTerminator
<1>2. DOMAIN ins(I).to = 1..Len(ins(I).to) /\ Len(ins(I).to) \in Nat
  BY <1>1
<1>3. \A n : CasesOf(I, n) \subseteq DOMAIN ins(I).to
  BY <1>2 DEF CasesOf
<1>4. CASE ins(I).op = "br"
  BY <1>1, <1>2, <1>4 DEF getFeasibleSuccessors, Successors
<1>5. CASE ins(I).op = "ret"
  BY <1>5 DEF getFeasibleSuccessors
<1>6. CASE ins(I).op = "condbr"
  <2>1. getFeasibleSuccessors(I) \subseteq {1, 2}
    BY <1>6 DEF getFeasibleSuccessors
  <2>2. Len(ins(I).to) = 2
    BY <1>1, <1>6 DEF Successors
  <2> QED
    BY <1>2, <2>1, <2>2
<1>7. CASE ins(I).op = "switch"
  <2>1. 1 \in DOMAIN ins(I).to
    <3>1. Len(ins(I).to) = Len(ins(I).cases) + 1
      BY <1>1, <1>7 DEF Successors
    <3> QED
      BY <1>1, <1>2, <3>1
  <2>2. \A r : RangeSuccessors(I, r) \subseteq DOMAIN ins(I).to
    BY <1>3, <2>1 DEF RangeSuccessors
  <2>3. CASE ins(I).cases = <<>>
    BY <1>7, <2>1, <2>3 DEF getFeasibleSuccessors
  <2>4. CASE ins(I).cases # <<>>
    <3> DEFINE cond == Arg(I, 1)
               hit == CasesOf(I, getConstant(cond))
    <3>1. getFeasibleSuccessors(I) \in
              {{1}, hit, RangeSuccessors(I, cond.Range), {}, DOMAIN ins(I).to}
      BY <1>7, <2>4 DEF getFeasibleSuccessors
    <3> QED
      BY <1>3, <2>1, <2>2, <3>1
  <2> QED
    BY <2>3, <2>4
<1> QED
  BY <1>1, <1>4, <1>5, <1>6, <1>7 DEF Terminators

Taus(g) == {I \in Instrs(g) : g.ins[I].op = "tau"}

\* The calls that can wait on the agenda of a function, some blocks of which are
\* executable: only a tau is visited as one, and an edge is only marked from one of these.
Pending(g, live) ==
    {<<"visit", I>> : I \in Instrs(g)} \cup {<<"tau", I>> : I \in Taus(g)}
    \cup {<<"edge", a, b>> : a \in live, b \in Blocks(g)}

\* Besides the property: the calls to come keep it.
ExecInv ==
    /\ WellFormed(f)
    /\ BBExecutable \subseteq Blocks(f)
    /\ BBWorkList \in Seq(Blocks(f))
    /\ agenda \in Seq(Pending(f, BBExecutable))
    /\ phase = "undefs" => cursor \in Nat \ {0}
    /\ ExecutableByEdges

\* Nothing is pending less when more blocks are executable.
LEMMA PendingGrows ==
    ASSUME NEW g, NEW live, NEW more, live \subseteq more
    PROVE  Seq(Pending(g, live)) \subseteq Seq(Pending(g, more))
<1>1. Pending(g, live) \subseteq Pending(g, more)
  BY DEF Pending
<1> QED
  BY <1>1, SeqMonotonic

\* The uses of a value are visited one after the other, in any order.
LEMMA UsersPending ==
    ASSUME WellFormed(f), NEW v, NEW live, NEW users \in SetToSeqs(Uses(v))
    PROVE  [k \in DOMAIN users |-> <<"visit", users[k][1]>>] \in Seq(Pending(f, live))
<1> DEFINE at(I) == {k \in DOMAIN ins(I).args : ins(I).args[k] = v}
           U == [I \in Instrs(f) |-> {I} \X at(I)]
           N == Cardinality(Uses(v))
<1>1. ASSUME NEW I \in Instrs(f) PROVE IsFiniteSet({I} \X at(I))
  <2>1. ins(I).args \in Seq(Instrs(f) \cup DOMAIN f.args \cup DOMAIN f.consts)
    BY DEF WellFormed, ins
  <2>2. DOMAIN ins(I).args = 1..Len(ins(I).args) /\ Len(ins(I).args) \in Nat
    BY <2>1
  <2>3. IsFiniteSet(1..Len(ins(I).args))
    BY <2>2, FS_Interval
  <2>4. IsFiniteSet(at(I))
    <3>1. at(I) \in SUBSET (1..Len(ins(I).args))
      BY <2>2
    <3> HIDE DEF at
    <3> QED
      BY <2>3, <3>1, FS_Subset
  <2>5. IsFiniteSet({I})
    BY FS_Singleton
  <2> HIDE DEF at
  <2> QED
    BY <2>4, <2>5, FS_Product
<1>2. IsFiniteSet({U[I] : I \in Instrs(f)})
  <2>1. IsFiniteSet(Instrs(f))
    BY DEF WellFormed
  <2>2. U \in Surjection(Instrs(f), {U[I] : I \in Instrs(f)})
    <3>1. U = [I \in Instrs(f) |-> U[I]]
      OBVIOUS
    <3> HIDE DEF U
    <3>2. U \in [Instrs(f) -> {U[I] : I \in Instrs(f)}]
      BY <3>1
    <3> QED
      BY <3>2 DEF Surjection
  <2> HIDE DEF U
  <2> QED
    BY <2>1, <2>2, FS_Surjection
<1>3. Uses(v) = UNION {U[I] : I \in Instrs(f)}
  BY DEF Uses
<1>4. N \in Nat
  <2>1. \A T \in {U[I] : I \in Instrs(f)} : IsFiniteSet(T)
    BY <1>1
  <2>2. IsFiniteSet(Uses(v))
    <3> HIDE DEF U
    <3> QED
      BY <1>2, <1>3, <2>1, FS_UNION
  <2> QED
    BY <2>2, FS_CardinalityType
<1>5. users \in [1..N -> Uses(v)]
  BY DEF SetToSeqs
<1>6. ASSUME NEW u \in Uses(v) PROVE <<"visit", u[1]>> \in Pending(f, live)
  <2>1. PICK I \in Instrs(f) : u \in {I} \X at(I)
    BY <1>3
  <2> QED
    BY <2>1 DEF Pending
<1>7. [k \in DOMAIN users |-> <<"visit", users[k][1]>>] \in [1..N -> Pending(f, live)]
  <2> HIDE DEF N, at, U
  <2> QED
    BY <1>5, <1>6
<1> HIDE DEF N
<1> QED
  BY <1>4, <1>7

\* At first the entry is executable, and on the work list.
LEMMA ExecInvInit == PassInit => ExecInv
<1> SUFFICES ASSUME PassInit PROVE ExecInv
  OBVIOUS
<1>1. /\ f \in Functions /\ BBExecutable = {f.entry} /\ KnownFeasibleEdges = {}
      /\ BBWorkList = <<f.entry>> /\ agenda = <<>> /\ phase = "overdefined"
  BY DEF PassInit, Init
<1>2. WellFormed(f) /\ f.entry \in Blocks(f)
  BY <1>1, FunctionsAssumption DEF FunctionsAssumption, WellFormed
<1>3. ExecutableByEdges
  BY <1>1 DEF ExecutableByEdges, ToSet, IsInjective
<1> QED
  BY <1>1, <1>2, <1>3 DEF ExecInv

\* Steps that mark no edge and take no block keep it if the calls they leave are pending.
LEMMA ExecKept ==
    ASSUME ExecInv, f' = f, BBExecutable' = BBExecutable,
           KnownFeasibleEdges' = KnownFeasibleEdges, BBWorkList' = BBWorkList,
           agenda' \in Seq(Pending(f, BBExecutable)),
           phase' = "undefs" => cursor' \in Nat \ {0}
    PROVE  ExecInv'
BY DEF ExecInv, ExecutableByEdges, isEdgeFeasible

\* The calls that follow the next one are pending.
LEMMA TailPending ==
    ASSUME ExecInv, agenda # <<>>
    PROVE  /\ Head(agenda) \in Pending(f, BBExecutable)
           /\ Tail(agenda) \in Seq(Pending(f, BBExecutable))
BY HeadTailProperties DEF ExecInv

\* The phis and the taus of a block are pending when it is looked at again.
LEMMA RevisitsPending ==
    ASSUME WellFormed(f), NEW b \in Blocks(f), NEW live
    PROVE  Revisits(b) \in Seq(Pending(f, live))
<1> DEFINE ks(op) == {k \in DOMAIN f.code[b] : ins(f.code[b][k]).op = op}
           at(op) == Ascending(ks(op))
           calls(c, op) == [j \in DOMAIN at(op) |-> <<c, f.code[b][at(op)[j]]>>]
<1>1. f.code[b] \in Seq(Instrs(f))
  BY DEF WellFormed
<1>2. DOMAIN f.code[b] = 1..Len(f.code[b]) /\ Len(f.code[b]) \in Nat
  BY <1>1
<1>3. ASSUME NEW op PROVE at(op) \in Seq(ks(op))
  <2>1. ks(op) \in SUBSET (1..Len(f.code[b]))
    BY <1>2
  <2>2. IsFiniteSet(1..Len(f.code[b]))
    BY <1>2, FS_Interval
  <2> HIDE DEF ks
  <2>3. IsFiniteSet(ks(op))
    BY <2>1, <2>2, FS_Subset
  <2>4. ks(op) \in SUBSET Nat
    BY <1>2, <2>1
  <2> QED
    BY <2>3, <2>4, AscendingSeq
<1>4. ASSUME NEW op, NEW c \in {"visit", "tau"}, c = "tau" => op = "tau"
      PROVE  calls(c, op) \in Seq(Pending(f, live))
  <2>1. PICK s : s = at(op)
    OBVIOUS
  <2>2. s \in Seq(ks(op))
    BY <1>3, <2>1
  <2>3. ASSUME NEW j \in DOMAIN s
        PROVE  <<c, f.code[b][s[j]]>> \in Pending(f, live)
    <3>1. s[j] \in DOMAIN f.code[b] /\ ins(f.code[b][s[j]]).op = op
      BY <2>2
    <3>2. f.code[b][s[j]] \in Instrs(f)
      BY <1>1, <1>2, <3>1
    <3> QED
      BY <1>4, <3>1, <3>2 DEF Pending, Taus, ins
  <2>4. DOMAIN s = 1..Len(s) /\ Len(s) \in Nat
    BY <2>2
  <2>5. [j \in DOMAIN s |-> <<c, f.code[b][s[j]]>>] \in Seq(Pending(f, live))
    BY <2>3, <2>4
  <2> QED
    BY <2>1, <2>5
<1>5. Revisits(b) = calls("visit", "phi") \o calls("tau", "tau")
  BY DEF Revisits
<1> HIDE DEF calls
<1> QED
  BY <1>4, <1>5, ConcatProperties

\* Marking an edge makes its end executable; a block that was not gets on the list.
LEMMA ExecMarkEdge == ExecInv /\ MarkEdgeExecutable => ExecInv'
<1> SUFFICES ASSUME ExecInv, MarkEdgeExecutable PROVE ExecInv'
  OBVIOUS
<1>1. /\ WellFormed(f) /\ ExecutableByEdges
      /\ BBExecutable \subseteq Blocks(f) /\ BBWorkList \in Seq(Blocks(f))
  BY DEF ExecInv
<1>2. PICK a \in BBExecutable, b \in Blocks(f) : Head(agenda) = <<"edge", a, b>>
  <2>1. agenda # <<>> /\ Head(agenda)[1] = "edge"
    BY DEF MarkEdgeExecutable, Calling
  <2> QED
    BY <2>1, TailPending DEF Pending
<1>3. /\ f' = f /\ phase' = phase /\ cursor' = cursor /\ agenda # <<>>
      /\ KnownFeasibleEdges' = KnownFeasibleEdges \cup {<<a, b>>}
      /\ BBExecutable' = BBExecutable \cup {b}
      /\ \/ <<a, b>> \in KnownFeasibleEdges /\ BBWorkList' = BBWorkList
         \/ BBWorkList' = BBWorkList \o NewBlock(b)
      /\ \/ agenda' = <<>> \o Tail(agenda)
         \/ agenda' = Revisits(b) \o Tail(agenda)
  <2>1. Callee = a /\ Head(agenda)[3] = b
    BY <1>2 DEF Callee
  <2>2. /\ f' = f /\ phase' = phase /\ cursor' = cursor /\ agenda # <<>>
        /\ KnownFeasibleEdges' = KnownFeasibleEdges \cup {<<Callee, b>>}
        /\ BBExecutable' = BBExecutable \cup {b}
    BY <2>1 DEF MarkEdgeExecutable, Calling
  <2>3. BBWorkList' = IF isEdgeFeasible(Callee, b) THEN BBWorkList
                      ELSE BBWorkList \o NewBlock(b)
    BY <2>1 DEF MarkEdgeExecutable
  <2>4. agenda' = (IF ~isEdgeFeasible(Callee, b) /\ b \in BBExecutable THEN Revisits(b)
                   ELSE <<>>) \o Tail(agenda)
    BY <2>1 DEF MarkEdgeExecutable
  <2> QED
    BY <2>1, <2>2, <2>3, <2>4 DEF isEdgeFeasible
<1>4. agenda' \in Seq(Pending(f, BBExecutable'))
  <2>1. Tail(agenda) \in Seq(Pending(f, BBExecutable'))
    BY <1>3, TailPending, PendingGrows
  <2>2. <<>> \in Seq(Pending(f, BBExecutable'))
    OBVIOUS
  <2>3. Revisits(b) \in Seq(Pending(f, BBExecutable'))
    BY <1>1, RevisitsPending
  <2> QED
    BY <1>3, <2>1, <2>2, <2>3, ConcatProperties
\* The list keeps its blocks apart: one that is appended was not executable.
<1>5. /\ BBWorkList' \in Seq(Blocks(f)) /\ ToSet(BBWorkList') \subseteq BBExecutable'
      /\ IsInjective(BBWorkList')
  <2>1. ToSet(BBWorkList) \subseteq BBExecutable /\ IsInjective(BBWorkList)
    BY <1>1 DEF ExecutableByEdges
  <2>2. BBWorkList' = BBWorkList \/ (b \notin BBExecutable /\ BBWorkList' = BBWorkList \o <<b>>)
    BY <1>1, <1>3, ConcatEmptySeq DEF NewBlock
  <2>3. CASE BBWorkList' = BBWorkList
    BY <1>1, <1>3, <2>1, <2>3
  <2>4. CASE b \notin BBExecutable /\ BBWorkList' = BBWorkList \o <<b>>
    <3> DEFINE n == Len(BBWorkList)
    <3>1. /\ BBWorkList' \in Seq(Blocks(f)) /\ Len(BBWorkList') = n + 1 /\ n \in Nat
          /\ \A i \in 1..n : BBWorkList'[i] = BBWorkList[i]
          /\ BBWorkList'[n + 1] = b
      BY <1>1, <2>4
    <3>2. DOMAIN BBWorkList' = 1..(n + 1) /\ DOMAIN BBWorkList = 1..n
      BY <1>1, <3>1
    <3>3. \A i \in 1..n : BBWorkList[i] \in BBExecutable
      BY <2>1, <3>2 DEF ToSet
    <3>4. \A i \in 1..(n + 1) : i \in 1..n \/ i = n + 1
      BY <3>1
    <3> HIDE DEF n
    <3>5. ToSet(BBWorkList') \subseteq BBExecutable'
      BY <1>3, <3>1, <3>2, <3>3, <3>4 DEF ToSet
    <3>6. ASSUME NEW i \in 1..(n + 1), NEW j \in 1..(n + 1), BBWorkList'[i] = BBWorkList'[j]
          PROVE  i = j
      <4>1. CASE i \in 1..n /\ j \in 1..n
        BY <2>1, <3>1, <3>2, <3>6, <4>1 DEF IsInjective
      <4>2. CASE i = n + 1 /\ j = n + 1
        BY <4>2
      <4>3. CASE (i \in 1..n /\ j = n + 1) \/ (i = n + 1 /\ j \in 1..n)
        BY <2>4, <3>1, <3>3, <3>6, <4>3
      <4> QED
        BY <3>4, <4>1, <4>2, <4>3
    <3>7. IsInjective(BBWorkList')
      BY <3>2, <3>6 DEF IsInjective
    <3> QED
      BY <3>1, <3>5, <3>7
  <2> QED
    BY <2>2, <2>3, <2>4
<1>6. ExecutableByEdges'
  <2>1. f'.entry \in BBExecutable'
    BY <1>1, <1>3 DEF ExecutableByEdges
  <2>2. \A e \in KnownFeasibleEdges' : e[1] \in BBExecutable' /\ e[2] \in BBExecutable'
    BY <1>1, <1>2, <1>3 DEF ExecutableByEdges
  <2>3. ASSUME NEW d \in BBExecutable' \ {f.entry}
        PROVE  \E c \in BBExecutable' : <<c, d>> \in KnownFeasibleEdges'
    <3>1. CASE d = b
      BY <1>2, <1>3, <3>1
    <3>2. CASE d \in BBExecutable
      BY <1>1, <1>3, <2>3, <3>2 DEF ExecutableByEdges, isEdgeFeasible
    <3> QED
      BY <1>3, <2>3, <3>1, <3>2
  <2> QED
    BY <1>3, <1>5, <2>1, <2>2, <2>3 DEF ExecutableByEdges, isEdgeFeasible
<1> QED
  BY <1>1, <1>3, <1>4, <1>5, <1>6 DEF ExecInv

\* A terminator marks edges from its own block, which is executable.
LEMMA ExecVisitTerminator == ExecInv /\ VisitTerminator => ExecInv'
<1> SUFFICES ASSUME ExecInv, VisitTerminator PROVE ExecInv'
  OBVIOUS
<1> DEFINE ks == getFeasibleSuccessors(Callee)
           B == ins(Callee).block
           edges == [k \in DOMAIN Ascending(ks) |->
                        <<"edge", B, ins(Callee).to[Ascending(ks)[k]]>>]
<1>1. /\ agenda # <<>> /\ Head(agenda)[1] = "visit" /\ B \in BBExecutable
      /\ IsTerminator(Callee)
      /\ agenda' = edges \o Tail(agenda)
      /\ UNCHANGED <<f, BBExecutable, KnownFeasibleEdges, BBWorkList, phase, cursor>>
  BY DEF VisitTerminator, Calling, lists
<1>2. Callee \in Instrs(f)
  <2>1. Head(agenda) \in Pending(f, BBExecutable)
    BY <1>1, TailPending
  <2>2. PICK h : h = Head(agenda)
    OBVIOUS
  <2>3. CASE \E c \in {"visit", "tau"}, I \in Instrs(f) : h = <<c, I>>
    BY <2>2, <2>3 DEF Callee
  <2>4. CASE \E a \in BBExecutable, d \in Blocks(f) : h = <<"edge", a, d>>
    <3>1. h[1] = "edge"
      BY <2>4
    <3> QED
      BY <1>1, <2>2, <3>1
  <2> QED
    BY <2>1, <2>2, <2>3, <2>4 DEF Pending, Taus
<1>3. WellFormed(f) /\ ins(Callee).to \in Seq(Blocks(f))
  BY <1>2 DEF ExecInv, WellFormed, ins
<1>4. ks \subseteq DOMAIN ins(Callee).to
  BY <1>1, <1>2, <1>3, FeasibleAreSuccessors
<1> HIDE DEF ks
<1>5. Ascending(ks) \in Seq(ks)
  <2>1. DOMAIN ins(Callee).to = 1..Len(ins(Callee).to) /\ Len(ins(Callee).to) \in Nat
    BY <1>3
  <2>2. IsFiniteSet(1..Len(ins(Callee).to))
    BY <2>1, FS_Interval
  <2>3. ks \in SUBSET (1..Len(ins(Callee).to))
    BY <1>4, <2>1
  <2>4. IsFiniteSet(ks)
    BY <2>2, <2>3, FS_Subset
  <2>5. ks \in SUBSET Nat
    BY <2>1, <2>3
  <2> QED
    BY <2>4, <2>5, AscendingSeq
<1>6. edges \in Seq(Pending(f, BBExecutable))
  <2>1. PICK s : s = Ascending(ks)
    OBVIOUS
  <2>2. s \in Seq(ks) /\ DOMAIN s = 1..Len(s) /\ Len(s) \in Nat
    BY <1>5, <2>1
  <2>3. ASSUME NEW k \in DOMAIN s
        PROVE  <<"edge", B, ins(Callee).to[s[k]]>> \in Pending(f, BBExecutable)
    <3>1. s[k] \in DOMAIN ins(Callee).to
      BY <1>4, <2>2
    <3>2. ins(Callee).to[s[k]] \in Blocks(f)
      BY <1>3, <3>1
    <3> QED
      BY <1>1, <3>2 DEF Pending
  <2> HIDE DEF B
  <2>4. [k \in DOMAIN s |-> <<"edge", B, ins(Callee).to[s[k]]>>] \in Seq(Pending(f, BBExecutable))
    BY <2>2, <2>3
  <2> QED
    BY <2>1, <2>4
<1> HIDE DEF edges
<1>7. agenda' \in Seq(Pending(f, BBExecutable))
  BY <1>1, <1>6, TailPending, ConcatProperties
<1> QED
  BY <1>1, <1>7, ExecKept DEF ExecInv

\* The block that is taken from the list has its instructions visited.
LEMMA ExecPopBlock == ExecInv /\ PopBlock => ExecInv'
<1> SUFFICES ASSUME ExecInv, PopBlock PROVE ExecInv'
  OBVIOUS
<1> DEFINE n == Len(BBWorkList)
           b == Last(BBWorkList)
           call(I) == <<IF ins(I).op = "tau" THEN "tau" ELSE "visit", I>>
<1>1. /\ BBWorkList # <<>> /\ BBWorkList' = Front(BBWorkList)
      /\ phase' = "blocks" /\ phase = "blocks"
      /\ agenda' = [k \in DOMAIN f.code[b] |-> call(f.code[b][k])]
      /\ UNCHANGED <<f, BBExecutable, KnownFeasibleEdges>>
  BY DEF PopBlock, Idle
<1>2. /\ WellFormed(f) /\ ExecutableByEdges
      /\ BBExecutable \subseteq Blocks(f) /\ BBWorkList \in Seq(Blocks(f))
  BY DEF ExecInv
<1>3. n \in Nat \ {0} /\ b = BBWorkList[n] /\ b \in Blocks(f)
  BY <1>1, <1>2 DEF Last
<1>4. /\ BBWorkList' = [i \in 1..(n - 1) |-> BBWorkList[i]]
      /\ BBWorkList' \in Seq(Blocks(f)) /\ DOMAIN BBWorkList' = 1..(n - 1)
  <2>1. BBWorkList' = SubSeq(BBWorkList, 1, n - 1)
    BY <1>1 DEF Front
  <2> QED
    BY <1>2, <1>3, <2>1
<1>5. ToSet(BBWorkList') \subseteq BBExecutable' /\ IsInjective(BBWorkList')
  <2>1. DOMAIN BBWorkList = 1..n
    BY <1>2
  <2>2. ToSet(BBWorkList) \subseteq BBExecutable /\ IsInjective(BBWorkList)
    BY <1>2 DEF ExecutableByEdges
  <2> HIDE DEF n, b
  <2>3. 1..(n - 1) \subseteq 1..n
    BY <1>3
  <2>4. \A i \in 1..(n - 1) : BBWorkList'[i] = BBWorkList[i]
    BY <1>4
  <2>5. ToSet(BBWorkList') \subseteq BBExecutable'
    BY <1>1, <1>4, <2>1, <2>2, <2>3, <2>4 DEF ToSet
  <2>6. IsInjective(BBWorkList')
    BY <1>4, <2>1, <2>2, <2>3, <2>4 DEF IsInjective
  <2> QED
    BY <2>5, <2>6
<1>6. ExecutableByEdges'
  BY <1>1, <1>2, <1>5 DEF ExecutableByEdges, isEdgeFeasible
<1>7. agenda' \in Seq(Pending(f, BBExecutable))
  <2>1. PICK code : code = f.code[b]
    OBVIOUS
  <2>2. code \in Seq(Instrs(f)) /\ DOMAIN code = 1..Len(code) /\ Len(code) \in Nat
    <3>1. code \in Seq(Instrs(f))
      <4> HIDE DEF b
      <4> QED
        BY <1>2, <1>3, <2>1 DEF WellFormed
    <3> QED
      BY <3>1
  <2>3. \A I \in Instrs(f) : call(I) \in Pending(f, BBExecutable)
    BY DEF Pending, Taus, ins
  <2> HIDE DEF call
  <2> QED
    BY <1>1, <2>1, <2>2, <2>3
<1> QED
  BY <1>1, <1>2, <1>4, <1>6, <1>7 DEF ExecInv

\* resolvedUndefsIn marks an edge of a block that is executable.
LEMMA ExecResolveBlock == ExecInv /\ ResolveBlock => ExecInv'
<1> SUFFICES ASSUME ExecInv, ResolveBlock PROVE ExecInv'
  OBVIOUS
<1> DEFINE b == f.order[cursor]
           I == Last(f.code[b])
           forced == b \in BBExecutable /\ Forced(b, I)
           undef == forced /\ ins(I).args[1] \in DOMAIN f.consts
<1>1. /\ phase = "undefs" /\ cursor <= Len(f.order)
      /\ f' = IF undef THEN Fixed(I) ELSE f
      /\ agenda' = IF forced THEN <<<<"edge", b, ins(I).to[2]>>>> ELSE <<>>
      /\ cursor' = cursor + 1
      /\ UNCHANGED <<BBExecutable, KnownFeasibleEdges, BBWorkList, phase>>
  <2>1. phase = "undefs" /\ cursor <= Len(f.order) /\ cursor' = cursor + 1
    BY DEF ResolveBlock, Idle
  <2>2. f' = IF undef THEN Fixed(I) ELSE f
    BY DEF ResolveBlock
  <2>3. agenda' = IF forced THEN <<<<"edge", b, ins(I).to[2]>>>> ELSE <<>>
    BY DEF ResolveBlock
  <2>4. UNCHANGED <<BBExecutable, KnownFeasibleEdges, BBWorkList, phase>>
    BY DEF ResolveBlock
  <2> QED
    BY <2>1, <2>2, <2>3, <2>4
<1>2. /\ WellFormed(f) /\ ExecutableByEdges /\ cursor \in Nat \ {0}
      /\ BBExecutable \subseteq Blocks(f) /\ BBWorkList \in Seq(Blocks(f))
  BY <1>1 DEF ExecInv
<1>3. b \in Blocks(f)
  <2>1. f.order \in Seq(Blocks(f))
    BY <1>2 DEF WellFormed
  <2> QED
    BY <1>1, <1>2, <2>1
<1>4. I \in Instrs(f)
  <2>1. f.code[b] \in Seq(Instrs(f)) \ {<<>>}
    <3> HIDE DEF b
    <3> QED
      BY <1>2, <1>3 DEF WellFormed
  <2>2. PICK code : code = f.code[b]
    OBVIOUS
  <2>3. I = code[Len(code)]
    BY <2>2 DEF Last
  <2> QED
    BY <2>1, <2>2, <2>3
<1> HIDE DEF b, I
<1>5. ASSUME forced
      PROVE  /\ ins(I).to[2] \in Blocks(f)
             /\ \/ ins(I).op = "condbr"
                \/ ins(I).op = "switch" /\ ins(I).cases # <<>>
  <2>1. \/ ins(I).op = "condbr"
        \/ ins(I).op = "switch" /\ ins(I).cases # <<>>
    BY <1>5 DEF Forced
  <2>2. /\ ins(I).to \in Seq(Blocks(f)) /\ Len(ins(I).to) = Successors(ins(I))
        /\ ins(I).cases \in Seq(Range(f.consts))
    BY <1>2, <1>4 DEF WellFormed, ins
  <2>3. Len(ins(I).to) >= 2
    <3>1. CASE ins(I).op = "condbr"
      BY <2>2, <3>1 DEF Successors
    <3>2. CASE ins(I).op = "switch" /\ ins(I).cases # <<>>
      <4>1. Len(ins(I).cases) \in Nat \ {0}
        BY <2>2, <3>2
      <4>2. Len(ins(I).to) = Len(ins(I).cases) + 1
        BY <2>2, <3>2 DEF Successors
      <4> QED
        BY <4>1, <4>2
    <3> QED
      BY <2>1, <3>1, <3>2
  <2>4. ins(I).to[2] \in Blocks(f)
    BY <2>2, <2>3
  <2> QED
    BY <2>1, <2>4
<1>6. /\ WellFormed(f') /\ f'.entry = f.entry
      /\ Instrs(f') = Instrs(f) /\ Blocks(f') = Blocks(f) /\ Taus(f') = Taus(f)
  <2>1. CASE undef
    <3>1. /\ WellFormed(Fixed(I)) /\ Fixed(I).entry = f.entry /\ Fixed(I).code = f.code
          /\ Instrs(Fixed(I)) = Instrs(f)
          /\ \A J \in Instrs(f) : Fixed(I).ins[J].op = f.ins[J].op
      BY <1>2, <1>4, <1>5, <2>1, FixedWellFormed
    <3> QED
      BY <1>1, <2>1, <3>1 DEF Blocks, Taus
  <2>2. CASE ~undef
    BY <1>1, <1>2, <2>2
  <2> QED
    BY <2>1, <2>2
<1>7. agenda' \in Seq(Pending(f', BBExecutable'))
  <2>1. Pending(f', BBExecutable') = Pending(f, BBExecutable)
    BY <1>1, <1>6 DEF Pending
  <2>2. CASE forced
    <3>1. <<"edge", b, ins(I).to[2]>> \in Pending(f, BBExecutable)
      BY <1>5, <2>2 DEF Pending
    <3> HIDE DEF forced
    <3> QED
      BY <1>1, <2>1, <2>2, <3>1
  <2>3. CASE ~forced
    <3>1. <<>> \in Seq(Pending(f', BBExecutable'))
      OBVIOUS
    <3> HIDE DEF forced
    <3>2. agenda' = <<>>
      BY <1>1, <2>3
    <3> QED
      BY <3>1, <3>2
  <2> QED
    BY <2>2, <2>3
<1>8. ExecutableByEdges'
  BY <1>1, <1>2, <1>6 DEF ExecutableByEdges, isEdgeFeasible
<1>9. cursor' \in Nat \ {0}
  BY <1>1, <1>2
<1> QED
  BY <1>1, <1>2, <1>6, <1>7, <1>8, <1>9 DEF ExecInv

\* It holds after each step: no other marks an edge or takes a block.
LEMMA ExecInvStep == ExecInv /\ [Next]_passVars => ExecInv'
<1> SUFFICES ASSUME ExecInv, [Next]_passVars PROVE ExecInv'
  OBVIOUS
<1>1. agenda \in Seq(Pending(f, BBExecutable)) /\ WellFormed(f)
  BY DEF ExecInv
<1>2. phase = "undefs" => cursor \in Nat \ {0}
  BY DEF ExecInv
<1>3. CASE MarkEdgeExecutable
  BY <1>3, ExecMarkEdge
<1>4. CASE VisitTerminator
  BY <1>4, ExecVisitTerminator
<1>5. CASE PopBlock
  BY <1>5, ExecPopBlock
<1>6. CASE ResolveBlock
  BY <1>6, ExecResolveBlock
\* The call at the head of the agenda is made.
<1>7. CASE NotExecutable \/ Visit \/ VisitTau \/ VisitTauMoved
  <2>1. /\ agenda # <<>> /\ agenda' = Tail(agenda)
        /\ UNCHANGED <<f, BBExecutable, KnownFeasibleEdges, BBWorkList, phase, cursor>>
    BY <1>7 DEF NotExecutable, Visit, VisitTau, VisitTauMoved, Calling, lists
  <2> QED
    BY <1>2, <2>1, TailPending, ExecKept
<1>8. CASE PopOverdefined \/ PopInst
  <2>1. /\ UNCHANGED <<f, BBExecutable, KnownFeasibleEdges, BBWorkList, phase, cursor>>
        /\ agenda' = <<>> \/ \E v : markUsersAsChanged(v)
    BY <1>8 DEF PopOverdefined, PopInst
  <2>2. ASSUME NEW v, markUsersAsChanged(v) PROVE agenda' \in Seq(Pending(f, BBExecutable))
    BY <1>1, <2>2, UsersPending DEF markUsersAsChanged
  <2>3. <<>> \in Seq(Pending(f, BBExecutable))
    OBVIOUS
  <2>4. agenda' \in Seq(Pending(f, BBExecutable))
    <3>1. CASE agenda' = <<>>
      BY <2>3, <3>1
    <3>2. CASE \E v : markUsersAsChanged(v)
      BY <2>2, <3>2
    <3> QED
      BY <2>1, <3>1, <3>2
  <2> QED
    BY <1>2, <2>1, <2>4, ExecKept
<1>9. CASE Grow \/ NextList \/ Resolved
  <2>1. /\ UNCHANGED <<f, BBExecutable, KnownFeasibleEdges, BBWorkList, agenda>>
        /\ phase' = "undefs" => cursor' = 1 \/ (phase = "undefs" /\ cursor' = cursor)
    BY <1>9 DEF Grow, NextList, Resolved, lists, solverVars
  <2> QED
    BY <1>1, <1>2, <2>1, ExecKept
<1>10. CASE runSCCP \/ Start \/ Execute \/ Branch \/ End \/ Ended \/ UNCHANGED passVars
  <2>1. /\ UNCHANGED <<f, BBExecutable, KnownFeasibleEdges, BBWorkList, agenda, cursor>>
        /\ phase' = "undefs" => phase = "undefs"
    BY <1>10 DEF runSCCP, Start, Execute, Branch, End, Ended, passVars, vars, solverVars, lists
  <2> QED
    BY <1>1, <1>2, <2>1, ExecKept
<1> QED
  BY <1>3, <1>4, <1>5, <1>6, <1>7, <1>8, <1>9, <1>10 DEF Next, Solve

\* The executable blocks are always the entry and the ends of the feasible edges, which
\* begin at executable blocks, and a block is on the work list once at most: whether a
\* terminator, a forced branch or a switch marks the edge, and whatever is visited again
\* between.
THEOREM AlwaysExecutableByEdges == Spec => []ExecutableByEdges
<1>1. PassInit => ExecInv
  BY ExecInvInit
<1>2. ExecInv /\ [Next]_passVars => ExecInv'
  BY ExecInvStep
<1>3. ExecInv => ExecutableByEdges
  BY DEF ExecInv
<1> QED
  BY <1>1, <1>2, <1>3, PTL DEF Spec

----------------------------------------------------------------------------
(* What the operations of the lattice make of an element: an element.      *)

Options == [MayIncludeUndef : BOOLEAN, CheckWiden : BOOLEAN, MaxWidenSteps : Nat]

\* A change of state within the lattice, as the states are meant: unknown, undef, a constant
\* or a range that grows, overdefined.
Rises(e, r) ==
    \/ isUnknown(e)
    \/ isOverdefined(r)
    \/ isUndef(e) /\ r.Tag \in {"undef", "constant", "constantrange_including_undef"}
    \/ e.Tag \in ConstTags /\ r.Tag = e.Tag /\ r.ConstVal = e.ConstVal
    \/ /\ isConstantRange(e) /\ isConstantRange(r) /\ e.Range \subseteq r.Range
       /\ e.Tag = "constantrange_including_undef" => r.Tag = e.Tag

\* What an operation on e returns: an element, and whether it changed.
Returns(r) == DOMAIN r = {"elem", "changed"} /\ r.elem \in Elements

RisesTo(e, r) == Returns(r) /\ Rises(e, r.elem)

Updated(e, t, s, c, r, n) ==
    [e EXCEPT !.Tag = t, !.spec = s, !.ConstVal = c, !.Range = r, !.NumRangeExtensions = n]

\* An element with new data that suit its new state is an element.
LEMMA UpdatedElement ==
    ASSUME NEW e \in Elements, NEW t \in Tags, NEW s \in BOOLEAN,
           NEW c \in Consts \cup {None}, NEW r \in Ranges \cup {{}}, NEW n \in Counts,
           t \in ConstTags => c \in Consts, t \in RangeTags => r \in Ranges \ {Ints}
    PROVE  /\ Updated(e, t, s, c, r, n) \in Elements
           /\ Updated(e, t, s, c, r, n).Tag = t
           /\ Updated(e, t, s, c, r, n).spec = s
           /\ Updated(e, t, s, c, r, n).ConstVal = c
           /\ Updated(e, t, s, c, r, n).Range = r
           /\ Updated(e, t, s, c, r, n).NumRangeExtensions = n
<1> DEFINE u == Updated(e, t, s, c, r, n)
<1>1. e \in Element
  BY DEF Elements
<1>2. u \in Element
  BY <1>1 DEF Element, Updated
<1>3. u.Tag = t /\ u.spec = s /\ u.ConstVal = c /\ u.Range = r /\ u.NumRangeExtensions = n
  BY <1>1 DEF Element, Updated
<1> QED
  BY <1>2, <1>3 DEF Elements, Sound

\* The data of an element suit its state.
LEMMA ElementData ==
    ASSUME NEW e \in Elements
    PROVE  /\ e.Tag \in Tags /\ e.spec \in BOOLEAN /\ e.ConstVal \in Consts \cup {None}
           /\ e.Range \in Ranges \cup {{}} /\ e.NumRangeExtensions \in Counts
           /\ e.Tag \in ConstTags => e.ConstVal \in Consts
           /\ e.Tag \in RangeTags => e.Range \in Ranges \ {Ints}
           /\ 0 \in Counts
BY DEF Elements, Element, Sound, Counts

\* What is known can only get less.
LEMMA RisesMeans ==
    ASSUME NEW e \in Elements, NEW r \in Elements, Rises(e, r)
    PROVE  Meaning(e) \subseteq Meaning(r)
<1>1. ASSUME NEW x \in Elements
      PROVE  /\ x.Tag = "unknown" => Meaning(x) = {}
             /\ x.Tag = "undef" => Meaning(x) = {Undef}
             /\ x.Tag = "constant" => Meaning(x) = {x.ConstVal, Undef}
             /\ x.Tag = "notconstant" => Meaning(x) = (Ints \cup Consts) \ {x.ConstVal}
             /\ x.Tag = "constantrange" => Meaning(x) = x.Range
             /\ x.Tag = "constantrange_including_undef" => Meaning(x) = x.Range \cup {Undef}
             /\ x.Tag = "overdefined" => Meaning(x) = AllValues
  BY DEF Meaning, isUnknown, isUndef, isConstant, isNotConstant, isOverdefined
<1>2. Meaning(e) \subseteq AllValues
  BY <1>1, ElementData, RangesAssumption DEF AllValues, Tags, ConstTags, RangeTags
<1>3. e.Tag \in Tags /\ r.Tag \in Tags
  BY ElementData
<1> QED
  BY <1>1, <1>2, <1>3 DEF Rises, isUnknown, isOverdefined, isUndef, isConstantRange, Tags,
     ConstTags, RangeTags

\* Nothing changes, and nothing is lost.
LEMMA RisesSelf ==
    ASSUME NEW e \in Elements
    PROVE  Rises(e, e)
BY ElementData DEF Rises, isUnknown, isOverdefined, isUndef, isConstantRange, Tags,
   ConstTags, RangeTags

\* Of two changes for less the first can be left out.
LEMMA RisesOn ==
    ASSUME NEW e \in Elements, NEW r \in Elements, NEW s \in Elements,
           Rises(e, r), Rises(r, s)
    PROVE  Rises(e, s)
BY ElementData DEF Rises, isUnknown, isOverdefined, isUndef, isConstantRange, Tags,
   ConstTags, RangeTags

\* What is at first known of a value.
LEMMA UnknownElement ==
    unknown \in Elements /\ unknown.Tag = "unknown" /\ unknown.spec = FALSE
BY DEF unknown, Elements, Element, Sound, Tags, ConstTags, RangeTags, Counts

\* A copy differs in nothing but that it is no guess, and in its count.
LEMMA CopiedElement ==
    ASSUME NEW e \in Elements
    PROVE  /\ Copied(e) \in Elements
           /\ Copied(e).Tag = e.Tag /\ Copied(e).ConstVal = e.ConstVal
           /\ Copied(e).Range = e.Range /\ Copied(e).spec = FALSE
<1> DEFINE n == IF isConstantRange(e) THEN e.NumRangeExtensions ELSE 0
           u == [e EXCEPT !.spec = FALSE, !.NumRangeExtensions = n]
<1>1. Copied(e) = u
  BY DEF Copied, Elements, Element
<1>2. n \in Counts
  BY ElementData
<1> HIDE DEF n
<1>3. u \in Element
  BY <1>2 DEF Elements, Element
<1>4. u.Tag = e.Tag /\ u.ConstVal = e.ConstVal /\ u.Range = e.Range /\ u.spec = FALSE
  BY DEF Elements, Element
<1> HIDE DEF u
<1> QED
  BY <1>1, <1>3, <1>4, ElementData DEF Elements, Sound

\* The result of markOverdefined; what was a guess is one.
LEMMA OverdefinedElement ==
    ASSUME NEW e \in Elements
    PROVE  /\ RisesTo(e, markOverdefined(e))
           /\ markOverdefined(e).elem.Tag = "overdefined"
<1>1. CASE isOverdefined(e)
  BY <1>1 DEF markOverdefined, Unchanged, RisesTo, Returns, Rises, isOverdefined
<1>2. CASE ~isOverdefined(e)
  <2> DEFINE u == Updated(e, "overdefined", e.spec, None, {}, e.NumRangeExtensions)
  <2>1. markOverdefined(e) = Changed(u)
    BY <1>2 DEF markOverdefined, Updated, Elements, Element
  <2>3. u \in Element
    BY DEF Elements, Element, Updated, Tags
  <2>4. u.Tag = "overdefined"
    BY DEF Elements, Element, Updated
  <2>2. u \in Elements /\ u.Tag = "overdefined"
    BY <2>3, <2>4 DEF Elements, Sound, ConstTags, RangeTags
  <2> HIDE DEF u
  <2> QED
    BY <2>1, <2>2 DEF Changed, RisesTo, Returns, Rises, isOverdefined
<1> QED
  BY <1>1, <1>2

\* Whatever range an element is marked with, the result is an element; it rises if the range
\* is called for.
LEMMA MarkedRange ==
    ASSUME NEW e \in Elements, NEW r \in Ranges, NEW opts \in Options
    PROVE  LET m == markConstantRange(e, r, opts)
           IN /\ Returns(m)
              /\ m.elem.spec = e.spec
              /\ \/ m.elem.Tag = "overdefined"
                 \/ m.elem.Tag = RangeTag(e, opts) /\ m.elem.Range = r /\ r # Ints
              /\ \/ isUnknown(e)
                 \/ isUndef(e)
                 \/ isConstantRange(e) /\ e.Range \subseteq r
                 => Rises(e, m.elem)
<1> DEFINE m == markConstantRange(e, r, opts)
           t == RangeTag(e, opts)
           count == (e.NumRangeExtensions + 1) % 256
<1>1. /\ t \in RangeTags /\ t \in Tags
      /\ e.Tag \in {"undef", "constantrange_including_undef"}
            => t = "constantrange_including_undef"
  BY DEF RangeTag, RangeTags, Tags
<1>2. count \in Counts
  BY ElementData DEF Counts
<1> HIDE DEF t, count
<1>3. ASSUME NEW x, NEW n \in Counts, r # Ints, m = [elem |-> Updated(e, t, e.spec, e.ConstVal, r, n), changed |-> x]
      PROVE  /\ Returns(m)
             /\ m.elem.spec = e.spec
             /\ m.elem.Tag = t /\ m.elem.Range = r
             /\ \/ isUnknown(e)
                \/ isUndef(e)
                \/ isConstantRange(e) /\ e.Range \subseteq r
                => Rises(e, m.elem)
  <2> DEFINE u == Updated(e, t, e.spec, e.ConstVal, r, n)
  <2>1. u \in Elements /\ u.Tag = t /\ u.Range = r /\ u.spec = e.spec
    <3>1. /\ e.spec \in BOOLEAN /\ e.ConstVal \in Consts \cup {None}
          /\ r \in Ranges \cup {{}} /\ r \in Ranges \ {Ints}
      BY <1>3, ElementData
    <3>2. t \in Tags /\ t \notin ConstTags
      BY <1>1 DEF ConstTags, RangeTags
    <3> QED
      BY <1>3, <3>1, <3>2, UpdatedElement
  <2> HIDE DEF u
  <2>2. m.elem = u /\ DOMAIN m = {"elem", "changed"}
    BY <1>3 DEF u
  <2> HIDE DEF m
  <2> QED
    BY <1>1, <2>1, <2>2 DEF Returns, Rises, isUnknown, isUndef, isConstantRange, RangeTags
<1>4. CASE r = Ints
  <2>1. m = markOverdefined(e)
    BY <1>4 DEF markConstantRange
  <2>2. m.elem.spec = e.spec
    BY <2>1 DEF markOverdefined, Changed, Unchanged, Elements, Element
  <2> QED
    BY <2>1, <2>2, OverdefinedElement DEF RisesTo
<1>5. CASE r # Ints /\ isConstantRange(e) /\ e.Range = r
  <2>1. m = [elem |-> [e EXCEPT !.Tag = t], changed |-> t # e.Tag]
    BY <1>5 DEF markConstantRange, SameRange, t
  <2>2. [e EXCEPT !.Tag = t] = Updated(e, t, e.spec, e.ConstVal, r, e.NumRangeExtensions)
    BY <1>5 DEF Updated, Elements, Element
  <2> HIDE DEF m
  <2> QED
    BY <1>3, <1>5, <2>1, <2>2, ElementData DEF m, t
<1>6. CASE r # Ints /\ isConstantRange(e) /\ e.Range # r
  <2>1. m = Extended(e, r, opts)
    BY <1>6 DEF markConstantRange
  <2>2. CASE opts.CheckWiden /\ count > opts.MaxWidenSteps
    <3> DEFINE w == [e EXCEPT !.NumRangeExtensions = count]
    <3>1. m = markOverdefined(w)
      BY <2>1, <2>2 DEF Extended, count
    <3>6. w \in Element /\ w.spec = e.spec /\ w.Tag = e.Tag /\ w.Range = e.Range /\ w.ConstVal = e.ConstVal
      BY <1>2 DEF Elements, Element
    <3> HIDE DEF w
    <3>3. w \in Elements /\ w.spec = e.spec
      BY <3>6, ElementData DEF Elements, Sound
    <3>4. m.elem.spec = w.spec
      BY <3>1, <3>3 DEF markOverdefined, Changed, Unchanged, Elements, Element
    <3>5. Returns(m) /\ m.elem.Tag = "overdefined"
      BY <3>1, <3>3, OverdefinedElement DEF RisesTo
    <3> QED
      BY <3>3, <3>4, <3>5 DEF Rises, isOverdefined
  <2>3. CASE ~ (opts.CheckWiden /\ count > opts.MaxWidenSteps)
    <3> DEFINE n == IF opts.CheckWiden THEN count ELSE e.NumRangeExtensions
    <3>1. m = Changed([e EXCEPT !.Tag = t, !.Range = r, !.NumRangeExtensions = n])
      BY <2>1, <2>3 DEF Extended, count, t
    <3>2. n \in Counts
      BY <1>2, ElementData
    <3> HIDE DEF n
    <3>3. [e EXCEPT !.Tag = t, !.Range = r, !.NumRangeExtensions = n]
            = Updated(e, t, e.spec, e.ConstVal, r, n)
      BY DEF Updated, Elements, Element
    <3> HIDE DEF m
    <3> QED
      BY <1>3, <1>6, <3>1, <3>2, <3>3 DEF m, t, Changed
  <2> QED
    BY <2>2, <2>3
<1>7. CASE r # Ints /\ ~ isConstantRange(e)
  <2>1. m = Changed([e EXCEPT !.Tag = t, !.Range = r, !.NumRangeExtensions = 0])
    BY <1>7 DEF markConstantRange, t
  <2>2. [e EXCEPT !.Tag = t, !.Range = r, !.NumRangeExtensions = 0]
          = Updated(e, t, e.spec, e.ConstVal, r, 0)
    BY DEF Updated, Elements, Element
  <2>3. 0 \in Counts
    BY DEF Counts
  <2>4. m = [elem |-> Updated(e, t, e.spec, e.ConstVal, r, 0), changed |-> TRUE]
    BY <2>1, <2>2 DEF Changed
  <2> HIDE DEF m
  <2> QED
    BY <1>3, <1>7, <2>3, <2>4 DEF m, t
<1> QED
  BY <1>4, <1>5, <1>6, <1>7 DEF t

\* A guess that is merged in leaves the state as it is.
LEMMA MergedSpecElement ==
    ASSUME NEW e \in Elements, NEW rhs \in Elements
    PROVE  RisesTo(e, MergedSpec(e, rhs))
<1> DEFINE u == [e EXCEPT !.spec = TRUE]
<1>1. u \in Element /\ u.Tag = e.Tag /\ u.Range = e.Range /\ u.ConstVal = e.ConstVal
  BY DEF Elements, Element
<1>2. MergedSpec(e, rhs) \in {Changed(u), Unchanged(u), Unchanged(e)}
  BY DEF MergedSpec
<1> HIDE DEF u
<1>3. u \in Elements
  BY <1>1, ElementData DEF Elements, Sound
<1>4. Rises(e, u) /\ Rises(e, e)
  BY <1>1, RisesSelf DEF Rises, isUnknown, isOverdefined, isUndef, isConstantRange
<1>5. \A x \in Elements : Returns(Changed(x)) /\ Changed(x).elem = x
                          /\ Returns(Unchanged(x)) /\ Unchanged(x).elem = x
  BY DEF Changed, Unchanged, Returns
<1> QED
  BY <1>2, <1>3, <1>4, <1>5 DEF RisesTo

\* Whatever is merged in, the element stays one and rises.
LEMMA MergedElement ==
    ASSUME NEW e \in Elements, NEW rhs \in Elements, NEW opts \in Options
    PROVE  RisesTo(e, mergeIn(e, rhs, opts))
<1>1. /\ RisesTo(e, Unchanged(e)) /\ RisesTo(e, markOverdefined(e))
      /\ RisesTo(e, MergedSpec(e, rhs))
  BY RisesSelf, OverdefinedElement, MergedSpecElement DEF RisesTo, Returns, Unchanged
<1>2. e.Tag \in Tags /\ rhs.Tag \in Tags
  BY ElementData
<1>8. /\ isConstant(rhs) => ~isUndef(rhs)
      /\ isConstantRange(rhs) => ~isUndef(rhs) /\ ~isConstant(rhs)
      /\ isNotConstant(rhs) => ~isUndef(rhs) /\ ~isConstant(rhs) /\ ~isConstantRange(rhs)
      /\ rhs.Tag \in ConstTags => ~isUndef(rhs) /\ ~isConstantRange(rhs)
  BY DEF isUndef, isConstant, isNotConstant, isConstantRange, ConstTags, RangeTags
<1>3. ASSUME NEW u \in Elements, Rises(e, u), NEW x
      PROVE  RisesTo(e, [elem |-> u, changed |-> x])
  BY <1>3 DEF RisesTo, Returns
<1>4. ASSUME isUndef(e), ~isUnknown(rhs), ~isOverdefined(rhs)
      PROVE  RisesTo(e, MergedUndef(e, rhs, opts))
  <2>1. CASE isUndef(rhs)
    BY <1>1, <1>8, <2>1, Zenon DEF MergedUndef
  <2>2. CASE isConstant(rhs)
    <3> DEFINE u == [e EXCEPT !.Tag = "constant", !.ConstVal = rhs.ConstVal]
    <3>1. rhs.ConstVal \in Consts
      BY <2>2, ElementData DEF isConstant, ConstTags
    <3>2. u \in Element /\ u.Tag = "constant" /\ u.ConstVal = rhs.ConstVal
      BY <3>1 DEF Elements, Element, Tags, ConstTags
    <3>3. MergedUndef(e, rhs, opts) = Changed(u)
      BY <1>8, <2>2, Zenon DEF MergedUndef, markConstant
    <3> HIDE DEF u
    <3>4. u \in Elements
      BY <3>1, <3>2 DEF Elements, Sound, RangeTags
    <3>5. Rises(e, u)
      BY <1>4, <3>2 DEF Rises
    <3> QED
      BY <1>3, <3>3, <3>4, <3>5 DEF Changed
  <2>3. CASE isConstantRange(rhs)
    <3> DEFINE o == [opts EXCEPT !.MayIncludeUndef = TRUE]
    <3>1. MergedUndef(e, rhs, opts) = markConstantRange(e, rhs.Range, o)
      BY <1>8, <2>3, Zenon DEF MergedUndef
    <3>2. o \in Options
      BY DEF Options
    <3>3. rhs.Range \in Ranges
      BY <2>3, ElementData DEF isConstantRange
    <3> HIDE DEF o
    <3> QED
      BY <1>4, <3>1, <3>2, <3>3, MarkedRange DEF RisesTo
  <2>4. CASE isNotConstant(rhs)
    BY <1>1, <1>8, <2>4, Zenon DEF MergedUndef
  <2> QED
    BY <1>2, <1>4, <2>1, <2>2, <2>3, <2>4 DEF Tags, ConstTags, RangeTags, isUndef, isConstant,
       isConstantRange, isNotConstant, isUnknown, isOverdefined
<1>5. RisesTo(e, MergedConst(e, rhs))
  BY <1>1 DEF MergedConst
<1>6. ASSUME isConstantRange(e), ~isUnknown(rhs), ~isOverdefined(rhs)
      PROVE  RisesTo(e, MergedRange(e, rhs, opts))
  <2>1. CASE isUndef(rhs)
    <3> DEFINE u == [e EXCEPT !.Tag = "constantrange_including_undef"]
    <3>1. u \in Element /\ u.Tag = "constantrange_including_undef" /\ u.Range = e.Range
      BY DEF Elements, Element, Tags, RangeTags
    <3>2. MergedRange(e, rhs, opts)
            = [elem |-> u, changed |-> e.Tag # "constantrange_including_undef"]
      BY <1>8, <2>1, Zenon DEF MergedRange
    <3> HIDE DEF u
    <3>3. u \in Elements
      BY <1>6, <3>1, ElementData DEF Elements, Sound, isConstantRange, ConstTags, RangeTags
    <3>4. Rises(e, u)
      BY <1>6, <3>1 DEF Rises, isConstantRange, RangeTags
    <3> QED
      BY <1>3, <3>2, <3>3, <3>4
  <2>2. CASE isConstantRange(rhs)
    <3> DEFINE o == [opts EXCEPT !.MayIncludeUndef =
                                    (rhs.Tag = "constantrange_including_undef")]
               r == UnionWith(e.Range, rhs.Range)
    <3>1. MergedRange(e, rhs, opts) = markConstantRange(e, r, o)
      BY <1>8, <2>2, Zenon DEF MergedRange
    <3>2. o \in Options
      BY DEF Options
    <3>3. r \in Ranges /\ e.Range \subseteq r
      BY <1>6, <2>2, ElementData, RangesAssumption DEF isConstantRange
    <3> HIDE DEF o, r
    <3> QED
      BY <1>6, <3>1, <3>2, <3>3, MarkedRange DEF RisesTo
  <2>3. CASE rhs.Tag \in ConstTags
    BY <1>1, <1>8, <2>3, Zenon DEF MergedRange
  <2> QED
    BY <1>2, <1>6, <2>1, <2>2, <2>3 DEF Tags, ConstTags, RangeTags, isUndef,
       isConstantRange, isUnknown, isOverdefined
<1>7. isUnknown(e) => RisesTo(e, Changed(Copied(rhs)))
  BY CopiedElement DEF Changed, RisesTo, Returns, Rises
<1> QED
  BY <1>1, <1>2, <1>4, <1>5, <1>6, <1>7 DEF mergeIn, Tags, ConstTags, RangeTags, isUndef,
     isConstantRange, isUnknown, isOverdefined

\* The elements that the visitors begin with.
LEMMA KnownElements ==
    /\ overdefined \in Elements /\ isOverdefined(overdefined)
    /\ \A r \in Ranges : getRange(r) \in Elements
    /\ DefaultOptions \in Options
    /\ \A b, w \in BOOLEAN, n \in Nat : MergeOptions(b, w, n) \in Options
<1>1. DefaultOptions \in Options /\ \A b, w \in BOOLEAN, n \in Nat : MergeOptions(b, w, n) \in Options
  BY DEF DefaultOptions, MergeOptions, Options
<1>2. \A r \in Ranges : getRange(r) \in Elements
  BY <1>1, UnknownElement, MarkedRange DEF getRange, Returns
<1> QED
  BY <1>1, <1>2, UnknownElement, OverdefinedElement DEF overdefined, RisesTo, Returns,
     isOverdefined

\* The element is what markConstantValue makes of one that nothing is known of.
Fits(e, c) ==
    \/ c = Undef /\ isUndef(e)
    \/ c \in Ints /\ isConstantRange(e) /\ e.Range = {c}
    \/ c \in Consts /\ isConstant(e) /\ e.ConstVal = c

\* An element can be marked with any constant, and rises if nothing was known or the same.
LEMMA MarkedConstant ==
    ASSUME NEW e \in Elements, NEW c \in AllValues, NEW b \in BOOLEAN
    PROVE  /\ Returns(markConstantValue(e, c, b))
           /\ isUnknown(e) \/ Fits(e, c)
                 => /\ Rises(e, markConstantValue(e, c, b).elem)
                    /\ Fits(markConstantValue(e, c, b).elem, c)
<1> DEFINE m == markConstantValue(e, c, b)
<1>1. /\ c = Undef => c \notin Ints /\ c \notin Consts
      /\ c \in Ints => c \notin Consts
      /\ c = Undef \/ c \in Ints \/ c \in Consts
  BY RangesAssumption DEF AllValues
<1>2. /\ isUnknown(e) => ~isConstant(e) /\ ~isUndef(e) /\ ~isConstantRange(e)
      /\ isUndef(e) => ~isConstant(e) /\ ~isConstantRange(e)
      /\ isConstantRange(e) => ~isConstant(e)
  BY DEF isUnknown, isUndef, isConstant, isConstantRange, RangeTags
<1>3. ASSUME NEW u \in Elements, NEW x
      PROVE  Returns([elem |-> u, changed |-> x])
  BY <1>3 DEF Returns
<1>4. CASE c = Undef
  <2> DEFINE u == [e EXCEPT !.Tag = "undef"]
  <2>1. m = markUndef(e)
    BY <1>1, <1>4, Zenon DEF markConstantValue
  <2>2. u \in Element /\ u.Tag = "undef"
    BY DEF Elements, Element, Tags
  <2>3. m = IF isUndef(e) THEN Unchanged(e) ELSE Changed(u)
    BY <2>1, Zenon DEF markUndef
  <2> HIDE DEF u, m
  <2>4. u \in Elements /\ isUndef(u)
    BY <2>2 DEF Elements, Sound, ConstTags, RangeTags, isUndef
  <2>5. Rises(e, e)
    BY RisesSelf
  <2>6. Returns(m) /\ isUndef(m.elem) /\ m.elem \in {e, u}
    BY <1>3, <2>3, <2>4 DEF Changed, Unchanged
  <2>7. isUnknown(e) \/ Fits(e, c) => Rises(e, m.elem)
    BY <1>1, <1>4, <2>3, <2>5 DEF Fits, Unchanged, Changed, Rises
  <2> QED
    BY <1>4, <2>6, <2>7 DEF Fits, m
<1>5. CASE c # Undef /\ isConstant(e)
  <2>1. m = Unchanged(e)
    BY <1>1, <1>5, Zenon DEF markConstantValue
  <2> HIDE DEF m
  <2> QED
    BY <1>2, <1>3, <1>5, <2>1, RisesSelf DEF Unchanged, m
<1>6. CASE c \in Ints /\ ~isConstant(e)
  <2> DEFINE o == MergeOptions(b, FALSE, 1)
  <2>1. m = markConstantRange(e, {c}, o)
    BY <1>1, <1>6, Zenon DEF markConstantValue
  <2>2. o \in Options
    BY KnownElements
  <2>3. {c} \in Ranges /\ {c} # Ints
    BY <1>6, HullAssumption, FunctionsAssumption DEF FunctionsAssumption
  <2> HIDE DEF o, m
  <2>4. Returns(m)
    BY <2>1, <2>2, <2>3, MarkedRange
  <2>5. ASSUME isUnknown(e) \/ Fits(e, c)
        PROVE  Rises(e, m.elem)
    BY <1>1, <1>6, <2>1, <2>2, <2>3, <2>5, MarkedRange DEF Fits
  <2>6. ASSUME isUnknown(e) \/ Fits(e, c)
        PROVE  Fits(m.elem, c)
    <3>1. m.elem.Tag # "overdefined" => isConstantRange(m.elem) /\ m.elem.Range = {c}
      <4>1. RangeTag(e, o) \in RangeTags
        BY DEF RangeTag, RangeTags
      <4>2. \/ m.elem.Tag = "overdefined"
            \/ m.elem.Tag = RangeTag(e, o) /\ m.elem.Range = {c}
        BY <2>1, <2>2, <2>3, MarkedRange
      <4> QED
        BY <4>1, <4>2 DEF isConstantRange
    <3>2. m.elem.Tag # "overdefined"
      <4>1. CASE isUnknown(e)
        <5> DEFINE u == [e EXCEPT !.Tag = RangeTag(e, o), !.Range = {c},
                                  !.NumRangeExtensions = 0]
        <5>1. m = Changed(u)
          BY <1>2, <2>1, <2>3, <4>1 DEF markConstantRange
        <5>2. u.Tag = RangeTag(e, o)
          BY DEF Elements, Element
        <5> HIDE DEF u
        <5> QED
          BY <5>1, <5>2 DEF Changed, RangeTag
      <4>2. CASE isConstantRange(e) /\ e.Range = {c}
        <5> DEFINE u == [e EXCEPT !.Tag = RangeTag(e, o)]
        <5>1. m = [elem |-> u, changed |-> RangeTag(e, o) # e.Tag]
          BY <2>1, <2>3, <4>2 DEF markConstantRange, SameRange
        <5>2. u.Tag = RangeTag(e, o)
          BY DEF Elements, Element
        <5> HIDE DEF u
        <5> QED
          BY <5>1, <5>2 DEF RangeTag
      <4> QED
        BY <1>1, <1>6, <2>6, <4>1, <4>2 DEF Fits
    <3> QED
      BY <1>6, <3>1, <3>2 DEF Fits
  <2> QED
    BY <2>4, <2>5, <2>6 DEF m
<1>7. CASE c \in Consts /\ ~isConstant(e)
  <2> DEFINE u == [e EXCEPT !.Tag = "constant", !.ConstVal = c]
  <2>1. m = Changed(u)
    BY <1>1, <1>7, Zenon DEF markConstantValue, markConstant
  <2>2. u \in Element /\ u.Tag = "constant" /\ u.ConstVal = c
    BY <1>7 DEF Elements, Element, Tags, ConstTags
  <2> HIDE DEF u, m
  <2>3. u \in Elements
    BY <1>7, <2>2 DEF Elements, Sound, RangeTags
  <2>4. ~Fits(e, c)
    BY <1>1, <1>7 DEF Fits
  <2>5. isUnknown(e) => Rises(e, u)
    BY DEF Rises
  <2>6. m.elem = u /\ Returns(m)
    BY <1>3, <2>1, <2>3 DEF Changed
  <2> QED
    BY <1>7, <2>2, <2>4, <2>5, <2>6 DEF Fits, isConstant, m
<1> QED
  BY <1>1, <1>4, <1>5, <1>6, <1>7

\* What is read of an element that is a constant.
LEMMA ReadConstant ==
    ASSUME NEW e \in Elements, isConst(e)
    PROVE  /\ getConstant(e) \in Ints \cup Consts
           /\ isConstantRange(e) => getConstant(e) \in Ints /\ e.Range = {getConstant(e)}
           /\ isConstant(e) => getConstant(e) = e.ConstVal
<1>1. CASE isConstant(e)
  BY <1>1, ElementData DEF getConstant, isConstant, isConstantRange, ConstTags, RangeTags
<1>2. CASE ~isConstant(e)
  <2>1. isConstantRange(e) /\ \E n \in Ints : e.Range = {n}
    BY <1>2 DEF isConst, isSingleElement
  <2>2. getConstant(e) = CHOOSE n \in Ints : e.Range = {n}
    BY <1>2 DEF getConstant
  <2> QED
    BY <1>2, <2>1, <2>2
<1> QED
  BY <1>1, <1>2

\* Only a constant is replaced with one, and it is not changed by what it rises to.
LEMMA ConstantRises ==
    ASSUME NEW e \in Elements, NEW r \in Elements, Rises(e, r), isConst(e), isConst(r)
    PROVE  getConstant(r) = getConstant(e)
<1>1. CASE isConstant(e)
  <2>1. isConstant(r) /\ r.ConstVal = e.ConstVal
    BY <1>1 DEF Rises, isConst, isConstant, isConstantRange, isUnknown, isOverdefined, isUndef,
       ConstTags, RangeTags
  <2> QED
    BY <1>1, <2>1, ReadConstant
<1>2. CASE ~isConstant(e)
  <2>1. isConstantRange(e) /\ isConstantRange(r) /\ e.Range \subseteq r.Range
    BY <1>2 DEF Rises, isConst, isConstant, isConstantRange, isUnknown, isOverdefined, isUndef,
       ConstTags, RangeTags
  <2>2. e.Range = {getConstant(e)} /\ r.Range = {getConstant(r)}
    BY <2>1, ReadConstant
  <2> QED
    BY <2>1, <2>2
<1> QED
  BY <1>1, <1>2

\* What is known not to be a constant does not become one.
LEMMA OpenRises ==
    ASSUME NEW e \in Elements, NEW r \in Elements, Rises(e, r),
           ~isUnknownOrUndef(e), ~isConst(e)
    PROVE  ~isUnknownOrUndef(r) /\ ~isConst(r)
<1>1. CASE isConstantRange(e)
  <2>1. isOverdefined(r) \/ (isConstantRange(r) /\ e.Range \subseteq r.Range)
    BY <1>1 DEF Rises, isConstantRange, isUnknown, isUndef, ConstTags, RangeTags
  <2>2. e.Range # {} /\ ~isSingleElement(e.Range)
    <3>1. e.Range \in Ranges
      BY <1>1, ElementData DEF isConstantRange
    <3>2. e.Range # {}
      BY <3>1, RangesAssumption
    <3> QED
      BY <1>1, <3>2 DEF isConst
  <2>3. isConstantRange(r) => ~isSingleElement(r.Range)
    BY <2>1, <2>2 DEF isSingleElement, isOverdefined, isConstantRange, RangeTags
  <2> QED
    BY <2>1, <2>3 DEF isUnknownOrUndef, isConst, isOverdefined, isConstant, isConstantRange,
       RangeTags
<1>2. CASE ~isConstantRange(e)
  <2>1. e.Tag \in {"overdefined", "notconstant"}
    BY <1>2, ElementData DEF isUnknownOrUndef, isConst, isConstant, isConstantRange, Tags,
       ConstTags, RangeTags
  <2>2. r.Tag = "overdefined" \/ r.Tag = e.Tag
    BY <2>1 DEF Rises, isConstantRange, isUnknown, isUndef, isOverdefined, ConstTags, RangeTags
  <2> QED
    BY <2>1, <2>2 DEF isUnknownOrUndef, isConst, isConstant, isConstantRange, RangeTags
<1> QED
  BY <1>1, <1>2

\* The end of the visit of a phi or a tau.
LEMMA SettledElement ==
    ASSUME NEW e \in Elements, NEW working \in Elements, NEW count \in Nat
    PROVE  RisesTo(e, Settle(e, working, count))
<1> DEFINE merged == mergeIn(e, Copied(working), MergeOptions(FALSE, TRUE, count + 1))
           m == merged.elem
           n == IF m.NumRangeExtensions < count THEN count % 256 ELSE m.NumRangeExtensions
           u == [m EXCEPT !.NumRangeExtensions = n]
<1>1. RisesTo(e, merged)
  <2>1. Copied(working) \in Elements
    BY CopiedElement
  <2>2. MergeOptions(FALSE, TRUE, count + 1) \in Options
    BY DEF MergeOptions, Options
  <2> QED
    BY <2>1, <2>2, MergedElement
<1>2. Settle(e, working, count)
        = [merged EXCEPT !.elem.NumRangeExtensions = IF @ < count THEN count % 256 ELSE @]
  BY DEF Settle
<1> HIDE DEF merged
<1>3. m \in Elements /\ DOMAIN merged = {"elem", "changed"}
  BY <1>1 DEF RisesTo, Returns
<1>4. Settle(e, working, count).elem = u /\ DOMAIN Settle(e, working, count) = {"elem", "changed"}
  BY <1>2, <1>3
<1>5. n \in Counts
  BY <1>3, ElementData DEF Counts
<1> HIDE DEF n
<1>6. u \in Element /\ u.Tag = m.Tag /\ u.ConstVal = m.ConstVal /\ u.Range = m.Range
  BY <1>3, <1>5 DEF Elements, Element
<1> HIDE DEF u
<1>7. u \in Elements
  BY <1>3, <1>6, ElementData DEF Elements, Sound
<1>8. Rises(e, u)
  BY <1>1, <1>6 DEF RisesTo, Rises, isUnknown, isUndef, isOverdefined, isConstantRange
<1> QED
  BY <1>4, <1>7, <1>8 DEF RisesTo, Returns

\* What is made of a tau's element.
LEMMA SpeculatedElement ==
    ASSUME NEW tau \in Elements, NEW x0 \in Elements, NEW beta \in Elements
    PROVE  /\ markUnknown(tau).elem \in Elements
           /\ \A c \in Consts : markSpeculativeConstant(tau, c).elem \in Elements
           /\ \A r \in Ranges, opts \in Options :
                 markSpeculativeConstantRange(tau, r, opts).elem \in Elements
           /\ mergeInSpec(x0, beta, tau) \in Elements
<1>1. markUnknown(tau).elem \in Elements
  <2> DEFINE u == [tau EXCEPT !.Tag = "unknown", !.ConstVal = None, !.Range = {}]
  <2>1. u \in Element /\ u.Tag = "unknown"
    BY DEF Elements, Element, Tags
  <2>2. markUnknown(tau) = IF isUnknown(tau) THEN Unchanged(tau) ELSE Changed(u)
    BY Zenon DEF markUnknown
  <2> HIDE DEF u
  <2> QED
    BY <2>1, <2>2 DEF Changed, Unchanged, Elements, Sound, ConstTags, RangeTags
<1>2. ASSUME NEW c \in Consts
      PROVE  markSpeculativeConstant(tau, c).elem \in Elements
  <2> DEFINE u == [tau EXCEPT !.Tag = "constant", !.spec = TRUE, !.ConstVal = c, !.Range = {}]
  <2>1. u \in Element /\ u.Tag = "constant" /\ u.ConstVal = c
    BY DEF Elements, Element, Tags, ConstTags
  <2>2. markSpeculativeConstant(tau, c)
          = IF isSpecConstant(tau) THEN Unchanged(tau) ELSE Changed(u)
    BY Zenon DEF markSpeculativeConstant
  <2> HIDE DEF u
  <2> QED
    BY <2>1, <2>2 DEF Changed, Unchanged, Elements, Sound, ConstTags, RangeTags
<1>3. ASSUME NEW r \in Ranges, NEW opts \in Options
      PROVE  markSpeculativeConstantRange(tau, r, opts).elem \in Elements
  <2> DEFINE marked == markConstantRange(tau, r, opts)
             w == [marked EXCEPT !.elem.spec = TRUE]
             m == marked.elem
             u == [m EXCEPT !.spec = TRUE]
  <2>1. m \in Elements /\ DOMAIN marked = {"elem", "changed"}
    BY MarkedRange DEF Returns
  <2>2. markSpeculativeConstantRange(tau, r, opts) \in {marked, w}
    BY Zenon DEF markSpeculativeConstantRange
  <2> HIDE DEF marked
  <2>3. w.elem = u
    BY <2>1
  <2>4. u \in Element /\ u.Tag = m.Tag /\ u.ConstVal = m.ConstVal /\ u.Range = m.Range
    BY <2>1 DEF Elements, Element
  <2> HIDE DEF u, w
  <2>5. u \in Elements
    BY <2>1, <2>4, ElementData DEF Elements, Sound
  <2> QED
    BY <2>1, <2>2, <2>3, <2>5
<1>4. mergeInSpec(x0, beta, tau) \in Elements
  <2>1. \/ mergeInSpec(x0, beta, tau) = tau
        \/ /\ isSpecConstant(beta)
           /\ mergeInSpec(x0, beta, tau) = markSpeculativeConstant(tau, beta.ConstVal).elem
        \/ /\ isSpecRange(beta)
           /\ mergeInSpec(x0, beta, tau)
                = markSpeculativeConstantRange(tau, beta.Range, DefaultOptions).elem
    <3>1. isSpecConstant(beta) => ~isSpecRange(beta)
      BY DEF isSpecConstant, isConstant, isSpecRange
    <3> QED
      BY <3>1 DEF mergeInSpec
  <2>2. isSpecConstant(beta) => beta.ConstVal \in Consts
    BY ElementData DEF isSpecConstant, isConstant, ConstTags
  <2>3. isSpecRange(beta) => beta.Range \in Ranges
    BY ElementData DEF isSpecRange, RangeTags
  <2>4. DefaultOptions \in Options
    BY KnownElements
  <2> QED
    BY <1>2, <1>3, <2>1, <2>2, <2>3, <2>4
<1> QED
  BY <1>1, <1>2, <1>3, <1>4

----------------------------------------------------------------------------
(* What the visitors make of an element.                                   *)

Merged == [elem : Elements, count : Nat]

\* The merge of operands is an element.
LEMMA MergedArgsElement ==
    ASSUME NEW I, NEW start \in Elements, NEW ks \in Seq(DOMAIN ins(I).args),
           \A k \in DOMAIN ins(I).args : Arg(I, k) \in Elements
    PROVE  MergedArgs(I, start, ks) \in Merged
<1> DEFINE s == DOMAIN ks
           D == SUBSET s
           base == [elem |-> start, count |-> 0]
           merge(acc, k) == IF acc.count > 0 /\ isOverdefined(acc.elem) THEN acc
                            ELSE [elem |-> mergeIn(acc.elem, Arg(I, k), DefaultOptions).elem,
                                  count |-> acc.count + 1]
           pick == [t \in D |-> Max(t)]
           op == [p \in s \X Merged |-> merge(p[2], ks[p[1]])]
           body(t, g) == IF t = {} THEN base ELSE merge(g[t \ {Max(t)}], ks[Max(t)])
<1>1. s = 1..Len(ks) /\ Len(ks) \in Nat /\ IsFiniteSet(s)
  BY FS_Interval
<1>2. ASSUME NEW t \in D, t # {} PROVE Max(t) \in t
  <2>1. t \in SUBSET (0..Len(ks)) /\ t # {} /\ Len(ks) \in Nat
    BY <1>1, <1>2
  <2>2. PICK x \in t : \A y \in t : y <= x
    BY <2>1, GreatestNumber
  <2>3. \A y \in t : x >= y
    BY <2>1, <2>2
  <2> QED
    BY <2>3 DEF Max
<1>3. base \in Merged
  BY DEF Merged
<1>4. ASSUME NEW acc \in Merged, NEW k \in s PROVE merge(acc, ks[k]) \in Merged
  <2>1. acc.elem \in Elements /\ Arg(I, ks[k]) \in Elements /\ acc.count \in Nat
    BY DEF Merged
  <2>2. mergeIn(acc.elem, Arg(I, ks[k]), DefaultOptions).elem \in Elements
    BY <2>1, MergedElement, KnownElements DEF RisesTo, Returns
  <2> QED
    BY <2>1, <2>2 DEF Merged
<1>5. op \in [s \X Merged -> Merged] /\ \A k \in s, acc \in Merged : op[<<k, acc>>] = merge(acc, ks[k])
  <2> HIDE DEF merge, s
  <2>1. \A p \in s \X Merged : merge(p[2], ks[p[1]]) \in Merged
    BY <1>4
  <2> QED
    BY <2>1
<1>6. \A t \in D : t # {} => pick[t] \in t /\ pick[t] = Max(t)
  BY <1>2
<1>7. PICK h \in [D -> Merged] : FoldsTo(h, s, base, pick, op)
  <2>1. PICK ss, p, o, b : ss = s /\ p = pick /\ o = op /\ b = base
    OBVIOUS
  <2>2. /\ IsFiniteSet(ss) /\ b \in Merged /\ o \in [ss \X Merged -> Merged]
        /\ Picks(p, ss)
    BY <1>1, <1>3, <1>5, <1>6, <2>1 DEF Picks
  <2>3. \E h \in [SUBSET ss -> Merged] : FoldsTo(h, ss, b, p, o)
    BY <2>2, FoldSolves
  <2> HIDE DEF s, pick, op, base
  <2> QED
    BY <2>1, <2>3
<1>8. h = [t \in D |-> body(t, h)]
  <2>1. ASSUME NEW t \in D PROVE h[t] = body(t, h)
    <3>1. CASE t = {}
      BY <1>7, <3>1 DEF FoldsTo
    <3>2. CASE t # {}
      <4>1. Max(t) \in s /\ h[t \ {Max(t)}] \in Merged /\ pick[t] = Max(t)
        BY <1>2, <1>6, <3>2
      <4> HIDE DEF merge, op, pick, s
      <4> QED
        BY <1>5, <1>7, <3>2, <4>1 DEF FoldsTo
    <3> QED
      BY <3>1, <3>2
  <2> HIDE DEF body
  <2> QED
    BY <2>1
<1>9. PICK iter : iter = [t \in D |-> body(t, iter)] /\ MergedArgs(I, start, ks) = iter[s]
  <2>1. MergedArgs(I, start, ks)
          = (CHOOSE g : g = [t \in SUBSET s |-> IF t = {} THEN base
                                ELSE merge(g[t \ {Max(t)}], ks[Max(t)])])[s]
    BY Zenon DEF MergedArgs, FoldLeft, MapThenFoldSet
  <2>2. MergedArgs(I, start, ks) = (CHOOSE g : g = [t \in D |-> body(t, g)])[s]
    BY <2>1
  <2> HIDE DEF body, D
  <2> QED
    BY <1>8, <2>2
<1>10. \A t \in D : iter[t] = body(t, iter)
  <2> HIDE DEF body
  <2> QED
    BY <1>9
<1>11. iter[{}] \in Merged
  BY <1>3, <1>10
<1>12. ASSUME NEW t \in D, t # {}, iter[t \ {pick[t]}] \in Merged
       PROVE  iter[t] \in Merged
  <2>1. Max(t) \in s /\ pick[t] = Max(t)
    BY <1>2, <1>6, <1>12
  <2>2. iter[t] = merge(iter[t \ {Max(t)}], ks[Max(t)])
    <3> HIDE DEF merge, pick
    <3> QED
      BY <1>10, <1>12
  <2> HIDE DEF merge, pick, s
  <2> QED
    BY <1>4, <1>12, <2>1, <2>2
<1>13. \A t \in D : iter[t] \in Merged
  <2> HIDE DEF pick, s
  <2> QED
    BY <1>1, <1>6, <1>11, <1>12, FoldInduction
<1> QED
  BY <1>9, <1>13

\* The elements of a function that can be folded.
Typed ==
    /\ WellFormed(f) /\ Computes(f)
    /\ ValueState \in [Values(f) -> Elements]

\* The parts of an instruction.
LEMMA InstrForm ==
    ASSUME WellFormed(f), NEW I \in Instrs(f)
    PROVE  /\ ins(I).op \in Ops /\ ins(I).block \in Blocks(f)
           /\ ins(I).args \in Seq(Values(f))
           /\ ins(I).from \in Seq(Blocks(f)) /\ ins(I).md \in Ranges \cup {{}}
           /\ I \in Values(f)
BY DEF WellFormed, ins, Instrs, Values

\* The elements of an instruction and of its operands; the operands are read from copies.
LEMMA ArgElement ==
    ASSUME Typed, NEW I \in Instrs(f)
    PROVE  /\ ValueState[I] \in Elements
           /\ \A k \in DOMAIN ins(I).args :
                 /\ ins(I).args[k] \in Values(f) /\ ValueState[ins(I).args[k]] \in Elements
                 /\ Arg(I, k) \in Elements
                 /\ Arg(I, k).Tag = ValueState[ins(I).args[k]].Tag
                 /\ Arg(I, k).ConstVal = ValueState[ins(I).args[k]].ConstVal
                 /\ Arg(I, k).Range = ValueState[ins(I).args[k]].Range
<1>1. ValueState[I] \in Elements
  BY InstrForm DEF Typed
<1>2. ASSUME NEW k \in DOMAIN ins(I).args
      PROVE  ins(I).args[k] \in Values(f) /\ ValueState[ins(I).args[k]] \in Elements
  BY InstrForm DEF Typed
<1> QED
  BY <1>1, <1>2, CopiedElement DEF Arg, St

\* A folded instruction is a value, or None.
LEMMA FoldedValue ==
    ASSUME Typed, NEW I \in Instrs(f), ins(I).op \notin Terminators,
           NEW as \in [DOMAIN ins(I).args -> Ints \cup Consts]
    PROVE  /\ Eval(ins(I), as) \in AllValues \cup {None}
           /\ ins(I).op \in {"cast", "pcast", "unary", "gep"} => Eval(ins(I), as) \in AllValues
           /\ ins(I).op \in {"binary", "cast"} /\ as \in [DOMAIN ins(I).args -> Ints] =>
                 Eval(ins(I), as) \in Ints
<1>1. DOMAIN ins(I).args = 1..Len(ins(I).args) /\ Len(ins(I).args) \in {Len(ins(I).args), 2}
  BY InstrForm DEF Typed
<1> QED
  BY <1>1 DEF Typed, Computes, ins

\* The integers that an element allows.
LEMMA RangeValues ==
    ASSUME NEW e \in Elements
    PROVE  RangeOf(e) \subseteq Ints /\ RangeOf(e) # {}
<1>1. Ints # {}
  BY FunctionsAssumption DEF FunctionsAssumption
<1> QED
  BY <1>1, ElementData, RangesAssumption DEF RangeOf, isConstantRange

\* What ranges say of an instruction is an element.
LEMMA ResultRangeElement ==
    ASSUME Typed, NEW I \in Instrs(f),
           \/ ins(I).op = "binary" /\ Len(ins(I).args) = 2
           \/ ins(I).op = "cast" /\ Len(ins(I).args) = 1
    PROVE  ResultRange(I) \in Elements
<1> DEFINE one == {Eval(ins(I), <<m>>) : m \in RangeOf(Arg(I, 1))}
           two == {Eval(ins(I), <<m, n>>) : m \in RangeOf(Arg(I, 1)), n \in RangeOf(Arg(I, 2))}
           results == IF Len(ins(I).args) = 1 THEN one ELSE two
<1>1. ins(I).op \notin Terminators /\ DOMAIN ins(I).args = 1..Len(ins(I).args)
  BY InstrForm DEF Typed, Terminators
<1>2. ASSUME Len(ins(I).args) = 1 PROVE one \in (SUBSET Ints) \ {{}}
  <2>1. DOMAIN ins(I).args = {1}
    BY <1>1, <1>2
  <2>2. RangeOf(Arg(I, 1)) \subseteq Ints /\ RangeOf(Arg(I, 1)) # {}
    BY <2>1, ArgElement, RangeValues
  <2>3. ASSUME NEW m \in Ints PROVE Eval(ins(I), <<m>>) \in Ints
    <3>1. <<m>> \in [{1} -> Ints] /\ <<m>> \in [{1} -> Ints \cup Consts]
      OBVIOUS
    <3> QED
      BY <1>1, <1>2, <2>1, <3>1, FoldedValue
  <2>4. PICK m \in RangeOf(Arg(I, 1)) : TRUE
    BY <2>2
  <2>5. Eval(ins(I), <<m>>) \in one
    BY <2>4
  <2> QED
    BY <2>2, <2>3, <2>5
<1>3. ASSUME Len(ins(I).args) = 2 PROVE two \in (SUBSET Ints) \ {{}}
  <2>1. DOMAIN ins(I).args = {1, 2}
    BY <1>1, <1>3
  <2>2. /\ RangeOf(Arg(I, 1)) \subseteq Ints /\ RangeOf(Arg(I, 1)) # {}
        /\ RangeOf(Arg(I, 2)) \subseteq Ints /\ RangeOf(Arg(I, 2)) # {}
    BY <2>1, ArgElement, RangeValues
  <2>3. ASSUME NEW m \in Ints, NEW n \in Ints PROVE Eval(ins(I), <<m, n>>) \in Ints
    <3>1. <<m, n>> \in [{1, 2} -> Ints] /\ <<m, n>> \in [{1, 2} -> Ints \cup Consts]
      OBVIOUS
    <3> QED
      BY <1>1, <1>3, <2>1, <3>1, FoldedValue
  <2>4. PICK m \in RangeOf(Arg(I, 1)), n \in RangeOf(Arg(I, 2)) : TRUE
    BY <2>2
  <2>5. Eval(ins(I), <<m, n>>) \in two
    BY <2>4
  <2>6. ASSUME NEW x \in two PROVE x \in Ints
    <3>1. PICK k \in RangeOf(Arg(I, 1)), j \in RangeOf(Arg(I, 2)) : x = Eval(ins(I), <<k, j>>)
      OBVIOUS
    <3>2. k \in Ints /\ j \in Ints
      BY <2>2
    <3> QED
      BY <2>3, <3>1, <3>2
  <2> HIDE DEF two
  <2> QED
    BY <2>5, <2>6
<1>4. results \in (SUBSET Ints) \ {{}}
  <2>1. Len(ins(I).args) = 1 \/ (Len(ins(I).args) = 2 /\ Len(ins(I).args) # 1)
    OBVIOUS
  <2> HIDE DEF one, two
  <2> QED
    BY <1>2, <1>3, <2>1
<1>5. ResultRange(I) = getRange(Hull(results))
  BY DEF ResultRange
<1> HIDE DEF results
<1> QED
  BY <1>4, <1>5, HullAssumption, KnownElements

\* The places in a sequence that are in a set.
LEMMA PlacesSeq ==
    ASSUME NEW n \in Nat, NEW ks \in SUBSET (1..n)
    PROVE  Ascending(ks) \in Seq(ks)
<1>1. ks \in SUBSET Nat /\ IsFiniteSet(1..n)
  BY FS_Interval
<1>2. IsFiniteSet(ks)
  BY <1>1, FS_Subset
<1> QED
  BY <1>1, <1>2, AscendingSeq

\* A visit of a phi reports an element, and it rises.
LEMMA PhiElement ==
    ASSUME Typed, NEW I \in Instrs(f)
    PROVE  RisesTo(ValueState[I], visitPHINode(I))
<1> DEFINE e == ValueState[I]
           feasible == {k \in DOMAIN ins(I).args : isEdgeFeasible(ins(I).from[k], ins(I).block)}
           working == MergedArgs(I, Copied(e), Ascending(feasible))
<1>1. e \in Elements
  BY ArgElement
<1>2. working \in Merged
  <2>1. DOMAIN ins(I).args = 1..Len(ins(I).args) /\ Len(ins(I).args) \in Nat
    BY InstrForm DEF Typed
  <2>2. Ascending(feasible) \in Seq(feasible)
    BY <2>1, PlacesSeq
  <2>3. Ascending(feasible) \in Seq(DOMAIN ins(I).args)
    BY <2>2
  <2>4. Copied(e) \in Elements
    BY <1>1, CopiedElement
  <2> HIDE DEF feasible, e
  <2> QED
    BY <2>3, <2>4, ArgElement, MergedArgsElement
<1> HIDE DEF working
<1>3. \/ visitPHINode(I) = Unchanged(e)
      \/ visitPHINode(I) = markOverdefined(e)
      \/ visitPHINode(I) = Settle(e, working.elem, working.count)
  BY DEF visitPHINode, working
<1>4. RisesTo(e, Unchanged(e))
  BY <1>1, RisesSelf DEF Unchanged, RisesTo, Returns
<1> QED
  BY <1>1, <1>2, <1>3, <1>4, OverdefinedElement, SettledElement DEF Merged

\* What a tau is marked with, visited as a tau.
LEMMA TauElement ==
    ASSUME Typed, NEW I \in Instrs(f), ins(I).op = "tau"
    PROVE  /\ TauState(I) \in Elements /\ Beta(I).count \in Nat
           /\ Returns(visitTauNode(I))
<1> DEFINE n == Len(ins(I).args)
           ks == [k \in 1..(n - 1) |-> k + 1]
           merged == MergedArgs(I, Arg(I, 2), ks)
           b == merged.elem
<1>1. n \in Nat /\ n >= 2 /\ DOMAIN ins(I).args = 1..n /\ 1 \in 1..n /\ 2 \in 1..n
  <2>1. Arity(f.ins[I]) /\ f.ins[I] = ins(I)
    BY DEF Typed, WellFormed, ins, Instrs
  <2>2. n >= 2
    BY <2>1 DEF Arity
  <2> QED
    BY <2>2, InstrForm DEF Typed
<1>2. merged \in Merged
  <2>1. ks \in Seq(1..n)
    BY <1>1
  <2>2. Arg(I, 2) \in Elements
    BY <1>1, ArgElement
  <2> HIDE DEF ks
  <2> QED
    BY <1>1, <2>1, <2>2, ArgElement, MergedArgsElement
<1>3. Beta(I).elem \in Elements /\ Beta(I).count \in Nat
  <2> DEFINE guess == CASE isConstantRange(b) /\ isSingleElement(b.Range) ->
                             markSpeculativeConstantRange(b, b.Range, DefaultOptions).elem
                        [] isConstant(b) -> markSpeculativeConstant(b, b.ConstVal).elem
                        [] OTHER -> b
  <2>1. Beta(I) = [merged EXCEPT !.elem = guess]
    BY DEF Beta
  <2> HIDE DEF merged
  <2>2. Beta(I).elem = guess /\ Beta(I).count = merged.count /\ b \in Elements /\ merged.count \in Nat
    BY <1>2, <2>1 DEF Merged
  <2>3. isConstantRange(b) => b.Range \in Ranges
    BY <2>2, ElementData DEF isConstantRange
  <2>4. isConstant(b) => b.ConstVal \in Consts
    BY <2>2, ElementData DEF isConstant, ConstTags
  <2>5. isConstantRange(b) => ~isConstant(b)
    BY DEF isConstantRange, isConstant, RangeTags
  <2>6. guess \in Elements
    <3>1. isConstantRange(b) => markSpeculativeConstantRange(b, b.Range, DefaultOptions).elem \in Elements
      BY <2>2, <2>3, KnownElements, SpeculatedElement
    <3>2. isConstant(b) => markSpeculativeConstant(b, b.ConstVal).elem \in Elements
      BY <2>2, <2>4, SpeculatedElement
    <3> QED
      BY <2>2, <2>5, <3>1, <3>2
  <2> QED
    BY <2>2, <2>6
<1>4. markUnknown(ValueState[I]).elem \in Elements /\ Arg(I, 1) \in Elements
      /\ ValueState[I] \in Elements
  BY <1>1, ArgElement, SpeculatedElement
<1>5. TauState(I) \in Elements
  BY <1>3, <1>4, SpeculatedElement DEF TauState
<1> QED
  BY <1>3, <1>5, SettledElement DEF visitTauNode, RisesTo

\* The visitors that merge: what they report is an element that the last one rises to.
LEMMA BinaryElement ==
    ASSUME Typed, NEW I \in Instrs(f), ins(I).op \in {"binary", "fbinary"}
    PROVE  RisesTo(ValueState[I], visitBinaryOperator(I))
<1> DEFINE e == ValueState[I]
           V1 == Arg(I, 1)
           V2 == Arg(I, 2)
           folded == IF isConstant(V1) \/ isConstant(V2) THEN SimplifyBinOp(I) ELSE None
           constant == markConstantValue(unknown, folded, TRUE).elem
<1>1. DOMAIN ins(I).args = {1, 2} /\ Len(ins(I).args) = 2 /\ ins(I).op \notin Terminators
  <2>1. Arity(f.ins[I]) /\ f.ins[I] = ins(I) /\ ins(I).args \in Seq(Values(f))
    BY InstrForm DEF Typed, WellFormed, ins, Instrs
  <2>2. Len(ins(I).args) = 2
    BY <2>1 DEF Arity
  <2> QED
    BY <2>1, <2>2 DEF Terminators
<1>2. e \in Elements /\ V1 \in Elements /\ V2 \in Elements
  BY <1>1, ArgElement
<1>3. folded \in AllValues \cup {None}
  <2>1. ASSUME isConst(V1), isConst(V2)
        PROVE  Eval(ins(I), <<getConstant(V1), getConstant(V2)>>) \in AllValues \cup {None}
    <3>1. getConstant(V1) \in Ints \cup Consts /\ getConstant(V2) \in Ints \cup Consts
      BY <1>2, <2>1, ReadConstant
    <3>2. <<getConstant(V1), getConstant(V2)>> \in [{1, 2} -> Ints \cup Consts]
      BY <3>1
    <3> QED
      BY <1>1, <3>2, FoldedValue
  <2> QED
    BY <2>1 DEF SimplifyBinOp
<1>4. RisesTo(e, Unchanged(e)) /\ RisesTo(e, Changed(e)) /\ RisesTo(e, markOverdefined(e))
  BY <1>2, RisesSelf, OverdefinedElement DEF Unchanged, Changed, RisesTo, Returns
<1>5. ASSUME folded # None PROVE RisesTo(e, mergeIn(e, constant, DefaultOptions))
  <2>1. constant \in Elements
    BY <1>3, <1>5, UnknownElement, MarkedConstant DEF Returns
  <2> HIDE DEF constant
  <2> QED
    BY <1>2, <2>1, MergedElement, KnownElements
<1>6. ASSUME ins(I).op = "binary" PROVE RisesTo(e, mergeIn(e, ResultRange(I), DefaultOptions))
  BY <1>1, <1>2, <1>6, ResultRangeElement, MergedElement, KnownElements
<1> HIDE DEF folded, constant
<1> QED
  BY <1>4, <1>5, <1>6 DEF visitBinaryOperator, folded, constant

\* A comparison is merged with what it gives.
LEMMA CmpElement ==
    ASSUME Typed, NEW I \in Instrs(f), ins(I).op = "cmp"
    PROVE  RisesTo(ValueState[I], visitCmpInst(I))
<1> DEFINE e == ValueState[I]
           c == getCompare(ins(I), Arg(I, 1), Arg(I, 2))
           constant == markConstantValue(unknown, c, FALSE).elem
<1>1. e \in Elements
  BY ArgElement
<1>2. c \in {0, 1, Undef, None}
  BY DEF getCompare
<1>3. c \in AllValues \cup {None}
  BY <1>2, FunctionsAssumption DEF FunctionsAssumption, AllValues
<1>4. RisesTo(e, Unchanged(e)) /\ RisesTo(e, markOverdefined(e))
  BY <1>1, RisesSelf, OverdefinedElement DEF Unchanged, RisesTo, Returns
<1> HIDE DEF c
<1>5. ASSUME c # None PROVE RisesTo(e, mergeIn(e, constant, DefaultOptions))
  <2>1. constant \in Elements
    BY <1>3, <1>5, UnknownElement, MarkedConstant DEF Returns
  <2> HIDE DEF constant
  <2> QED
    BY <1>1, <2>1, MergedElement, KnownElements
<1> HIDE DEF constant
<1> QED
  BY <1>4, <1>5 DEF visitCmpInst, c, constant

\* A select is merged with one of its operands, or both.
LEMMA SelectElement ==
    ASSUME Typed, NEW I \in Instrs(f), ins(I).op = "select"
    PROVE  RisesTo(ValueState[I], visitSelectInst(I))
<1> DEFINE e == ValueState[I]
           first == mergeIn(e, Arg(I, 2), DefaultOptions)
           second == mergeIn(first.elem, Arg(I, 3), DefaultOptions)
           both == [second EXCEPT !.changed = first.changed \/ second.changed]
           k == IF getConstant(Arg(I, 1)) = 0 THEN 3 ELSE 2
<1>1. DOMAIN ins(I).args = {1, 2, 3}
  <2>1. Arity(f.ins[I]) /\ f.ins[I] = ins(I) /\ ins(I).args \in Seq(Values(f))
    BY InstrForm DEF Typed, WellFormed, ins, Instrs
  <2>2. Len(ins(I).args) = 3
    BY <2>1 DEF Arity
  <2> QED
    BY <2>1, <2>2
<1>2. e \in Elements /\ Arg(I, 2) \in Elements /\ Arg(I, 3) \in Elements
  BY <1>1, ArgElement
<1>3. RisesTo(e, first) /\ first.elem \in Elements
  BY <1>2, MergedElement, KnownElements DEF RisesTo, Returns
<1> HIDE DEF first
<1>4. RisesTo(first.elem, second) /\ second.elem \in Elements /\ Rises(e, second.elem)
  <2>1. RisesTo(first.elem, second)
    BY <1>2, <1>3, MergedElement, KnownElements
  <2> HIDE DEF second
  <2> QED
    BY <1>2, <1>3, <2>1, RisesOn DEF RisesTo, Returns
<1> HIDE DEF second
<1>5. both.elem = second.elem /\ DOMAIN both = {"elem", "changed"}
  BY <1>4 DEF RisesTo, Returns
<1> HIDE DEF both
<1>6. RisesTo(e, both)
  BY <1>4, <1>5 DEF RisesTo, Returns
<1>7. RisesTo(e, mergeIn(e, Arg(I, k), DefaultOptions))
  BY <1>2, MergedElement, KnownElements
<1>8. RisesTo(e, Unchanged(e))
  BY <1>2, RisesSelf DEF Unchanged, RisesTo, Returns
<1>9. visitSelectInst(I) \in {Unchanged(e), mergeIn(e, Arg(I, k), DefaultOptions), both}
  BY Zenon DEF visitSelectInst, first, second, both
<1> QED
  BY <1>6, <1>7, <1>8, <1>9

\* Metadata are merged.
LEMMA MetadataElement ==
    ASSUME Typed, NEW I \in Instrs(f)
    PROVE  RisesTo(ValueState[I], FromMetadata(I))
<1>1. getValueFromMetadata(I) \in Elements
  BY InstrForm, KnownElements DEF Typed, getValueFromMetadata
<1> QED
  BY <1>1, ArgElement, MergedElement, KnownElements DEF FromMetadata

\* A call may not be folded.
Folds(I) == ins(I).op \in {"call", "tau"} => ins(I).fn = "foldable"
Result(I) == Eval(ins(I), Constants(I))
Folded(I) == Folds(I) /\ Open(I) = {} /\ Result(I) # None

\* Nothing is known of an operand, and nothing that is known prevents folding.
Waiting(I) == Folds(I) /\ Open(I) # {} /\ \A k \in Open(I) : isUnknownOrUndef(Arg(I, k))

\* What a visitor that marks constants can do.
Outcomes(I, r) ==
    LET e == ValueState[I]
    IN \/ /\ Folded(I)
          /\ \/ r = markConstantValue(e, Result(I), FALSE) /\ ~isOverdefined(e)
             \/ r = Unchanged(e)
             \/ r = markOverdefined(e) /\ isOverdef(e)
       \/ ~Folded(I) /\ (r = Unchanged(e) \/ (r = markOverdefined(e) /\ isOverdef(e)))
       \/ /\ ~Folded(I) /\ ~Waiting(I)
          /\ \/ r = markOverdefined(e)
             \/ r = FromMetadata(I)
             \/ ins(I).op = "cast" /\ r = mergeIn(e, ResultRange(I), DefaultOptions)

\* What the visitors fold: all operands if they are constants.
LEMMA ResultValue ==
    ASSUME Typed, NEW I \in Instrs(f), ins(I).op \in Marking
    PROVE  /\ Open(I) = {} => Result(I) \in AllValues \cup {None}
           /\ Open(I) = {} /\ ins(I).op \in {"cast", "pcast", "unary", "gep"} => Result(I) # None
           /\ ins(I).op \in {"cast", "pcast", "unary", "load"} =>
                 /\ DOMAIN ins(I).args = {1} /\ Len(ins(I).args) = 1
                 /\ Constants(I) = <<getConstant(Arg(I, 1))>>
                 /\ Open(I) = IF isConst(Arg(I, 1)) THEN {} ELSE {1}
<1>1. ASSUME Open(I) = {} PROVE Constants(I) \in [DOMAIN ins(I).args -> Ints \cup Consts]
  <2>1. ASSUME NEW k \in DOMAIN ins(I).args
        PROVE  getConstant(Arg(I, k)) \in Ints \cup Consts
    <3>1. isConst(Arg(I, k))
      BY <1>1 DEF Open
    <3> QED
      BY <3>1, ArgElement, ReadConstant
  <2> QED
    BY <2>1 DEF Constants
<1>2. ins(I).op \notin Terminators
  BY DEF Marking, Terminators
<1>3. None \notin AllValues
  BY FunctionsAssumption DEF FunctionsAssumption
<1>4. ASSUME ins(I).op \in {"cast", "pcast", "unary", "load"}
      PROVE  /\ DOMAIN ins(I).args = {1} /\ Len(ins(I).args) = 1
             /\ Constants(I) = <<getConstant(Arg(I, 1))>>
             /\ Open(I) = IF isConst(Arg(I, 1)) THEN {} ELSE {1}
  <2>1. Arity(f.ins[I]) /\ f.ins[I] = ins(I) /\ ins(I).args \in Seq(Values(f))
    BY InstrForm DEF Typed, WellFormed, ins, Instrs
  <2>2. Len(ins(I).args) = 1
    BY <1>4, <2>1 DEF Arity
  <2>3. DOMAIN ins(I).args = {1}
    BY <2>1, <2>2
  <2>4. Constants(I) = <<getConstant(Arg(I, 1))>>
    BY <2>3 DEF Constants
  <2> QED
    BY <2>2, <2>3, <2>4 DEF Open
<1> QED
  BY <1>1, <1>2, <1>3, <1>4, FoldedValue DEF Result

\* A constant is neither unknown nor overdefined.
LEMMA KnownIsConst ==
    ASSUME NEW e
    PROVE  /\ isConst(e) => ~isUnknownOrUndef(e) /\ ~isOverdefined(e)
           /\ isOverdefined(e) => isOverdef(e)
BY DEF isConst, isUnknownOrUndef, isOverdefined, isOverdef, isConstant, isConstantRange,
   isSpecConstant, RangeTags

\* What each of them does is one of these.
LEMMA MarkingOutcomes ==
    ASSUME Typed, NEW I \in Instrs(f), ins(I).op \in Marking \cup {"tau"}
    PROVE  Outcomes(I, visit(I))
<1> DEFINE e == ValueState[I]
<1>1. CASE ins(I).op \in {"cast", "pcast"}
  <2>1. visit(I) = visitCastInst(I) /\ ins(I).op \in Marking
    BY <1>1 DEF visit, Marking
  <2>2. Folds(I) /\ Constants(I) = <<getConstant(Arg(I, 1))>>
        /\ Open(I) = IF isConst(Arg(I, 1)) THEN {} ELSE {1}
    BY <1>1, <2>1, ResultValue DEF Folds
  <2>3. CASE isConst(Arg(I, 1))
    <3>1. Folded(I) /\ Result(I) = Eval(ins(I), <<getConstant(Arg(I, 1))>>)
      BY <1>1, <2>1, <2>2, <2>3, ResultValue DEF Folded, Result
    <3>2. \/ visit(I) = Unchanged(e)
          \/ visit(I) = markConstantValue(e, Result(I), FALSE) /\ ~isOverdefined(e)
      BY <2>1, <2>3, <3>1, Zenon DEF visitCastInst
    <3> QED
      BY <3>1, <3>2, Zenon DEF Outcomes
  <2>4. CASE ~isConst(Arg(I, 1))
    <3>1. ~Folded(I) /\ (Waiting(I) <=> isUnknownOrUndef(Arg(I, 1)))
      BY <2>2, <2>4 DEF Folded, Waiting
    <3>2. \/ visit(I) = Unchanged(e)
          \/ /\ ~isUnknownOrUndef(Arg(I, 1))
             /\ \/ ins(I).op = "cast" /\ visit(I) = mergeIn(e, ResultRange(I), DefaultOptions)
                \/ visit(I) = markOverdefined(e)
      BY <2>1, <2>4, Zenon DEF visitCastInst
    <3> QED
      BY <3>1, <3>2, Zenon DEF Outcomes
  <2> QED
    BY <2>3, <2>4
<1>2. CASE ins(I).op = "unary"
  <2>1. visit(I) = visitUnaryOperator(I) /\ ins(I).op \in Marking
    BY <1>2 DEF visit, Marking
  <2>2. Folds(I) /\ Constants(I) = <<getConstant(Arg(I, 1))>>
        /\ Open(I) = IF isConst(Arg(I, 1)) THEN {} ELSE {1}
    BY <1>2, <2>1, ResultValue DEF Folds
  <2>3. CASE isConst(Arg(I, 1))
    <3>1. Folded(I) /\ Result(I) = Eval(ins(I), <<getConstant(Arg(I, 1))>>)
      BY <1>2, <2>1, <2>2, <2>3, ResultValue DEF Folded, Result
    <3>2. \/ visit(I) = markOverdefined(e) /\ isOverdef(e)
          \/ visit(I) = markConstantValue(e, Result(I), FALSE) /\ ~isOverdefined(e)
      BY <2>1, <2>3, <3>1, KnownIsConst, Zenon DEF visitUnaryOperator
    <3> QED
      BY <3>1, <3>2, Zenon DEF Outcomes
  <2>4. CASE ~isConst(Arg(I, 1))
    <3>1. ~Folded(I) /\ (Waiting(I) <=> isUnknownOrUndef(Arg(I, 1)))
      BY <2>2, <2>4 DEF Folded, Waiting
    <3>2. \/ visit(I) = Unchanged(e)
          \/ visit(I) = markOverdefined(e) /\ isOverdef(e)
          \/ ~isUnknownOrUndef(Arg(I, 1)) /\ visit(I) = markOverdefined(e)
      BY <2>1, <2>4, KnownIsConst, Zenon DEF visitUnaryOperator
    <3> QED
      BY <3>1, <3>2, Zenon DEF Outcomes
  <2> QED
    BY <2>3, <2>4
<1>3. CASE ins(I).op = "load"
  <2>1. visit(I) = visitLoadInst(I) /\ ins(I).op \in Marking
    BY <1>3 DEF visit, Marking
  <2>2. Folds(I) /\ Constants(I) = <<getConstant(Arg(I, 1))>>
        /\ Open(I) = IF isConst(Arg(I, 1)) THEN {} ELSE {1}
    BY <1>3, <2>1, ResultValue DEF Folds
  <2>3. CASE isConst(Arg(I, 1))
    <3>1. Result(I) = Eval(ins(I), <<getConstant(Arg(I, 1))>>) /\ ~Waiting(I)
          /\ (Folded(I) <=> Result(I) # None)
      BY <2>2, <2>3 DEF Folded, Waiting, Result
    <3>2. \/ visit(I) = Unchanged(e)
          \/ Result(I) # None /\ visit(I) = markConstantValue(e, Result(I), FALSE) /\ ~isOverdefined(e)
          \/ Result(I) = None /\ visit(I) = FromMetadata(I)
      BY <2>1, <2>3, <3>1, Zenon DEF visitLoadInst
    <3> QED
      BY <3>1, <3>2, Zenon DEF Outcomes
  <2>4. CASE ~isConst(Arg(I, 1))
    <3>1. ~Folded(I) /\ (Waiting(I) <=> isUnknownOrUndef(Arg(I, 1)))
      BY <2>2, <2>4 DEF Folded, Waiting
    <3>2. \/ visit(I) = Unchanged(e)
          \/ ~isUnknownOrUndef(Arg(I, 1)) /\ visit(I) = FromMetadata(I)
      BY <2>1, <2>4, Zenon DEF visitLoadInst
    <3> QED
      BY <3>1, <3>2, Zenon DEF Outcomes
  <2> QED
    BY <2>3, <2>4
<1>4. Open(I) # {} => Min(Open(I)) \in Open(I)
  <2> SUFFICES ASSUME Open(I) # {} PROVE Min(Open(I)) \in Open(I)
    OBVIOUS
  <2>1. DOMAIN ins(I).args \subseteq Nat
    BY InstrForm DEF Typed
  <2>2. Open(I) \in SUBSET Nat
    BY <2>1 DEF Open
  <2>3. \E x \in Open(I) : \A y \in Open(I) : x <= y
    BY <2>2, LeastNumber
  <2> QED
    BY <2>3 DEF Min
<1> DEFINE decides == isUnknownOrUndef(Arg(I, Min(Open(I))))
<1>5. Open(I) # {} /\ ~decides => ~Waiting(I)
  BY <1>4 DEF Waiting
<1>6. CASE ins(I).op = "gep"
  <2>1. visit(I) = visitGetElementPtrInst(I) /\ ins(I).op \in Marking /\ Folds(I)
    BY <1>6 DEF visit, Marking, Folds
  <2>2. CASE Open(I) = {}
    <3>1. Folded(I)
      BY <1>6, <2>1, <2>2, ResultValue DEF Folded
    <3>2. \/ visit(I) = markOverdefined(e) /\ isOverdef(e)
          \/ visit(I) = markConstantValue(e, Result(I), FALSE) /\ ~isOverdefined(e)
      BY <2>1, <2>2, KnownIsConst, Zenon DEF visitGetElementPtrInst, Result
    <3> QED
      BY <3>1, <3>2, Zenon DEF Outcomes
  <2>3. CASE Open(I) # {}
    <3>1. \/ visit(I) = markOverdefined(e) /\ isOverdef(e)
          \/ visit(I) = Unchanged(e)
          \/ ~decides /\ visit(I) = markOverdefined(e)
      BY <2>1, <2>3, KnownIsConst, Zenon DEF visitGetElementPtrInst
    <3>2. ~Folded(I)
      BY <2>3 DEF Folded
    <3> QED
      BY <1>5, <2>3, <3>1, <3>2, Zenon DEF Outcomes
  <2> QED
    BY <2>2, <2>3
<1>7. CASE ins(I).op \in {"call", "tau"}
  <2>1. visit(I) = handleCallOverdefined(I)
    BY <1>7 DEF visit
  <2>2. CASE ins(I).fn # "foldable"
    <3>1. ~Folded(I) /\ ~Waiting(I)
      BY <1>7, <2>2 DEF Folded, Waiting, Folds
    <3>2. visit(I) = FromMetadata(I)
      BY <2>1, <2>2, Zenon DEF handleCallOverdefined
    <3> QED
      BY <3>1, <3>2, Zenon DEF Outcomes
  <2>3. CASE ins(I).fn = "foldable" /\ Open(I) = {}
    <3>1. (Folded(I) <=> Result(I) # None) /\ ~Waiting(I)
      BY <2>3 DEF Folded, Waiting, Folds
    <3>2. \/ visit(I) = markOverdefined(e) /\ isOverdef(e)
          \/ Result(I) # None /\ visit(I) = markConstantValue(e, Result(I), FALSE) /\ ~isOverdefined(e)
          \/ Result(I) = None /\ visit(I) = FromMetadata(I)
      BY <2>1, <2>3, KnownIsConst, Zenon DEF handleCallOverdefined, Result
    <3> QED
      BY <3>1, <3>2, Zenon DEF Outcomes
  <2>4. CASE ins(I).fn = "foldable" /\ Open(I) # {}
    <3>1. ~Folded(I)
      BY <2>4 DEF Folded
    <3>2. visit(I) = Unchanged(e) \/ (~decides /\ visit(I) = markOverdefined(e))
      BY <2>1, <2>4, Zenon DEF handleCallOverdefined
    <3> QED
      BY <1>5, <2>4, <3>1, <3>2, Zenon DEF Outcomes
  <2> QED
    BY <2>2, <2>3, <2>4
<1> QED
  BY <1>1, <1>2, <1>3, <1>6, <1>7 DEF Marking

\* The element e agrees with what the operands of I say: it is the constant they fold to, and
\* says nothing as long as they may still become constants.
Agrees(I, e) ==
    /\ Folded(I) => isUnknown(e) \/ isOverdefined(e) \/ Fits(e, Result(I))
    /\ Waiting(I) => isUnknown(e) \/ isOverdefined(e)

\* A visitor that marks constants marks the same constant again, and so what is known of an
\* instruction that agrees with its operands only gets less.
LEMMA MarkingElement ==
    ASSUME Typed, NEW I \in Instrs(f), ins(I).op \in Marking \cup {"tau"}
    PROVE  /\ Returns(visit(I))
           /\ ins(I).op \in Marking /\ Agrees(I, ValueState[I])
                 => Rises(ValueState[I], visit(I).elem) /\ Agrees(I, visit(I).elem)
<1> DEFINE e == ValueState[I]
           c == Result(I)
<1>1. e \in Elements
  BY ArgElement
<1>2. /\ RisesTo(e, Unchanged(e)) /\ Unchanged(e).elem = e
      /\ RisesTo(e, markOverdefined(e)) /\ isOverdefined(markOverdefined(e).elem)
      /\ RisesTo(e, FromMetadata(I))
  BY <1>1, RisesSelf, OverdefinedElement, MetadataElement
     DEF Unchanged, RisesTo, Returns, isOverdefined
<1>3. ins(I).op = "cast" => RisesTo(e, mergeIn(e, ResultRange(I), DefaultOptions))
  <2> SUFFICES ASSUME ins(I).op = "cast"
               PROVE  RisesTo(e, mergeIn(e, ResultRange(I), DefaultOptions))
    OBVIOUS
  <2>1. Len(ins(I).args) = 1
    BY ResultValue DEF Marking
  <2>2. ResultRange(I) \in Elements
    BY <2>1, ResultRangeElement
  <2> QED
    BY <1>1, <2>2, MergedElement, KnownElements
<1>4. Outcomes(I, visit(I))
  BY MarkingOutcomes
<1>5. Folded(I) => c \in AllValues
  <2> SUFFICES ASSUME Folded(I) PROVE c \in AllValues
    OBVIOUS
  <2>1. ins(I).op # "tau"
    BY DEF Folded, Folds, Typed, WellFormed, ins
  <2> QED
    BY <2>1, ResultValue DEF Folded
<1>6. CASE visit(I) = Unchanged(e)
  BY <1>2, <1>6 DEF RisesTo
<1>7. CASE Folded(I) /\ visit(I) = markConstantValue(e, c, FALSE) /\ ~isOverdefined(e)
  <2>1. /\ Returns(visit(I))
        /\ isUnknown(e) \/ Fits(e, c) => Rises(e, visit(I).elem) /\ Fits(visit(I).elem, c)
    BY <1>1, <1>5, <1>7, MarkedConstant
  <2>2. ~Waiting(I)
    BY <1>7 DEF Folded, Waiting
  <2> QED
    BY <1>7, <2>1, <2>2 DEF Agrees
<1>8. CASE visit(I) = markOverdefined(e)
  BY <1>2, <1>8 DEF RisesTo, Agrees
<1>9. CASE /\ ~Folded(I) /\ ~Waiting(I)
           /\ \/ visit(I) = FromMetadata(I)
              \/ ins(I).op = "cast" /\ visit(I) = mergeIn(e, ResultRange(I), DefaultOptions)
  BY <1>2, <1>3, <1>9 DEF RisesTo, Agrees
<1> QED
  BY <1>4, <1>6, <1>7, <1>8, <1>9 DEF Outcomes

\* All visitors report elements; all others only let an element rise.
LEMMA VisitedElement ==
    ASSUME Typed, NEW I \in Instrs(f), ins(I).op \notin Terminators
    PROVE  /\ Returns(visit(I))
           /\ ins(I).op \notin Marking \cup {"tau"} => Rises(ValueState[I], visit(I).elem)
<1>1. ins(I).op \in Ops \ Terminators
  BY InstrForm DEF Typed
<1>2. CASE ins(I).op \in Marking \cup {"tau"}
  BY <1>2, MarkingElement
<1>3. CASE ins(I).op = "phi"
  BY <1>3, PhiElement DEF visit, RisesTo
<1>4. CASE ins(I).op \in {"binary", "fbinary"}
  BY <1>4, BinaryElement DEF visit, RisesTo
<1>5. CASE ins(I).op = "cmp"
  BY <1>5, CmpElement DEF visit, RisesTo
<1>6. CASE ins(I).op = "select"
  BY <1>6, SelectElement DEF visit, RisesTo
<1>7. CASE ins(I).op = "other"
  BY <1>7, ArgElement, OverdefinedElement DEF visit, visitInstruction, RisesTo
<1>8. CASE ins(I).op = "store"
  BY <1>8, ArgElement, RisesSelf DEF visit, Unchanged, Returns
<1> QED
  BY <1>1, <1>2, <1>3, <1>4, <1>5, <1>6, <1>7, <1>8 DEF Ops, IntegerOps, Marking

----------------------------------------------------------------------------
(* The types of the solver's and the pass's variables.                     *)

SolverTypes ==
    /\ Computes(f)
    /\ ValueState \in [Values(f) -> Elements]
    /\ KnownFeasibleEdges \subseteq Blocks(f) \X Blocks(f)
    /\ OverdefinedInstWorkList \in Seq(Values(f)) /\ InstWorkList \in Seq(Values(f))
    /\ phase \in Phases
    /\ cursor \in 0..(Len(f.order) + 1)
    /\ MadeChange \in BOOLEAN /\ moved \in BOOLEAN

RunTypes ==
    /\ subst \in [Instrs(f) -> Replacements]
    /\ env \in [Values(f) -> AllValues] /\ entered \in [Values(f) -> AllValues]
    /\ came \in Blocks(f) \cup {None} /\ here \in Blocks(f)
    /\ todo \in Seq(Instrs(f))

TypesInv == ExecInv /\ SolverTypes /\ RunTypes

\* The property follows.
LEMMA TypesAreOK == TypesInv => PassTypeOK
<1> SUFFICES ASSUME TypesInv PROVE PassTypeOK
  OBVIOUS
<1>1. BBExecutable \subseteq Blocks(f) /\ BBWorkList \in Seq(Blocks(f))
      /\ agenda \in Seq(Pending(f, BBExecutable))
  BY DEF TypesInv, ExecInv
<1>2. Pending(f, BBExecutable) \subseteq Calls(f)
  BY <1>1 DEF Pending, Calls, Taus
<1>3. \A S, s : s \in Seq(S) => ToSet(s) \subseteq S
  BY DEF ToSet
<1>4. ToSet(BBWorkList) \subseteq Blocks(f) /\ ToSet(agenda) \subseteq Calls(f)
  BY <1>1, <1>2, <1>3
<1>5. /\ ToSet(OverdefinedInstWorkList) \subseteq Values(f)
      /\ ToSet(InstWorkList) \subseteq Values(f) /\ ToSet(todo) \subseteq Instrs(f)
  BY <1>3 DEF TypesInv, SolverTypes, RunTypes
<1>6. TypeOK
  BY <1>1, <1>4, <1>5 DEF TypesInv, SolverTypes, TypeOK
<1> QED
  BY <1>5, <1>6 DEF TypesInv, RunTypes, PassTypeOK

\* A value is looked up for the first time.
LEMMA SeededElement ==
    ASSUME WellFormed(f), NEW v \in Values(f)
    PROVE  Seed(f, v) \in Elements
<1>1. CASE v \in DOMAIN f.consts
  <2>1. f.consts[v] \in AllValues
    <3>1. f.consts[v] \in Range(f.consts)
      BY <1>1 DEF Range
    <3> QED
      BY <3>1 DEF WellFormed
  <2>2. markConstantValue(unknown, f.consts[v], FALSE).elem \in Elements
    BY <2>1, UnknownElement, MarkedConstant DEF Returns
  <2> QED
    BY <1>1, <2>2 DEF Seed
<1>2. CASE v \notin DOMAIN f.consts
  BY <1>2, UnknownElement, KnownElements DEF Seed
<1> QED
  BY <1>1, <1>2

\* It holds at first.
LEMMA TypesInvInit == PassInit => TypesInv
<1> SUFFICES ASSUME PassInit PROVE TypesInv
  OBVIOUS
<1>1. WellFormed(f) /\ Computes(f)
  BY FunctionsAssumption DEF PassInit, Init, FunctionsAssumption
<1>2. ValueState \in [Values(f) -> Elements]
  BY <1>1, SeededElement DEF PassInit, Init
<1>3. OverdefinedInstWorkList \in Seq(Values(f))
  <2>1. IsFiniteSet(DOMAIN f.args)
    BY <1>1 DEF WellFormed
  <2>2. Cardinality(DOMAIN f.args) \in Nat
    BY <2>1, FS_CardinalityType
  <2>3. OverdefinedInstWorkList \in [1..Cardinality(DOMAIN f.args) -> DOMAIN f.args]
    BY DEF PassInit, Init, SetToSeqs
  <2>4. OverdefinedInstWorkList \in Seq(DOMAIN f.args)
    BY <2>2, <2>3
  <2> QED
    BY <2>4 DEF Values
<1>4. f.entry \in Blocks(f) /\ Len(f.order) \in Nat
  <2>1. f.entry \in Blocks(f) /\ f.order \in Seq(Blocks(f))
    BY <1>1, Zenon DEF WellFormed
  <2> QED
    BY <2>1
<1>5. SolverTypes
  <2>1. /\ KnownFeasibleEdges = {} /\ InstWorkList = <<>> /\ phase = "overdefined"
        /\ cursor = 0 /\ MadeChange = FALSE /\ moved = FALSE
    BY DEF PassInit, Init
  <2>2. InstWorkList \in Seq(Values(f)) /\ cursor \in 0..(Len(f.order) + 1)
    BY <1>4, <2>1
  <2> QED
    BY <1>1, <1>2, <1>3, <2>1, <2>2 DEF SolverTypes, Phases
<1>6. RunTypes
  BY <1>4 DEF PassInit, RunTypes, Replacements, AllValues
<1> QED
  BY <1>5, <1>6, ExecInvInit DEF TypesInv

\* A visit gives one value a new element and pushes it.
LEMMA VisitTypes ==
    ASSUME SolverTypes, f' = f, NEW I \in Values(f), NEW r, Returns(r),
           NEW base \in [Values(f) -> Elements], ValueState' = [base EXCEPT ![I] = r.elem],
           Pushed(I, r), moved' \in BOOLEAN,
           UNCHANGED <<KnownFeasibleEdges, phase, cursor, MadeChange>>
    PROVE  SolverTypes'
<1>1. ValueState' \in [Values(f) -> Elements]
  BY DEF Returns
<1>2. /\ OverdefinedInstWorkList \in Seq(Values(f)) /\ InstWorkList \in Seq(Values(f))
      /\ OverdefinedInstWorkList' \in {OverdefinedInstWorkList,
                                       Append(OverdefinedInstWorkList, I)}
      /\ InstWorkList' \in {InstWorkList, Append(InstWorkList, I)}
  BY DEF SolverTypes, Pushed
<1>3. OverdefinedInstWorkList' \in Seq(Values(f)) /\ InstWorkList' \in Seq(Values(f))
  <2>1. \A s \in Seq(Values(f)) : Append(s, I) \in Seq(Values(f))
    OBVIOUS
  <2> QED
    BY <1>2, <2>1, Zenon
<1> QED
  BY <1>1, <1>3 DEF SolverTypes

\* Elements that are moved to new storage.
LEMMA MovedElements ==
    ASSUME Typed
    PROVE  /\ Moved \in [Values(f) -> Elements]
           /\ \A v \in Values(f) :
                 /\ Moved[v].Tag = ValueState[v].Tag /\ Moved[v].ConstVal = ValueState[v].ConstVal
                 /\ Moved[v].Range = ValueState[v].Range
<1>1. ASSUME NEW v \in Values(f)
      PROVE  /\ [ValueState[v] EXCEPT !.spec = FALSE] \in Elements
             /\ [ValueState[v] EXCEPT !.spec = FALSE].Tag = ValueState[v].Tag
             /\ [ValueState[v] EXCEPT !.spec = FALSE].ConstVal = ValueState[v].ConstVal
             /\ [ValueState[v] EXCEPT !.spec = FALSE].Range = ValueState[v].Range
  <2>1. PICK e \in Elements : e = ValueState[v]
    BY DEF Typed
  <2> DEFINE u == [e EXCEPT !.spec = FALSE]
  <2>2. u \in Element /\ u.Tag = e.Tag /\ u.ConstVal = e.ConstVal /\ u.Range = e.Range
    BY DEF Elements, Element
  <2> HIDE DEF u
  <2>3. u \in Elements
    BY <2>2, ElementData DEF Elements, Sound
  <2> QED
    BY <2>1, <2>2, <2>3 DEF u
<1>2. DOMAIN ValueState = Values(f)
  BY DEF Typed
<1>3. ASSUME NEW v \in Values(f) PROVE Moved[v] = [ValueState[v] EXCEPT !.spec = FALSE]
  BY <1>2 DEF Moved
<1>4. Moved = [v \in Values(f) |-> Moved[v]]
  BY <1>2 DEF Moved
<1> QED
  BY <1>1, <1>3, <1>4

\* What the next call is about.
LEMMA CalleeForm ==
    ASSUME ExecInv
    PROVE  /\ Calling("visit") => Callee \in Instrs(f)
           /\ Calling("tau") => Callee \in Instrs(f) /\ ins(Callee).op = "tau"
           /\ Calling("edge") => Callee \in BBExecutable /\ Head(agenda)[3] \in Blocks(f)
<1>1. agenda # <<>> => Head(agenda) \in Pending(f, BBExecutable)
  BY TailPending
<1>2. PICK h : h = Head(agenda)
  OBVIOUS
<1> QED
  BY <1>1, <1>2 DEF Calling, Callee, Pending, Taus, ins

\* The solver's own steps, but for the work list of blocks.
LEMMA SolverTypesStep ==
    ASSUME ExecInv, SolverTypes, Solve, ~ResolveBlock
    PROVE  SolverTypes'
<1>1. Typed
  BY DEF ExecInv, SolverTypes, Typed
<1>2. /\ Computes(f) /\ ValueState \in [Values(f) -> Elements]
      /\ KnownFeasibleEdges \subseteq Blocks(f) \X Blocks(f)
      /\ OverdefinedInstWorkList \in Seq(Values(f)) /\ InstWorkList \in Seq(Values(f))
      /\ phase \in Phases /\ cursor \in 0..(Len(f.order) + 1)
      /\ MadeChange \in BOOLEAN /\ moved \in BOOLEAN
  BY DEF SolverTypes
<1>3. CASE MarkEdgeExecutable
  <2>1. KnownFeasibleEdges' = KnownFeasibleEdges \cup {<<Callee, Head(agenda)[3]>>}
    BY <1>3 DEF MarkEdgeExecutable
  <2>2. UNCHANGED <<f, ValueState, OverdefinedInstWorkList, InstWorkList, phase, cursor,
                    MadeChange, moved>>
    BY <1>3 DEF MarkEdgeExecutable
  <2>3. Callee \in Blocks(f) /\ Head(agenda)[3] \in Blocks(f)
    BY <1>3, CalleeForm DEF MarkEdgeExecutable, ExecInv
  <2>4. KnownFeasibleEdges' \subseteq Blocks(f) \X Blocks(f)
    BY <1>2, <2>1, <2>3
  <2> QED
    BY <1>2, <2>2, <2>4 DEF SolverTypes
<1>4. CASE Visit
  <2>1. Callee \in Instrs(f) /\ ins(Callee).op \notin Terminators /\ Callee \in Values(f)
    BY <1>4, CalleeForm DEF Visit, IsTerminator, Values
  <2>2. Returns(visit(Callee))
    BY <1>1, <2>1, VisitedElement
  <2>3. /\ f' = f /\ ValueState' = [ValueState EXCEPT ![Callee] = visit(Callee).elem]
        /\ Pushed(Callee, visit(Callee))
        /\ UNCHANGED <<KnownFeasibleEdges, phase, cursor, MadeChange, moved>>
    BY <1>4 DEF Visit
  <2> QED
    BY <1>2, <2>1, <2>2, <2>3, VisitTypes
<1>5. CASE VisitTau
  <2>1. Callee \in Instrs(f) /\ ins(Callee).op = "tau" /\ Callee \in Values(f)
    BY <1>5, CalleeForm DEF VisitTau, Values
  <2>2. Returns(visitTauNode(Callee))
    BY <1>1, <2>1, TauElement
  <2>3. /\ f' = f /\ ValueState' = [ValueState EXCEPT ![Callee] = visitTauNode(Callee).elem]
        /\ Pushed(Callee, visitTauNode(Callee))
        /\ UNCHANGED <<KnownFeasibleEdges, phase, cursor, MadeChange, moved>>
    BY <1>5 DEF VisitTau
  <2> QED
    BY <1>2, <2>1, <2>2, <2>3, VisitTypes
<1>6. CASE VisitTauMoved
  <2> DEFINE settled == Settle(Moved[Callee], TauState(Callee), Beta(Callee).count)
  <2>1. Callee \in Instrs(f) /\ ins(Callee).op = "tau" /\ Callee \in Values(f)
    BY <1>6, CalleeForm DEF VisitTauMoved, Values
  <2>2. Moved \in [Values(f) -> Elements]
    BY <1>1, MovedElements
  <2>3. Returns(settled)
    <3>1. Moved[Callee] \in Elements
      BY <2>1, <2>2
    <3> QED
      BY <1>1, <2>1, <3>1, TauElement, SettledElement DEF RisesTo
  <2>4. ValueState' = [Moved EXCEPT ![Callee] = settled.elem] /\ Pushed(Callee, settled)
    BY <1>6 DEF VisitTauMoved
  <2>5. f' = f /\ moved' = TRUE /\ UNCHANGED <<KnownFeasibleEdges, phase, cursor, MadeChange>>
    BY <1>6 DEF VisitTauMoved
  <2> HIDE DEF settled
  <2> QED
    BY <2>1, <2>2, <2>3, <2>4, <2>5, VisitTypes
<1>7. CASE Grow
  <2>1. ValueState' \in [Values(f) -> Elements]
    BY <1>1, <1>7, MovedElements DEF Grow
  <2>2. /\ moved' = TRUE
        /\ UNCHANGED <<f, KnownFeasibleEdges, OverdefinedInstWorkList, InstWorkList, phase,
                       cursor, MadeChange>>
    BY <1>7 DEF Grow, lists
  <2> QED
    BY <1>2, <2>1, <2>2 DEF SolverTypes
<1>8. CASE PopOverdefined \/ PopInst
  <2>1. \A s \in Seq(Values(f)) : s # <<>> => Front(s) \in Seq(Values(f))
    BY DEF Front
  <2>2. /\ UNCHANGED <<f, ValueState, KnownFeasibleEdges, phase, cursor, MadeChange, moved>>
        /\ \/ /\ OverdefinedInstWorkList # <<>> /\ InstWorkList' = InstWorkList
              /\ OverdefinedInstWorkList' = Front(OverdefinedInstWorkList)
           \/ /\ InstWorkList # <<>> /\ OverdefinedInstWorkList' = OverdefinedInstWorkList
              /\ InstWorkList' = Front(InstWorkList)
    BY <1>8 DEF PopOverdefined, PopInst
  <2>3. OverdefinedInstWorkList' \in Seq(Values(f)) /\ InstWorkList' \in Seq(Values(f))
    BY <1>2, <2>1, <2>2
  <2> QED
    BY <1>2, <2>2, <2>3 DEF SolverTypes
<1>9. CASE NextList
  <2>1. /\ UNCHANGED <<f, ValueState, KnownFeasibleEdges, OverdefinedInstWorkList,
                       InstWorkList, moved>>
        /\ cursor' = 1 /\ MadeChange' = FALSE
    BY <1>9 DEF NextList, lists
  <2>2. phase' \in {"instructions", "blocks", "undefs", "overdefined"}
    BY <1>9 DEF NextList
  <2>3. Len(f.order) \in Nat
    <3>1. f.order \in Seq(Blocks(f))
      BY <1>1 DEF Typed, WellFormed
    <3> QED
      BY <3>1
  <2>4. cursor' \in 0..(Len(f'.order) + 1) /\ phase' \in Phases
    BY <2>1, <2>2, <2>3 DEF Phases
  <2> QED
    BY <1>2, <2>1, <2>4 DEF SolverTypes
<1>10. CASE Resolved
  <2>1. UNCHANGED <<f, ValueState, KnownFeasibleEdges, OverdefinedInstWorkList,
                    InstWorkList, cursor, MadeChange, moved>>
        /\ phase' \in {"overdefined", "solved"}
    BY <1>10 DEF Resolved, solverVars, lists
  <2> QED
    BY <1>2, <2>1 DEF SolverTypes, Phases
<1>11. CASE NotExecutable \/ VisitTerminator \/ PopBlock
  <2>1. UNCHANGED <<f, ValueState, KnownFeasibleEdges, OverdefinedInstWorkList,
                    InstWorkList, phase, cursor, MadeChange, moved>>
    BY <1>11 DEF NotExecutable, VisitTerminator, PopBlock, lists
  <2> QED
    BY <1>2, <2>1 DEF SolverTypes
<1> QED
  BY <1>3, <1>4, <1>5, <1>6, <1>7, <1>8, <1>9, <1>10, <1>11 DEF Solve

\* What resolvedUndefsIn drives to overdefined.
LEMMA UndefsInstrs ==
    ASSUME WellFormed(f), NEW b \in Blocks(f)
    PROVE  Undefs(b) \in Seq(Instrs(f)) /\ \A I \in ToSet(Undefs(b)) : IsUndef(I)
<1> DEFINE ks == {k \in DOMAIN f.code[b] : IsUndef(f.code[b][k])}
<1>1. f.code[b] \in Seq(Instrs(f))
  BY DEF WellFormed
<1>2. DOMAIN f.code[b] = 1..Len(f.code[b]) /\ Len(f.code[b]) \in Nat
  BY <1>1
<1>3. PICK s : s = Ascending(ks)
  OBVIOUS
<1>4. s \in Seq(ks)
  BY <1>2, <1>3, PlacesSeq
<1>5. Undefs(b) = [j \in DOMAIN s |-> f.code[b][s[j]]]
  BY <1>3 DEF Undefs
<1>6. \A j \in DOMAIN s : f.code[b][s[j]] \in Instrs(f) /\ IsUndef(f.code[b][s[j]])
  BY <1>1, <1>4
<1>7. DOMAIN s = 1..Len(s) /\ Len(s) \in Nat
  BY <1>4
<1> HIDE DEF ks
<1>8. Undefs(b) \in Seq(Instrs(f))
  BY <1>5, <1>6, <1>7
<1>9. ASSUME NEW I \in ToSet(Undefs(b)) PROVE IsUndef(I)
  <2>1. PICK j \in DOMAIN s : I = f.code[b][s[j]]
    BY <1>5 DEF ToSet
  <2> QED
    BY <1>6, <2>1
<1> QED
  BY <1>8, <1>9

\* The step of resolvedUndefsIn in the terms that matter here.
LEMMA ResolvedBlock ==
    ASSUME ExecInv, ResolveBlock
    PROVE  \E marked \in Seq(Instrs(f)) :
              /\ \A I \in ToSet(marked) : IsUndef(I)
              /\ ValueState' = [v \in DOMAIN ValueState |->
                                   IF v \in ToSet(marked) THEN markOverdefined(ValueState[v]).elem
                                   ELSE ValueState[v]]
              /\ OverdefinedInstWorkList' = OverdefinedInstWorkList \o marked
              /\ MadeChange' \in BOOLEAN
              /\ cursor' = cursor + 1 /\ cursor \in Nat /\ cursor <= Len(f.order)
              /\ UNCHANGED <<KnownFeasibleEdges, InstWorkList, phase, moved>>
              /\ Instrs(f') = Instrs(f) /\ Blocks(f') = Blocks(f) /\ Values(f') = Values(f)
              /\ f'.order = f.order
              /\ \A J \in Instrs(f) : /\ f'.ins[J].op = f.ins[J].op
                                      /\ f.ins[J].op \notin Terminators => f'.ins[J] = f.ins[J]
<1> DEFINE b == f.order[cursor]
           I == Last(f.code[b])
           marked == IF b \in BBExecutable THEN Undefs(b) ELSE <<>>
           undef == b \in BBExecutable /\ Forced(b, I) /\ ins(I).args[1] \in DOMAIN f.consts
<1>1. /\ phase = "undefs" /\ cursor <= Len(f.order) /\ cursor' = cursor + 1
      /\ UNCHANGED <<KnownFeasibleEdges, InstWorkList, phase, moved>>
  BY DEF ResolveBlock, Idle
<1>2. /\ ValueState' = [v \in DOMAIN ValueState |->
                            IF v \in ToSet(marked) THEN markOverdefined(ValueState[v]).elem
                            ELSE ValueState[v]]
      /\ OverdefinedInstWorkList' = OverdefinedInstWorkList \o marked
  BY DEF ResolveBlock
<1>3. f' = IF undef THEN Fixed(I) ELSE f
  BY DEF ResolveBlock
<1>4. MadeChange' \in BOOLEAN
  BY DEF ResolveBlock
<1>5. WellFormed(f) /\ cursor \in Nat \ {0} /\ BBExecutable \subseteq Blocks(f)
  BY <1>1 DEF ExecInv
<1>6. b \in Blocks(f)
  <2>1. f.order \in Seq(Blocks(f))
    BY <1>5 DEF WellFormed
  <2> QED
    BY <1>1, <1>5, <2>1
<1>7. I \in Instrs(f)
  <2>1. f.code[b] \in Seq(Instrs(f)) \ {<<>>}
    <3> HIDE DEF b
    <3> QED
      BY <1>5, <1>6 DEF WellFormed
  <2>2. PICK code : code = f.code[b]
    OBVIOUS
  <2>3. I = code[Len(code)]
    BY <2>2 DEF Last
  <2> QED
    BY <2>1, <2>2, <2>3
<1> HIDE DEF b, I
<1>8. marked \in Seq(Instrs(f)) /\ \A J \in ToSet(marked) : IsUndef(J)
  <2>1. CASE b \in BBExecutable
    BY <1>5, <1>6, <2>1, UndefsInstrs
  <2>2. CASE b \notin BBExecutable
    <3>1. marked = <<>>
      BY <2>2
    <3>2. ToSet(<<>>) = {} /\ <<>> \in Seq(Instrs(f))
      BY DEF ToSet
    <3> QED
      BY <3>1, <3>2, Zenon
  <2> QED
    BY <2>1, <2>2
<1>9. /\ Instrs(f') = Instrs(f) /\ Blocks(f') = Blocks(f) /\ Values(f') = Values(f)
      /\ f'.order = f.order
      /\ \A J \in Instrs(f) : /\ f'.ins[J].op = f.ins[J].op
                              /\ f.ins[J].op \notin Terminators => f'.ins[J] = f.ins[J]
  <2>1. CASE undef
    <3>1. \/ ins(I).op = "condbr"
          \/ ins(I).op = "switch" /\ ins(I).cases # <<>>
      BY <2>1 DEF Forced
    <3>2. /\ Fixed(I).entry = f.entry /\ Fixed(I).code = f.code /\ Fixed(I).order = f.order
          /\ Fixed(I).args = f.args /\ Fixed(I).consts = f.consts
          /\ Instrs(Fixed(I)) = Instrs(f)
          /\ \A J \in Instrs(f) : /\ Fixed(I).ins[J].op = f.ins[J].op
                                  /\ Fixed(I).ins[J].block = f.ins[J].block
                                  /\ J # I => Fixed(I).ins[J] = f.ins[J]
      BY <1>5, <1>7, <3>1, FixedWellFormed
    <3>3. f.ins[I].op \in Terminators
      BY <3>1 DEF ins, Terminators
    <3>4. f' = Fixed(I)
      BY <1>3, <2>1
    <3> QED
      BY <3>2, <3>3, <3>4 DEF Blocks, Values
  <2>2. CASE ~undef
    BY <1>3, <2>2
  <2> QED
    BY <2>1, <2>2
<1> HIDE DEF marked
<1> QED
  BY <1>1, <1>2, <1>4, <1>5, <1>8, <1>9

\* resolvedUndefsIn marks values overdefined and replaces a condition by a constant.
LEMMA ResolvedTypes == ASSUME ExecInv, SolverTypes, ResolveBlock PROVE SolverTypes'
<1>1. PICK marked \in Seq(Instrs(f)) :
         /\ \A I \in ToSet(marked) : IsUndef(I)
         /\ ValueState' = [v \in DOMAIN ValueState |->
                              IF v \in ToSet(marked) THEN markOverdefined(ValueState[v]).elem
                              ELSE ValueState[v]]
         /\ OverdefinedInstWorkList' = OverdefinedInstWorkList \o marked
         /\ MadeChange' \in BOOLEAN
         /\ cursor' = cursor + 1 /\ cursor \in Nat /\ cursor <= Len(f.order)
         /\ UNCHANGED <<KnownFeasibleEdges, InstWorkList, phase, moved>>
         /\ Instrs(f') = Instrs(f) /\ Blocks(f') = Blocks(f) /\ Values(f') = Values(f)
         /\ f'.order = f.order
         /\ \A J \in Instrs(f) : /\ f'.ins[J].op = f.ins[J].op
                                 /\ f.ins[J].op \notin Terminators => f'.ins[J] = f.ins[J]
  BY ResolvedBlock
<1>2. /\ Computes(f) /\ ValueState \in [Values(f) -> Elements]
      /\ KnownFeasibleEdges \subseteq Blocks(f) \X Blocks(f)
      /\ OverdefinedInstWorkList \in Seq(Values(f)) /\ InstWorkList \in Seq(Values(f))
      /\ phase \in Phases /\ moved \in BOOLEAN
  BY DEF SolverTypes
<1>3. Computes(f')
  <2>1. \A J \in Instrs(f') : f'.ins[J].op \notin Terminators =>
            J \in Instrs(f) /\ f'.ins[J] = f.ins[J]
    BY <1>1
  <2> QED
    BY <1>2, <2>1 DEF Computes
<1>4. ValueState' \in [Values(f') -> Elements]
  <2>1. \A e \in Elements : markOverdefined(e).elem \in Elements
    BY OverdefinedElement DEF RisesTo, Returns
  <2> QED
    BY <1>1, <1>2, <2>1
<1>5. OverdefinedInstWorkList' \in Seq(Values(f'))
  <2>1. marked \in Seq(Values(f))
    BY SeqMonotonic DEF Values
  <2>2. OverdefinedInstWorkList \o marked \in Seq(Values(f))
    BY <1>2, <2>1, ConcatProperties
  <2> QED
    BY <1>1, <2>2
<1>6. cursor' \in 0..(Len(f'.order) + 1)
  <2>1. Len(f.order) \in Nat
    <3>1. f.order \in Seq(Blocks(f))
      BY DEF ExecInv, WellFormed
    <3> QED
      BY <3>1
  <2> QED
    BY <1>1, <2>1
<1>7. KnownFeasibleEdges' \subseteq Blocks(f') \X Blocks(f') /\ InstWorkList' \in Seq(Values(f'))
      /\ phase' \in Phases /\ moved' \in BOOLEAN
  BY <1>1, <1>2
<1> QED
  BY <1>1, <1>3, <1>4, <1>5, <1>6, <1>7 DEF SolverTypes

\* The pass beside the solver: what is rewritten and executed.
LEMMA RunTypesKept ==
    ASSUME RunTypes, UNCHANGED <<subst, runVars>>,
           Instrs(f') = Instrs(f), Values(f') = Values(f), Blocks(f') = Blocks(f)
    PROVE  RunTypes'
BY DEF RunTypes, runVars

\* Instructions are replaced with values.
LEMMA RewrittenTypes ==
    ASSUME ExecInv, SolverTypes, RunTypes, runSCCP
    PROVE  SolverTypes' /\ RunTypes'
<1>1. Typed
  BY DEF ExecInv, SolverTypes, Typed
<1>2. ASSUME NEW I \in Instrs(f) PROVE tryToReplaceWithConstant(I) \in Replacements
  <2> DEFINE const == IF isConst(ValueState[I]) THEN getConstant(ValueState[I]) ELSE Undef
  <2>1. const \in AllValues
    BY <1>1, ArgElement, ReadConstant DEF AllValues
  <2>2. tryToReplaceWithConstant(I) \in {Kept, <<"guess", const>>, <<"constant", const>>}
    BY DEF tryToReplaceWithConstant
  <2> HIDE DEF const
  <2> QED
    BY <2>1, <2>2 DEF Replacements
<1>3. subst' \in [Instrs(f) -> Replacements]
  <2>1. Kept \in Replacements
    BY DEF Replacements
  <2>2. subst' = [I \in Instrs(f) |->
                    IF ins(I).block \in BBExecutable THEN tryToReplaceWithConstant(I) ELSE Kept]
    BY DEF runSCCP
  <2> QED
    BY <1>2, <2>1, <2>2
<1>4. /\ UNCHANGED <<f, ValueState, KnownFeasibleEdges, OverdefinedInstWorkList, InstWorkList,
                     cursor, MadeChange, moved>>
      /\ UNCHANGED <<env, entered, came, here, todo>> /\ phase' = "ready"
  BY DEF runSCCP, solverVars, lists, runVars
<1> QED
  BY <1>3, <1>4 DEF SolverTypes, RunTypes, Phases

\* The values an instruction can give are values.
LEMMA PossibleValues ==
    ASSUME ExecInv, SolverTypes, RunTypes, NEW I \in Instrs(f), ~IsTerminator(I)
    PROVE  Possible(I) \subseteq AllValues
<1>0. PICK args : args = ins(I).args
  OBVIOUS
<1>1. args \in Seq(Values(f)) /\ ins(I).md \in Ranges \cup {{}} /\ Arity(ins(I))
  BY <1>0, InstrForm DEF ExecInv, WellFormed, ins
<1>2. PICK n \in Nat : n = Len(args) /\ DOMAIN args = 1..n
  <2>1. args \in Seq(Values(f))
    BY <1>1
  <2> QED
    BY <2>1
<1>3. Ints \subseteq AllValues /\ ins(I).md \subseteq AllValues
  BY <1>1, RangesAssumption DEF AllValues
<1>4. ASSUME NEW k \in 1..n
      PROVE  /\ env[args[k]] \in AllValues /\ entered[args[k]] \in AllValues
             /\ Reads(args[k]) \subseteq Ints \cup Consts
  <2>1. args[k] \in Values(f)
    BY <1>1, <1>2
  <2>2. env[args[k]] \in AllValues /\ entered[args[k]] \in AllValues
    BY <2>1 DEF RunTypes
  <2> QED
    BY <2>2 DEF Reads, AllValues
<1>5. CASE ins(I).op = "phi"
  <2>1. Possible(I) = {entered[args[k]] : k \in {k \in 1..n : ins(I).from[k] = came}}
    BY <1>0, <1>2, <1>5 DEF Possible
  <2> QED
    BY <1>4, <2>1
<1>6. CASE ins(I).op = "tau"
  <2>1. Possible(I) = {env[args[1]]}
    BY <1>0, <1>6 DEF Possible
  <2>2. n >= 2
    BY <1>0, <1>1, <1>2, <1>6 DEF Arity
  <2> QED
    BY <1>4, <2>1, <2>2
<1>7. CASE ins(I).op = "select"
  <2>1. Possible(I) = {env[args[IF c = 0 THEN 3 ELSE 2]] : c \in Reads(args[1])}
    BY <1>0, <1>7 DEF Possible
  <2>2. n = 3
    BY <1>0, <1>1, <1>2, <1>7 DEF Arity
  <2>3. env[args[2]] \in AllValues /\ env[args[3]] \in AllValues
    BY <1>4, <2>2
  <2> QED
    BY <2>1, <2>3
<1>8. CASE ins(I).op \notin {"phi", "tau", "select"}
  <2>1. Possible(I) \subseteq AllValues \/ (Possible(I) = Evaluated(I) /\ None \notin Evaluated(I))
    BY <1>3, <1>8 DEF Possible
  <2>2. Evaluated(I) \subseteq AllValues \cup {None}
    <3>1. ASSUME NEW ms \in [1..n -> Ints \cup Consts] \cup [1..2 -> Ints \cup Consts]
          PROVE  Eval(ins(I), ms) \in AllValues \cup {None}
      <4>1. n \in {Len(f.ins[I].args), 2} /\ 2 \in {Len(f.ins[I].args), 2}
        BY <1>0, <1>2 DEF ins
      <4>2. f.ins[I].op \notin Terminators
        BY DEF IsTerminator, ins
      <4> QED
        BY <4>1, <4>2 DEF SolverTypes, Computes, ins
    <3>2. CASE n = 0
      BY <1>0, <1>2, <3>2 DEF Evaluated
    <3>3. CASE n = 1
      <4>1. Evaluated(I) = {Eval(ins(I), <<m>>) : m \in Reads(args[1])}
        BY <1>0, <1>2, <3>3 DEF Evaluated
      <4>2. ASSUME NEW m \in Reads(args[1]) PROVE Eval(ins(I), <<m>>) \in AllValues \cup {None}
        <5>1. m \in Ints \cup Consts
          BY <1>4, <3>3
        <5>2. <<m>> \in [1..1 -> Ints \cup Consts]
          BY <5>1
        <5> QED
          BY <3>1, <3>3, <5>2
      <4> QED
        BY <4>1, <4>2
    <3>4. CASE n > 1
      <4> DEFINE one == {Eval(ins(I), <<m>>) : m \in Reads(ins(I).args[1])}
                 two == {Eval(ins(I), <<m, k>>) : m \in Reads(ins(I).args[1]),
                                                 k \in Reads(ins(I).args[2])}
      <4>1. Evaluated(I) = two
        <5>1. Evaluated(I) = CASE Len(ins(I).args) = 0 -> {None}
                               [] Len(ins(I).args) = 1 -> one
                               [] Len(ins(I).args) > 1 -> two
          BY DEF Evaluated
        <5> HIDE DEF one, two
        <5>2. Len(ins(I).args) = n
          BY <1>0, <1>2
        <5> QED
          BY <3>4, <5>1, <5>2
      <4>2. ASSUME NEW m \in Reads(args[1]), NEW k \in Reads(args[2])
            PROVE  Eval(ins(I), <<m, k>>) \in AllValues \cup {None}
        <5>1. m \in Ints \cup Consts /\ k \in Ints \cup Consts
          BY <1>4, <3>4
        <5>2. <<m, k>> \in [1..2 -> Ints \cup Consts]
          BY <5>1
        <5> QED
          BY <3>1, <5>2
      <4>3. ASSUME NEW x \in Evaluated(I) PROVE x \in AllValues \cup {None}
        <5>1. PICK m \in Reads(ins(I).args[1]), k \in Reads(ins(I).args[2]) :
                  x = Eval(ins(I), <<m, k>>)
          BY <4>1
        <5> QED
          BY <1>0, <4>2, <5>1, Zenon
      <4> QED
        BY <4>3
    <3> QED
      BY <3>2, <3>3, <3>4
  <2> QED
    BY <2>1, <2>2
<1> QED
  BY <1>5, <1>6, <1>7, <1>8

\* The arguments and constants have values when the execution starts.
LEMMA StartTypes ==
    ASSUME ExecInv, RunTypes, Start
    PROVE  RunTypes'
<1>1. WellFormed(f)
  BY DEF ExecInv
<1>2. PICK in \in [DOMAIN f.args -> UNION {f.args[a] : a \in DOMAIN f.args}] :
         /\ \A a \in DOMAIN in : in[a] \in f.args[a]
         /\ env' = [v \in Values(f) |-> IF v \in DOMAIN in THEN in[v]
                                        ELSE IF v \in DOMAIN f.consts THEN f.consts[v]
                                        ELSE Undef]
  BY DEF Start
<1>3. ASSUME NEW v \in DOMAIN in PROVE in[v] \in AllValues
  BY <1>1, <1>2 DEF WellFormed
<1>4. ASSUME NEW v \in DOMAIN f.consts PROVE f.consts[v] \in AllValues
  <2>1. f.consts[v] \in Range(f.consts)
    BY DEF Range
  <2> QED
    BY <1>1, <2>1 DEF WellFormed
<1>5. Undef \in AllValues
  BY DEF AllValues
<1>6. env' \in [Values(f) -> AllValues]
  BY <1>2, <1>3, <1>4, <1>5
<1>7. todo' \in Seq(Instrs(f))
  <2>1. todo' = f.code[f.entry] /\ f.entry \in Blocks(f)
    BY <1>1 DEF Start, WellFormed
  <2> QED
    BY <1>1, <2>1 DEF WellFormed
<1>8. entered' = env' /\ f' = f /\ UNCHANGED <<subst, came, here>>
  BY DEF Start, solverVars
<1> QED
  BY <1>6, <1>7, <1>8 DEF RunTypes

\* The instruction that is executed next.
LEMMA TodoForm ==
    ASSUME RunTypes, todo # <<>>
    PROVE  Current \in Instrs(f) /\ Tail(todo) \in Seq(Instrs(f))
BY HeadTailProperties DEF RunTypes, Current

\* An instruction gives one of the values it can give, or what it was replaced with.
LEMMA ExecuteTypes ==
    ASSUME ExecInv, SolverTypes, RunTypes, Execute
    PROVE  RunTypes'
<1>1. Current \in Instrs(f) /\ Tail(todo) \in Seq(Instrs(f)) /\ ~IsTerminator(Current)
  BY TodoForm DEF Execute, Running
<1>2. ASSUME NEW x \in AllValues, env' = [env EXCEPT ![Current] = x]
      PROVE  env' \in [Values(f) -> AllValues]
  BY <1>2 DEF RunTypes
<1>3. \E x \in AllValues : env' = [env EXCEPT ![Current] = x]
  <2>1. CASE subst[Current] = Kept
    <3>1. \E value \in Possible(Current) : env' = [env EXCEPT ![Current] = value]
      BY <2>1 DEF Execute
    <3> QED
      BY <1>1, <3>1, PossibleValues
  <2>2. CASE subst[Current] # Kept
    <3>1. subst[Current] \in {"constant", "guess"} \X AllValues
      BY <1>1, <2>2 DEF RunTypes, Replacements
    <3>2. env' = [env EXCEPT ![Current] = subst[Current][2]]
      BY <2>2 DEF Execute
    <3> QED
      BY <3>1, <3>2
  <2> QED
    BY <2>1, <2>2
<1>4. env' \in [Values(f) -> AllValues]
  BY <1>2, <1>3
<1>5. todo' = Tail(todo) /\ UNCHANGED <<f, subst, entered, came, here>>
  BY DEF Execute, vars, solverVars
<1> QED
  BY <1>1, <1>4, <1>5 DEF RunTypes

\* The execution goes to blocks of the function.
LEMMA BranchTypes ==
    ASSUME ExecInv, RunTypes, Branch
    PROVE  RunTypes'
<1>1. Current \in Instrs(f) /\ IsTerminator(Current)
  BY TodoForm DEF Branch, Running
<1>2. PICK I \in Instrs(f) : I = Current
  BY <1>1
<1>3. WellFormed(f)
  BY DEF ExecInv
<1>4. PICK to : to = ins(I).to
  OBVIOUS
<1>5. PICK n \in Nat : /\ n = Successors(ins(I)) /\ DOMAIN to = 1..n
                       /\ \A k \in 1..n : to[k] \in Blocks(f)
  <2>1. to \in Seq(Blocks(f)) /\ Len(to) = Successors(ins(I))
    BY <1>3, <1>4 DEF WellFormed, ins
  <2> QED
    BY <2>1
<1>6. ins(I).op = "switch" => n >= 1
  <2>1. ins(I).cases \in Seq(Range(f.consts))
    BY <1>3 DEF WellFormed, ins
  <2>2. Len(ins(I).cases) \in Nat
    BY <2>1
  <2>3. ins(I).op = "switch" => n = Len(ins(I).cases) + 1
    BY <1>5 DEF Successors
  <2> QED
    BY <2>2, <2>3
<1>7. ASSUME NEW b \in Goes(I) PROVE b \in Blocks(f)
  <2>1. CASE ins(I).op = "br"
    <3>1. n = 1 /\ b = to[1]
      BY <1>4, <1>5, <1>7, <2>1 DEF Goes, Successors
    <3> QED
      BY <1>5, <3>1
  <2>2. CASE ins(I).op = "ret"
    BY <1>7, <2>2 DEF Goes
  <2>3. CASE ins(I).op = "condbr"
    <3>1. n = 2 /\ b \in {to[1], to[2]}
      BY <1>4, <1>5, <1>7, <2>3 DEF Goes, Successors
    <3> QED
      BY <1>5, <3>1
  <2>4. CASE ins(I).op = "switch"
    <3> DEFINE cond == env[ins(I).args[1]]
               hit == {k \in 2..Len(ins(I).to) : ins(I).cases[k - 1] = cond}
    <3>1. Goes(I) = IF cond = Undef THEN {}
                    ELSE {ins(I).to[k] : k \in IF hit = {} THEN {1} ELSE hit}
      BY <2>4 DEF Goes
    <3>2. hit \subseteq 1..n
      <4>1. DOMAIN to = 1..Len(to) /\ Len(to) \in Nat
        <5>1. to \in Seq(Blocks(f))
          BY <1>3, <1>4 DEF WellFormed, ins
        <5> QED
          BY <5>1
      <4> QED
        BY <1>4, <1>5, <4>1
    <3> HIDE DEF hit, cond
    <3>3. PICK k \in 1..n : b = to[k]
      BY <1>4, <1>6, <1>7, <2>4, <3>1, <3>2
    <3> QED
      BY <1>5, <3>3
  <2> QED
    BY <1>1, <1>2, <2>1, <2>2, <2>3, <2>4 DEF IsTerminator, Terminators
<1>8. here' \in Blocks(f)
  BY <1>2, <1>7 DEF Branch
<1>9. todo' \in Seq(Instrs(f))
  BY <1>3, <1>8 DEF Branch, WellFormed
<1>10. came' = here /\ entered' = env /\ UNCHANGED <<f, subst, env>>
  BY DEF Branch, vars, solverVars
<1> QED
  BY <1>8, <1>9, <1>10 DEF RunTypes

\* It holds after each step of the solver, of the pass and of the execution.
LEMMA TypesInvStep == TypesInv /\ [Next]_passVars => TypesInv'
<1> SUFFICES ASSUME ExecInv, SolverTypes, RunTypes, [Next]_passVars
             PROVE  SolverTypes' /\ RunTypes'
  BY ExecInvStep DEF TypesInv
<1>1. CASE Solve /\ UNCHANGED <<subst, runVars>>
  <2>1. CASE ResolveBlock
    <3>1. Instrs(f') = Instrs(f) /\ Values(f') = Values(f) /\ Blocks(f') = Blocks(f)
      BY <2>1, ResolvedBlock
    <3> QED
      BY <1>1, <2>1, <3>1, ResolvedTypes, RunTypesKept
  <2>2. CASE ~ResolveBlock
    <3>1. f' = f
      BY <1>1, <2>2 DEF Solve, MarkEdgeExecutable, NotExecutable, VisitTerminator, Visit,
         VisitTau, VisitTauMoved, Grow, PopOverdefined, PopInst, PopBlock, NextList, Resolved,
         solverVars
    <3> QED
      BY <1>1, <2>2, <3>1, SolverTypesStep, RunTypesKept
  <2> QED
    BY <2>1, <2>2
<1>2. CASE runSCCP
  BY <1>2, RewrittenTypes
\* What executes leaves the solver's variables.
<1>3. ASSUME UNCHANGED solverVars, phase' \in Phases PROVE SolverTypes'
  BY <1>3 DEF SolverTypes, solverVars, lists
<1>4. phase \in Phases
  BY DEF SolverTypes
<1>5. CASE Start
  BY <1>3, <1>5, StartTypes DEF Start, Phases
<1>6. CASE Execute
  BY <1>3, <1>4, <1>6, ExecuteTypes DEF Execute, vars
<1>7. CASE Branch
  BY <1>3, <1>4, <1>7, BranchTypes DEF Branch, vars
<1>8. CASE End
  <2>1. UNCHANGED solverVars /\ UNCHANGED <<subst, runVars>> /\ phase' \in Phases
    BY <1>8 DEF End, Phases
  <2>2. f' = f
    BY <2>1 DEF solverVars
  <2> QED
    BY <1>3, <2>1, <2>2, RunTypesKept
<1>9. CASE Ended \/ UNCHANGED passVars
  <2>1. UNCHANGED solverVars /\ UNCHANGED <<subst, runVars>> /\ phase' \in Phases
    BY <1>4, <1>9 DEF Ended, passVars, vars
  <2>2. f' = f
    BY <2>1 DEF solverVars
  <2> QED
    BY <1>3, <2>1, <2>2, RunTypesKept
<1> QED
  BY <1>1, <1>2, <1>5, <1>6, <1>7, <1>8, <1>9 DEF Next

\* In all the solver, the pass and the execution do, every value has an element of the
\* lattice, whose data suit its state; the lists hold values, blocks and calls of the
\* function; a replacement is a value; and what executes has values and comes to blocks.
THEOREM AlwaysPassTypeOK == Spec => []PassTypeOK
<1>1. PassInit => TypesInv
  BY TypesInvInit
<1>2. TypesInv /\ [Next]_passVars => TypesInv'
  BY TypesInvStep
<1>3. TypesInv => PassTypeOK
  BY TypesAreOK
<1> QED
  BY <1>1, <1>2, <1>3, PTL DEF Spec

----------------------------------------------------------------------------
(* What is known of a value only gets less.                                *)

\* An instruction that agrees with its operands still does when these have risen: an operand
\* that is a constant stays the same one as long as it is one, and one that is known not to
\* be constant does not become constant.
LEMMA AgreesKept ==
    ASSUME Typed, NEW I \in Instrs(f), ins(I)' = ins(I),
           \A v \in Values(f) : ValueState'[v] \in Elements,
           \A k \in DOMAIN ins(I).args :
               Rises(ValueState[ins(I).args[k]], ValueState'[ins(I).args[k]]),
           NEW e, Agrees(I, e)
    PROVE  Agrees(I, e)'
<1> DEFINE D == DOMAIN ins(I).args
           a == [k \in D |-> Arg(I, k)]
           b == [k \in D |-> Copied(ValueState'[ins(I).args[k]])]
<1>1. ASSUME NEW k \in D
      PROVE  a[k] \in Elements /\ b[k] \in Elements /\ Rises(a[k], b[k])
  <2>1. /\ ins(I).args[k] \in Values(f) /\ ValueState[ins(I).args[k]] \in Elements
        /\ a[k] \in Elements
        /\ a[k].Tag = ValueState[ins(I).args[k]].Tag
        /\ a[k].ConstVal = ValueState[ins(I).args[k]].ConstVal
        /\ a[k].Range = ValueState[ins(I).args[k]].Range
    BY ArgElement
  <2>2. PICK x \in Elements : x = ValueState'[ins(I).args[k]]
    BY <2>1
  <2>3. b[k] \in Elements /\ b[k].Tag = x.Tag /\ b[k].ConstVal = x.ConstVal /\ b[k].Range = x.Range
    BY <2>2, CopiedElement
  <2>4. Rises(ValueState[ins(I).args[k]], x)
    BY <2>2
  <2> HIDE DEF a, b
  <2> QED
    BY <2>1, <2>3, <2>4 DEF Rises, isUnknown, isOverdefined, isUndef, isConstantRange
<1>2. /\ Open(I) = {k \in D : ~isConst(a[k])}
      /\ Constants(I) = [k \in D |-> getConstant(a[k])]
      /\ Waiting(I) <=> Folds(I) /\ Open(I) # {} /\ \A k \in Open(I) : isUnknownOrUndef(a[k])
  BY DEF Open, Constants, Waiting
<1>3. /\ Open(I)' = {k \in D : ~isConst(b[k])}
      /\ Constants(I)' = [k \in D |-> getConstant(b[k])]
  BY DEF Open, Constants, Arg, St
<1>4. Waiting(I)' <=> Folds(I) /\ Open(I)' # {} /\ \A k \in Open(I)' : isUnknownOrUndef(b[k])
  BY DEF Open, Waiting, Folds, Arg, St
<1>5. Folded(I)' <=> Folds(I) /\ Open(I)' = {} /\ Eval(ins(I), Constants(I)') # None
  BY DEF Folded, Folds, Result
<1>6. Result(I)' = Eval(ins(I), Constants(I)')
  BY DEF Result
<1> HIDE DEF a, b
<1>7. ASSUME NEW k \in D
      PROVE  /\ isConst(a[k]) /\ isConst(b[k]) => getConstant(b[k]) = getConstant(a[k])
             /\ ~isUnknownOrUndef(a[k]) /\ ~isConst(a[k])
                   => ~isUnknownOrUndef(b[k]) /\ ~isConst(b[k])
             /\ isConst(a[k]) => ~isUnknownOrUndef(b[k])
  <2>1. a[k] \in Elements /\ b[k] \in Elements /\ Rises(a[k], b[k])
    BY <1>1
  <2>2. isConst(a[k]) => ~isUnknownOrUndef(b[k])
    BY <2>1 DEF Rises, isConst, isUnknownOrUndef, isConstant, isConstantRange, isUnknown,
       isUndef, isOverdefined, ConstTags, RangeTags
  <2> QED
    BY <2>1, <2>2, ConstantRises, OpenRises
<1> HIDE DEF D
<1>8. ASSUME Waiting(I)' PROVE Waiting(I)
  <2>1. PICK j \in D : ~isConst(b[j]) /\ isUnknownOrUndef(b[j])
    BY <1>3, <1>4, <1>8
  <2>2. j \in Open(I)
    BY <1>2, <1>7, <2>1
  <2>3. ASSUME NEW k \in Open(I) PROVE isUnknownOrUndef(a[k])
    BY <1>2, <1>3, <1>4, <1>7, <1>8
  <2> QED
    BY <1>2, <1>4, <1>8, <2>2, <2>3
<1>9. ASSUME Folded(I)'
      PROVE  Waiting(I) \/ (Folded(I) /\ Result(I)' = Result(I))
  <2>1. \A k \in D : isConst(b[k])
    BY <1>3, <1>5, <1>9
  <2>2. CASE Open(I) = {}
    <3>1. \A k \in D : isConst(a[k])
      BY <1>2, <2>2
    <3>2. \A k \in D : getConstant(b[k]) = getConstant(a[k])
      BY <1>7, <2>1, <3>1
    <3>3. Constants(I)' = Constants(I)
      BY <1>2, <1>3, <3>2
    <3>4. Result(I)' = Result(I) /\ Result(I) # None
      BY <1>5, <1>6, <1>9, <3>3 DEF Result
    <3> QED
      BY <1>5, <1>9, <2>2, <3>4 DEF Folded
  <2>3. CASE Open(I) # {}
    BY <1>2, <1>5, <1>7, <1>9, <2>1, <2>3
  <2> QED
    BY <2>2, <2>3
<1>10. Folded(I)' => isUnknown(e) \/ isOverdefined(e) \/ Fits(e, Result(I)')
  BY <1>9 DEF Agrees
<1>11. Waiting(I)' => isUnknown(e) \/ isOverdefined(e)
  BY <1>8 DEF Agrees
<1> QED
  BY <1>10, <1>11 DEF Agrees

\* Every steady instruction that is marked with a constant agrees with its operands.
ClimbInv == \A I \in Instrs(f) : MarksConstant(I) /\ Steady(I) => Agrees(I, ValueState[I])

\* The operands of a steady instruction that is marked are steady.
LEMMA SteadyOperands ==
    ASSUME NEW I \in Instrs(f), MarksConstant(I), Steady(I), NEW k \in DOMAIN ins(I).args
    PROVE  Steady(ins(I).args[k])
<1>1. CASE \A J \in Instrs(f) : ~IsTau(J)
  BY <1>1 DEF Steady, IsTau
<1>2. CASE ~IsTau(ins(I).args[k]) /\ ~MarksConstant(ins(I).args[k])
  BY <1>2 DEF Steady
<1> QED
  BY <1>1, <1>2 DEF Steady

\* What an element says is in its state, its constant and its range.
LEMMA SameData ==
    ASSUME NEW e \in Elements, NEW x \in Elements,
           x.Tag = e.Tag, x.ConstVal = e.ConstVal, x.Range = e.Range
    PROVE  Rises(e, x) /\ \A I : Agrees(I, e) => Agrees(I, x)
<1>1. Rises(e, e)
  BY RisesSelf
<1>2. Rises(e, x)
  BY <1>1 DEF Rises, isUnknown, isOverdefined, isUndef, isConstantRange
<1>3. ASSUME NEW c, Fits(e, c) PROVE Fits(x, c)
  BY <1>3 DEF Fits, isUndef, isConstantRange, isConstant
<1>4. /\ isUnknown(x) <=> isUnknown(e)
      /\ isOverdefined(x) <=> isOverdefined(e)
  BY DEF isUnknown, isOverdefined
<1> QED
  BY <1>2, <1>3, <1>4 DEF Agrees

\* No step changes anything of the function but the condition of a terminator.
LEMMA FunctionKept ==
    ASSUME ExecInv, [Next]_passVars
    PROVE  /\ Instrs(f') = Instrs(f) /\ Values(f') = Values(f)
           /\ \A J \in Instrs(f) : /\ f'.ins[J].op = f.ins[J].op
                                   /\ f.ins[J].op \notin Terminators => f'.ins[J] = f.ins[J]
<1>1. CASE ResolveBlock
  BY <1>1, ResolvedBlock
<1>2. CASE ~ResolveBlock
  <2>1. f' = f
    BY <1>2 DEF Next, Solve, MarkEdgeExecutable, NotExecutable, VisitTerminator, Visit,
       VisitTau, VisitTauMoved, Grow, PopOverdefined, PopInst, PopBlock, NextList, Resolved,
       runSCCP, Start, Execute, Branch, End, Ended, passVars, vars, solverVars
  <2> QED
    BY <2>1
<1> QED
  BY <1>1, <1>2

\* A steady value rises with every step, and an instruction that agrees with its operands
\* does so after the step, as far as these have not changed.
LEMMA StepRises ==
    ASSUME TypesInv, ClimbInv, [Next]_passVars, NEW v \in Values(f), Steady(v)
    PROVE  /\ Rises(ValueState[v], ValueState'[v])
           /\ MarksConstant(v) => Agrees(v, ValueState'[v])
<1>1. Typed /\ ExecInv
  BY DEF TypesInv, ExecInv, SolverTypes, Typed
<1>2. ValueState \in [Values(f) -> Elements] /\ ValueState[v] \in Elements
  BY <1>1 DEF Typed
<1>3. MarksConstant(v) => v \in Instrs(f) /\ Agrees(v, ValueState[v])
  BY DEF ClimbInv, MarksConstant
\* A step that leaves this element but for its mark.
<1>4. ASSUME NEW x \in Elements, x = ValueState'[v], x.Tag = ValueState[v].Tag,
             x.ConstVal = ValueState[v].ConstVal, x.Range = ValueState[v].Range
      PROVE  /\ Rises(ValueState[v], ValueState'[v])
             /\ MarksConstant(v) => Agrees(v, ValueState'[v])
  BY <1>2, <1>3, <1>4, SameData
<1>5. CASE ValueState'[v] = ValueState[v]
  BY <1>2, <1>4, <1>5
<1>6. CASE Visit
  <2>1. Callee \in Instrs(f) /\ ins(Callee).op \notin Terminators
    BY <1>1, <1>6, CalleeForm DEF Visit, IsTerminator
  <2>2. ValueState' = [ValueState EXCEPT ![Callee] = visit(Callee).elem]
    BY <1>6 DEF Visit
  <2>3. CASE v = Callee
    <3>1. ValueState'[v] = visit(v).elem
      BY <1>2, <2>2, <2>3
    <3>2. CASE MarksConstant(v)
      <4>1. ins(v).op \in Marking
        BY <3>2 DEF MarksConstant
      <4> QED
        BY <1>1, <1>3, <2>1, <2>3, <3>1, <3>2, <4>1, MarkingElement
    <3>3. CASE ~MarksConstant(v)
      <4>1. ins(v).op \notin Marking \cup {"tau"}
        BY <2>1, <2>3, <3>3 DEF MarksConstant, Steady, IsTau
      <4> QED
        BY <1>1, <2>1, <2>3, <3>1, <3>3, <4>1, VisitedElement
    <3> QED
      BY <3>2, <3>3
  <2>4. CASE v # Callee
    BY <1>2, <1>5, <2>2, <2>4
  <2> QED
    BY <2>3, <2>4
<1>7. CASE VisitTau
  <2>1. ValueState' = [ValueState EXCEPT ![Callee] = visitTauNode(Callee).elem]
    BY <1>7 DEF VisitTau
  <2>2. v # Callee
    BY <1>1, <1>7, CalleeForm DEF VisitTau, Steady, IsTau
  <2> QED
    BY <1>2, <1>5, <2>1, <2>2
<1>8. CASE VisitTauMoved \/ Grow
  <2>1. ValueState'[v] = Moved[v]
    <3>1. CASE Grow
      BY <3>1 DEF Grow
    <3>2. CASE VisitTauMoved
      <4>1. \E e : ValueState' = [Moved EXCEPT ![Callee] = e]
        BY <3>2 DEF VisitTauMoved
      <4>2. v # Callee
        BY <1>1, <3>2, CalleeForm DEF VisitTauMoved, Steady, IsTau
      <4>3. Moved \in [Values(f) -> Elements]
        BY <1>1, MovedElements
      <4> QED
        BY <4>1, <4>2, <4>3
    <3> QED
      BY <1>8, <3>1, <3>2
  <2>2. /\ Moved[v] \in Elements /\ Moved[v].Tag = ValueState[v].Tag
        /\ Moved[v].ConstVal = ValueState[v].ConstVal /\ Moved[v].Range = ValueState[v].Range
    BY <1>1, MovedElements
  <2>3. PICK x \in Elements : x = Moved[v]
    BY <2>2
  <2> QED
    BY <1>4, <2>1, <2>2, <2>3
<1>9. CASE ResolveBlock
  <2>1. \E marked : ValueState' = [u \in DOMAIN ValueState |->
                                     IF u \in ToSet(marked) THEN markOverdefined(ValueState[u]).elem
                                     ELSE ValueState[u]]
    BY <1>1, <1>9, ResolvedBlock
  <2>2. ValueState'[v] = markOverdefined(ValueState[v]).elem \/ ValueState'[v] = ValueState[v]
    BY <1>2, <2>1
  <2>3. CASE ValueState'[v] = markOverdefined(ValueState[v]).elem
    <3>1. /\ Rises(ValueState[v], markOverdefined(ValueState[v]).elem)
          /\ isOverdefined(markOverdefined(ValueState[v]).elem)
      BY <1>2, OverdefinedElement DEF RisesTo, isOverdefined
    <3> QED
      BY <2>3, <3>1 DEF Agrees
  <2> QED
    BY <1>5, <2>2, <2>3
<1>10. CASE /\ ~Visit /\ ~VisitTau /\ ~VisitTauMoved /\ ~Grow /\ ~ResolveBlock
  <2>1. ValueState' = ValueState
    BY <1>10 DEF Next, Solve, MarkEdgeExecutable, NotExecutable, VisitTerminator,
       PopOverdefined, PopInst, PopBlock, NextList, Resolved, runSCCP, Start, Execute, Branch,
       End, Ended, passVars, vars, solverVars
  <2> QED
    BY <1>5, <2>1
<1> QED
  BY <1>6, <1>7, <1>8, <1>9, <1>10

\* At first nothing is known of any instruction.
LEMMA ClimbInvInit == PassInit => ClimbInv
<1> SUFFICES ASSUME PassInit, NEW I \in Instrs(f) PROVE Agrees(I, ValueState[I])
  BY DEF ClimbInv
<1>1. WellFormed(f) /\ ValueState = [v \in Values(f) |-> Seed(f, v)]
  BY FunctionsAssumption DEF PassInit, Init, FunctionsAssumption
<1>2. I \in Values(f) /\ I \notin DOMAIN f.args /\ I \notin DOMAIN f.consts
  BY <1>1 DEF WellFormed, Values
<1>3. ValueState[I] = unknown
  BY <1>1, <1>2 DEF Seed
<1> QED
  BY <1>3, UnknownElement DEF Agrees, isUnknown

\* After each step the instructions still agree with their operands.
LEMMA ClimbInvStep == TypesInv /\ ClimbInv /\ [Next]_passVars => ClimbInv'
<1> SUFFICES ASSUME TypesInv, ClimbInv, [Next]_passVars, TypesInv' PROVE ClimbInv'
  BY TypesInvStep
<1>1. Typed /\ ExecInv /\ ValueState \in [Values(f) -> Elements]
  BY DEF TypesInv, ExecInv, SolverTypes, Typed
<1>2. /\ Instrs(f') = Instrs(f) /\ Values(f') = Values(f)
      /\ \A J \in Instrs(f) : /\ f'.ins[J].op = f.ins[J].op
                              /\ f.ins[J].op \notin Terminators => f'.ins[J] = f.ins[J]
  BY <1>1, FunctionKept
<1>3. \A v \in Values(f) : ValueState'[v] \in Elements
  BY <1>2 DEF TypesInv, SolverTypes
<1>4. ASSUME NEW I \in Instrs(f), MarksConstant(I)', Steady(I)'
      PROVE  Agrees(I, ValueState[I])'
  <2>1. ins(I).op \in Marking
    BY <1>2, <1>4 DEF MarksConstant, ins
  <2>2. ins(I)' = ins(I)
    BY <1>2, <2>1 DEF ins, Marking, Terminators
  <2>3. \A J : (IsTau(J)' <=> IsTau(J)) /\ (MarksConstant(J)' <=> MarksConstant(J))
    BY <1>2 DEF IsTau, MarksConstant, ins
  <2>4. MarksConstant(I) /\ Steady(I)
    BY <1>2, <1>4, <2>2, <2>3 DEF Steady
  <2>5. Agrees(I, ValueState'[I])
    BY <2>4, StepRises DEF Values
  <2>6. ASSUME NEW k \in DOMAIN ins(I).args
        PROVE  Rises(ValueState[ins(I).args[k]], ValueState'[ins(I).args[k]])
    <3>1. Steady(ins(I).args[k])
      BY <2>4, SteadyOperands
    <3>2. ins(I).args[k] \in Values(f)
      BY <1>1, ArgElement
    <3> QED
      BY <3>1, <3>2, StepRises
  <2>7. PICK x : x = ValueState'[I]
    OBVIOUS
  <2>8. Agrees(I, x)'
    BY <1>1, <1>3, <2>2, <2>5, <2>6, <2>7, AgreesKept
  <2> QED
    BY <2>7, <2>8 DEF Agrees
<1> QED
  BY <1>2, <1>4 DEF ClimbInv

\* With each step what is known of a steady value gets less.
LEMMA StepClimbs ==
    ASSUME TypesInv, ClimbInv, [Next]_passVars
    PROVE  [\A v \in Values(f) :
               Steady(v) => Meaning(ValueState[v]) \subseteq Meaning(ValueState'[v])]_vars
<1>1. ExecInv /\ ValueState \in [Values(f) -> Elements]
  BY DEF TypesInv, SolverTypes
<1>2. \A v \in Values(f) : ValueState'[v] \in Elements
  <2>1. TypesInv'
    BY TypesInvStep
  <2> QED
    BY <1>1, <2>1, FunctionKept DEF TypesInv, SolverTypes
<1>3. ASSUME NEW v \in Values(f), Steady(v)
      PROVE  Meaning(ValueState[v]) \subseteq Meaning(ValueState'[v])
  <2>1. Rises(ValueState[v], ValueState'[v])
    BY <1>3, StepRises
  <2>2. ValueState[v] \in Elements /\ ValueState'[v] \in Elements
    BY <1>1, <1>2
  <2> QED
    BY <2>1, <2>2, RisesMeans
<1> QED
  BY <1>3

\* What the solver knows of a value only gets less, for all values but taus and, in a
\* function with taus, instructions that fold what may have been begun anew: the phis,
\* the comparisons and the like merge what they find into what was known, the casts,
\* the loads and the calls mark the constant that their operands, which have risen
\* themselves, still fold to, and no step begins such an element anew.
THEOREM AlwaysClimb == Spec => ValuesClimb
<1>1. PassInit => TypesInv /\ ClimbInv
  BY TypesInvInit, ClimbInvInit
<1>2. TypesInv /\ ClimbInv /\ [Next]_passVars => (TypesInv /\ ClimbInv)'
  BY TypesInvStep, ClimbInvStep
<1>3. TypesInv /\ ClimbInv /\ [Next]_passVars
        => [\A v \in Values(f) :
               Steady(v) => Meaning(ValueState[v]) \subseteq Meaning(ValueState'[v])]_vars
  BY StepClimbs
<1> QED
  BY <1>1, <1>2, <1>3, PTL DEF Spec, ValuesClimb
=============================================================================

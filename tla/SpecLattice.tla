---------------------------- MODULE SpecLattice ----------------------------
(***************************************************************************)
(* SpecValueLatticeElement of include/SpecValueLattice.h: what the solver  *)
(* of the speculative SCCP pass knows about one value, and the operations  *)
(* that change it.  An element is a record with                            *)
(*   Tag                 the state it is in                                *)
(*   spec                Shadow_Tag == spec_constant: it is a guess        *)
(*   ConstVal            the constant of the states constant, notconstant  *)
(*   Range               the integers of the two constantrange states      *)
(*   NumRangeExtensions  how often Range was extended, in 8 bits           *)
(* The last two of the data fields share their storage; the one a state    *)
(* does not use is kept at its default here.  An operation that returns    *)
(* whether it changed the element is an operator that returns the element  *)
(* and this flag.                                                          *)
(***************************************************************************)
EXTENDS Naturals, FiniteSets

CONSTANTS Ints,            \* the values of the integer type
          Consts,          \* the constants that are not integers
          Undef,           \* what an undefined value is at run time
          None,            \* no constant
          Ranges,          \* the sets of integers a ConstantRange can be
          UnionWith(_, _)  \* ConstantRange::unionWith

\* LLVM's ranges are intervals that may wrap around; the union of two of them is an
\* interval that contains both.
ASSUME RangesAssumption ==
    /\ Ints \cap Consts = {} /\ Undef \notin Ints \cup Consts /\ None \notin Consts
    /\ Ranges \subseteq SUBSET Ints
    /\ {} \notin Ranges
    /\ \A r, s \in Ranges : UnionWith(r, s) \in Ranges /\ r \cup s \subseteq UnionWith(r, s)

RangeTags == {"constantrange", "constantrange_including_undef"}
ConstTags == {"constant", "notconstant"}
Tags == {"unknown", "undef", "overdefined"} \cup ConstTags \cup RangeTags

Counts == 0..255   \* eight bits

Element == [Tag : Tags, spec : BOOLEAN, ConstVal : Consts \cup {None},
            Range : Ranges \cup {{}}, NumRangeExtensions : Counts]

\* The storage in use is the one the tag says, and a full range is overdefined.
Sound(e) == /\ e.Tag \in ConstTags => e.ConstVal \in Consts
            /\ e.Tag \in RangeTags => e.Range \in Ranges \ {Ints}

Elements == {e \in Element : Sound(e)}

unknown == [Tag |-> "unknown", spec |-> FALSE, ConstVal |-> None, Range |-> {},
            NumRangeExtensions |-> 0]

isUnknown(e) == e.Tag = "unknown"
isUndef(e) == e.Tag = "undef"
isConstant(e) == e.Tag = "constant"
isNotConstant(e) == e.Tag = "notconstant"
isOverdefined(e) == e.Tag = "overdefined"
isConstantRange(e) == e.Tag \in RangeTags
isSingleElement(r) == \E n \in Ints : r = {n}
isSpecRange(e) == e.spec /\ e.Tag = "constantrange"
isSpecConstant(e) == e.spec /\ isConstant(e)

isGuess(e) == isSpecConstant(e) \/ (isSpecRange(e) /\ isSingleElement(e.Range))

Changed(e) == [elem |-> e, changed |-> TRUE]
Unchanged(e) == [elem |-> e, changed |-> FALSE]

Copied_Whole(e) == e  \* mutant: the copy is speculative if the original is

\* The copy constructor: Shadow_Tag(Other.Tag), and no tag is ever spec_constant.
Copied(e) == [e EXCEPT !.spec = FALSE,
                       !.NumRangeExtensions = IF isConstantRange(e) THEN @ ELSE 0]

markOverdefined(e) ==
    IF isOverdefined(e) THEN Unchanged(e)
    ELSE Changed([e EXCEPT !.Tag = "overdefined", !.ConstVal = None, !.Range = {}])

\* markConstant of a constant that is not an integer; the element is unknown or undef.
markConstant(e, c) == Changed([e EXCEPT !.Tag = "constant", !.ConstVal = c])

MergeOptions(mayIncludeUndef, checkWiden, maxWidenSteps) ==
    [MayIncludeUndef |-> mayIncludeUndef, CheckWiden |-> checkWiden,
     MaxWidenSteps |-> maxWidenSteps]

DefaultOptions == MergeOptions(FALSE, FALSE, 1)

RangeTag_Last(e, opts) ==  \* mutant: undef is forgotten
    IF opts.MayIncludeUndef THEN "constantrange_including_undef" ELSE "constantrange"

RangeTag(e, opts) ==
    IF e.Tag \in {"undef", "constantrange_including_undef"} \/ opts.MayIncludeUndef
    THEN "constantrange_including_undef" ELSE "constantrange"

\* One more extension, unless the element has had as many as it may.
Extended(e, r, opts) ==
    LET count == (e.NumRangeExtensions + 1) % 256
    IN IF opts.CheckWiden /\ count > opts.MaxWidenSteps
       THEN markOverdefined([e EXCEPT !.NumRangeExtensions = count])
       ELSE Changed([e EXCEPT !.Tag = RangeTag(e, opts), !.Range = r,
                              !.NumRangeExtensions = IF opts.CheckWiden THEN count ELSE @])

SameRange_Quiet(e, opts) == Unchanged([e EXCEPT !.Tag = RangeTag(e, opts)])  \* mutant

SameRange(e, opts) ==
    [elem |-> [e EXCEPT !.Tag = RangeTag(e, opts)], changed |-> RangeTag(e, opts) # e.Tag]

\* Mutant: a range may be all integers.
markConstantRange_Full(e, r, opts) ==
    Changed([e EXCEPT !.Tag = RangeTag(e, opts), !.ConstVal = None, !.Range = r])

markConstantRange(e, r, opts) ==
    CASE r = Ints -> markOverdefined(e)
      [] r # Ints /\ isConstantRange(e) /\ e.Range = r -> SameRange(e, opts)
      [] r # Ints /\ isConstantRange(e) /\ e.Range # r -> Extended(e, r, opts)
      [] r # Ints /\ ~isConstantRange(e) ->
            Changed([e EXCEPT !.Tag = RangeTag(e, opts), !.Range = r,
                              !.NumRangeExtensions = 0])

----------------------------------------------------------------------------
(* mergeIn(e, rhs, opts), by the state e is in.                            *)

\* What a speculative rhs does to e: at most e becomes speculative as well.
MergedSpec(e, rhs) ==
    IF isConstant(rhs)
    THEN IF isConstant(e) /\ ~e.spec THEN Changed([e EXCEPT !.spec = TRUE]) ELSE Unchanged(e)
    ELSE IF isConstantRange(e) /\ isSingleElement(e.Range)
         THEN Unchanged([e EXCEPT !.spec = TRUE]) ELSE Unchanged(e)

MergedUndef(e, rhs, opts) ==
    CASE isUndef(rhs) -> Unchanged(e)
      [] isConstant(rhs) -> markConstant(e, rhs.ConstVal)
      [] isConstantRange(rhs) ->
            markConstantRange(e, rhs.Range, [opts EXCEPT !.MayIncludeUndef = TRUE])
      [] isNotConstant(rhs) -> markOverdefined(e)

MergedConst(e, rhs) ==
    IF \/ rhs.Tag = e.Tag /\ rhs.ConstVal = e.ConstVal
       \/ isConstant(e) /\ isUndef(rhs)
    THEN Unchanged(e) ELSE markOverdefined(e)

\* Mutant: the range is replaced, not extended.
MergedRange_Last(e, rhs, opts) ==
    IF isConstantRange(rhs) THEN markConstantRange(e, rhs.Range, opts)
    ELSE IF isUndef(rhs) THEN Unchanged(e) ELSE markOverdefined(e)

MergedRange(e, rhs, opts) ==
    CASE isUndef(rhs) ->
            [elem |-> [e EXCEPT !.Tag = "constantrange_including_undef"],
             changed |-> e.Tag # "constantrange_including_undef"]
      [] isConstantRange(rhs) ->
            markConstantRange(e, UnionWith(e.Range, rhs.Range),
                [opts EXCEPT !.MayIncludeUndef = (rhs.Tag = "constantrange_including_undef")])
      [] rhs.Tag \in ConstTags -> markOverdefined(e)

mergeIn(e, rhs, opts) ==
    CASE isUnknown(rhs) \/ isOverdefined(e) -> Unchanged(e)
      [] isOverdefined(rhs) /\ ~isOverdefined(e) -> markOverdefined(e)
      [] ~isOverdefined(e) /\ isGuess(rhs) -> MergedSpec(e, rhs)
      [] OTHER ->
            CASE isUndef(e) -> MergedUndef(e, rhs, opts)
              [] isUnknown(e) -> Changed(Copied(rhs))
              [] e.Tag \in ConstTags -> MergedConst(e, rhs)
              [] isConstantRange(e) -> MergedRange(e, rhs, opts)

----------------------------------------------------------------------------
(* The run-time values an element allows.  A constant may stand for undef, *)
(* "assuming all uses of the result will be replaced".                     *)

AllValues == Ints \cup Consts \cup {Undef}

Meaning(e) ==
    CASE isUnknown(e) -> {}
      [] isUndef(e) -> {Undef}
      [] isConstant(e) -> {e.ConstVal, Undef}
      [] isNotConstant(e) -> (Ints \cup Consts) \ {e.ConstVal}
      [] e.Tag = "constantrange" -> e.Range
      [] e.Tag = "constantrange_including_undef" -> e.Range \cup {Undef}
      [] isOverdefined(e) -> AllValues
=============================================================================

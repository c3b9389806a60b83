----------------------------- MODULE TauLattice -----------------------------
(***************************************************************************)
(* The operations of SpecValueLatticeElement that the solver needs beside  *)
(* mergeIn: marking an element by a constant of any kind, speculating on   *)
(* it, merging what a tau's arguments say into the tau, and what ranges    *)
(* say of the result of an instruction.  A constant is an integer, another *)
(* constant, or Undef.                                                     *)
(***************************************************************************)
EXTENDS SpecLattice

CONSTANTS Hull(_)   \* a ConstantRange that contains a set of integers

ASSUME HullAssumption ==
    /\ \A s \in (SUBSET Ints) \ {{}} : Hull(s) \in Ranges /\ s \subseteq Hull(s)
    /\ \A n \in Ints : {n} \in Ranges

isUnknownOrUndef(e) == e.Tag \in {"unknown", "undef"}

overdefined == markOverdefined(unknown).elem

\* The tag goes back to unknown; that the element was a guess, and its count, stay.
markUnknown(e) ==
    IF isUnknown(e) THEN Unchanged(e)
    ELSE Changed([e EXCEPT !.Tag = "unknown", !.ConstVal = None, !.Range = {}])

markUndef(e) == IF isUndef(e) THEN Unchanged(e) ELSE Changed([e EXCEPT !.Tag = "undef"])

\* markConstant of any constant.  An integer becomes a range of one element.
markConstantValue(e, c, mayIncludeUndef) ==
    CASE c = Undef -> markUndef(e)
      [] c # Undef /\ isConstant(e) -> Unchanged(e)
      [] c \in Ints /\ ~isConstant(e) ->
            markConstantRange(e, {c}, MergeOptions(mayIncludeUndef, FALSE, 1))
      [] c \in Consts /\ ~isConstant(e) -> markConstant(e, c)

markSpeculativeConstant(e, c) ==
    IF isSpecConstant(e) THEN Unchanged(e)
    ELSE Changed([e EXCEPT !.Tag = "constant", !.spec = TRUE, !.ConstVal = c, !.Range = {}])

\* As markConstantRange, but a range with one element, and one that is new, is a guess.
markSpeculativeConstantRange(e, r, opts) ==
    LET marked == markConstantRange(e, r, opts)
    IN IF r # Ints /\ (isConstantRange(e) => isSingleElement(e.Range))
       THEN [marked EXCEPT !.elem.spec = TRUE] ELSE marked

\* What the arguments beta of a tau say becomes the tau's guess, but only where the
\* safe operand x0 does not say as much.  (Where x0 is a range, beta is asked for its
\* own even when it has none, and the answer is not used.)
mergeInSpec(x0, beta, tau) ==
    IF isOverdefined(x0) \/ isNotConstant(x0)
       \/ (isConstantRange(x0) /\ x0.Range # beta.Range)
    THEN CASE isSpecConstant(beta) -> markSpeculativeConstant(tau, beta.ConstVal).elem
           [] isSpecRange(beta) ->
                markSpeculativeConstantRange(tau, beta.Range, DefaultOptions).elem
           [] OTHER -> tau
    ELSE tau

getRange(r) == markConstantRange(unknown, r, DefaultOptions).elem

----------------------------------------------------------------------------
(* How the solver reads an element.                                        *)

\* A constant, or a range with one element.
isConst(e) == isConstant(e) \/ (isConstantRange(e) /\ isSingleElement(e.Range))

isOverdef(e) == ~isUnknownOrUndef(e) /\ ~isConst(e) /\ ~isSpecConstant(e)

getConstant(e) == IF isConstant(e) THEN e.ConstVal ELSE CHOOSE n \in Ints : e.Range = {n}

\* The range of e, all integers if it has none.
RangeOf(e) == IF isConstantRange(e) THEN e.Range ELSE Ints
=============================================================================

--------------------------- MODULE PhiVisitProofs ---------------------------
(***************************************************************************)
(* Proofs about the speculative lattice and the visits of a phi, for       *)
(* integers of every width, every set of constants, every way to form the  *)
(* union of ranges that contains both, and phis of every degree.           *)
(***************************************************************************)
EXTENDS PhiVisit, TLAPS

Options == [MayIncludeUndef : BOOLEAN, CheckWiden : BOOLEAN, MaxWidenSteps : Nat]

Data(e) == <<e.Tag, e.spec, e.ConstVal, e.Range>>

\* What every operation of the lattice keeps to when it turns e into r.elem: the
\* result is an element, allows what e allowed, and a change is reported.
Climbs(e, r) ==
    /\ r.elem \in Elements
    /\ Meaning(e) \subseteq Meaning(r.elem)
    /\ ~r.changed => Data(r.elem) = Data(e)

----------------------------------------------------------------------------
(* The lattice.                                                            *)

\* What an element means, tag by tag.
LEMMA MeaningOf ==
    ASSUME NEW e
    PROVE  /\ e.Tag = "unknown" => Meaning(e) = {}
           /\ e.Tag = "undef" => Meaning(e) = {Undef}
           /\ e.Tag = "constant" => Meaning(e) = {e.ConstVal, Undef}
           /\ e.Tag = "notconstant" => Meaning(e) = (Ints \cup Consts) \ {e.ConstVal}
           /\ e.Tag = "constantrange" => Meaning(e) = e.Range
           /\ e.Tag = "constantrange_including_undef" => Meaning(e) = e.Range \cup {Undef}
           /\ e.Tag = "overdefined" => Meaning(e) = AllValues
BY DEF Meaning, isUnknown, isUndef, isConstant, isNotConstant, isOverdefined

\* What the type of an element says, field by field.
LEMMA ElementFields ==
    ASSUME NEW e
    PROVE  e \in Elements <=>
              /\ e = [Tag |-> e.Tag, spec |-> e.spec, ConstVal |-> e.ConstVal,
                      Range |-> e.Range, NumRangeExtensions |-> e.NumRangeExtensions]
              /\ e.Tag \in Tags /\ e.spec \in BOOLEAN
              /\ e.ConstVal \in Consts \cup {None}
              /\ e.Range \in Ranges \cup {{}}
              /\ e.NumRangeExtensions \in Counts
              /\ e.Tag \in ConstTags => e.ConstVal \in Consts
              /\ e.Tag \in RangeTags => e.Range \in Ranges \ {Ints}
BY DEF Elements, Element, Sound

\* No element allows more than overdefined does.
LEMMA MeaningBounded ==
    ASSUME NEW e \in Elements
    PROVE  Meaning(e) \subseteq AllValues
BY MeaningOf, ElementFields, RangesAssumption DEF AllValues, RangeTags, ConstTags, Tags

\* A copy is never speculative and means the same.
LEMMA CopyLemma ==
    ASSUME NEW e \in Elements
    PROVE  /\ Copied(e) \in Elements
           /\ Meaning(Copied(e)) = Meaning(e)
           /\ Copied(e).Tag = e.Tag
           /\ ~isGuess(Copied(e))
<1>1. /\ Copied(e) \in Elements
      /\ Copied(e).Tag = e.Tag
      /\ Copied(e).ConstVal = e.ConstVal /\ Copied(e).Range = e.Range
      /\ Copied(e).spec = FALSE
  <2>1. e.NumRangeExtensions \in Counts /\ 0 \in Counts
    BY DEF Elements, Element, Counts
  <2>2. (IF isConstantRange(e) THEN e.NumRangeExtensions ELSE 0) \in Counts
    BY <2>1
  <2>3. e \in Element /\ Sound(e)
    BY DEF Elements
  <2>4. Copied(e) \in Element
    BY <2>2, <2>3 DEF Element, Copied
  <2>5. /\ Copied(e).Tag = e.Tag
        /\ Copied(e).ConstVal = e.ConstVal /\ Copied(e).Range = e.Range
        /\ Copied(e).spec = FALSE
    BY <2>3 DEF Element, Copied
  <2> QED
    BY <2>3, <2>4, <2>5 DEF Elements, Sound
<1>2. Meaning(Copied(e)) = Meaning(e)
  <2>1. e.Tag \in Tags
    BY DEF Elements, Element
  <2> QED
    BY <1>1, <2>1, MeaningOf DEF Tags, ConstTags, RangeTags
<1> QED
  BY <1>1, <1>2 DEF isGuess, isSpecRange, isSpecConstant

\* markOverdefined gives an element that allows everything.
LEMMA OverdefinedLemma ==
    ASSUME NEW e \in Elements
    PROVE  /\ Climbs(e, markOverdefined(e))
           /\ markOverdefined(e).elem.Tag = "overdefined"
           /\ Meaning(markOverdefined(e).elem) = AllValues
<1>1. /\ markOverdefined(e).elem \in Elements
      /\ markOverdefined(e).elem.Tag = "overdefined"
  BY DEF Elements, Element, Sound, markOverdefined, Changed, Unchanged, isOverdefined,
     Tags, RangeTags, ConstTags
<1>2. Meaning(markOverdefined(e).elem) = AllValues
  BY <1>1, MeaningOf
<1>3. ~markOverdefined(e).changed => Data(markOverdefined(e).elem) = Data(e)
  BY DEF markOverdefined, Changed, Unchanged
<1> QED
  BY <1>1, <1>2, <1>3, MeaningBounded DEF Climbs

\* The tag that markConstantRange gives includes undef if the old one did.
LEMMA RangeTagLemma ==
    ASSUME NEW e, NEW opts
    PROVE  /\ RangeTag(e, opts) \in RangeTags
           /\ (e.Tag \in {"undef", "constantrange_including_undef"} \/ opts.MayIncludeUndef)
                 => RangeTag(e, opts) = "constantrange_including_undef"
BY DEF RangeTag, RangeTags

\* e in a range state.
WithRange(e, t, r, n) == [e EXCEPT !.Tag = t, !.Range = r, !.NumRangeExtensions = n]

\* A range state with sound data is an element, whose meaning is the range and perhaps undef.
LEMMA WithRangeLemma ==
    ASSUME NEW e \in Elements, NEW t \in RangeTags, NEW r \in Ranges, r # Ints,
           NEW n \in Counts
    PROVE  /\ WithRange(e, t, r, n) \in Elements
           /\ r \subseteq Meaning(WithRange(e, t, r, n))
           /\ t = "constantrange_including_undef" => Undef \in Meaning(WithRange(e, t, r, n))
           /\ WithRange(e, t, r, n).Tag = t /\ WithRange(e, t, r, n).Range = r
           /\ WithRange(e, t, r, n).spec = e.spec
           /\ WithRange(e, t, r, n).ConstVal = e.ConstVal
<1> DEFINE f == WithRange(e, t, r, n)
<1>1. e \in Element
  BY DEF Elements
<1>2. f \in Element
  BY <1>1 DEF Element, Tags, RangeTags, WithRange
<1>3. f.Tag = t /\ f.Range = r /\ f.spec = e.spec /\ f.ConstVal = e.ConstVal
  BY <1>1 DEF Element, WithRange
<1>4. f \in Elements
  BY <1>2, <1>3 DEF Elements, Sound, RangeTags, ConstTags
<1>5. /\ t = "constantrange" => Meaning(f) = r
      /\ t = "constantrange_including_undef" => Meaning(f) = r \cup {Undef}
  BY <1>3, MeaningOf
<1> HIDE DEF f
<1>6. r \subseteq Meaning(f) /\ (t = "constantrange_including_undef" => Undef \in Meaning(f))
  BY <1>5 DEF RangeTags
<1> QED
  BY <1>3, <1>4, <1>6 DEF f

\* markConstantRange, called as its assertions demand: on an element that is unknown or
\* undef, or with a range that contains the one there is.
LEMMA MarkRangeLemma ==
    ASSUME NEW e \in Elements, NEW r \in Ranges, NEW opts \in Options,
           \/ e.Tag \in {"unknown", "undef"}
           \/ e.Tag \in RangeTags /\ e.Range \subseteq r
    PROVE  LET m == markConstantRange(e, r, opts)
           IN /\ Climbs(e, m)
              /\ r \subseteq Meaning(m.elem)
              /\ opts.MayIncludeUndef => Undef \in Meaning(m.elem)
<1> DEFINE m == markConstantRange(e, r, opts)
           tag == RangeTag(e, opts)
<1>0. /\ e \in Element /\ e.NumRangeExtensions \in Counts /\ e.spec \in BOOLEAN
      /\ r \subseteq AllValues /\ Undef \in AllValues
      /\ 0 \in Counts
      /\ tag \in RangeTags
      /\ e.Tag \in RangeTags => e.Range \in Ranges \ {Ints}
  BY RangesAssumption, RangeTagLemma DEF Elements, Element, Sound, AllValues, Counts
<1>1. CASE r = Ints
  <2>1. m = markOverdefined(e)
    BY <1>1 DEF markConstantRange
  <2> QED
    BY <2>1, <1>0, OverdefinedLemma
<1>2. CASE r # Ints /\ e.Tag \in RangeTags /\ e.Range = r
  <2> DEFINE f == [e EXCEPT !.Tag = tag]
  <2>1. m = [elem |-> f, changed |-> tag # e.Tag]
    BY <1>2 DEF markConstantRange, SameRange, isConstantRange
  <2>2. f = WithRange(e, tag, r, e.NumRangeExtensions)
    BY <1>0, <1>2 DEF Element, WithRange
  <2> HIDE DEF f, tag
  <2>3. /\ f \in Elements /\ f.Tag = tag /\ f.Range = r /\ f.spec = e.spec
        /\ f.ConstVal = e.ConstVal
        /\ r \subseteq Meaning(f)
        /\ tag = "constantrange_including_undef" => Undef \in Meaning(f)
    BY <1>0, <1>2, <2>2, WithRangeLemma
  <2>4. Meaning(e) \subseteq r \cup {Undef} /\ (e.Tag = "constantrange" => Meaning(e) = r)
    BY <1>2, MeaningOf DEF RangeTags
  <2>5. Meaning(e) \subseteq Meaning(f)
    BY <1>2, <2>3, <2>4, RangeTagLemma DEF RangeTags, tag
  <2>6. opts.MayIncludeUndef => Undef \in Meaning(f)
    BY <2>3, RangeTagLemma DEF tag
  <2> HIDE DEF m
  <2>7. m.elem = f /\ (~m.changed => Data(f) = Data(e))
    BY <2>1, <2>3, <1>2 DEF Data
  <2> QED
    BY <2>3, <2>5, <2>6, <2>7 DEF Climbs, m
<1>3. CASE r # Ints /\ e.Tag \in RangeTags /\ e.Range # r
  <2> DEFINE count == (e.NumRangeExtensions + 1) % 256
             widened == [e EXCEPT !.NumRangeExtensions = count]
             n == IF opts.CheckWiden THEN count ELSE e.NumRangeExtensions
             f == WithRange(e, tag, r, n)
  <2>1. m = IF opts.CheckWiden /\ count > opts.MaxWidenSteps
            THEN markOverdefined(widened) ELSE [elem |-> f, changed |-> TRUE]
    BY <1>0, <1>3 DEF markConstantRange, Extended, isConstantRange, Changed, Element, WithRange
  <2>2. count \in Counts /\ n \in Counts
    BY <1>0 DEF Counts
  <2>3. CASE opts.CheckWiden /\ count > opts.MaxWidenSteps
    <3>1. widened \in Element
      BY <1>0, <2>2 DEF Element
    <3>2. widened.Tag = e.Tag /\ widened.ConstVal = e.ConstVal /\ widened.Range = e.Range
      BY <1>0 DEF Element
    <3>3. widened \in Elements
      BY <3>1, <3>2 DEF Elements, Sound
    <3>4. m = markOverdefined(widened)
      BY <2>1, <2>3
    <3>5. m.changed = TRUE
      BY <1>3, <3>2, <3>4 DEF markOverdefined, isOverdefined, Changed, RangeTags
    <3> QED
      BY <1>0, <3>3, <3>4, <3>5, OverdefinedLemma, MeaningBounded DEF Climbs
  <2>4. CASE ~(opts.CheckWiden /\ count > opts.MaxWidenSteps)
    <3>1. m = [elem |-> f, changed |-> TRUE]
      BY <2>1, <2>4
    <3> HIDE DEF n, count, tag
    <3>2. /\ f \in Elements /\ f.Tag = tag /\ f.Range = r
          /\ r \subseteq Meaning(f)
          /\ tag = "constantrange_including_undef" => Undef \in Meaning(f)
      BY <1>0, <1>3, <2>2, WithRangeLemma
    <3> HIDE DEF f
    <3>3. /\ e.Tag = "constantrange" => Meaning(e) \subseteq r
          /\ e.Tag = "constantrange_including_undef" => Meaning(e) \subseteq r \cup {Undef}
      BY <1>3, MeaningOf DEF RangeTags
    <3>4. Meaning(e) \subseteq Meaning(f)
      BY <1>3, <3>2, <3>3, RangeTagLemma DEF RangeTags, tag
    <3>5. opts.MayIncludeUndef => Undef \in Meaning(f)
      BY <3>2, RangeTagLemma DEF tag
    <3> HIDE DEF m
    <3> QED
      BY <3>1, <3>2, <3>4, <3>5 DEF Climbs, m
  <2> QED
    BY <2>3, <2>4
<1>4. CASE r # Ints /\ e.Tag \notin RangeTags
  <2> DEFINE f == WithRange(e, tag, r, 0)
  <2>1. m = [elem |-> f, changed |-> TRUE]
    BY <1>4 DEF markConstantRange, isConstantRange, Changed, WithRange
  <2>2. /\ f \in Elements /\ r \subseteq Meaning(f)
        /\ tag = "constantrange_including_undef" => Undef \in Meaning(f)
    BY <1>0, <1>4, WithRangeLemma
  <2> HIDE DEF f, tag
  <2>3. /\ e.Tag = "unknown" => Meaning(e) = {}
        /\ e.Tag = "undef" => Meaning(e) = {Undef}
    BY MeaningOf
  <2>4. Meaning(e) \subseteq Meaning(f)
    BY <1>4, <2>2, <2>3, RangeTagLemma DEF tag
  <2>5. opts.MayIncludeUndef => Undef \in Meaning(f)
    BY <2>2, RangeTagLemma DEF tag
  <2> HIDE DEF m
  <2> QED
    BY <2>1, <2>2, <2>4, <2>5 DEF Climbs, m
<1> QED
  BY <1>1, <1>2, <1>3, <1>4

\* mergeIn "updates this object to approximate both this object and RHS", provided that
\* RHS is not speculative.
Merges(e, rhs, r) == Climbs(e, r) /\ Meaning(rhs) \subseteq Meaning(r.elem)

\* mergeIn into constant or notconstant covers both sides.
LEMMA MergeConstLemma ==
    ASSUME NEW e \in Elements, NEW rhs \in Elements, e.Tag \in ConstTags,
           rhs.Tag # "unknown"
    PROVE  Merges(e, rhs, MergedConst(e, rhs))
<1>1. CASE rhs.Tag = e.Tag /\ rhs.ConstVal = e.ConstVal
  <2>1. MergedConst(e, rhs) = [elem |-> e, changed |-> FALSE]
    BY <1>1 DEF MergedConst, Unchanged
  <2>2. Meaning(rhs) = Meaning(e)
    BY <1>1, MeaningOf DEF ConstTags
  <2> QED
    BY <2>1, <2>2 DEF Merges, Climbs
<1>2. CASE isConstant(e) /\ isUndef(rhs)
  <2>1. MergedConst(e, rhs) = [elem |-> e, changed |-> FALSE]
    BY <1>2 DEF MergedConst, Unchanged
  <2>2. Meaning(rhs) = {Undef} /\ Meaning(e) = {e.ConstVal, Undef}
    BY <1>2, MeaningOf DEF isConstant, isUndef
  <2> QED
    BY <2>1, <2>2 DEF Merges, Climbs
<1>3. CASE ~(rhs.Tag = e.Tag /\ rhs.ConstVal = e.ConstVal) /\ ~(isConstant(e) /\ isUndef(rhs))
  <2>1. MergedConst(e, rhs) = markOverdefined(e)
    BY <1>3 DEF MergedConst
  <2> QED
    BY <2>1, OverdefinedLemma, MeaningBounded DEF Merges
<1> QED
  BY <1>1, <1>2, <1>3

\* mergeIn into undef covers both sides.
LEMMA MergeUndefLemma ==
    ASSUME NEW e \in Elements, NEW rhs \in Elements, NEW opts \in Options,
           e.Tag = "undef", rhs.Tag \notin {"unknown", "overdefined"}
    PROVE  Merges(e, rhs, MergedUndef(e, rhs, opts))
<1>0. Meaning(e) = {Undef} /\ rhs.Tag \in Tags
  BY MeaningOf DEF Elements, Element
<1>1. CASE rhs.Tag = "undef"
  <2>1. MergedUndef(e, rhs, opts) = [elem |-> e, changed |-> FALSE]
    BY <1>1 DEF MergedUndef, isUndef, isConstant, isConstantRange, isNotConstant,
       RangeTags, Unchanged
  <2>2. Meaning(rhs) = {Undef}
    BY <1>1, MeaningOf
  <2> QED
    BY <1>0, <2>1, <2>2 DEF Merges, Climbs
<1>2. CASE rhs.Tag = "constant"
  <2> DEFINE f == [e EXCEPT !.Tag = "constant", !.ConstVal = rhs.ConstVal]
  <2>1. MergedUndef(e, rhs, opts) = [elem |-> f, changed |-> TRUE]
    BY <1>2 DEF MergedUndef, isUndef, isConstant, isConstantRange, isNotConstant,
       RangeTags, markConstant, Changed
  <2>2. e \in Element /\ rhs \in Element /\ rhs.ConstVal \in Consts
    BY <1>2 DEF Elements, Sound, ConstTags
  <2>3. f \in Element /\ f.Tag = "constant" /\ f.ConstVal = rhs.ConstVal
    BY <2>2 DEF Element, Tags, ConstTags
  <2>4. f \in Elements
    BY <2>2, <2>3 DEF Elements, Sound, ConstTags, RangeTags
  <2>5. Meaning(f) = {rhs.ConstVal, Undef} /\ Meaning(rhs) = {rhs.ConstVal, Undef}
    BY <1>2, <2>3, MeaningOf
  <2> HIDE DEF f
  <2> QED
    BY <1>0, <2>1, <2>4, <2>5 DEF Merges, Climbs
<1>3. CASE rhs.Tag \in RangeTags
  <2> DEFINE o == [opts EXCEPT !.MayIncludeUndef = TRUE]
  <2>1. MergedUndef(e, rhs, opts) = markConstantRange(e, rhs.Range, o)
    BY <1>3 DEF MergedUndef, isUndef, isConstant, isConstantRange, isNotConstant, RangeTags
  <2>2. o \in Options /\ o.MayIncludeUndef
    BY DEF Options
  <2>3. rhs.Range \in Ranges
    BY <1>3 DEF Elements, Sound
  <2>4. Meaning(rhs) \subseteq rhs.Range \cup {Undef}
    BY <1>3, MeaningOf DEF RangeTags
  <2> HIDE DEF o
  <2> QED
    BY <2>1, <2>2, <2>3, <2>4, MarkRangeLemma DEF Merges
<1>4. CASE rhs.Tag = "notconstant"
  <2>1. MergedUndef(e, rhs, opts) = markOverdefined(e)
    BY <1>4 DEF MergedUndef, isUndef, isConstant, isConstantRange, isNotConstant, RangeTags
  <2> QED
    BY <2>1, OverdefinedLemma, MeaningBounded DEF Merges
<1> QED
  BY <1>0, <1>1, <1>2, <1>3, <1>4 DEF Tags, ConstTags, RangeTags

\* mergeIn into a range covers both sides.
LEMMA MergeRangeLemma ==
    ASSUME NEW e \in Elements, NEW rhs \in Elements, NEW opts \in Options,
           e.Tag \in RangeTags, rhs.Tag \notin {"unknown", "overdefined"}
    PROVE  Merges(e, rhs, MergedRange(e, rhs, opts))
<1>0. /\ e \in Element /\ rhs \in Element
      /\ e.Range \in Ranges /\ e.Range # Ints /\ rhs.Tag \in Tags
      /\ e.NumRangeExtensions \in Counts
      /\ Meaning(e) \subseteq e.Range \cup {Undef}
  BY MeaningOf DEF Elements, Element, Sound, RangeTags
<1>1. CASE rhs.Tag = "undef"
  <2> DEFINE undefToo == "constantrange_including_undef"
             f == [e EXCEPT !.Tag = undefToo]
  <2>1. MergedRange(e, rhs, opts) = [elem |-> f, changed |-> e.Tag # undefToo]
    BY <1>1 DEF MergedRange, isUndef, isConstantRange, RangeTags, ConstTags
  <2>2. f = WithRange(e, undefToo, e.Range, e.NumRangeExtensions)
    BY <1>0 DEF Element, WithRange
  <2>3. Meaning(rhs) = {Undef}
    BY <1>1, MeaningOf
  <2>4. undefToo \in RangeTags
    BY DEF RangeTags
  <2> HIDE DEF f
  <2>5. /\ f \in Elements /\ f.Tag = undefToo /\ f.Range = e.Range
        /\ f.spec = e.spec /\ f.ConstVal = e.ConstVal
        /\ e.Range \subseteq Meaning(f) /\ Undef \in Meaning(f)
    BY <1>0, <2>2, <2>4, WithRangeLemma
  <2> DEFINE m == MergedRange(e, rhs, opts)
  <2>6. m.elem = f /\ (~m.changed => e.Tag = undefToo)
    <3> DEFINE differs == (e.Tag # undefToo)
    <3>1. m = [elem |-> f, changed |-> differs]
      BY <2>1
    <3>2. ~differs => e.Tag = undefToo
      OBVIOUS
    <3> HIDE DEF differs, m
    <3> QED
      BY <3>1, <3>2
  <2>7. ~m.changed => Data(m.elem) = Data(e)
    BY <2>5, <2>6 DEF Data
  <2> HIDE DEF m
  <2>8. Meaning(e) \subseteq Meaning(m.elem) /\ Meaning(rhs) \subseteq Meaning(m.elem)
    BY <1>0, <2>3, <2>5, <2>6
  <2> QED
    BY <2>5, <2>6, <2>7, <2>8 DEF Merges, Climbs, m
<1>2. CASE rhs.Tag \in RangeTags
  <2> DEFINE r == UnionWith(e.Range, rhs.Range)
             o == [opts EXCEPT !.MayIncludeUndef = (rhs.Tag = "constantrange_including_undef")]
  <2>1. MergedRange(e, rhs, opts) = markConstantRange(e, r, o)
    BY <1>2 DEF MergedRange, isUndef, isConstantRange, RangeTags, ConstTags
  <2>2. o \in Options
    BY DEF Options
  <2>3. o.MayIncludeUndef <=> rhs.Tag = "constantrange_including_undef"
    BY DEF Options
  <2>4. rhs.Range \in Ranges
    BY <1>2 DEF Elements, Sound
  <2>5. r \in Ranges /\ e.Range \subseteq r /\ rhs.Range \subseteq r
    BY <1>0, <2>4, RangesAssumption
  <2>6. /\ rhs.Tag = "constantrange" => Meaning(rhs) = rhs.Range
        /\ rhs.Tag = "constantrange_including_undef" => Meaning(rhs) = rhs.Range \cup {Undef}
    BY MeaningOf
  <2> HIDE DEF o, r
  <2>7. /\ Climbs(e, markConstantRange(e, r, o))
        /\ r \subseteq Meaning(markConstantRange(e, r, o).elem)
        /\ o.MayIncludeUndef => Undef \in Meaning(markConstantRange(e, r, o).elem)
    BY <2>2, <2>5, MarkRangeLemma
  <2> QED
    BY <1>2, <2>1, <2>3, <2>5, <2>6, <2>7 DEF Merges, RangeTags
<1>3. CASE rhs.Tag \in ConstTags
  <2>1. MergedRange(e, rhs, opts) = markOverdefined(e)
    BY <1>3 DEF MergedRange, isUndef, isConstantRange, RangeTags, ConstTags
  <2> QED
    BY <2>1, OverdefinedLemma, MeaningBounded DEF Merges
<1> QED
  BY <1>0, <1>1, <1>2, <1>3 DEF Tags

\* mergeIn of an element that is not speculative covers both sides.
LEMMA MergeLemma ==
    ASSUME NEW e \in Elements, NEW rhs \in Elements, ~isGuess(rhs), NEW opts \in Options
    PROVE  Merges(e, rhs, mergeIn(e, rhs, opts))
<1>0. e.Tag \in Tags /\ rhs.Tag \in Tags
  BY DEF Elements, Element
<1>1. CASE isUnknown(rhs) \/ isOverdefined(e)
  <2>1. mergeIn(e, rhs, opts) = [elem |-> e, changed |-> FALSE]
    BY <1>1 DEF mergeIn, Unchanged, isUnknown, isOverdefined
  <2>2. Meaning(rhs) \subseteq Meaning(e)
    BY <1>1, MeaningOf, MeaningBounded DEF isUnknown, isOverdefined
  <2> QED
    BY <2>1, <2>2 DEF Merges, Climbs
<1>2. CASE ~(isUnknown(rhs) \/ isOverdefined(e)) /\ isOverdefined(rhs)
  <2>1. mergeIn(e, rhs, opts) = markOverdefined(e)
    BY <1>2 DEF mergeIn
  <2> QED
    BY <2>1, OverdefinedLemma, MeaningBounded DEF Merges
<1>3. CASE ~(isUnknown(rhs) \/ isOverdefined(e)) /\ ~isOverdefined(rhs)
  <2>0. mergeIn(e, rhs, opts) =
          CASE isUndef(e) -> MergedUndef(e, rhs, opts)
            [] isUnknown(e) -> Changed(Copied(rhs))
            [] e.Tag \in ConstTags -> MergedConst(e, rhs)
            [] isConstantRange(e) -> MergedRange(e, rhs, opts)
    BY <1>3 DEF mergeIn
  <2>1. CASE e.Tag = "undef"
    <3>1. mergeIn(e, rhs, opts) = MergedUndef(e, rhs, opts)
      BY <2>0, <2>1 DEF isUndef, isUnknown, isConstantRange, ConstTags, RangeTags
    <3> QED
      BY <1>3, <2>1, <3>1, MergeUndefLemma DEF isUnknown, isOverdefined
  <2>2. CASE e.Tag = "unknown"
    <3>1. mergeIn(e, rhs, opts) = [elem |-> Copied(rhs), changed |-> TRUE]
      BY <2>0, <2>2 DEF isUndef, isUnknown, isConstantRange, ConstTags, RangeTags, Changed
    <3>2. Meaning(e) = {}
      BY <2>2, MeaningOf
    <3> QED
      BY <3>1, <3>2, CopyLemma DEF Merges, Climbs
  <2>3. CASE e.Tag \in ConstTags
    <3>1. mergeIn(e, rhs, opts) = MergedConst(e, rhs)
      BY <2>0, <2>3 DEF isUndef, isUnknown, isConstantRange, ConstTags, RangeTags
    <3> QED
      BY <1>3, <2>3, <3>1, MergeConstLemma DEF isUnknown
  <2>4. CASE e.Tag \in RangeTags
    <3>1. mergeIn(e, rhs, opts) = MergedRange(e, rhs, opts)
      BY <2>0, <2>4 DEF isUndef, isUnknown, isConstantRange, ConstTags, RangeTags
    <3> QED
      BY <1>3, <2>4, <3>1, MergeRangeLemma DEF isUnknown, isOverdefined
  <2> QED
    BY <1>0, <1>3, <2>1, <2>2, <2>3, <2>4 DEF Tags, isOverdefined
<1> QED
  BY <1>1, <1>2, <1>3

----------------------------------------------------------------------------
(* The visits of a phi.                                                    *)

\* While operands are merged, the working copy allows what the phi allows and what the
\* operands merged so far allow.
InProgress ==
    pc = "merge" =>
        /\ Meaning(phi) \subseteq Meaning(PhiState)
        /\ \A k \in KnownFeasibleEdges :
              k < i => Meaning(incoming[k]) \subseteq Meaning(PhiState)

Inv == TypeOK /\ PhiCovers /\ InProgress

\* Every value starts with an element.
LEMMA UnknownLemma == unknown \in Elements
BY DEF unknown, Elements, Element, Sound, Tags, ConstTags, RangeTags, Counts

\* The invariant holds at the start.
LEMMA InitLemma == Init => Inv
<1> SUFFICES ASSUME Init PROVE Inv
  OBVIOUS
<1>1. degree \in Nat \ {0}
  BY PhiAssumption DEF Init
<1>2. i \in 1..(degree + 1) /\ NumActiveIncoming \in 0..(i - 1)
  BY <1>1 DEF Init
<1>3. TypeOK
  BY <1>2, UnknownLemma DEF Init, TypeOK
<1> QED
  BY <1>3 DEF Init, Inv, PhiCovers, InProgress

\* The operands are elements.
LEMMA OperandLemma ==
    ASSUME TypeOK, NEW k \in 1..degree
    PROVE  incoming[k] \in Elements
BY PhiAssumption DEF TypeOK

\* The options of the merge of an operand are options.
LEMMA DefaultOptionsLemma == DefaultOptions \in Options
BY DEF DefaultOptions, MergeOptions, Options

\* Raising the count changes neither the type nor the meaning.
LEMMA CountedLemma ==
    ASSUME NEW e \in Elements, NumActiveIncoming \in Counts
    PROVE  /\ Counted(e) \in Elements
           /\ Meaning(Counted(e)) = Meaning(e)
           /\ Data(Counted(e)) = Data(e)
<1> DEFINE n == IF e.NumRangeExtensions < NumActiveIncoming
                THEN NumActiveIncoming ELSE e.NumRangeExtensions
           f == [e EXCEPT !.NumRangeExtensions = n]
<1>1. e \in Element /\ Sound(e) /\ n \in Counts
  BY DEF Elements, Element
<1>2. Counted(e) = f
  BY DEF Counted
<1> HIDE DEF n
<1>3. f \in Element /\ f.Tag = e.Tag /\ f.spec = e.spec /\ f.ConstVal = e.ConstVal
      /\ f.Range = e.Range
  BY <1>1 DEF Element
<1>4. f \in Elements /\ Data(f) = Data(e)
  BY <1>1, <1>3 DEF Elements, Sound, Data
<1>5. e.Tag \in Tags
  BY <1>1 DEF Element
<1> HIDE DEF f
<1>6. Meaning(f) = Meaning(e)
  BY <1>3, <1>5, MeaningOf DEF Tags, ConstTags, RangeTags
<1> QED
  BY <1>2, <1>4, <1>6

\* What the last step of a visit stores.
LEMMA StoredLemma ==
    ASSUME TypeOK, pc = "merge"
    PROVE  /\ Counted(MergedValue.elem) \in Elements
           /\ Meaning(phi) \subseteq Meaning(Counted(MergedValue.elem))
           /\ Meaning(PhiState) \subseteq Meaning(Counted(MergedValue.elem))
           /\ ~MergedValue.changed => Data(Counted(MergedValue.elem)) = Data(phi)
<1> DEFINE opts == MergeOptions(FALSE, TRUE, NumActiveIncoming + 1)
<1>1. phi \in Elements /\ PhiState \in Elements
  BY DEF TypeOK
<1>2. NumActiveIncoming \in Counts /\ NumActiveIncoming + 1 \in Nat
  BY PhiAssumption DEF TypeOK, Counts
<1>3. opts \in Options
  BY <1>2 DEF MergeOptions, Options
<1> HIDE DEF opts
<1>4. Merges(phi, Copied(PhiState), mergeIn(phi, Copied(PhiState), opts))
  BY <1>1, <1>3, CopyLemma, MergeLemma
<1>5. MergedValue = mergeIn(phi, Copied(PhiState), opts)
  BY DEF MergedValue, opts
<1> QED
  BY <1>1, <1>2, <1>4, <1>5, CopyLemma, CountedLemma DEF Merges, Climbs

\* One step of the solver or of the visit.
LEMMA StepLemma == Inv /\ [Next]_vars => Inv'
<1> SUFFICES ASSUME Inv, [Next]_vars PROVE Inv'
  OBVIOUS
<1> USE DEF Inv
<1>0. degree \in Nat \ {0} /\ TypeOK
  BY PhiAssumption DEF TypeOK
<1>1. ASSUME NEW k \in 1..degree, markEdgeExecutable(k) PROVE Inv'
  <2>1. TypeOK'
    BY <1>1 DEF TypeOK, markEdgeExecutable
  <2> QED
    BY <1>1, <2>1 DEF PhiCovers, InProgress, markEdgeExecutable
<1>2. ASSUME NEW k \in 1..degree, OperandChanges(k) PROVE Inv'
  <2>1. TypeOK'
    BY <1>2 DEF TypeOK, OperandChanges
  <2> QED
    BY <1>2, <2>1 DEF PhiCovers, InProgress, OperandChanges
<1>3. CASE operandChangedState
  <2>1. TypeOK'
    BY <1>3 DEF TypeOK, operandChangedState, solverVars
  <2> QED
    BY <1>3, <2>1 DEF PhiCovers, InProgress, operandChangedState, solverVars
<1>4. CASE markUsersAsChanged
  <2>1. TypeOK'
    BY <1>4 DEF TypeOK, markUsersAsChanged
  <2> QED
    BY <1>4, <2>1 DEF PhiCovers, InProgress, markUsersAsChanged
<1>5. CASE AlreadyOverdefined
  <2>1. TypeOK'
    BY <1>5 DEF TypeOK, AlreadyOverdefined, Returns
  <2>2. Meaning(phi') = AllValues
    BY <1>5, MeaningOf DEF AlreadyOverdefined, Returns, isOverdefined
  <2>3. \A k \in KnownFeasibleEdges' : Meaning(incoming'[k]) \subseteq AllValues
    BY <1>0, <1>5, OperandLemma, MeaningBounded DEF TypeOK, AlreadyOverdefined, Returns
  <2> QED
    BY <1>5, <2>1, <2>2, <2>3 DEF PhiCovers, InProgress, AlreadyOverdefined, Returns
<1>6. CASE TooManyOperands
  <2>1. /\ phi' = markOverdefined(phi).elem
        /\ queued' = (queued \/ markOverdefined(phi).changed)
        /\ due' = FALSE /\ pc' = "idle"
        /\ UNCHANGED <<degree, incoming, KnownFeasibleEdges, i, PhiState, NumActiveIncoming>>
    BY <1>6 DEF TooManyOperands, Returns
  <2>2. phi' \in Elements /\ Meaning(phi') = AllValues
    BY <1>0, <2>1, OverdefinedLemma DEF TypeOK, Climbs
  <2>3. TypeOK'
    BY <2>1, <2>2 DEF TypeOK
  <2>4. \A k \in KnownFeasibleEdges' : Meaning(incoming'[k]) \subseteq AllValues
    BY <1>0, <2>1, OperandLemma, MeaningBounded DEF TypeOK
  <2> QED
    BY <2>1, <2>2, <2>3, <2>4 DEF PhiCovers, InProgress
<1>7. CASE StartMerging
  <2>1. Copied(phi) \in Elements /\ Meaning(Copied(phi)) = Meaning(phi)
    BY CopyLemma DEF TypeOK
  <2>2. TypeOK'
    BY <1>0, <1>7, <2>1 DEF TypeOK, StartMerging, solverVars
  <2>3. InProgress'
    BY <1>7, <2>1 DEF TypeOK, InProgress, StartMerging, solverVars
  <2> QED
    BY <1>7, <2>2, <2>3 DEF PhiCovers, StartMerging, solverVars
<1>8. CASE SkipOperand
  <2>1. TypeOK'
    BY <1>0, <1>8 DEF TypeOK, SkipOperand, Merging, solverVars
  <2>2. \A k \in KnownFeasibleEdges : k < i + 1 => k < i
    BY <1>0, <1>8 DEF TypeOK, SkipOperand
  <2> QED
    BY <1>8, <2>1, <2>2 DEF PhiCovers, InProgress, SkipOperand, Merging, solverVars
<1>9. CASE MergeOperand
  <2> DEFINE operand == Copied(incoming[i])
             merged == mergeIn(PhiState, operand, DefaultOptions)
  <2>1. i \in 1..degree /\ incoming[i] \in Elements
    BY <1>0, <1>9, OperandLemma DEF TypeOK, MergeOperand
  <2>2. operand \in Elements /\ ~isGuess(operand) /\ Meaning(operand) = Meaning(incoming[i])
    BY <2>1, CopyLemma
  <2> HIDE DEF operand
  <2>3. Merges(PhiState, operand, merged)
    BY <2>2, MergeLemma, DefaultOptionsLemma DEF TypeOK
  <2>4. PhiState' = merged.elem
    BY <1>9 DEF MergeOperand, operand
  <2> HIDE DEF merged
  <2>5. /\ PhiState' \in Elements
        /\ Meaning(PhiState) \subseteq Meaning(PhiState')
        /\ Meaning(incoming[i]) \subseteq Meaning(PhiState')
    BY <2>2, <2>3, <2>4 DEF Merges, Climbs
  <2>6. TypeOK'
    BY <1>0, <1>9, <2>5 DEF TypeOK, MergeOperand, Merging, solverVars
  <2>7. \A k \in KnownFeasibleEdges : k < i + 1 => k < i \/ k = i
    BY <1>0, <1>9 DEF TypeOK, MergeOperand
  <2>8. InProgress'
    BY <1>9, <2>5, <2>7 DEF InProgress, MergeOperand, Merging, solverVars
  <2> QED
    BY <1>9, <2>6, <2>8 DEF PhiCovers, MergeOperand, Merging, solverVars
<1>10. CASE FinishMerging
  <2>1. /\ phi' = Counted(MergedValue.elem)
        /\ queued' = (queued \/ MergedValue.changed)
        /\ due' = FALSE /\ pc' = "idle" /\ pc = "merge"
        /\ UNCHANGED <<degree, incoming, KnownFeasibleEdges, i, PhiState, NumActiveIncoming>>
    BY <1>10 DEF FinishMerging, Returns
  <2>2. phi' \in Elements /\ Meaning(PhiState) \subseteq Meaning(phi')
    BY <1>0, <2>1, StoredLemma
  <2>3. \A k \in KnownFeasibleEdges : Meaning(incoming[k]) \subseteq Meaning(PhiState)
    <3>1. CASE i > degree
      BY <1>0, <2>1, <3>1 DEF InProgress, TypeOK
    <3>2. CASE isOverdefined(PhiState)
      BY <1>0, <3>2, OperandLemma, MeaningOf, MeaningBounded DEF TypeOK, isOverdefined
    <3> QED
      BY <1>10, <3>1, <3>2 DEF FinishMerging
  <2>4. TypeOK'
    BY <2>1, <2>2 DEF TypeOK
  <2> QED
    BY <2>1, <2>2, <2>3, <2>4 DEF PhiCovers, InProgress
<1>11. CASE UNCHANGED vars
  BY <1>11 DEF vars, solverVars, TypeOK, PhiCovers, InProgress
<1> QED
  BY <1>1, <1>2, <1>3, <1>4, <1>5, <1>6, <1>7, <1>8, <1>9, <1>10, <1>11 DEF Next

\* The inductive invariant holds in every state.
THEOREM Invariance == Spec => []Inv
<1>1. Init => Inv
  BY InitLemma
<1>2. Inv /\ [Next]_vars => Inv'
  BY StepLemma
<1> QED
  BY <1>1, <1>2, PTL DEF Spec

\* Whatever the width of the integers and the degree of the phi, elements stay well
\* formed and a visit stays within the phi's operands.
THEOREM TypeCorrect == Spec => []TypeOK
BY Invariance, PTL DEF Inv

\* A phi with no visit due allows every value of its operands on feasible edges.
THEOREM PhiAlwaysCovers == Spec => []PhiCovers
BY Invariance, PTL DEF Inv

\* How a step may change the phi: not at all, to overdefined, or by a merge.
LEMMA PhiStepLemma ==
    ASSUME Inv, [Next]_vars
    PROVE  /\ Meaning(phi) \subseteq Meaning(phi')
           /\ Data(phi') # Data(phi) => queued'
<1> USE DEF Inv
<1>0. phi \in Elements
  BY DEF TypeOK
<1>1. CASE UNCHANGED phi
  BY <1>1
<1>2. CASE TooManyOperands
  <2>1. phi' = markOverdefined(phi).elem /\ queued' = (queued \/ markOverdefined(phi).changed)
    BY <1>2 DEF TooManyOperands, Returns
  <2> QED
    BY <1>0, <2>1, OverdefinedLemma DEF Climbs
<1>3. CASE FinishMerging
  <2>1. /\ pc = "merge"
        /\ phi' = Counted(MergedValue.elem)
        /\ queued' = (queued \/ MergedValue.changed)
    BY <1>3 DEF FinishMerging, Returns
  <2> QED
    BY <2>1, StoredLemma
<1>4. UNCHANGED phi \/ TooManyOperands \/ FinishMerging
  BY DEF Next, vars, solverVars, markEdgeExecutable, OperandChanges, operandChangedState,
     markUsersAsChanged, AlreadyOverdefined, Returns, StartMerging, SkipOperand, MergeOperand
<1> QED
  BY <1>1, <1>2, <1>3, <1>4

\* A phi never gives up a value it has allowed.
THEOREM PhiAlwaysClimbs == Spec => PhiClimbs
<1>1. Inv /\ [Next]_vars => [Meaning(phi) \subseteq Meaning(phi')]_vars
  BY PhiStepLemma
<1> QED
  BY <1>1, Invariance, PTL DEF Spec, PhiClimbs

\* A phi whose element changes is queued, so that its users are visited.
THEOREM ChangesAlwaysQueued == Spec => ChangesQueued
<1>1. Inv /\ [Next]_vars =>
        [<<phi.Tag, phi.spec, phi.ConstVal, phi.Range>>'
            # <<phi.Tag, phi.spec, phi.ConstVal, phi.Range>> => queued']_vars
  BY PhiStepLemma DEF Data
<1> QED
  BY <1>1, Invariance, PTL DEF Spec, ChangesQueued
=============================================================================

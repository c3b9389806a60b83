------------------------------ MODULE PhiVisit ------------------------------
(***************************************************************************)
(* visitPHINode of src/SCCPSolverTau.cpp: how the solver keeps the element *)
(* of one phi up to date.  The phi is visited when its block is taken off  *)
(* the block work list, when another edge into its block becomes feasible, *)
(* and when one of its operands has been taken off an instruction work     *)
(* list.  The operands are the rest of the function: they change to any    *)
(* element of Operands, down as well as up (visitTauNode resets a tau to   *)
(* unknown), and each change is followed by a visit some time later.       *)
(***************************************************************************)
EXTENDS SpecLattice

CONSTANTS Degrees,     \* how many operands the phi may have
          HighDegree,  \* with more of them it is overdefined: 64 in the code
          Operands     \* the elements its operands go through

ASSUME PhiAssumption ==
    /\ Degrees \subseteq Nat \ {0}
    /\ HighDegree \in 1..254
    /\ Operands \subseteq Elements

VARIABLES
    degree,            \* getNumIncomingValues()
    incoming,          \* the elements of its operands
    KnownFeasibleEdges,\* the edges into its block that are feasible
    phi,               \* its element in ValueState
    due,               \* an operand or its block waits in a work list
    queued,            \* it waits in a work list itself, for its users to be visited
    pc,                \* where visitPHINode is, or "idle"
    i,                 \* the operand it looks at next
    PhiState,          \* its working copy of the element
    NumActiveIncoming  \* how many operands it has merged

solverVars == <<degree, incoming, KnownFeasibleEdges, phi, due, queued>>
vars == <<solverVars, pc, i, PhiState, NumActiveIncoming>>

BBExecutable == KnownFeasibleEdges # {}

Init ==
    /\ degree \in Degrees
    /\ incoming \in [1..degree -> Operands]
    /\ KnownFeasibleEdges = {}
    /\ phi = unknown
    /\ due = FALSE
    /\ queued = FALSE
    /\ pc = "idle"
    /\ i = 1
    /\ PhiState = unknown
    /\ NumActiveIncoming = 0

----------------------------------------------------------------------------
(* The rest of the solver.                                                 *)

\* The first edge puts the block in the block work list; others visit the phi at once.
markEdgeExecutable(k) ==
    /\ pc = "idle"
    /\ k \notin KnownFeasibleEdges
    /\ KnownFeasibleEdges' = KnownFeasibleEdges \cup {k}
    /\ due' = TRUE
    /\ pc' = IF BBExecutable THEN "visit" ELSE "idle"
    /\ UNCHANGED <<degree, incoming, phi, queued, i, PhiState, NumActiveIncoming>>

\* An operand changes and is pushed to a work list.
OperandChanges(k) ==
    /\ pc = "idle"
    /\ \E e \in Operands : incoming' = [incoming EXCEPT ![k] = e]
    /\ due' = TRUE
    /\ UNCHANGED <<degree, KnownFeasibleEdges, phi, queued, pc, i, PhiState,
                   NumActiveIncoming>>

\* operandChangedState, or the block is taken off its work list.
operandChangedState ==
    /\ pc = "idle"
    /\ BBExecutable
    /\ pc' = "visit"
    /\ UNCHANGED <<solverVars, i, PhiState, NumActiveIncoming>>

\* The phi is taken off its work list and its users are visited.
markUsersAsChanged ==
    /\ pc = "idle" /\ queued
    /\ queued' = FALSE
    /\ UNCHANGED <<degree, incoming, KnownFeasibleEdges, phi, due, pc, i, PhiState,
                   NumActiveIncoming>>

----------------------------------------------------------------------------
(* visitPHINode.                                                           *)

Returns(e, changed) ==
    /\ phi' = e
    /\ queued' = (queued \/ changed)
    /\ due' = FALSE
    /\ pc' = "idle"
    /\ UNCHANGED <<degree, incoming, KnownFeasibleEdges, i, PhiState, NumActiveIncoming>>

AlreadyOverdefined ==
    /\ pc = "visit" /\ isOverdefined(phi)
    /\ Returns(phi, FALSE)

TooManyOperands ==
    /\ pc = "visit" /\ ~isOverdefined(phi) /\ degree > HighDegree
    /\ LET marked == markOverdefined(phi) IN Returns(marked.elem, marked.changed)

StartMerging ==
    /\ pc = "visit" /\ ~isOverdefined(phi) /\ degree <= HighDegree
    /\ PhiState' = Copied(phi)
    /\ NumActiveIncoming' = 0
    /\ i' = 1
    /\ pc' = "merge"
    /\ UNCHANGED solverVars

Merging == pc = "merge" /\ i <= degree /\ ~isOverdefined(PhiState)

SkipOperand ==
    /\ Merging /\ i \notin KnownFeasibleEdges
    /\ i' = i + 1
    /\ UNCHANGED <<solverVars, pc, PhiState, NumActiveIncoming>>

MergeOperand ==
    /\ Merging /\ i \in KnownFeasibleEdges
    /\ PhiState' = mergeIn(PhiState, Copied(incoming[i]), DefaultOptions).elem
    /\ NumActiveIncoming' = NumActiveIncoming + 1
    /\ i' = i + 1
    /\ UNCHANGED <<solverVars, pc>>

\* max(NumActiveIncoming, getNumRangeExtensions())
Counted(e) == [e EXCEPT !.NumRangeExtensions =
                            IF @ < NumActiveIncoming THEN NumActiveIncoming ELSE @]

\* mergeInValue: the parameter MergeWithV is one more copy.
MergedValue == mergeIn(phi, Copied(PhiState), MergeOptions(FALSE, TRUE, NumActiveIncoming + 1))

FinishMerging ==
    /\ pc = "merge" /\ (i > degree \/ isOverdefined(PhiState))
    /\ Returns(Counted(MergedValue.elem), MergedValue.changed)

Next ==
    \/ \E k \in 1..degree : markEdgeExecutable(k) \/ OperandChanges(k)
    \/ operandChangedState \/ markUsersAsChanged
    \/ AlreadyOverdefined \/ TooManyOperands \/ StartMerging
    \/ SkipOperand \/ MergeOperand \/ FinishMerging

Spec == Init /\ [][Next]_vars
----------------------------------------------------------------------------
(* Properties.                                                             *)

\* Each variable has its type; an element has the data its tag calls for, and what
\* holds all integers is overdefined.
TypeOK ==
    /\ degree \in Degrees
    /\ incoming \in [1..degree -> Operands]
    /\ KnownFeasibleEdges \subseteq 1..degree
    /\ phi \in Elements /\ PhiState \in Elements
    /\ due \in BOOLEAN /\ queued \in BOOLEAN
    /\ pc \in {"idle", "visit", "merge"}
    /\ i \in 1..(degree + 1)
    /\ NumActiveIncoming \in 0..(i - 1)
    /\ pc = "merge" => degree <= HighDegree

\* The phi allows every value its operands allow on feasible edges, whenever no visit
\* is due: however copies, widening, early returns and the special cases of mergeIn
\* play together, and although mergeIn ignores a speculative operand (every operand
\* is copied first, and a copy is not speculative).
PhiCovers ==
    pc = "idle" /\ ~due =>
        \A k \in KnownFeasibleEdges : Meaning(incoming[k]) \subseteq Meaning(phi)

\* "ensure monotonicity": the phi never gives up a value it has allowed, even when
\* its operands do, so that it changes only so often and the solver ends.
PhiClimbs == [][Meaning(phi) \subseteq Meaning(phi')]_vars

\* "Returns true if this object has been changed" (mergeIn): a phi whose element
\* changes its state or its data is put in a work list, or its users would keep what
\* they concluded from the old one.
ChangesQueued ==
    [][<<phi.Tag, phi.spec, phi.ConstVal, phi.Range>>'
          # <<phi.Tag, phi.spec, phi.ConstVal, phi.Range>> => queued']_vars
=============================================================================

------------------------------ MODULE TauForm ------------------------------
(***************************************************************************)
(* The text of the function as far as the HPSSA passes rewrite it: the     *)
(* operands of its phis, one operand of each other instruction, and the    *)
(* tau calls put in front of them.  Beside the fields of Cfg a function    *)
(* has                                                                     *)
(*   f.phis   for each block the sequence of its phis                      *)
(*   f.op     for each phi and each predecessor of its block the operand   *)
(*   f.body   for each block the sequence of its other instructions        *)
(*   f.use    for each of these instructions its operand                   *)
(* A value is a phi, an instruction, a constant of the program or a tau.   *)
(* A tau is named by the phi it refines, the block it stands in and its    *)
(* generation: ReplaceInstWithInst puts a tau of generation 2 in the place *)
(* of the one of generation 1, which is then freed.                        *)
(***************************************************************************)
EXTENDS BuddyPartition, SequencesExt

VARIABLES
    taus,     \* for each block the sequence of its taus, after its phis
    operand,  \* the first argument of each tau
    args,     \* the other arguments of each tau, the values of hot paths
    phiOp,    \* the operands of the phis
    useOf     \* the operands of the other instructions

textVars == <<taus, operand, args, phiOp, useOf>>

Phis  == DOMAIN fn.op
Insts == DOMAIN fn.use

\* The block a phi or an instruction stands in.
HomeOf(v) == CHOOSE b \in Blocks : v \in ToSet(fn.phis[b]) \cup ToSet(fn.body[b])

Tau(z, b) == [phi |-> z, at |-> b, gen |-> 1]

TauNamesOf(f) == [phi : DOMAIN f.op, at : Blocks, gen : {1, 2}]
TauNames == TauNamesOf(fn)

LiveTaus == UNION {ToSet(taus[b]) : b \in Blocks}

Sub(v, w, x) == IF x = v THEN w ELSE x

OperandWith_Kept(v, w) == operand  \* mutant: the taus keep what they read

\* replaceAllUsesWith(v, w) on each part of the text.
PhiOpWith(v, w) == [z \in Phis |-> [u \in DOMAIN phiOp[z] |-> Sub(v, w, phiOp[z][u])]]
UseOfWith(v, w) == [i \in Insts |-> Sub(v, w, useOf[i])]
OperandWith(v, w) == [t \in DOMAIN operand |-> Sub(v, w, operand[t])]
ArgsWith(v, w) == [t \in DOMAIN args |-> {Sub(v, w, x) : x \in args[t]}]

Unused_Never(v) == FALSE  \* mutant: spurious taus stay

\* Mutant: an argument of a tau, its first one excepted, is not counted as a use.
Unused_Safe(v) ==
    /\ \A z \in Phis : \A u \in DOMAIN phiOp[z] : phiOp[z][u] # v
    /\ \A i \in Insts : useOf[i] # v
    /\ \A t \in LiveTaus : operand[t] # v

\* getNumUses() == 0.
Unused(v) ==
    /\ \A z \in Phis : \A u \in DOMAIN phiOp[z] : phiOp[z][u] # v
    /\ \A i \in Insts : useOf[i] # v
    /\ \A t \in LiveTaus : operand[t] # v /\ v \notin args[t]

\* The map f with what g says put into it.
Over(g, f) == [x \in DOMAIN g \cup DOMAIN f |-> IF x \in DOMAIN g THEN g[x] ELSE f[x]]

\* A tau of phi z goes in front of the first non-phi of each block in DOMAIN hot, with
\* the arguments hot has for it.
Insert(z, hot) ==
    LET new == {Tau(z, c) : c \in DOMAIN hot}
    IN /\ taus' = [c \in Blocks |-> IF c \in DOMAIN hot THEN <<Tau(z, c)>> \o taus[c] ELSE taus[c]]
       /\ operand' = Over([t \in new |-> z], operand)
       /\ args' = Over([t \in new |-> hot[t.at]], args)

\* The taus of each block when tau t is erased.
Without(t) ==
    [taus EXCEPT ![t.at] = RemoveAt(@, CHOOSE k \in DOMAIN @ : @[k] = t)]

Original ==
    /\ taus = [b \in Blocks |-> << >>]
    /\ operand = << >>
    /\ args = << >>
    /\ phiOp = fn.op
    /\ useOf = fn.use

(***************************************************************************)
(* What LLVM's verifier guarantees of a function without taus: a phi has   *)
(* one operand for each predecessor and at least one, and what an          *)
(* instruction or the edge into a phi uses is defined in a block that      *)
(* dominates it, where control can get there.                              *)
(***************************************************************************)
Defined(f, v) == \E b \in Blocks : v \in ToSet(f.phis[b]) \cup ToSet(f.body[b])

DefinedAbove(f, v, b) ==
    Defined(f, v) => \E c \in Dominators(f)[b] : v \in ToSet(f.phis[c]) \cup ToSet(f.body[c])

SsaForm(f) ==
    /\ \A b \in Blocks : \A z \in ToSet(f.phis[b]) :
          /\ DOMAIN f.op[z] = Preds(f, b) /\ Preds(f, b) # {}
          /\ \A u \in Preds(f, b) \cap Reachable(f) : DefinedAbove(f, f.op[z][u], u)
    /\ \A b \in Reachable(f) : \A i \in ToSet(f.body[b]) : DefinedAbove(f, f.use[i], b)

ASSUME SsaAssumption == \A f \in Programs : SsaForm(f)

(***************************************************************************)
(* And of its values: a phi and an instruction stand in one place each,    *)
(* and nothing the program reads is the name of a tau yet to be made.      *)
(***************************************************************************)
ValuesForm(f) ==
    /\ f.phis \in [Blocks -> Seq(DOMAIN f.op)]
    /\ f.body \in [Blocks -> Seq(DOMAIN f.use)]
    /\ \A b, c \in Blocks : \A m \in DOMAIN f.phis[b] : \A n \in DOMAIN f.phis[c] :
          f.phis[b][m] = f.phis[c][n] => b = c /\ m = n
    /\ \A b, c \in Blocks : \A m \in DOMAIN f.body[b] : \A n \in DOMAIN f.body[c] :
          f.body[b][m] = f.body[c][n] => b = c /\ m = n
    /\ \A v \in DOMAIN f.op \cup DOMAIN f.use : Defined(f, v)
    /\ DOMAIN f.op \cap DOMAIN f.use = {}
    /\ f.op = [z \in DOMAIN f.op |-> [u \in DOMAIN f.op[z] |-> f.op[z][u]]]
    /\ f.use = [i \in DOMAIN f.use |-> f.use[i]]
    /\ \A z \in DOMAIN f.op :
          /\ z \notin TauNamesOf(f)
          /\ \A u \in DOMAIN f.op[z] : f.op[z][u] \notin TauNamesOf(f)
    /\ \A i \in DOMAIN f.use : f.use[i] \notin TauNamesOf(f)

ASSUME ValuesAssumption == \A f \in Programs : ValuesForm(f)
=============================================================================

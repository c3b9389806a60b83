---------------------------- MODULE TDestruction ----------------------------
(***************************************************************************)
(* TDSTRPass::run of src/TDestruction.cpp on the function as HPSSAPass     *)
(* left it: the taus are collected, then each is replaced by its first     *)
(* argument and erased.  The order of the blocks in the function is not    *)
(* modelled, so the taus go in any order.                                  *)
(***************************************************************************)
EXTENDS HpssaPass

VARIABLE toBeRemoved   \* the taus collected and not yet erased

pipelineVars == <<vars, toBeRemoved>>

hpssaVars == <<walkVars, DT, visit, searchVars, allocVars, it>>

Collect ==
    /\ pc = "hpssa"
    /\ toBeRemoved' = LiveTaus
    /\ pc' = "destroy"
    /\ UNCHANGED <<hpssaVars, textVars>>

\* getOperand(0) when the tau is replaced, not when it was collected.
replaceTAU(t) == operand[t]

RemoveTau ==
    /\ pc = "destroy"
    /\ \E t \in toBeRemoved :
          LET rest == DOMAIN operand \ {t}
              w == replaceTAU(t)
          IN /\ phiOp' = PhiOpWith(t, w)
             /\ useOf' = UseOfWith(t, w)
             /\ operand' = Restrict(OperandWith(t, w), rest)
             /\ args' = Restrict(ArgsWith(t, w), rest)
             /\ taus' = Without(t)
             /\ toBeRemoved' = toBeRemoved \ {t}
    /\ UNCHANGED <<hpssaVars, pc>>

AllRemoved ==
    /\ pc = "destroy" /\ toBeRemoved = {}
    /\ pc' = "done"
    /\ UNCHANGED <<hpssaVars, textVars, toBeRemoved>>

PipelineInit == Init /\ toBeRemoved = {}

PipelineNext == \/ Next /\ UNCHANGED toBeRemoved
                \/ Collect \/ RemoveTau \/ AllRemoved

\* One pass runs after the other in one process; neither waits for anything.
PipelineSpec == PipelineInit /\ [][PipelineNext]_pipelineVars /\ WF_pipelineVars(PipelineNext)

\* Taking the taus out again gives back the very program that HPSSA was given: no
\* use was renamed to a tau of another phi, and removing taus in any order, while the
\* operands of those that remain are rewritten, ends at the phi each stands for.
RestoresOriginal == pc = "done" => Original

\* Both passes end.
PipelineTerminates == <>(pc = "done")
=============================================================================

------------------------------ MODULE SccpPass ------------------------------
(***************************************************************************)
(* runSCCP of src/SCCPTau.cpp: the solver, the rewriting of the function   *)
(* with what it found, and then one execution of the rewritten function.   *)
(* In the execution each instruction that was kept gives one of the values *)
(* it can give for its operands, and what was replaced gives its           *)
(* replacement.  An execution on which a tau's replacement is not the      *)
(* value of its safe operand was speculated wrongly and is not followed    *)
(* further; nor is one that branches on an undefined value.                *)
(***************************************************************************)
EXTENDS SpecSccp

VARIABLES
    subst,    \* what each instruction was replaced with
    env,      \* the run-time values
    entered,  \* the run-time values when control entered the block
    came,     \* the block control came from
    here,     \* the block being executed
    todo      \* its instructions yet to be executed

runVars == <<env, entered, came, here, todo>>
passVars == <<vars, subst, runVars>>

\* The replacement of an instruction: itself, a constant, or a call of assignSpecValue.
Kept == <<"kept", None>>
Replacements == {Kept} \cup ({"constant", "guess"} \X AllValues)

PassInit ==
    /\ Init
    /\ subst = [I \in Instrs(f) |-> Kept]
    /\ env = [v \in Values(f) |-> Undef]
    /\ entered = env
    /\ came = None
    /\ here = f.entry
    /\ todo = <<>>

tryToReplaceWithConstant(I) ==
    LET e == ValueState[I]
        const == IF isConst(e) THEN getConstant(e) ELSE Undef
    IN IF ins(I).op \in Terminators \cup {"store"} THEN Kept
       ELSE IF ~isUnknownOrUndef(e) /\ ~isConst(e) THEN Kept
       ELSE IF e.spec THEN <<"guess", const>> ELSE <<"constant", const>>

\* simplifyInstsInBlock for the executable blocks; the others lose their instructions.
runSCCP ==
    /\ phase = "solved"
    /\ subst' = [I \in Instrs(f) |->
                    IF ins(I).block \in BBExecutable THEN tryToReplaceWithConstant(I) ELSE Kept]
    /\ phase' = "ready"
    /\ UNCHANGED <<solverVars, runVars>>

----------------------------------------------------------------------------
(* The execution.                                                          *)

Start ==
    /\ phase = "ready"
    /\ \E in \in [DOMAIN f.args -> UNION {f.args[a] : a \in DOMAIN f.args}] :
        /\ \A a \in DOMAIN in : in[a] \in f.args[a]
        /\ env' = [v \in Values(f) |-> IF v \in DOMAIN in THEN in[v]
                                       ELSE IF v \in DOMAIN f.consts THEN f.consts[v]
                                       ELSE Undef]
    /\ entered' = env'
    /\ todo' = f.code[f.entry]
    /\ phase' = "running"
    /\ UNCHANGED <<solverVars, subst, came, here>>

\* An undefined operand reads as any integer.
Reads(v) == IF env[v] = Undef THEN Ints ELSE {env[v]}

Evaluated(I) ==
    LET as == ins(I).args
    IN CASE Len(as) = 0 -> {None}
         [] Len(as) = 1 -> {Eval(ins(I), <<m>>) : m \in Reads(as[1])}
         [] Len(as) > 1 -> {Eval(ins(I), <<m, n>>) : m \in Reads(as[1]), n \in Reads(as[2])}

\* The values that the instruction I of the original function gives here.
Possible(I) ==
    LET as == ins(I).args
        Incoming == {k \in DOMAIN as : ins(I).from[k] = came}
    IN CASE ins(I).op = "phi" -> {entered[as[k]] : k \in Incoming}
         [] ins(I).op = "tau" -> {env[as[1]]}
         [] ins(I).op = "select" -> {env[as[IF c = 0 THEN 3 ELSE 2]] : c \in Reads(as[1])}
         [] OTHER -> IF ins(I).op # "other" /\ None \notin Evaluated(I) THEN Evaluated(I)
                     ELSE IF ins(I).md # {} THEN ins(I).md ELSE Ints

\* The blocks the terminator I of the original function can go to here, none if it
\* returns or if that is undefined.
Goes(I) ==
    LET cond == env[ins(I).args[1]]
        hit == {k \in 2..Len(ins(I).to) : ins(I).cases[k - 1] = cond}
    IN CASE ins(I).op = "br" -> {ins(I).to[1]}
         [] ins(I).op = "ret" -> {}
         [] ins(I).op = "condbr" ->
                IF cond = Undef THEN {} ELSE {ins(I).to[IF cond = 0 THEN 2 ELSE 1]}
         [] ins(I).op = "switch" ->
                IF cond = Undef THEN {} ELSE {ins(I).to[k] : k \in IF hit = {} THEN {1} ELSE hit}

Running == phase = "running" /\ todo # <<>>
Current == Head(todo)

Execute ==
    /\ Running /\ ~IsTerminator(Current)
    /\ IF subst[Current] = Kept
       THEN \E value \in Possible(Current) : env' = [env EXCEPT ![Current] = value]
       ELSE env' = [env EXCEPT ![Current] = subst[Current][2]]
    /\ ins(Current).op = "tau" => env'[Current] \in Possible(Current) \ {Undef}
    /\ todo' = Tail(todo)
    /\ UNCHANGED <<vars, subst, entered, came, here>>

Branch ==
    /\ Running /\ IsTerminator(Current)
    /\ here' \in Goes(Current)
    /\ came' = here
    /\ todo' = f.code[here']
    /\ entered' = env
    /\ UNCHANGED <<vars, subst, env>>

\* The execution returns, or is not followed further.
End ==
    /\ Running
    /\ \/ IsTerminator(Current) /\ Goes(Current) = {}
       \/ /\ ins(Current).op = "tau"
          /\ (subst[Current] # Kept) => subst[Current][2] \notin Possible(Current) \ {Undef}
          /\ (subst[Current] = Kept) => Undef \in Possible(Current)
    /\ phase' = "ended"
    /\ UNCHANGED <<solverVars, subst, runVars>>

Ended == phase = "ended" /\ UNCHANGED passVars

Next == (Solve /\ UNCHANGED <<subst, runVars>>) \/ runSCCP \/ Start \/ Execute \/ Branch \/ End
        \/ Ended

Spec == PassInit /\ [][Next]_passVars

\* The pass is a sequential program and goes on as long as it can.  It can until the
\* execution has ended (there is no deadlock), so that this is WF_passVars(Next).
FairSpec == Spec /\ ([]<><<TRUE>>_passVars \/ <>(phase = "ended"))

----------------------------------------------------------------------------
PassTypeOK ==
    /\ TypeOK
    /\ subst \in [Instrs(f) -> Replacements]
    /\ env \in [Values(f) -> AllValues] /\ entered \in [Values(f) -> AllValues]
    /\ came \in Blocks(f) \cup {None} /\ here \in Blocks(f)
    /\ ToSet(todo) \subseteq Instrs(f)

\* As long as the guesses on the way hold, an instruction that was replaced with a
\* constant gives this constant in the original function, whatever the arguments and
\* the memory hold.
FoldedIsActual ==
    Running /\ ins(Current).op \notin Terminators \cup {"tau"} /\ subst[Current] # Kept =>
        subst[Current][2] \in Possible(Current) \/ Undef \in Possible(Current)

\* An execution never takes an edge that the solver holds to be infeasible, and so
\* never gets to a block whose instructions were deleted.
TakenIsFeasible ==
    phase = "running" =>
        /\ here \in BBExecutable
        /\ came # None => isEdgeFeasible(came, here)

\* Until the map of elements grows, a tau is never replaced with a value its safe
\* operand need not have without a call of assignSpecValue that marks it.
GuessesMarked ==
    ~moved => \A I \in Instrs(f) :
        ins(I).op = "tau" /\ subst[I][1] = "constant" => subst[I][2] = Undef

\* "If they are constant and don't agree, the PHI is a constant range. If there are no
\* executable operands, the PHI remains unknown" (visitTauNode, of the hot arguments): a
\* tau whose hot arguments are all constants is not replaced with undef.
KnownTauNotUndef ==
    \A I \in Instrs(f) :
        ins(I).op = "tau" /\ (\A k \in 2..Len(ins(I).args) : isConst(Arg(I, k)))
            => subst[I] \notin {"constant", "guess"} \X {Undef}
=============================================================================

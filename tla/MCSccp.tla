------------------------------- MODULE MCSccp -------------------------------
(***************************************************************************)
(* Functions for the solver and the pass.  Integers have two bits, ranges  *)
(* are intervals that may wrap around; cmp gives 0 or 1.  Instructions and *)
(* blocks are strings, the integer constants are "0" to "3".               *)
(***************************************************************************)
EXTENDS SccpPass

CONSTANTS C, D     \* two constants that are not integers

MCInts == 0..3
MCConsts == {C, D}

Interval(low, size) == {(low + k) % 4 : k \in 0..(size - 1)}
MCRanges == {Interval(low, size) : low \in 0..3, size \in 1..4}

Smallest(covers) == CHOOSE t \in covers : \A u \in covers : Cardinality(t) <= Cardinality(u)
MCHull(s) == Smallest({t \in MCRanges : s \subseteq t})
MCUnionWith(r, s) == MCHull(r \cup s)

Bit(b) == IF b THEN 1 ELSE 0

\* What the operations of the functions below compute.
MCEval(in, vs) ==
    CASE in.fn \in {"add", "lt", "low", "foldable", "table"} /\ ~(ToSet(vs) \subseteq MCInts) -> Undef
      [] in.fn = "add" -> (vs[1] + vs[2]) % 4
      [] in.fn = "eq" -> Bit(vs[1] = vs[2])
      [] in.fn = "lt" -> Bit(vs[1] < vs[2])
      [] in.fn = "low" -> vs[1] % 2
      [] in.fn = "neg" -> IF vs[1] = C THEN D ELSE C
      [] in.fn = "foldable" -> (3 * vs[1]) % 4
      [] in.fn = "table" -> IF vs[1] = 0 THEN Undef ELSE IF vs[1] = 1 THEN 2 ELSE None
      [] OTHER -> None

Ins(b, op, fn, args) ==
    [op |-> op, fn |-> fn, args |-> args, from |-> <<>>, to |-> <<>>, cases |-> <<>>,
     md |-> {}, block |-> b]
Phi(b, args, from) == [Ins(b, "phi", "", args) EXCEPT !.from = from]
Tau(b, args) == Ins(b, "tau", "", args)
Br(b, to) == [Ins(b, "br", "", <<>>) EXCEPT !.to = <<to>>]
CondBr(b, cond, to) == [Ins(b, "condbr", "", <<cond>>) EXCEPT !.to = to]
Switch(b, cond, cases, to) == [Ins(b, "switch", "", <<cond>>) EXCEPT !.cases = cases, !.to = to]
Ret(b) == Ins(b, "ret", "", <<>>)

NumberNames == [n \in {"0", "1", "2", "3"} |->
                    CASE n = "0" -> 0 [] n = "1" -> 1 [] n = "2" -> 2 [] n = "3" -> 3]

Function(order, code, instrs, args) ==
    LET operands == UNION {ToSet(instrs[I].args) : I \in DOMAIN instrs}
        names == (operands \cup DOMAIN NumberNames) \ (DOMAIN instrs \cup DOMAIN args)
    IN [entry |-> order[1], order |-> order, code |-> code, ins |-> instrs, args |-> args,
        consts |-> [c \in names |-> CASE c \in DOMAIN NumberNames -> NumberNames[c]
                                      [] c = "undef" -> Undef [] c = "C" -> C [] c = "D" -> D]]

\* As in the recorded output of test_spec_ssccp: a switch whose cases join, a tau at the
\* join, and under a branch a tau whose safe operand is that tau and whose hot arguments
\* are known.  The branch is found feasible only when the first tau is overdefined; the
\* block under it may be found again later by another edge.
Nested(k, hot, again) == Function(
    <<"E", "A", "J", "B", "T", "X">>,
    [E |-> <<"m", "sw">>, A |-> <<"brA">>, J |-> <<"x", "t", "c", "brJ">>,
     B |-> <<"d", "brB">>, T |-> <<"t2", "y", "e", "brT">>, X |-> <<"z", "w", "ret">>],
    [m |-> [Ins("E", "load", "", <<"a">>) EXCEPT !.md = {0, 1}],
     sw |-> Switch("E", "m", <<0>>, <<"A", "J">>), brA |-> Br("A", "J"),
     x |-> Phi("J", <<"2", "1">>, <<"E", "A">>), t |-> Tau("J", <<"x", "1", "1">>),
     c |-> Ins("J", "cmp", "eq", <<"t", k>>), brJ |-> CondBr("J", "c", <<"T", "B">>),
     d |-> Ins("B", "cmp", "eq", again), brB |-> CondBr("B", "d", <<"T", "X">>),
     t2 |-> Tau("T", <<"t">> \o hot), y |-> Ins("T", "binary", "add", <<"t2", "1">>),
     e |-> Ins("T", "cmp", "lt", <<"y", "3">>), brT |-> CondBr("T", "e", <<"T", "X">>),
     z |-> Phi("X", <<"3", "y">>, <<"B", "T">>), w |-> Ins("X", "binary", "add", <<"z", "t2">>),
     ret |-> Ret("X")],
    [a |-> {0}])

\* A loop with two ways in, whose counter has a tau at the header that is used in the
\* body and after the loop.  Where the way back depends on the tau it is found late.
Loop(first, hot, cond) == Function(
    <<"E", "A", "H", "B", "X">>,
    [E |-> <<"d", "brE">>, A |-> <<"brA">>, H |-> <<"i", "t", "c", "brH">>,
     B |-> <<"j", "e", "brB">>, X |-> <<"s", "ret">>],
    [d |-> Ins("E", "cmp", "eq", <<"a", "0">>), brE |-> CondBr("E", "d", <<"A", "H">>),
     brA |-> Br("A", "H"),
     i |-> Phi("H", <<first, "1", "j">>, <<"E", "A", "B">>), t |-> Tau("H", <<"i">> \o hot),
     c |-> Ins("H", "cmp", "eq", cond), brH |-> CondBr("H", "c", <<"X", "B">>),
     j |-> Ins("B", "binary", "add", <<"t", "1">>), e |-> Ins("B", "cmp", "lt", <<"j", "2">>),
     brB |-> CondBr("B", "e", <<"H", "X">>),
     s |-> Ins("X", "binary", "add", <<"t", "a">>), ret |-> Ret("X")],
    [a |-> {0, 1, 3}])

\* A loop whose counter is widened, and used in a block that is visited before.
Counter == Function(
    <<"E", "H", "B", "X">>,
    [E |-> <<"brE">>, H |-> <<"i", "c", "brH">>, B |-> <<"p", "j", "brB">>,
     X |-> <<"s", "ret">>],
    [brE |-> Br("E", "H"), i |-> Phi("H", <<"0", "j">>, <<"E", "B">>),
     c |-> Ins("H", "cmp", "eq", <<"i", "a">>), brH |-> CondBr("H", "c", <<"B", "X">>),
     p |-> Ins("B", "cast", "low", <<"i">>), j |-> Ins("B", "binary", "add", <<"p", "1">>),
     brB |-> Br("B", "H"), s |-> Ins("X", "cast", "low", <<"i">>), ret |-> Ret("X")],
    [a |-> {0, 1, 3}])

\* A join of three whose edges become feasible one after the other.
Ladder(xs, hot) == Function(
    <<"E", "P", "Q", "J">>,
    [E |-> <<"c", "brE">>, P |-> <<"d", "brP">>, Q |-> <<"brQ">>,
     J |-> <<"x", "t", "y", "ret">>],
    [c |-> Ins("E", "cmp", "eq", <<"a", "0">>), brE |-> CondBr("E", "c", <<"J", "P">>),
     d |-> Ins("P", "cmp", "lt", <<"a", "2">>), brP |-> CondBr("P", "d", <<"J", "Q">>),
     brQ |-> Br("Q", "J"),
     x |-> Phi("J", xs, <<"E", "P", "Q">>), t |-> Tau("J", <<"x">> \o hot),
     y |-> Ins("J", "binary", "add", <<"t", "x">>), ret |-> Ret("J")],
    [a |-> {0, 1, 2}])

\* No taus: each of the other visitors, and a branch that is never taken.
Plain(key) == Function(
    <<"E", "T", "X">>,
    [E |-> <<"p", "l", "m", "s", "st", "k", "g", "u", "q", "brE">>, T |-> <<"v", "brT">>,
     X |-> <<"o", "h", "sel", "ret">>],
    [p |-> Ins("E", "cast", "low", <<"a">>), l |-> Ins("E", "load", "table", <<key>>),
     m |-> [Ins("E", "load", "", <<"a">>) EXCEPT !.md = {1, 2}],
     s |-> Ins("E", "call", "foldable", <<"l">>), st |-> Ins("E", "store", "", <<"s", "a">>),
     k |-> Ins("E", "cmp", "lt", <<"p", "l">>),
     g |-> Ins("E", "gep", "add", <<"l", "1">>), u |-> Ins("E", "unary", "neg", <<"C">>),
     q |-> Ins("E", "fbinary", "", <<"u", "D">>),
     brE |-> CondBr("E", "k", <<"X", "T">>), v |-> Ins("T", "other", "", <<>>),
     brT |-> Br("T", "X"),
     o |-> Phi("X", <<"g", "v">>, <<"E", "T">>), h |-> Ins("X", "pcast", "low", <<"m">>),
     sel |-> Ins("X", "select", "", <<"k", "o", "p">>), ret |-> Ret("X")],
    [a |-> {0, 1, 3}])

\* Values nothing is known of: a load from null, undef in a phi, a branch and a switch; and
\* a phi of high degree.
Undefined(cond, key) == Function(
    <<"E", "P", "J", "S", "X">>,
    [E |-> <<"n", "b", "brE">>, P |-> <<"brP">>, J |-> <<"x", "y", "brJ">>, S |-> <<"brS">>,
     X |-> <<"r", "ret">>],
    [n |-> Ins("E", "load", "table", <<key>>), b |-> Ins("E", "binary", "add", <<"n", "1">>),
     brE |-> CondBr("E", cond, <<"P", "J">>), brP |-> Br("P", "J"),
     x |-> Phi("J", <<"undef", "2">>, <<"E", "P">>),
     y |-> Ins("J", "select", "", <<"n", "x", "b">>),
     brJ |-> Switch("J", "n", <<0, 1, 3>>, <<"X", "S", "X", "X">>), brS |-> Br("S", "X"),
     r |-> Phi("X", <<"x", "x", "x", "y">>, <<"J", "J", "J", "S">>), ret |-> Ret("X")],
    [a |-> {0}])

\* A loop with two ways back, of which D is found late.  K has a tau of each phi of the
\* header, the second with the first as an argument; of two guesses the first turns out wrong
\* when D is found, and then the second is another.  Nobody is told, but w changes at the same
\* time, and y folds both.
Stale == Function(
    <<"E", "H", "L", "S", "M", "D", "K", "X">>,
    [E |-> <<"brE">>, H |-> <<"x", "z", "brH">>, L |-> <<"c", "brL">>, S |-> <<"brS">>,
     M |-> <<"brM">>, D |-> <<"u", "q", "brD">>, K |-> <<"w", "t1", "t2", "y", "brK">>,
     X |-> <<"ret">>],
    [brE |-> Br("E", "H"),
     x |-> Phi("H", <<"a", "1", "u">>, <<"E", "K", "D">>),
     z |-> Phi("H", <<"a", "t1", "q">>, <<"E", "K", "D">>), brH |-> Br("H", "L"),
     c |-> Phi("L", <<"1", "b">>, <<"H", "S">>),
     brL |-> CondBr("L", "c", <<"S", "M">>), brS |-> Br("S", "L"),
     brM |-> CondBr("M", "a", <<"D", "K">>),
     u |-> Ins("D", "binary", "add", <<"1", "2">>), q |-> Ins("D", "binary", "add", <<"1", "1">>),
     brD |-> CondBr("D", "b", <<"H", "K">>),
     w |-> Phi("K", <<"1", "undef">>, <<"M", "D">>),
     t1 |-> Tau("K", <<"x", "1", "u">>), t2 |-> Tau("K", <<"z", "t1", "q">>),
     y |-> Ins("K", "call", "foldable", <<"t2", "w">>), brK |-> CondBr("K", "b", <<"H", "X">>),
     ret |-> Ret("X")],
    [a |-> {0, 1}, b |-> {0, 1}])

MCFunctions ==
    {Counter, Stale} \cup
    {Nested(k, hot, again) : k \in {"1", "2"}, hot \in {<<"2">>, <<"2", "2">>, <<"1", "2">>},
                             again \in {<<"t", "2">>, <<"1", "2">>}}
    \cup {Loop(first, hot, cond) : first \in {"2", "a"}, hot \in {<<"1">>, <<"1", "j">>},
                                      cond \in {<<"t", "2">>, <<"a", "1">>}}
    \cup {Ladder(xs, hot) : xs \in {<<"1", "1", "3">>, <<"1", "1", "1">>, <<"3", "1", "undef">>},
                            hot \in {<<"1">>, <<"1", "3">>}}
    \cup {Plain(key) : key \in {"0", "1", "2"}}
    \cup {Undefined(cond, key) : cond \in {"undef", "1"}, key \in {"0", "1"}}
=============================================================================

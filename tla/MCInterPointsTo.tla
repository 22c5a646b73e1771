--------------------------- MODULE MCInterPointsTo ---------------------------
(***************************************************************************)
(* Families of programs whose functions pass pointers to one of two        *)
(* objects by parameters, globals and returned values, and the program of  *)
(* a recorded dump.                                                        *)
(***************************************************************************)
EXTENDS MCInterLiveness, SsaExport, Preprocess

o1 == 10
o2 == 11

Addr(v, u) == <<[alias |-> TRUE,
                 chain |-> <<[lhs |-> [type |-> SCALAR, var |-> v],
                              rhs |-> [type |-> ADDRESSOF, var |-> u, off |-> FALSE]]>>]>>

(* The blocks that dereference. *)
DerefBlocks(code) ==
    {i \in DOMAIN code : \E item \in ToSet(code[i]) : IsAlias(item) /\ IsDeref(item.chain[1])}

(* Functions without a result, and functions that return the variable v.    *)
Void(bodies) ==
    {[ret |-> {}, returned |-> {}, deref |-> DerefBlocks(o.code)] @@ o : o \in bodies}

Returning(v, bodies) ==
    {[ret |-> {v}, returned |-> {v}, deref |-> DerefBlocks(o.code)]
        @@ [o EXCEPT !.code[Len(o.code)] = Return(v)] : o \in bodies}

(* main calls f twice and takes the result of the second call if there is   *)
(* one; between the calls it has one of codes.                             *)
TwoCalls(codes, result) ==
    Void({Body(<<{2}, {3}, {4}, {5}, {6}, {7}, {8}, {}>>,
               <<c1, arg, None, c2, Addr(p, o2), None, e, None>>,
               2 :> "f" @@ 5 :> "f", 2 :> {} @@ 5 :> result, {x}) :
            c1 \in {Addr(a, o1), Addr(b, o1)}, arg \in {Addr(p, o1), Copy(p, a)},
            c2 \in codes, e \in {Use({a}), Use({b} \cup result)}})

(* The same with the first call in a loop. *)
FirstInLoop(mains) == {[o EXCEPT !.succ[4] = {2, 5}] : o \in mains}

(* One of f and g is called. *)
OneCall(h1, h2) ==
    LET result == IF h2 = "g" THEN {x} ELSE {}
    IN  Void({Body(<<{2, 4}, {3}, {6}, {5}, {6}, {7}, {}>>,
                   <<c, Addr(p, o1) \o Addr(q, o1), None, arg, None, e, None>>,
                   2 :> h1 @@ 4 :> h2, 2 :> {} @@ 4 :> result, {x}) :
                c \in {Addr(a, o1), Addr(b, o1)},
                arg \in {Addr(p, o2) \o Addr(q, o2), Copy(p, a) \o Copy(q, a)},
                e \in {Use({a}), Use({b} \cup result)}})

Between == {None, Addr(a, o2)}

ReturningLeaf ==
    Returning(p, Leaf({None, Copy(a, p), Copy(b, a)}, {None, Addr(b, o2)}, p))

Returned1 ==
    Two(TwoCalls(Between \cup {Use({b})}, {x}),
        ReturningLeaf \cup Returning(p, Single({None}, p)))

(* Both calls of f come with the same, until g has changed b in the loop    *)
(* around the second one, or both.                                          *)
Diverging ==
    Three(Void({Body(<<{2}, {3}, {4}, {5}, {6}, {7}, {8}, {first, 9}, {}>>,
                     <<Addr(b, o1), arg, None, None, arg, None, None, None, None>>,
                     2 :> "f" @@ 5 :> "f" @@ 7 :> "g", 2 :> {} @@ 5 :> {} @@ 7 :> {}, {x}) :
                  first \in {2, 4}, arg \in {Addr(p, o1), Copy(p, b)}}),
          Void(Leaf({Use({b}), Copy(a, b) \o Use({a})}, {None, Use({p}), Use({b})}, p)),
          Void(Leaf({Addr(b, o2)}, {None}, q)))

Returned2 == Two(FirstInLoop(TwoCalls(Between \cup {Use({b})}, {x})), ReturningLeaf)

Nested(codes) ==
    Three(TwoCalls(codes, {}),
          Void(Calling("g", {Copy(q, p)}, {None, Copy(b, a)}, {None, Addr(a, o2)}, p)
                  \cup CallingAtStart("g", {Copy(q, p)}, {None, Addr(a, o2)}, p)),
          Void(Leaf({Copy(a, q)}, {None, Addr(b, o2)}, q)))

Chosen ==
    Three(OneCall("f", "g") \cup OneCall("g", "f"),
          Void(Calling("g", {Copy(q, p)}, {None, Copy(b, a)}, {None, Addr(b, o2)}, p)
                  \cup CallingAtStart("g", {Copy(q, p)}, {None, Copy(b, a)}, p)),
          Returning(q, Leaf({None, Copy(a, q)}, {None, Addr(a, o2)}, q)))

-----------------------------------------------------------------------------
(* The program of the recorded dump flow-insensitive-1.lipta: main calls    *)
(* fn1 and fn2, which set the global p (d here), call fn3, and use p        *)
(* through a temporary, as fn3 does.                                        *)
d  == 20
t1 == 21
t2 == 22
t3 == 23

RecordedSource ==
    LET through(t) == <<Plain(Copy(t, d)), Memory(Use({t})), Library(<<>>)>>
        fn(stmts)  == <<BasicBlock(<<>>, Append(stmts, ReturnOf(<<>>)), {})>>
        caller(o, t) == fn(<<Plain(Addr(d, o)), Call("fn3", {}, <<>>)>> \o through(t))
    IN  "main" :> fn(<<Call("fn1", {}, <<>>), Call("fn2", {}, <<>>)>>)
        @@ "fn1" :> caller(o1, t1)
        @@ "fn2" :> caller(o2, t2)
        @@ "fn3" :> fn(through(t3))

Recorded ==
    LET local == "main" :> {} @@ "fn1" :> {t1} @@ "fn2" :> {t2} @@ "fn3" :> {t3}
    IN  [f \in DOMAIN local |->
            [local |-> local[f], returned |-> {}] @@ PreprocessCfg(RecordedSource[f])]

(* What the dump prints last of mayin and mayout of every block, one pair   *)
(* for every member of the list at IN.                                      *)
RecordedPointsTo ==
    LET to(vs, S) == [v \in vs |-> S]
        A == {o1}
        B == {o2}
        N == {undef_id, o2}
        null == EmptyVal
    IN  "main" :> [i \in 1..5 |-> << <<null, null>> >>]
        @@ "fn1" :> << << <<null, to({d}, A)>> >>, << <<to({d}, A), to({d}, A)>> >>,
                       << <<to({d}, A), to({d}, A)>> >>,
                       << <<to({d}, A), to({d, t1}, A)>> >>,
                       << <<to({t1}, A), to({t1}, A)>> >>, << <<null, null>> >> >>
        @@ "fn2" :> << << <<null, to({d}, B)>> >>, << <<to({d}, B), to({d}, B)>> >>,
                       << <<to({d}, B), to({d}, B)>>, <<to({d}, B), to({d}, B)>> >>,
                       << <<to({d}, N), to({d, t2}, N)>> >>,
                       << <<to({t2}, N), to({t2}, N)>> >>, << <<null, null>> >> >>
        @@ "fn3" :> << << <<null, to({d, t3}, A)>>, <<to({d}, A), to({d, t3}, A)>>,
                          <<to({d}, B), to({d, t3}, B)>> >>,
                       << <<to({d, t3}, A), to({d, t3}, A)>>,
                          <<to({d, t3}, B), to({d, t3}, B)>> >>,
                       << <<to({d}, A), to({d}, A)>>, <<to({d}, B), to({d}, B)>> >> >>

Printed(block) ==
    LET in  == info[InOf(block)]
        out == info[OutOf(block)]
    IN  [i \in DOMAIN in |->
            <<Known(in[i].pinfo), Known(out[Place(out, in[i].cs)].pinfo)>>]

(* For that program the analysis ends with what was recorded of a run of    *)
(* the plugin: print_pointsto of every block, context by context.           *)
MatchesRecordedRun ==
    phase = "run" /\ prog = Recorded =>
        \A f \in DOMAIN prog : \A i \in DOMAIN prog[f].code :
            Printed(<<f, i>>) = RecordedPointsTo[f][i]

-----------------------------------------------------------------------------
(* Programs whose result is not what the code says of itself. *)

(* Two contexts of g, of which only one is taken through it.                *)
Handovers == Nested({None})

(* f has a local pointer that is live while it calls g; it is called in the *)
(* first context there is.                                                  *)
FirstContexts ==
    Three(TwoCalls(Between, {x}),
          Returning(p, Calling("g", {Copy(q, p)}, {None, Copy(b, a)}, {None, Addr(a, o2)}, p)
                          \cup CallingAtStart("g", {Copy(q, p)}, {None, Addr(a, o2)}, p)),
          Void(Leaf({Copy(a, q)}, {None, Addr(b, o2)}, q)))

(* In a loop f copies b to a and g then changes b: the second time round    *)
(* only what f leaves is new at its return block.                           *)
NotFlagged ==
    Three(Void({Body(<<{2}, {3}, {4}, {5}, {6}, {7}, {8}, {2, 9}, {}>>,
                     <<Addr(b, o1), None, None, Use({a}), Addr(b, o1), None, None, None, None>>,
                     2 :> "f" @@ 6 :> "g", 2 :> {} @@ 6 :> {}, {x})}),
          Void(Leaf({Copy(a, b)}, {None}, p)),
          Void(Leaf({Addr(b, o2)}, {None}, q)))

MCPtaVar == MCVar \cup {o1, o2, d, t1, t2, t3}
MCPtaFn  == MCFn \cup {"fn1", "fn2", "fn3"}

PtaPrograms ==
    Returned1 \cup Returned2 \cup Diverging \cup Nested(Between) \cup Chosen \cup {Recorded}

=============================================================================

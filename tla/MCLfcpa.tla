------------------------------ MODULE MCLfcpa -------------------------------
(***************************************************************************)
(* Families of small programs: a control flow graph and, for each block, a *)
(* choice among a few statements.  Two objects o1 and o2, two pointers x   *)
(* and y to them, a pointer z to the pointers.                             *)
(***************************************************************************)
EXTENDS Lfcpa, Preprocess

o1 == 3
o2 == 4
x  == 5
y  == 6
z  == 7

w  == 8
c  == 9
d  == 10

MCVar == {o1, o2, x, y, z, w, c, d}

Assign(ltype, l, rtype, r) ==
    [lhs |-> [type |-> ltype, var |-> l],
     rhs |-> [type |-> rtype, var |-> r, off |-> FALSE]]

Alias(chain) == [alias |-> TRUE, chain |-> chain]
Use(vs)      == [alias |-> FALSE, uses |-> vs]

Address(v, o) == Assign(SCALAR, v, ADDRESSOF, o)
Scalar(v, u)  == Assign(SCALAR, v, SCALAR, u)

AddrOf(v, o) == Alias(<<Address(v, o)>>)
Copy(v, u)   == Alias(<<Scalar(v, u)>>)
Arith(v, u)  == Alias(<<[Scalar(v, u) EXCEPT !.rhs.off = TRUE]>>)
Load(v, u)   == Alias(<<Assign(SCALAR, v, DEREF, u)>>)
Store(v, u)  == Alias(<<Assign(DEREF, v, SCALAR, u)>>)
StoreAddr(v, o) == Alias(<<Assign(DEREF, v, ADDRESSOF, o)>>)
PhiAddr(v, o, u) == Alias(<<Address(v, o), Address(v, u)>>)

(* Control flow graphs. *)
Diamond == <<{2, 3}, {4}, {4}, {5}, {}>>
Loop    == <<{2}, {3, 4}, {2}, {5}, {}>>
Chain   == <<{2}, {3}, {4}, {5}, {}>>

(* A procedure whose blocks have these items, one for each statement; the   *)
(* last block returns as well.                                              *)
StmtOf(item) ==
    IF ~IsAlias(item) THEN Library(<<item>>)
    ELSE IF DEREF \in {item.chain[1].lhs.type, item.chain[1].rhs.type}
    THEN Memory(<<item>>) ELSE Plain(<<item>>)

Stmts(items) == [i \in DOMAIN items |-> StmtOf(items[i])]

Source(succ, code) ==
    [b \in DOMAIN code |->
        BasicBlock(<<>>, Stmts(code[b]) \o (IF b = Len(code) THEN <<ReturnOf(<<>>)>> ELSE <<>>),
                   succ[b])]

Prepared(succ, code) == PreprocessCfg(Source(succ, code))

(* One statement, or none, in each block. *)
Family(succ, choices) ==
    {Source(succ, code) :
        code \in {<<c1, c2, c3, c4, c5>> :
            c1 \in choices[1], c2 \in choices[2], c3 \in choices[3],
            c4 \in choices[4], c5 \in choices[5]}}

One(S) == {<<item>> : item \in S}

Simple == {AddrOf(x, o1), AddrOf(y, o2), Copy(x, y)}
Inits == {AddrOf(z, x), AddrOf(z, y)}

ScalarFamily ==
    UNION {Family(succ, <<One(Simple), One(Simple) \cup {<<>>}, One(Simple) \cup {<<>>},
                          One(Simple) \cup {<<>>}, {<<Use({x, y})>>}>>) :
           succ \in {Diamond, Loop, Chain}}

LoadFamily ==
    UNION {Family(succ, <<One(Inits), One(Simple), One(Simple \cup Inits \cup {Load(y, z)}),
                          One({Load(x, z), Load(y, z)}), {<<Use({x, y})>>}>>) :
           succ \in {Diamond, Loop, Chain}}

StoreFamily ==
    UNION {Family(succ, <<One(Inits), One(Simple), One({StoreAddr(z, o1), StoreAddr(z, o2)}),
                          One({Load(x, z), Load(y, z)} \cup Simple), {<<Use({x, y})>>}>>) :
           succ \in {Diamond, Loop, Chain}}

(* Several statements in a block, dereferences among them: every one of     *)
(* these has to be at the head of a block of its own.                       *)
SplitFamily ==
    {Source(succ, <<c1, c2, c3>>) :
        succ \in {<<{2}, {3}, {}>>, <<{2}, {2, 3}, {}>>},
        c1 \in {<<i, AddrOf(x, o1)>> : i \in Inits},
        c2 \in {<<s, t, Copy(x, y)>> :
                    s \in Simple \cup Inits, t \in {Load(y, z), StoreAddr(z, o2)}},
        c3 \in {<<Load(x, z), Use({x, y})>>}}

(* A PHI, and then a dereference: with a label between them, or of another  *)
(* pointer, in the block of the PHI.                                       *)
AfterPhi(c2, phi, stmts) ==
    <<BasicBlock(<<>>, Stmts(<<AddrOf(z, x), AddrOf(x, o1), AddrOf(y, o2)>>), {2, 3}),
      BasicBlock(<<>>, Stmts(c2), {3}),
      BasicBlock(<<phi>>, stmts \o <<Library(<<Use({x, y})>>), ReturnOf(<<>>)>>, {})>>

PhiFamily ==
    {AfterPhi(c2, phi, stmts) :
        c2 \in One(Simple \cup Inits) \cup {<<>>},
        <<phi, stmts>> \in
            UNION {{<<PhiAddr(z, x, y), <<Label, StmtOf(c3)>> >>,
                    <<PhiAddr(x, o1, o2), <<StmtOf(c3)>> >>} :
                   c3 \in {Load(x, z), Load(y, z), StoreAddr(z, o2)}}}

-----------------------------------------------------------------------------
(* Programs whose result disagrees with what the code says of itself. *)

(* A block of several statements whose effect, done twice, is another one: *)
(* y and x get the old value of w.  The load after it has liveness computed *)
(* again when x becomes known.                                             *)
TwiceProgram ==
    Prepared(<<{2}, {}>>,
             << <<AddrOf(z, x), AddrOf(w, o1)>>,
                <<Use({w}), Copy(y, w), Copy(x, y), AddrOf(w, o2), Load(y, z), Use({y})>> >>)

Twice == {TwiceProgram}

(* A join without pointer statements, and then a load: liveness looks       *)
(* through the join, points-to makes a context there, whose live set stays  *)
(* that of the branch which came first.                                     *)
EmptyJoin ==
    Prepared(<<{2, 3}, {4}, {4}, {5}, {}>>,
             << <<AddrOf(z, y)>>, <<AddrOf(y, o1)>>, <<AddrOf(y, o2)>>, <<>>,
                <<Load(x, z), Use({x})>> >>)

(* A condition without pointer statements, and then a load: points-to looks *)
(* through it, and what the load makes live is sent up to it, not beyond.   *)
EmptyCondition ==
    Prepared(<<{2, 5}, {3, 4}, {5}, {5}, {}>>,
             << <<AddrOf(z, y), AddrOf(y, o1)>>, <<>>, <<Load(x, z), Use({x})>>,
                <<Use({y})>>, <<>> >>)

LookedThroughByOne == {EmptyJoin, EmptyCondition}

-----------------------------------------------------------------------------
(* test_cases/test_ssa_name_var.c: bb 2 to bb 6 of GCC are 1 to 5; a, b are *)
(* o1, o2 and p1, p2, p3 are x, y, z.  preprocess_cfg adds bb 7 to bb 9.     *)
DumpSource ==
    <<BasicBlock(<<>>, <<Plain(<<>>), Cond(<<>>)>>, {2, 3}),
      BasicBlock(<<>>, <<>>, {3}),
      BasicBlock(<<PhiAddr(y, o1, o2)>>, <<Plain(<<>>), Cond(<<>>)>>, {4, 5}),
      BasicBlock(<<>>, <<>>, {5}),
      BasicBlock(<<PhiAddr(z, c, d)>>,
                 <<Plain(<<Arith(x, y)>>), Memory(<<Use({y})>>), Library(<<Use({x})>>),
                   Plain(<<Arith(x, z)>>), Memory(<<Use({z})>>), Library(<<Use({x})>>),
                   ReturnOf(<<>>)>>, {})>>

DumpProgram == PreprocessCfg(DumpSource)

DumpLiveness ==
    << <<{}, {}>>, <<>>, <<{}, {y}>>, <<>>, <<{y}, {x, y, z}>>,
       <<{x, y, z}, {x, z}>>, <<{x, z}, {}>>, <<{}, {}>> >>

DumpPointsTo ==
    LET p2     == [u \in {y} |-> {o1, o2}]
        all(S) == [u \in {x, y, z} |-> IF u = z THEN {c, d} ELSE IF u = x THEN S ELSE {o1, o2}]
        p31    == [u \in {x, z} |-> {c, d}]
    IN  << <<EmptyVal, EmptyVal>>, <<>>, <<EmptyVal, p2>>, <<>>,
           <<p2, all({o1, o2})>>, <<all({o1, o2}), all({c, d})>>,
           <<p31, p31>>, <<EmptyVal, EmptyVal>> >>

(* What the analysis computes for that program is what the recorded dump    *)
(* test_ssa_name_var.c.233i.lipta prints of livein, liveout, mayin, mayout. *)
MatchesDump ==
    phase = "run" /\ prog = DumpProgram =>
        \A b \in Blocks :
            DumpLiveness[b] # <<>> =>
                /\ DumpLiveness[b] = <<df[InOf(b)].linfo, df[OutOf(b)].linfo>>
                /\ DumpPointsTo[b] = <<df[InOf(b)].pinfo, df[OutOf(b)].pinfo>>

MCSources == ScalarFamily \cup LoadFamily \cup StoreFamily
                \cup SplitFamily \cup PhiFamily \cup {DumpSource}

MCPrograms == {PreprocessCfg(fn) : fn \in MCSources}
-----------------------------------------------------------------------------
(* That these programs are such as the theorems of LfcpaProofs are about.  *)

(* z points to x and y, these to o1 and o2; in the program of the dump x, y *)
(* and z all point to objects.                                             *)
MCMay   == [v \in Var |-> IF v = z THEN {x, y} ELSE IF v \in {x, y} THEN {o1, o2} ELSE {}]
DumpMay == [v \in Var |-> IF v \in {x, y, z} THEN {o1, o2, c, d} ELSE {}]

May == IF prog = DumpProgram THEN DumpMay ELSE MCMay

ASSUME SourcesAssumption == \A fn \in MCSources : IsSource(fn, {})

(* All hypotheses of UsesAreSound but Repeatable.  Only for the programs    *)
(* that dereference nothing do the passes look through different blocks.   *)
MeetsHypotheses ==
    /\ EndReached /\ NoEntryLoop /\ DerefsMarked
    /\ (\E b \in Blocks : Dereferences(prog.code[b])) => BypassAgree
    /\ TypedCode(May) /\ OthersAreAddresses /\ DerefsUndisturbed /\ LoadsLive

(* Repeatable, for values of the three pointers and pointees that are       *)
(* undefined or variables.                                                 *)
Normals(S) == {T \in SUBSET ({undef_id} \cup S) : T # {} /\ NormalSet(T)}

TypedValues(may) ==
    UNION {{P \in [D -> Normals(UNION {may[v] : v \in D})] : TypedVal(may, P)} :
           D \in SUBSET {x, y, z}}

Codes(p) == {p.code[b] : b \in 1..(Len(p.code) - 1)}

DoneTwice(may, codes) ==
    \A code \in codes : \A P \in TypedValues(may) :
        BlockOut(BlockOut(P, code), code) = BlockOut(P, code)

ASSUME RepeatableAssumption ==
    /\ DoneTwice(MCMay, UNION {Codes(p) : p \in MCPrograms \ {DumpProgram}})
    /\ DoneTwice(DumpMay, Codes(DumpProgram))
=============================================================================

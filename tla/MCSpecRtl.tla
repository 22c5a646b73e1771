---------------------------- MODULE MCSpecRtl ----------------------------
(***************************************************************************)
(* Inputs of the specRTL compiler: abstract patterns that extend, name and *)
(* redeclare one another, and concrete patterns that instantiate them and  *)
(* override each other up to twice.                                        *)
(***************************************************************************)
EXTENDS SpecRtl

MCNames == STRING

MCBasisArity == [n \in {"set", "plus", "neg", "mem"} |-> IF n \in {"set", "plus"} THEN 2 ELSE 1]

Abst(name, base, stmts) ==
    [type |-> "abstract", name |-> name, base |-> base, stmts |-> stmts]

ListOf(keyword, name, elems) ==
    [type |-> "list", keyword |-> keyword, name |-> name, elems |-> elems]

Part(sub, parent, operands, stmts) ==
    [subType |-> sub, parent |-> parent, operands |-> operands, stmts |-> stmts, tree |-> << >>]

Instantiate(parent, operands, stmts) == Part("instantiates", parent, operands, stmts)
Override(parent, stmts) == Part("overrides", parent, << >>, stmts)
NoPart == Override("", << >>)

Insn(name, part) == [type |-> "insn", name |-> name, in |-> part, out |-> NoPart]
InsnAndSplit(name, in, out) == [type |-> "insnAndSplit", name |-> name, in |-> in, out |-> out]

(* Statements of concrete patterns. *)
ModeAt(at, m) == ModeStmt("mode", at, m)
PmcAt(at, m) == ModeStmt("pmc", at, Operand("pmc", 0, "q", m, "q"))
PredicateAt(at) == ModeStmt("predicate", at, Operand("pmc", 0, "q", "", ""))
ConstraintAt(at) == ModeStmt("constraint", at, Operand("pmc", 0, "", "", "q"))
AllConstraints(cs) == ModeStmt("allConstraints", << >>, cs)
To(m, n) == ModeStmt("replaceMode", << >>, [from |-> m, to |-> n])

(* n operands with modes SI and HI: without numbers, some of them with the *)
(* number of their place, or with a register and a numbered scratch among them. *)
Pmc(number, i) ==
    Operand("pmc", number, "p", IF i % 2 = 1 THEN "SI" ELSE "HI", "r")

Unnumbered(n) == [i \in 1..n |-> Pmc(-1, i)]
Numbered(n)   == [i \in 1..n |-> Pmc(IF i % 2 = 1 THEN i - 1 ELSE -1, i)]
Mixed(n)      == [i \in 1..n |-> IF i = n THEN Operand("scratch", n - 1, "BLK", "BLK", "s")
                                 ELSE IF i = 2 THEN Operand("reg", 0, "reg", "SI", "FLAGS")
                                 ELSE Pmc(-1, i)]

Operands(n) == {Unnumbered(n), Numbered(n), Mixed(n)}

----------------------------------------------------------------------------
(* Abstract patterns with their numbers of leaves.  Position 1 is in all   *)
(* of them.                                                                *)
WithLeaves(d, n) == [decl |-> d, leaves |-> n]

First == {WithLeaves(Abst("a", "set", <<Root(<<2>>, "plus")>>), 3),
          WithLeaves(Abst("a", "set", <<Root(<<1>>, "mem"), Root(<<2>>, "neg")>>), 2)}

Second(a) ==
    {WithLeaves(Abst("b", "a", <<Root(<<1>>, "mem")>>), a.leaves),
     WithLeaves(Abst("b", "set", <<Root(<<2>>, "a")>>), a.leaves + 1),
     WithLeaves(Abst("b", "plus", <<Root(<<1>>, "a"), Root(<<1, 1>>, "neg")>>), a.leaves + 1),
     WithLeaves(Abst("b", "plus", <<Root(<<1>>, "a"), Root(<<2>>, "a")>>), 2 * a.leaves),
     WithLeaves(Abst("b", "neg", <<Root(<<1>>, "any_or")>>), 2)}

AnyOr == ListOf("code_iterator", "any_or", <<"plus", "set">>)

(* What may stand between the abstract patterns and the concrete ones: one *)
(* of their names again, an operator's name, or an unknown base.           *)
Again == {<< >>,
          <<Abst("a", "a", <<Root(<<1>>, "plus")>>)>>,
          <<Abst("b", "neg", <<Root(<<1>>, "b")>>)>>,
          <<Abst("plus", "plus", <<Root(<<1>>, "neg")>>)>>,
          <<Abst("a", "unknown", <<Root(<<1>>, "plus")>>)>>}

Abstracts ==
    UNION {{[decls |-> <<AnyOr, a.decl, b.decl>> \o r, leaves |-> b.leaves] :
               b \in Second(a), r \in Again} : a \in First}

----------------------------------------------------------------------------
(* A pattern that is overridden, perhaps by one of the same name, which is *)
(* overridden in its turn.  An override of an override replaces no mode    *)
(* that a statement has brought before the first.                          *)
Chain(in, c1, c2) ==
    LET second == IF c1[1].type = "replaceMode" THEN "c" ELSE "d"
    IN  <<Insn("c", in), Insn(second, Override("c", c1)), Insn("e", Override(second, c2))>>

Changes1 == {<<AllConstraints(<<"=r", "m">>)>>, <<To("SI", "DI")>>, <<ModeAt(<<1>>, "HI")>>,
             <<To("SI", "DI"), AllConstraints(<<"x">>)>>}
Changes2 == {<<AllConstraints(<<"m", "=r">>)>>, <<ModeAt(<<1>>, "XF")>>, <<To("QI", "SI")>>}

AbstractChains ==
    UNION {{s.decls \o Chain(Instantiate("b", o, st), c1, c2) :
               o \in Operands(s.leaves), st \in {<< >>, <<ModeAt(<<1>>, "QI")>>},
               c1 \in Changes1, c2 \in Changes2} : s \in Abstracts}

(* Operands of an operator are replaced, and replaced again. *)
Replacements ==
    {<<PmcAt(<<1>>, "XF")>>, <<PredicateAt(<<1>>)>>, <<ConstraintAt(<<2>>), ModeAt(<<2>>, "DI")>>,
     <<PredicateAt(<<2>>), ConstraintAt(<<1>>)>>}

OperatorChains ==
    {<<AnyOr>> \o Chain(Instantiate(op, o, st), c1, c2) :
        op \in {"set", "any_or"}, o \in {Unnumbered(2), Numbered(2)}, st \in {<< >>} \cup Replacements,
        c1 \in Replacements, c2 \in Replacements}

(* Patterns with an OUT part, whose IN part is overridden by one of them   *)
(* or by a plain one; the OUT part of the first two is of the same parent. *)
Composites ==
    UNION {{s.decls \o
              <<InsnAndSplit("c", Instantiate(inName, in, st), Instantiate("b", out, st)),
                InsnAndSplit("d", Override("c", c1), Instantiate("b", out, st)),
                Insn("e", Override("d", c2))>> :
               inName \in {"b"}, in \in Operands(s.leaves), out \in Operands(s.leaves),
               st \in {<< >>, <<ModeAt(<<1>>, "QI")>>}, c1 \in Changes1, c2 \in Changes2} :
           s \in {t \in Abstracts : Len(t.decls) = 3}}

(* What is extended, instantiated or overridden has not been declared.     *)
Undeclared ==
    {<<Abst("a", "unknown", <<Root(<<1>>, "neg")>>),
       Insn("c", Instantiate("a", Unnumbered(1), << >>)),
       Insn("d", Override("c", <<To("SI", "DI")>>)),
       InsnAndSplit("e", Instantiate("neg", Unnumbered(1), << >>),
                    Instantiate(out, Unnumbered(1), << >>)),
       Insn("f", Override("e", <<To("SI", "DI")>>))>> :
        out \in {"a", "mem"}}

MCPrograms == AbstractChains \cup OperatorChains \cup Composites \cup Undeclared

----------------------------------------------------------------------------
(* Inputs for which a property fails, each of one program.                 *)

SetPlus == Abst("a", "set", <<Root(<<2>>, "plus")>>)

(* An operator the compiler does not know, after a pattern that is fine.   *)
UnknownOperator ==
    {<<Insn("c", Instantiate("set", Unnumbered(2), << >>)),
       Abst("a", "set", <<Root(<<2>>, "unknown")>>),
       Insn("d", Instantiate("a", Unnumbered(2), << >>))>>}

(* An operand below a child of the root has another predicate, and the     *)
(* pattern is overridden, as add<mode>3 is in the description of MIPS.     *)
NestedStatement ==
    {<<SetPlus,
       Insn("c", Instantiate("a", Unnumbered(3), <<PredicateAt(<<2, 2>>)>>)),
       Insn("d", Override("c", <<AllConstraints(<<"=r", "m", "m">>)>>))>>}

(* Two modes are replaced, as in fix_truncdfdi2 there.                     *)
TwoModes ==
    {<<SetPlus,
       Insn("c", Instantiate("a", Unnumbered(3), <<ModeAt(<<2>>, "SI"), ModeAt(<<2, 1>>, "HI")>>)),
       Insn("d", Override("c", <<To("HI", "XF"), To("SI", "DI")>>))>>}

(* All constraints are replaced where one has been before.                 *)
ConstraintKept ==
    {<<Insn("c", Instantiate("set", Unnumbered(2), <<ConstraintAt(<<2>>)>>)),
       Insn("d", Override("c", <<AllConstraints(<<"=r", "m">>)>>))>>}
=============================================================================

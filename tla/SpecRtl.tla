------------------------------ MODULE SpecRtl ------------------------------
(***************************************************************************)
(* The specRTL compiler: abstract patterns are trees of RTL operators that *)
(* extend one another, concrete patterns instantiate them with operands or *)
(* override other concrete patterns.  One step is one pattern of the       *)
(* input, from the parser's productions to what is written to the output.  *)
(*                                                                         *)
(* The input is a sequence of declarations.  Pattern objects are kept in   *)
(* `patterns', a pointer to one is an index of it: a name may be declared  *)
(* again, and who has a pointer keeps the old object.                      *)
(***************************************************************************)
EXTENDS Integers, Sequences, SequencesExt, FiniteSets

CONSTANTS
    Names,       \* of patterns and operators
    Programs,    \* sequences of declarations
    BasisArity   \* the operators the compiler knows, and their numbers of children

ASSUME BasisAssumption == \A op \in DOMAIN BasisArity : BasisArity[op] \in Nat \ {0}

VARIABLES
    program,           \* the input
    next,              \* the declaration that is parsed next
    patterns,          \* the pattern objects
    symTab,            \* from names to objects
    rtlOperandSymTab,  \* the operators, with code iterators
    outPattern,        \* what the pattern just created is printed as
    outFile            \* what has been written

vars == <<program, next, patterns, symTab, rtlOperandSymTab, outPattern, outFile>>

----------------------------------------------------------------------------
(* Statements `root.1.2 := ...', with the path as a sequence.  An operand  *)
(* of type pmc (predicate, mode, constraint) has a number once it is in a  *)
(* pattern; -1 means none yet.                                             *)

Operand(type, number, predicate, mode, constraint) ==
    [type |-> type, number |-> number, predicate |-> predicate,
     mode |-> mode, constraint |-> constraint]

ModeStmt(type, at, value) == [type |-> type, at |-> at, value |-> value]

Root(at, name) == ModeStmt("root", at, name)

RootStmt == [type : {"root"}, at : Seq(Nat), value : Names]

IsComposite(type) == type \in {"insnAndSplit", "split", "peep2"}

(* What the parser makes of a declaration.  OUT parts are instantiated: to *)
(* override one aborts the compiler.                                       *)
IsPart(part) ==
    part \in [subType  : {"instantiates", "overrides"},
              parent   : Names,
              operands : Seq(Range(part.operands)),
              stmts    : Seq(Range(part.stmts)),
              tree     : {<< >>}]

WellFormed(d) ==
    CASE d.type = "abstract" -> d.base \in Names /\ d.stmts \in Seq(RootStmt)
      [] d.type = "list" -> TRUE
      [] OTHER -> /\ IsPart(d.in)
                  /\ IsComposite(d.type) => IsPart(d.out) /\ d.out.subType = "instantiates"

ASSUME ProgramsAssumption ==
    \A p \in Programs : p \in Seq(Range(p)) /\ \A i \in DOMAIN p : WellFormed(p[i])

(* -1 for what is no operator. *)
findRtlOperandSymTabEntry(name) ==
    IF name \in DOMAIN rtlOperandSymTab THEN rtlOperandSymTab[name] ELSE -1

findSymTabEntry(name) == IF name \in DOMAIN symTab THEN symTab[name] ELSE 0

IsAbstract(name) ==
    findSymTabEntry(name) # 0 /\ patterns[findSymTabEntry(name)].type = "abstract"

(***************************************************************************)
(* Trees are functions from the positions of their nodes.  The leaves of a *)
(* new node are dummies, which stand for operands.                         *)
(***************************************************************************)
DummyNode == [name |-> "___", mode |-> "", pmcReplacements |-> << >>]

Node(name) ==
    [p \in {<< >>} \cup {<<i>> : i \in 1..findRtlOperandSymTabEntry(name)} |->
        IF p = << >> THEN [DummyNode EXCEPT !.name = name] ELSE DummyNode]

ReplaceNode(tree, node, at) ==
    LET kept  == {p \in DOMAIN tree : ~IsPrefix(at, p)}
        below == {at \o p : p \in DOMAIN node}
    IN  [p \in kept \cup below |->
            IF p \in kept THEN tree[p] ELSE node[SubSeq(p, Len(at) + 1, Len(p))]]

ReplaceMode(tree, mode, at) == [tree EXCEPT ![at].mode = mode]

(* A replacement for the operand at a child is kept at its parent.         *)
AddPmcReplacement(tree, stmt) ==
    [tree EXCEPT ![Front(stmt.at)].pmcReplacements =
        Append(@, [child |-> Last(stmt.at), type |-> stmt.type, op |-> stmt.value])]

IsPmcStmt(s) == s.type \in {"pmc", "operand", "predicate", "constraint"}

(* Abstract patterns consist of such statements, the first for the root.   *)
BuildTree(stmts) ==
    FoldLeft(LAMBDA tree, s : ReplaceNode(tree, Node(s.value), s.at),
             Node(Head(stmts).value), Tail(stmts))

AllOperatorsKnown(stmts) ==
    \A s \in Range(stmts) : findRtlOperandSymTabEntry(s.value) >= 0

Leaves(tree) == {p \in DOMAIN tree : tree[p].name = DummyNode.name}

Before(p, q) ==
    \E k \in 1..Len(p) : /\ k <= Len(q)
                         /\ SubSeq(p, 1, k - 1) = SubSeq(q, 1, k - 1)
                         /\ p[k] < q[k]

(***************************************************************************)
(* traverseTree prints the tree from left to right and uses up an operand  *)
(* at each leaf.  Replacements apply to the operand that is next when      *)
(* their child is come to, those of outer nodes first.                     *)
(***************************************************************************)
OperandAt(tree, p) == 1 + Cardinality({q \in Leaves(tree) : Before(q, p)})

Replaced(op, r) ==
    [op EXCEPT !.type       = r.op.type,
               !.mode       = IF r.type \in {"pmc", "operand"} THEN r.op.mode ELSE @,
               !.predicate  = IF r.type # "constraint" THEN r.op.predicate ELSE @,
               !.constraint = IF r.type # "predicate" THEN r.op.constraint ELSE @]

PrintedOperand(tree, operands, leaf) ==
    LET replacements ==
            FlattenSeq([k \in 1..Len(leaf) |->
                LET child == SubSeq(leaf, 1, k)
                IN  IF OperandAt(tree, child) = OperandAt(tree, leaf)
                    THEN SelectSeq(tree[Front(child)].pmcReplacements,
                                   LAMBDA r : r.child = Last(child))
                    ELSE << >>])
        op == FoldLeft(Replaced, operands[OperandAt(tree, leaf)], replacements)
    IN  IF tree[leaf].mode = "" THEN op ELSE [op EXCEPT !.mode = tree[leaf].mode]

TraverseTree(tree, operands) ==
    [p \in DOMAIN tree |->
        IF p \in Leaves(tree)
        THEN PrintedOperand(tree, operands, p)
        ELSE [name |-> tree[p].name, mode |-> tree[p].mode]]

----------------------------------------------------------------------------
(* Abstract patterns.                                                      *)

(* Fault: what it stands for is put at the root. *)
InlineStmtAtRoot(s) ==
    IF IsAbstract(s.value) THEN patterns[findSymTabEntry(s.value)].stmts ELSE <<s>>

(* A statement that names an abstract pattern stands for the statements of *)
(* that pattern, below its position.                                       *)
InlineStmt(s) ==
    IF IsAbstract(s.value)
    THEN LET inner == patterns[findSymTabEntry(s.value)].stmts
         IN  [i \in DOMAIN inner |-> [inner[i] EXCEPT !.at = s.at \o @]]
    ELSE <<s>>

(* The statements a pattern has from what it extends; none in error.       *)
BaseStmts(base) ==
    CASE IsAbstract(base) -> patterns[findSymTabEntry(base)].stmts
      [] ~IsAbstract(base) /\ findRtlOperandSymTabEntry(base) >= 0 -> <<Root(<< >>, base)>>
      [] OTHER -> << >>

AbstPattern(name, stmts) == [type |-> "abstract", name |-> name, stmts |-> stmts]

(* Fault: the name leads to the object made before. *)
addSymTabEntryBefore(name, objects) ==
    /\ patterns' = objects
    /\ symTab' = [n \in DOMAIN symTab \cup {name} |->
                     IF n = name THEN Len(patterns) ELSE symTab[n]]

(* The pattern just made is the last of the objects.                       *)
addSymTabEntry(name, objects) ==
    /\ patterns' = objects
    /\ symTab' = [n \in DOMAIN symTab \cup {name} |->
                     IF n = name THEN Len(objects) ELSE symTab[n]]

AbstractPattern ==
    LET d == program[next]
    IN  /\ next <= Len(program)
        /\ d.type = "abstract"
        /\ next' = next + 1
        /\ IF BaseStmts(d.base) = << >>
           THEN UNCHANGED <<patterns, symTab>>
           ELSE addSymTabEntry(d.name,
                    Append(patterns,
                           AbstPattern(d.name,
                               BaseStmts(d.base)
                               \o FlattenSeq([i \in DOMAIN d.stmts |-> InlineStmt(d.stmts[i])]))))
        /\ UNCHANGED <<program, rtlOperandSymTab, outPattern, outFile>>

----------------------------------------------------------------------------
(***************************************************************************)
(* Concrete patterns.  They have an IN part and, if composite, an OUT      *)
(* part: what is instantiated or overridden, the operands, statements and, *)
(* after createPattern, the tree.                                          *)
(***************************************************************************)
(* An operator that is instantiated gets an abstract pattern of its own.   *)
(* Composite patterns instantiate no name of a concrete pattern: the       *)
(* parser would take that one for an abstract pattern.                     *)
OwnAbstract(part) ==
    IF /\ part.subType = "instantiates"
       /\ ~IsAbstract(part.parent)
       /\ findRtlOperandSymTabEntry(part.parent) >= 0
    THEN <<AbstPattern(part.parent, <<Root(<< >>, part.parent)>>)>>
    ELSE << >>

ParentPattern(part, own) == IF OwnAbstract(part) = << >> THEN findSymTabEntry(part.parent) ELSE own

InError(part) ==
    OwnAbstract(part) = << >> /\ IF part.subType = "overrides"
                                 THEN findSymTabEntry(part.parent) = 0
                                 ELSE ~IsAbstract(part.parent)

(* Fault: numbered operands are not counted. *)
NumberOperandsUncounted(operands) ==
    [i \in DOMAIN operands |->
        IF operands[i].type = "pmc" /\ operands[i].number < 0
        THEN [operands[i] EXCEPT !.number =
                Cardinality({j \in 1..(i - 1) : operands[j].type = "pmc" /\ operands[j].number < 0})]
        ELSE operands[i]]

(* Operands that have no number yet get their place among the operands.    *)
NumberOperands(operands) ==
    [i \in DOMAIN operands |->
        IF operands[i].type = "pmc" /\ operands[i].number < 0
        THEN [operands[i] EXCEPT !.number =
                Cardinality({j \in 1..(i - 1) : operands[j].type = "pmc"})]
        ELSE operands[i]]

HasConstraint(op) == op.type \in {"pmc", "scratch"}

ReplaceConstraints(operands, constraints) ==
    [i \in DOMAIN operands |->
        LET k == Cardinality({j \in 1..i : HasConstraint(operands[j])})
        IN  IF ~HasConstraint(operands[i]) THEN operands[i]
            ELSE [operands[i] EXCEPT !.constraint =
                    IF k <= Len(constraints) THEN constraints[k] ELSE ""]]

ReplaceModes(operands, from, to) ==
    [i \in DOMAIN operands |->
        IF operands[i].type \in {"pmc", "reg"} /\ operands[i].mode = from
        THEN [operands[i] EXCEPT !.mode = to]
        ELSE operands[i]]

OverrideOperands(operands, s) ==
    CASE s.type = "allConstraints" -> ReplaceConstraints(operands, s.value)
      [] s.type = "replaceMode"    -> ReplaceModes(operands, s.value.from, s.value.to)
      [] OTHER                     -> operands

(* Only the last replacement of a mode counts for the tree.                *)
ReplacedMode(stmts, mode) ==
    LET all == SelectSeq(stmts, LAMBDA s : s.type = "replaceMode")
    IN  IF all # << >> /\ Last(all).value.from = mode THEN Last(all).value.to ELSE mode

SetModes(tree, stmts, replacing) ==
    FoldLeft(LAMBDA t, s : IF s.type = "mode"
                           THEN ReplaceMode(t, ReplacedMode(replacing, s.value), s.at) ELSE t,
             tree, stmts)

SetPmcs(tree, stmts) ==
    FoldLeft(LAMBDA t, s : IF IsPmcStmt(s) THEN AddPmcReplacement(t, s) ELSE t, tree, stmts)

(* The path of such a statement is used up on the way down the tree.       *)
UsedUp(stmts) ==
    [i \in DOMAIN stmts |->
        IF IsPmcStmt(stmts[i]) THEN [stmts[i] EXCEPT !.at = <<Last(@)>>] ELSE stmts[i]]

(* Fault: the statements of the overridden pattern come last. *)
CreatePartAfter(heap, part) ==
    LET overrides == part.subType = "overrides"
        cp        == heap[part.parent].in
        ap        == IF overrides THEN cp.parent ELSE part.parent
        ms        == heap[ap].stmts
        operands  == IF overrides THEN cp.operands \o part.operands ELSE part.operands
        stmts     == IF overrides THEN part.stmts \o cp.stmts ELSE part.stmts
        overriding == IF overrides THEN stmts ELSE << >>
    IN  IF ~AllOperatorsKnown(ms)
        THEN [part EXCEPT !.parent = ap, !.operands = operands, !.stmts = stmts]
        ELSE [subType  |-> part.subType,
              parent   |-> ap,
              operands |-> FoldLeft(OverrideOperands, NumberOperands(operands), overriding),
              stmts    |-> UsedUp(stmts),
              tree     |-> SetPmcs(SetModes(BuildTree(ms), stmts, overriding), stmts)]

(***************************************************************************)
(* createPattern: an overriding pattern takes the operands and statements  *)
(* of the overridden one before its own, over the abstract pattern of that *)
(* one.  With an operator that is not known there is no tree.              *)
(***************************************************************************)
CreatePart(heap, part) ==
    LET overrides == part.subType = "overrides"
        cp        == heap[part.parent].in
        ap        == IF overrides THEN cp.parent ELSE part.parent
        ms        == heap[ap].stmts
        operands  == IF overrides THEN cp.operands \o part.operands ELSE part.operands
        stmts     == IF overrides THEN cp.stmts \o part.stmts ELSE part.stmts
        overriding == IF overrides THEN stmts ELSE << >>
    IN  IF ~AllOperatorsKnown(ms)
        THEN [part EXCEPT !.parent = ap, !.operands = operands, !.stmts = stmts]
        ELSE [subType  |-> part.subType,
              parent   |-> ap,
              operands |-> FoldLeft(OverrideOperands, NumberOperands(operands), overriding),
              stmts    |-> UsedUp(stmts),
              tree     |-> SetPmcs(SetModes(BuildTree(ms), stmts, overriding), stmts)]

(***************************************************************************)
(* createPatternOut.  OUT parts are only instantiated: to override one     *)
(* frees a string that is not on the heap, and the compiler aborts.        *)
(***************************************************************************)
CreatePartOut(heap, part) ==
    LET ms == heap[part.parent].stmts
    IN  [part EXCEPT !.operands = NumberOperands(@),
                     !.stmts    = UsedUp(@),
                     !.tree     = SetPmcs(SetModes(BuildTree(ms), part.stmts, << >>), part.stmts)]

PrintedPart(name, type, part) ==
    [name |-> name, type |-> type, text |-> TraverseTree(part.tree, part.operands)]

(* Nothing is cleared or printed when createPattern returns early.         *)
AfterCreatePattern(name, type, part) ==
    IF DOMAIN part.tree = {} THEN outPattern ELSE <<PrintedPart(name, type, part)>>

ConcretePattern ==
    LET d      == program[next]
        inOwn  == OwnAbstract(d.in)
        outOwn == IF IsComposite(d.type) THEN OwnAbstract(d.out) ELSE << >>
        heap   == patterns \o inOwn \o outOwn
        in     == [d.in EXCEPT !.parent = ParentPattern(d.in, Len(patterns) + 1)]
        out    == [d.out EXCEPT !.parent = ParentPattern(d.out, Len(heap))]
    IN  /\ next <= Len(program)
        /\ d.type \notin {"abstract", "list"}
        /\ next' = next + 1
        /\ IF InError(d.in) \/ (IsComposite(d.type) /\ InError(d.out))
           THEN UNCHANGED <<patterns, symTab, outPattern, outFile>>
           ELSE \E i \in {CreatePart(heap, in)},
                   o \in {IF IsComposite(d.type) THEN CreatePartOut(heap, out) ELSE d.out} :
                /\ outPattern' =
                     AfterCreatePattern(d.name, d.type, i)
                     \o (IF IsComposite(d.type) THEN <<PrintedPart(d.name, "out", o)>> ELSE << >>)
                /\ outFile' = outFile \o outPattern'
                /\ addSymTabEntry(d.name,
                     Append(heap,
                            [type |-> d.type, name |-> d.name, in |-> i, out |-> o]))
        /\ UNCHANGED <<program, rtlOperandSymTab>>

----------------------------------------------------------------------------
(***************************************************************************)
(* Lists.  The parser takes mode iterators for code iterators; those get   *)
(* the arity of their first element, -1 if it is no operator.              *)
(***************************************************************************)
ListType(keyword) == IF keyword = "mode_iterator" THEN "code_iterator" ELSE keyword

ListTypes == {"code_iterator", "mode_iterator", "c_enum"}

ListElements(type, elems) ==
    [i \in DOMAIN elems |-> IF type \in {"mode_iterator", "c_enum"} THEN elems[1] ELSE elems[i]]

ListPattern ==
    LET d == program[next]
    IN  /\ next <= Len(program)
        /\ d.type = "list"
        /\ next' = next + 1
        /\ outPattern' = <<[name |-> d.name, type |-> ListType(d.keyword),
                            text |-> ListElements(ListType(d.keyword), d.elems)]>>
        /\ outFile' = outFile \o outPattern'
        /\ rtlOperandSymTab' =
             IF ListType(d.keyword) = "code_iterator"
             THEN [n \in DOMAIN rtlOperandSymTab \cup {d.name} |->
                      IF n = d.name THEN findRtlOperandSymTabEntry(d.elems[1])
                      ELSE rtlOperandSymTab[n]]
             ELSE rtlOperandSymTab
        /\ UNCHANGED <<program, patterns, symTab>>

EndOfInput == next > Len(program) /\ UNCHANGED vars

Init ==
    /\ program \in Programs
    /\ next = 1
    /\ patterns = << >>
    /\ symTab = << >>
    /\ rtlOperandSymTab = BasisArity
    /\ outPattern = << >>
    /\ outFile = << >>

Next == AbstractPattern \/ ConcretePattern \/ ListPattern \/ EndOfInput

Spec == Init /\ [][Next]_vars

----------------------------------------------------------------------------
(* Statements about the parser's tables and what is written.               *)

(* Names lead to objects, parents are objects made before, and a pattern   *)
(* that has a tree has an operand for each of its leaves.                  *)
SrtlTypeOK ==
    /\ next \in 1..(Len(program) + 1)
    /\ \A n \in DOMAIN symTab : symTab[n] \in DOMAIN patterns /\ patterns[symTab[n]].name = n
    /\ \A i \in DOMAIN patterns : patterns[i].type # "abstract" =>
          \A part \in {patterns[i].in}
                        \cup (IF IsComposite(patterns[i].type) THEN {patterns[i].out} ELSE {}) :
              /\ part.parent \in 1..(i - 1)
              /\ patterns[part.parent].type = "abstract"
              /\ DOMAIN part.tree # {} => Len(part.operands) = Cardinality(Leaves(part.tree))

(* Numbers given by the compiler do not clash with one another or with     *)
(* those given in the input, however often a pattern has been overridden.  *)
NumbersDistinct ==
    \A c \in Range(outFile) : c.type \notin ListTypes =>
        \A p, q \in {r \in DOMAIN c.text : "number" \in DOMAIN c.text[r] /\ c.text[r].type = "pmc"} :
            p # q => c.text[p].number # c.text[q].number

(* An abstract pattern stands for a tree: that of what it extends, with    *)
(* the trees of what it names in place of leaves or subtrees.              *)
Meaning(name) ==
    IF IsAbstract(name) THEN BuildTree(patterns[findSymTabEntry(name)].stmts) ELSE Node(name)

ExpansionComposes ==
    [][ LET d == program[next]
        IN  next' # next /\ d.type = "abstract" /\ patterns' # patterns =>
              BuildTree(Last(patterns').stmts) =
                FoldLeft(LAMBDA t, s : ReplaceNode(t, Meaning(s.value), s.at),
                         Meaning(d.base), d.stmts) ]_vars

(* What an overriding pattern is printed as is what the overridden one is  *)
(* printed as, changed as its own statements say.                          *)
Overridden(text, s) ==
    LET operands == {p \in DOMAIN text : "number" \in DOMAIN text[p]}
        rank(p)  == Cardinality({q \in operands : (Before(q, p) \/ q = p) /\ HasConstraint(text[q])})
    IN  CASE s.type = "replaceMode" ->
               [p \in DOMAIN text |->
                   IF text[p].mode = s.value.from THEN [text[p] EXCEPT !.mode = s.value.to]
                   ELSE text[p]]
          [] s.type = "allConstraints" ->
               [p \in DOMAIN text |->
                   IF p \in operands /\ HasConstraint(text[p])
                   THEN [text[p] EXCEPT !.constraint =
                           IF rank(p) <= Len(s.value) THEN s.value[rank(p)] ELSE ""]
                   ELSE text[p]]
          [] s.type = "mode"       -> [text EXCEPT ![s.at].mode = s.value]
          [] s.type = "predicate"  -> [text EXCEPT ![s.at].predicate = s.value.predicate]
          [] s.type = "constraint" -> [text EXCEPT ![s.at].constraint = s.value.constraint]
          [] OTHER -> [text EXCEPT ![s.at] = [s.value EXCEPT !.number = text[s.at].number]]

OverrideFollowsParent ==
    [][ LET d == program[next]
            p == patterns[findSymTabEntry(d.in.parent)].in
            n == Last(patterns').in
        IN  (/\ next' # next
             /\ d.type \notin {"abstract", "list"}
             /\ patterns' # patterns
             /\ d.in.subType = "overrides"
             /\ DOMAIN n.tree # {}) =>
              TraverseTree(n.tree, n.operands) =
                FoldLeft(Overridden, TraverseTree(p.tree, p.operands), d.in.stmts) ]_vars

(* What is written for a declaration is that declaration, and nothing of   *)
(* what was printed before: "After printout out the string in the outFile, *)
(* this string is emptied." (srtl-driver.hh.)  Not so when createPattern   *)
(* returns early.                                                          *)
OutputIsOwn ==
    [][\A i \in (Len(outFile) + 1)..Len(outFile') : outFile'[i].name = program[next].name]_vars
=============================================================================

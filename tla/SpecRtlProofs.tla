---------------------------- MODULE SpecRtlProofs ----------------------------
(***************************************************************************)
(* Proofs about the specRTL compiler, for every input: how statements that *)
(* are put below a position build trees, that to inline an abstract        *)
(* pattern is to compose its tree with others, and what the tables hold    *)
(* when concrete patterns instantiate or override.                         *)
(*                                                                         *)
(* The trees, the mode and operand statements and the overriding           *)
(* statements are folds; each has an instance of FoldingProofs, and a name *)
(* for its fold there (B, M, Modes, Pmcs, Overrides).                      *)
(***************************************************************************)
EXTENDS SpecRtl, SequenceTheorems, TLAPS

(* Positions.                                                               *)
Path == Seq(Nat)

LEMMA PathBelow ==
    ASSUME NEW at \in Path, NEW p \in Path
    PROVE  /\ at \o p \in Path
           /\ IsPrefix(at, at \o p)
           /\ SubSeq(at \o p, Len(at) + 1, Len(at \o p)) = p
<1>1. /\ Len(at) \in Nat /\ Len(p) \in Nat
      /\ at \o p \in Seq(Nat) /\ Len(at \o p) = Len(at) + Len(p)
      /\ \A i \in 1..Len(at) : (at \o p)[i] = at[i]
      /\ \A i \in 1..Len(p) : (at \o p)[Len(at) + i] = p[i]
  BY DEF Path
<1> DEFINE r == at \o p
           s == SubSeq(r, Len(at) + 1, Len(r))
<1>2. IsPrefix(at, r)
  <2>1. SubSeq(at, 1, Len(at)) = [i \in 1..Len(at) |-> at[i]]
    BY <1>1 DEF Path
  <2>2. SubSeq(r, 1, Len(at)) = [i \in 1..Len(at) |-> r[i]]
    BY <1>1 DEF Path
  <2> QED
    BY <1>1, <2>1, <2>2 DEF IsPrefix
<1>3. s \in Seq(Nat) /\ Len(s) = Len(p) /\ \A i \in 1..Len(p) : s[i] = r[Len(at) + i]
  BY <1>1
<1>4. s = p
  <2>1. p \in Seq(Nat)
    BY DEF Path
  <2> HIDE DEF s
  <2>2. \A i \in 1..Len(s) : s[i] = p[i]
    BY <1>1, <1>3
  <2> QED
    BY <1>3, <2>1, <2>2, SeqEqual
<1> QED
  BY <1>1, <1>2, <1>4 DEF Path

LEMMA PathPrefix ==
    ASSUME NEW at \in Path, NEW p \in Path, IsPrefix(at, p)
    PROVE  \E q \in Path : p = at \o q
<1>1. at \in Seq(Nat) /\ p \in Seq(Nat) /\ Len(at) \in Nat /\ Len(p) \in Nat
  BY DEF Path
<1>2. Len(at) <= Len(p) /\ SubSeq(at, 1, Len(at)) = SubSeq(p, 1, Len(at))
  BY DEF IsPrefix
<1> DEFINE q == SubSeq(p, Len(at) + 1, Len(p))
<1>3. /\ q \in Seq(Nat) /\ Len(q) = Len(p) - Len(at)
      /\ \A i \in 1..Len(q) : q[i] = p[Len(at) + i]
  BY <1>1, <1>2
<1>4. \A i \in 1..Len(at) : p[i] = at[i]
  <2> TAKE i \in 1..Len(at)
  <2>1. SubSeq(at, 1, Len(at))[i] = at[i] /\ SubSeq(p, 1, Len(at))[i] = p[i]
    BY <1>1, <1>2
  <2> QED
    BY <1>2, <2>1
<1> HIDE DEF q
<1>5. /\ at \o q \in Seq(Nat) /\ Len(at \o q) = Len(p)
      /\ \A i \in 1..Len(at) : (at \o q)[i] = at[i]
      /\ \A i \in 1..Len(q) : (at \o q)[Len(at) + i] = q[i]
  BY <1>1, <1>2, <1>3
<1>6. \A i \in 1..Len(p) : (at \o q)[i] = p[i]
  <2> TAKE i \in 1..Len(p)
  <2>1. CASE i <= Len(at)
    BY <1>1, <1>4, <1>5, <2>1
  <2>2. CASE ~(i <= Len(at))
    <3>1. i - Len(at) \in 1..Len(q) /\ Len(at) + (i - Len(at)) = i
      BY <1>1, <1>3, <2>2
    <3> QED
      BY <1>3, <1>5, <3>1
  <2> QED
    BY <1>1, <2>1, <2>2
<1>7. p = at \o q
  BY <1>1, <1>5, <1>6, SeqEqual
<1> QED
  BY <1>3, <1>7 DEF Path

LEMMA PathAssoc ==
    ASSUME NEW a \in Path, NEW b \in Path, NEW c \in Path
    PROVE  (a \o b) \o c = a \o (b \o c)
BY DEF Path

LEMMA PathCancel ==
    ASSUME NEW at \in Path, NEW p \in Path, NEW q \in Path, at \o p = at \o q
    PROVE  p = q
<1>1. SubSeq(at \o p, Len(at) + 1, Len(at \o p)) = p
  BY PathBelow
<1>2. SubSeq(at \o q, Len(at) + 1, Len(at \o q)) = q
  BY PathBelow
<1> QED
  BY <1>1, <1>2

LEMMA PathPrefixBelow ==
    ASSUME NEW at \in Path, NEW a \in Path, NEW p \in Path
    PROVE  /\ IsPrefix(at \o a, at \o p) <=> IsPrefix(a, p)
           /\ IsPrefix(at \o a, p) => IsPrefix(at, p)
<1>1. at \o a \in Path /\ at \o p \in Path
  BY PathBelow
<1>2. ASSUME IsPrefix(a, p) PROVE IsPrefix(at \o a, at \o p)
  <2>1. PICK q \in Path : p = a \o q
    BY <1>2, PathPrefix
  <2>2. at \o p = (at \o a) \o q
    BY <2>1, PathAssoc
  <2> QED
    BY <1>1, <2>1, <2>2, PathBelow
<1>3. ASSUME IsPrefix(at \o a, at \o p) PROVE IsPrefix(a, p)
  <2>1. PICK q \in Path : at \o p = (at \o a) \o q
    BY <1>1, <1>3, PathPrefix
  <2>2. a \o q \in Path
    BY PathBelow
  <2>3. at \o p = at \o (a \o q)
    BY <2>1, PathAssoc
  <2>4. p = a \o q
    BY <2>2, <2>3, PathCancel
  <2> QED
    BY <2>4, PathBelow
<1>4. ASSUME IsPrefix(at \o a, p) PROVE IsPrefix(at, p)
  <2>1. PICK q \in Path : p = (at \o a) \o q
    BY <1>1, <1>4, PathPrefix
  <2>2. a \o q \in Path
    BY PathBelow
  <2>3. p = at \o (a \o q)
    BY <2>1, PathAssoc
  <2> QED
    BY <2>2, <2>3, PathBelow
<1> QED
  BY <1>2, <1>3, <1>4

-----------------------------------------------------------------------------
NodeRecord == {DummyNode} \cup {[DummyNode EXCEPT !.name = name] : name \in Names}

TreeSet == UNION {[D -> NodeRecord] : D \in (SUBSET Path) \ {{}}}

LEMMA TreeSetIs ==
    ASSUME NEW t
    PROVE  t \in TreeSet <=> /\ DOMAIN t \subseteq Path /\ DOMAIN t # {}
                             /\ t = [p \in DOMAIN t |-> t[p]]
                             /\ \A p \in DOMAIN t : t[p] \in NodeRecord
BY DEF TreeSet

(* What ReplaceNode does: it keeps what is not below the position.          *)
LEMMA ReplaceNodeIs ==
    ASSUME NEW tree \in TreeSet, NEW node \in TreeSet, NEW at \in Path
    PROVE  LET r == ReplaceNode(tree, node, at)
           IN  /\ r \in TreeSet
               /\ r = [p \in DOMAIN r |-> r[p]]
               /\ \A p \in Path : p \in DOMAIN r <=>
                     IF IsPrefix(at, p) THEN \E q \in DOMAIN node : p = at \o q
                     ELSE p \in DOMAIN tree
               /\ \A p \in DOMAIN r : ~IsPrefix(at, p) => r[p] = tree[p]
               /\ \A q \in DOMAIN node : at \o q \in DOMAIN r /\ r[at \o q] = node[q]
<1> DEFINE r == ReplaceNode(tree, node, at)
           kept  == {p \in DOMAIN tree : ~IsPrefix(at, p)}
           below == {at \o p : p \in DOMAIN node}
<1>1. r = [p \in kept \cup below |->
             IF p \in kept THEN tree[p] ELSE node[SubSeq(p, Len(at) + 1, Len(p))]]
  BY DEF ReplaceNode
<1> HIDE DEF r
<1>2. /\ DOMAIN tree \subseteq Path /\ DOMAIN node \subseteq Path
      /\ \A p \in DOMAIN tree : tree[p] \in NodeRecord
      /\ \A p \in DOMAIN node : node[p] \in NodeRecord
  BY TreeSetIs
<1>3. \A q \in DOMAIN node :
         /\ at \o q \in Path /\ at \o q \in below /\ at \o q \notin kept
         /\ SubSeq(at \o q, Len(at) + 1, Len(at \o q)) = q
  BY <1>2, PathBelow
<1>4. DOMAIN r = kept \cup below /\ r = [p \in DOMAIN r |-> r[p]]
  BY <1>1
<1>5. \A p \in kept : r[p] = tree[p]
  BY <1>1
<1>6. \A q \in DOMAIN node : at \o q \in DOMAIN r /\ r[at \o q] = node[q]
  <2> TAKE q \in DOMAIN node
  <2>1. at \o q \in kept \cup below /\ at \o q \notin kept
    BY <1>3
  <2>2. r[at \o q] = node[SubSeq(at \o q, Len(at) + 1, Len(at \o q))]
    BY <1>1, <2>1
  <2> QED
    BY <1>3, <1>4, <2>1, <2>2
<1>7. \A p \in below : \E q \in DOMAIN node : p = at \o q
  OBVIOUS
<1>8. \A p \in DOMAIN r : p \in Path /\ r[p] \in NodeRecord
  <2> TAKE p \in DOMAIN r
  <2>1. CASE p \in kept
    BY <1>2, <1>5, <2>1
  <2>2. CASE p \in below
    BY <1>2, <1>3, <1>6, <1>7, <2>2
  <2> QED
    BY <1>4, <2>1, <2>2
<1>9. r \in TreeSet
  <2>1. DOMAIN node # {}
    BY TreeSetIs
  <2>2. DOMAIN r # {}
    BY <1>6, <2>1
  <2> QED
    BY <1>4, <1>8, <2>2, TreeSetIs
<1>10. \A p \in below : IsPrefix(at, p)
  BY <1>2, <1>7, PathBelow
<1> QED
  BY <1>2, <1>3, <1>4, <1>5, <1>6, <1>7, <1>9, <1>10 DEF r

LEMMA ReplaceNodeBelow ==
    ASSUME NEW tree \in TreeSet, NEW node \in TreeSet, NEW at \in Path, NEW q \in Path
    PROVE  /\ at \o q \in DOMAIN ReplaceNode(tree, node, at) <=> q \in DOMAIN node
           /\ q \in DOMAIN node => ReplaceNode(tree, node, at)[at \o q] = node[q]
<1> DEFINE r == ReplaceNode(tree, node, at)
<1>1. /\ \A p \in Path : p \in DOMAIN r <=>
            IF IsPrefix(at, p) THEN \E w \in DOMAIN node : p = at \o w ELSE p \in DOMAIN tree
      /\ \A w \in DOMAIN node : at \o w \in DOMAIN r /\ r[at \o w] = node[w]
  BY ReplaceNodeIs
<1> HIDE DEF r
<1>2. at \o q \in Path /\ IsPrefix(at, at \o q)
  BY PathBelow
<1>3. ASSUME at \o q \in DOMAIN r PROVE q \in DOMAIN node
  <2>1. PICK w \in DOMAIN node : at \o q = at \o w
    BY <1>1, <1>2, <1>3
  <2>2. w \in Path
    BY <2>1, TreeSetIs
  <2> QED
    BY <2>1, <2>2, PathCancel
<1> QED
  BY <1>1, <1>3 DEF r

LEMMA ReplaceNodeAway ==
    ASSUME NEW tree \in TreeSet, NEW node \in TreeSet, NEW at \in Path,
           NEW p \in Path, ~IsPrefix(at, p)
    PROVE  /\ p \in DOMAIN ReplaceNode(tree, node, at) <=> p \in DOMAIN tree
           /\ p \in DOMAIN tree => ReplaceNode(tree, node, at)[p] = tree[p]
<1> DEFINE r == ReplaceNode(tree, node, at)
<1>1. p \in DOMAIN r <=>
         IF IsPrefix(at, p) THEN \E q \in DOMAIN node : p = at \o q ELSE p \in DOMAIN tree
  BY ReplaceNodeIs
<1>2. \A w \in DOMAIN r : ~IsPrefix(at, w) => r[w] = tree[w]
  BY ReplaceNodeIs
<1> HIDE DEF r
<1> QED
  BY <1>1, <1>2 DEF r

LEMMA TreesEqual ==
    ASSUME NEW l \in TreeSet, NEW r \in TreeSet,
           \A p \in Path : (p \in DOMAIN l <=> p \in DOMAIN r) /\ (p \in DOMAIN l => l[p] = r[p])
    PROVE  l = r
<1>1. /\ DOMAIN l \subseteq Path /\ l = [p \in DOMAIN l |-> l[p]]
      /\ DOMAIN r \subseteq Path /\ r = [p \in DOMAIN r |-> r[p]]
  BY TreeSetIs
<1>2. DOMAIN l = DOMAIN r
  BY <1>1
<1> QED
  BY <1>1, <1>2

(* To put a node into what is put into a tree is to put it into the tree    *)
(* that results, that much lower.                                           *)
LEMMA ReplaceNodeWithin ==
    ASSUME NEW tree \in TreeSet, NEW x \in TreeSet, NEW node \in TreeSet,
           NEW at \in Path, NEW a \in Path
    PROVE  ReplaceNode(tree, ReplaceNode(x, node, a), at)
             = ReplaceNode(ReplaceNode(tree, x, at), node, at \o a)
<1> DEFINE xn == ReplaceNode(x, node, a)
           tx == ReplaceNode(tree, x, at)
           l  == ReplaceNode(tree, xn, at)
           r  == ReplaceNode(tx, node, at \o a)
<1>1. at \o a \in Path
  BY PathBelow
<1>2. xn \in TreeSet /\ tx \in TreeSet
  BY ReplaceNodeIs
<1> HIDE DEF xn, tx
<1>3. l \in TreeSet /\ r \in TreeSet
  BY <1>1, <1>2, ReplaceNodeIs
<1> SUFFICES ASSUME NEW p \in Path
             PROVE  (p \in DOMAIN l <=> p \in DOMAIN r) /\ (p \in DOMAIN l => l[p] = r[p])
  BY <1>3, TreesEqual DEF xn, tx
<1>4. CASE ~IsPrefix(at, p)
  <2>1. ~IsPrefix(at \o a, p)
    BY <1>4, PathPrefixBelow
  <2>2. (p \in DOMAIN l <=> p \in DOMAIN tree) /\ (p \in DOMAIN tree => l[p] = tree[p])
    BY <1>2, <1>4, ReplaceNodeAway
  <2>3. (p \in DOMAIN r <=> p \in DOMAIN tx) /\ (p \in DOMAIN tx => r[p] = tx[p])
    BY <1>1, <1>2, <2>1, ReplaceNodeAway
  <2>4. (p \in DOMAIN tx <=> p \in DOMAIN tree) /\ (p \in DOMAIN tree => tx[p] = tree[p])
    BY <1>4, ReplaceNodeAway DEF tx
  <2> QED
    BY <2>2, <2>3, <2>4
<1>5. CASE IsPrefix(at, p)
  <2>1. PICK q \in Path : p = at \o q
    BY <1>5, PathPrefix
  <2>2. (p \in DOMAIN l <=> q \in DOMAIN xn) /\ (q \in DOMAIN xn => l[p] = xn[q])
    BY <1>2, <2>1, ReplaceNodeBelow
  <2>3. CASE IsPrefix(a, q)
    <3>1. PICK w \in Path : q = a \o w
      BY <2>3, PathPrefix
    <3>2. (at \o a) \o w = at \o (a \o w)
      BY PathAssoc
    <3>3. (q \in DOMAIN xn <=> w \in DOMAIN node) /\ (w \in DOMAIN node => xn[q] = node[w])
      BY <3>1, ReplaceNodeBelow DEF xn
    <3>4. /\ (at \o a) \o w \in DOMAIN r <=> w \in DOMAIN node
          /\ w \in DOMAIN node => r[(at \o a) \o w] = node[w]
      BY <1>1, <1>2, ReplaceNodeBelow
    <3>5. p = (at \o a) \o w
      BY <2>1, <3>1, <3>2
    <3> QED
      BY <2>2, <3>3, <3>4, <3>5
  <2>4. CASE ~IsPrefix(a, q)
    <3>1. ~IsPrefix(at \o a, p)
      BY <2>1, <2>4, PathPrefixBelow
    <3>2. (q \in DOMAIN xn <=> q \in DOMAIN x) /\ (q \in DOMAIN x => xn[q] = x[q])
      BY <2>4, ReplaceNodeAway DEF xn
    <3>3. (p \in DOMAIN r <=> p \in DOMAIN tx) /\ (p \in DOMAIN tx => r[p] = tx[p])
      BY <1>1, <1>2, <3>1, ReplaceNodeAway
    <3>4. (p \in DOMAIN tx <=> q \in DOMAIN x) /\ (q \in DOMAIN x => tx[p] = x[q])
      BY <2>1, ReplaceNodeBelow DEF tx
    <3> QED
      BY <2>2, <3>2, <3>3, <3>4
  <2> QED
    BY <2>3, <2>4
<1> QED
  BY <1>4, <1>5

-----------------------------------------------------------------------------
(* A node with the number of children that a table of operators says.       *)
NodeOf(table, name) ==
    [p \in {<< >>} \cup {<<i>> : i \in 1..(IF name \in DOMAIN table THEN table[name] ELSE -1)} |->
        IF p = << >> THEN [DummyNode EXCEPT !.name = name] ELSE DummyNode]

OperatorsTyped(table) == \A n \in DOMAIN table : table[n] \in Int

LEMMA NodeIs ==
    ASSUME NEW name
    PROVE  Node(name) = NodeOf(rtlOperandSymTab, name)
BY DEF Node, NodeOf, findRtlOperandSymTabEntry

LEMMA NodeOfIn ==
    ASSUME NEW table, OperatorsTyped(table), NEW name \in Names
    PROVE  NodeOf(table, name) \in TreeSet
<1> DEFINE k == IF name \in DOMAIN table THEN table[name] ELSE -1
           D == {<< >>} \cup {<<i>> : i \in 1..k}
<1>0. D # {}
  OBVIOUS
<1>1. D \subseteq Path
  <2>1. k \in Int
    <3>1. -1 \in Int
      OBVIOUS
    <3> QED
      BY <3>1 DEF OperatorsTyped
  <2> HIDE DEF k
  <2>2. \A i \in 1..k : <<i>> \in Seq(Nat)
    BY <2>1
  <2>3. ASSUME NEW p \in D PROVE p \in Seq(Nat)
    <3>1. p = << >> \/ \E i \in 1..k : p = <<i>>
      OBVIOUS
    <3> HIDE DEF D
    <3>2. CASE p = << >>
      BY <3>2
    <3>3. CASE \E i \in 1..k : p = <<i>>
      BY <2>2, <3>3
    <3> QED
      BY <3>1, <3>2, <3>3
  <2> HIDE DEF D
  <2> QED
    BY <2>3 DEF Path
<1>2. /\ [DummyNode EXCEPT !.name = name] \in NodeRecord
      /\ DummyNode \in NodeRecord
  BY DEF NodeRecord
<1>3. NodeOf(table, name) = [p \in D |-> IF p = << >> THEN [DummyNode EXCEPT !.name = name] ELSE DummyNode]
  BY DEF NodeOf
<1> HIDE DEF D
<1>4. [p \in D |-> IF p = << >> THEN [DummyNode EXCEPT !.name = name] ELSE DummyNode]
         \in [D -> NodeRecord]
  BY <1>2
<1> QED
  BY <1>0, <1>1, <1>3, <1>4 DEF TreeSet

LEMMA NodeIn ==
    ASSUME OperatorsTyped(rtlOperandSymTab), NEW name \in Names
    PROVE  Node(name) \in TreeSet
BY NodeIs, NodeOfIn

(* Trees are built by a fold that has the table of operators besides.       *)
BuildStep(table, tree, s) == ReplaceNode(tree, NodeOf(table, s.value), s.at)

IsTree(table, tree) == tree \in TreeSet

B == INSTANCE FoldingProofs WITH op <- BuildStep, inv <- IsTree

LEMMA BuildFold ==
    ASSUME NEW base, NEW stmts
    PROVE  FoldLeft(LAMBDA tree, s : ReplaceNode(tree, Node(s.value), s.at), base, stmts)
             = B!Fold(rtlOperandSymTab, base, stmts)
BY DEF B!Fold, B!FoldLeft, FoldLeft, B!MapThenFoldSet, MapThenFoldSet, B!Max, Max, BuildStep,
       Node, NodeOf, findRtlOperandSymTabEntry

LEMMA BuildStepIn ==
    ASSUME NEW table, OperatorsTyped(table), NEW tree \in TreeSet, NEW s \in RootStmt
    PROVE  BuildStep(table, tree, s) \in TreeSet
<1>1. s.value \in Names /\ s.at \in Path
  BY DEF RootStmt, Path
<1> QED
  BY <1>1, NodeOfIn, ReplaceNodeIs DEF BuildStep

LEMMA BuildFoldIn ==
    ASSUME NEW table, OperatorsTyped(table), NEW tree \in TreeSet, NEW stmts \in Seq(RootStmt)
    PROVE  B!Fold(table, tree, stmts) \in TreeSet
<1>1. \A i \in 1..Len(stmts) : stmts[i] \in RootStmt
  OBVIOUS
<1>2. \A i \in 1..Len(stmts) : \A t : IsTree(table, t) => IsTree(table, BuildStep(table, t, stmts[i]))
  BY <1>1, BuildStepIn DEF IsTree
<1>3. IsTree(table, tree)
  BY DEF IsTree
<1>4. IsTree(table, B!Fold(table, tree, stmts))
  BY <1>2, <1>3, B!FoldKeeps
<1> QED
  BY <1>4 DEF IsTree

(* The statements of an abstract pattern: the first is for its root.        *)
Body == {stmts \in Seq(RootStmt) : stmts # << >> /\ stmts[1].at = << >>}

LEMMA BuildTreeIn ==
    ASSUME OperatorsTyped(rtlOperandSymTab), NEW stmts \in Body
    PROVE  BuildTree(stmts) \in TreeSet
<1>1. Tail(stmts) \in Seq(RootStmt) /\ Head(stmts) \in RootStmt
  BY DEF Body
<1>2. Node(Head(stmts).value) \in TreeSet
  BY <1>1, NodeIn DEF RootStmt
<1> QED
  BY <1>1, <1>2, BuildFold, BuildFoldIn DEF BuildTree

(* More statements are more replacements.                                   *)
LEMMA BuildTreeBoth ==
    ASSUME NEW stmts \in Body, NEW more \in Seq(RootStmt)
    PROVE  BuildTree(stmts \o more) = B!Fold(rtlOperandSymTab, BuildTree(stmts), more)
<1>1. stmts \in Seq(RootStmt) /\ stmts # << >>
  BY DEF Body
<1>2. /\ Head(stmts \o more) = Head(stmts)
      /\ Tail(stmts \o more) = Tail(stmts) \o more
      /\ Tail(stmts) \in Seq(RootStmt)
  BY <1>1
<1> DEFINE root == Node(Head(stmts).value)
<1>3. BuildTree(stmts \o more) = B!Fold(rtlOperandSymTab, root, Tail(stmts) \o more)
  BY <1>2, BuildFold DEF BuildTree
<1>4. BuildTree(stmts) = B!Fold(rtlOperandSymTab, root, Tail(stmts))
  BY BuildFold DEF BuildTree
<1> DEFINE rest == Tail(stmts)
<1>5. rest \in Seq(RootStmt)
  BY <1>2
<1> HIDE DEF root, rest
<1>6. B!Fold(rtlOperandSymTab, root, rest \o more) = B!Fold(rtlOperandSymTab, B!Fold(rtlOperandSymTab, root, rest), more)
  BY <1>5, B!FoldBoth
<1> QED
  BY <1>3, <1>4, <1>6 DEF rest

(* The statements of a pattern that is put below a position.                *)
Below(inner, at) == [i \in DOMAIN inner |-> [inner[i] EXCEPT !.at = at \o @]]

LEMMA BelowIs ==
    ASSUME NEW inner \in Seq(RootStmt), NEW at \in Path
    PROVE  /\ Below(inner, at) \in Seq(RootStmt)
           /\ Len(Below(inner, at)) = Len(inner)
           /\ \A i \in 1..Len(inner) : /\ Below(inner, at)[i].at = at \o inner[i].at
                                       /\ Below(inner, at)[i].value = inner[i].value
<1>1. Len(inner) \in Nat /\ DOMAIN inner = 1..Len(inner) /\ \A i \in 1..Len(inner) : inner[i] \in RootStmt
  OBVIOUS
<1>2. ASSUME NEW s \in RootStmt
      PROVE  LET b == [s EXCEPT !.at = at \o @]
             IN  b \in RootStmt /\ b.at = at \o s.at /\ b.value = s.value
  <2>1. s.at \in Path /\ at \o s.at \in Seq(Nat)
    BY PathBelow DEF RootStmt, Path
  <2> QED
    BY <2>1 DEF RootStmt
<1>3. Below(inner, at) = [i \in 1..Len(inner) |-> [inner[i] EXCEPT !.at = at \o @]]
  BY <1>1 DEF Below
<1>4. \A i \in 1..Len(inner) : Below(inner, at)[i] \in RootStmt
  BY <1>1, <1>2, <1>3
<1>5. Below(inner, at) \in [1..Len(inner) -> RootStmt]
  BY <1>3, <1>4
<1>6. Below(inner, at) \in Seq(RootStmt) /\ Len(Below(inner, at)) = Len(inner)
  BY <1>1, <1>5
<1> QED
  BY <1>1, <1>2, <1>3, <1>6

(* To inline a pattern's statements is to put its tree at the position.     *)
LEMMA BuildBelow ==
    ASSUME OperatorsTyped(rtlOperandSymTab), NEW tree \in TreeSet, NEW inner \in Body, NEW at \in Path
    PROVE  B!Fold(rtlOperandSymTab, tree, Below(inner, at)) = ReplaceNode(tree, BuildTree(inner), at)
<1> DEFINE stmts == Below(inner, at)
           root  == Node(Head(inner).value)
           R     == {<<x, ReplaceNode(tree, x, at)>> : x \in TreeSet}
           s     == Tail(inner)
           t     == Tail(stmts)
<1>1. /\ inner \in Seq(RootStmt) /\ inner # << >> /\ inner[1].at = << >>
      /\ Head(inner) = inner[1] /\ inner[1] \in RootStmt
  BY DEF Body
<1>2. /\ stmts \in Seq(RootStmt) /\ Len(stmts) = Len(inner)
      /\ \A i \in 1..Len(inner) : stmts[i].at = at \o inner[i].at /\ stmts[i].value = inner[i].value
  BY <1>1, BelowIs
<1> HIDE DEF stmts
<1>3. /\ stmts # << >> /\ Head(stmts).at = at /\ Head(stmts).value = Head(inner).value
  <2>1. Len(inner) \in Nat /\ 1 \in 1..Len(inner) /\ stmts # << >> /\ Head(stmts) = stmts[1]
    BY <1>1, <1>2
  <2>2. at \o << >> = at
    BY DEF Path
  <2> QED
    BY <1>1, <1>2, <2>1, <2>2
<1>4. root \in TreeSet
  BY <1>1, NodeIn DEF RootStmt
<1>5. B!Fold(rtlOperandSymTab, tree, stmts) = B!Fold(rtlOperandSymTab, ReplaceNode(tree, root, at), t)
  <2>1. BuildStep(rtlOperandSymTab, tree, Head(stmts)) = ReplaceNode(tree, root, at)
    BY <1>3, NodeIs DEF BuildStep
  <2> HIDE DEF root
  <2> QED
    BY <1>2, <1>3, <2>1, B!FoldHead
<1>6. BuildTree(inner) = B!Fold(rtlOperandSymTab, root, s)
  BY BuildFold DEF BuildTree
<1>7. /\ s \in Seq(RootStmt) /\ t \in Seq(RootStmt) /\ Len(t) = Len(s)
      /\ \A i \in 1..Len(s) : s[i] = inner[i + 1] /\ t[i] = stmts[i + 1] /\ i + 1 \in 1..Len(inner)
  BY <1>1, <1>2, <1>3
<1> HIDE DEF s, t
<1>8. ASSUME NEW i \in 1..Len(s), NEW x, NEW y, <<x, y>> \in R
      PROVE  <<BuildStep(rtlOperandSymTab, x, s[i]), BuildStep(rtlOperandSymTab, y, t[i])>> \in R
  <2>1. x \in TreeSet /\ y = ReplaceNode(tree, x, at)
    BY <1>8
  <2>2. /\ s[i] \in RootStmt
        /\ t[i].at = at \o s[i].at /\ t[i].value = s[i].value
    <3>1. s[i] = inner[i + 1] /\ t[i] = stmts[i + 1] /\ i + 1 \in 1..Len(inner)
      BY <1>7
    <3>2. s[i] \in RootStmt
      BY <1>7
    <3> QED
      BY <1>2, <3>1, <3>2
  <2>5. s[i].at \in Path /\ s[i].value \in Names
    BY <2>2 DEF RootStmt, Path
  <2>3. BuildStep(rtlOperandSymTab, x, s[i]) \in TreeSet
    BY <2>1, <2>2, BuildStepIn
  <2>4. BuildStep(rtlOperandSymTab, y, t[i]) = ReplaceNode(tree, BuildStep(rtlOperandSymTab, x, s[i]), at)
    BY <2>1, <2>2, <2>5, NodeOfIn, ReplaceNodeWithin DEF BuildStep
  <2> QED
    BY <2>3, <2>4
<1>9. <<root, ReplaceNode(tree, root, at)>> \in R
  BY <1>4
<1> HIDE DEF R, root
<1>10. <<B!Fold(rtlOperandSymTab, root, s), B!Fold(rtlOperandSymTab, ReplaceNode(tree, root, at), t)>> \in R
  BY <1>7, <1>8, <1>9, B!FoldsRelated
<1>11. B!Fold(rtlOperandSymTab, ReplaceNode(tree, root, at), t) = ReplaceNode(tree, B!Fold(rtlOperandSymTab, root, s), at)
  BY <1>10 DEF R
<1> QED
  BY <1>5, <1>6, <1>11 DEF stmts

-----------------------------------------------------------------------------
(* FlattenSeq puts the sequences one after the other.                       *)
LEMMA FlattenRun ==
    ASSUME NEW seqs, NEW n \in Nat, n # 0, Len(seqs) = n
    PROVE  \E f : /\ FlattenSeq(seqs) = f[n]
                  /\ f[1] = seqs[1]
                  /\ \A i \in 2..n : f[i] = f[i - 1] \o seqs[i]
<1> DEFINE P(f) == B!IsFlatten(f, seqs, n)
           f == CHOOSE h : P(h)
<1>1. f = [i \in 1..n |-> IF i = 1 THEN seqs[i] ELSE f[i - 1] \o seqs[i]]
  BY B!FlattenExists DEF B!IsFlatten
<1>2. FlattenSeq(seqs) = f[n]
  BY DEF FlattenSeq, B!IsFlatten
<1> HIDE DEF f
<1>3. f[1] = seqs[1]
  BY <1>1
<1>4. ASSUME NEW i \in 2..n PROVE f[i] = f[i - 1] \o seqs[i]
  <2>1. i \in 1..n /\ i # 1
    OBVIOUS
  <2> QED
    BY <1>1, <2>1
<1> QED
  BY <1>2, <1>3, <1>4

-----------------------------------------------------------------------------
(* The inductive invariant: names lead to objects, and the statements of an *)
(* abstract pattern begin with one for its root.                            *)
Objects(objects) ==
    /\ objects \in Seq(Range(objects))
    /\ \A i \in DOMAIN objects : objects[i].type = "abstract" => objects[i].stmts \in Body

NamesOK == \A n \in DOMAIN symTab : symTab[n] \in DOMAIN patterns

TablesOK == OperatorsTyped(rtlOperandSymTab) /\ Objects(patterns) /\ NamesOK

LEMMA AbstractBody ==
    ASSUME TablesOK, NEW name, IsAbstract(name)
    PROVE  patterns[findSymTabEntry(name)].stmts \in Body
BY DEF TablesOK, Objects, NamesOK, IsAbstract, findSymTabEntry

LEMMA MeaningIn ==
    ASSUME TablesOK, NEW name \in Names
    PROVE  Meaning(name) \in TreeSet
BY AbstractBody, BuildTreeIn, NodeIn DEF Meaning, TablesOK

MeanStep(env, tree, s) == ReplaceNode(tree, Meaning(s.value), s.at)

M == INSTANCE FoldingProofs WITH op <- MeanStep, inv <- IsTree

LEMMA MeanFold ==
    ASSUME NEW env, NEW base, NEW stmts
    PROVE  FoldLeft(LAMBDA t, s : ReplaceNode(t, Meaning(s.value), s.at), base, stmts)
             = M!Fold(env, base, stmts)
BY DEF M!Fold, M!FoldLeft, FoldLeft, M!MapThenFoldSet, MapThenFoldSet, M!Max, Max, MeanStep

(* One statement is inlined. *)
LEMMA InlineStmtMeans ==
    ASSUME TablesOK, NEW env, NEW tree \in TreeSet, NEW s \in RootStmt
    PROVE  /\ InlineStmt(s) \in Seq(RootStmt)
           /\ B!Fold(rtlOperandSymTab, tree, InlineStmt(s)) = MeanStep(env, tree, s)
           /\ MeanStep(env, tree, s) \in TreeSet
<1>1. s.at \in Path /\ s.value \in Names
  BY DEF RootStmt, Path
<1>2. MeanStep(env, tree, s) \in TreeSet
  BY <1>1, MeaningIn, ReplaceNodeIs DEF MeanStep
<1>3. CASE IsAbstract(s.value)
  <2> DEFINE inner == patterns[findSymTabEntry(s.value)].stmts
  <2>1. inner \in Body /\ inner \in Seq(RootStmt)
    BY <1>3, AbstractBody DEF Body
  <2>2. InlineStmt(s) = Below(inner, s.at)
    BY <1>3 DEF InlineStmt, Below
  <2>3. Meaning(s.value) = BuildTree(inner)
    BY <1>3 DEF Meaning
  <2> HIDE DEF inner
  <2>4. InlineStmt(s) \in Seq(RootStmt)
    BY <1>1, <2>1, <2>2, BelowIs
  <2>5. B!Fold(rtlOperandSymTab, tree, Below(inner, s.at)) = ReplaceNode(tree, BuildTree(inner), s.at)
    BY <1>1, <2>1, BuildBelow DEF TablesOK
  <2> QED
    BY <1>2, <2>2, <2>3, <2>4, <2>5 DEF MeanStep
<1>4. CASE ~IsAbstract(s.value)
  <2>1. InlineStmt(s) = <<s>> /\ Meaning(s.value) = Node(s.value)
    BY <1>4 DEF InlineStmt, Meaning
  <2>2. B!Fold(rtlOperandSymTab, tree, <<s>>) = BuildStep(rtlOperandSymTab, tree, s)
    BY B!FoldOne
  <2> QED
    BY <1>2, <2>1, <2>2 DEF MeanStep, BuildStep, Node, NodeOf, findRtlOperandSymTabEntry
<1> QED
  BY <1>3, <1>4

(* All statements of a declaration are. *)
LEMMA InlineMeans ==
    ASSUME TablesOK, NEW env, NEW tree \in TreeSet, NEW stmts \in Seq(RootStmt),
           NEW inlined, inlined = [i \in DOMAIN stmts |-> InlineStmt(stmts[i])]
    PROVE  /\ FlattenSeq(inlined) \in Seq(RootStmt)
           /\ B!Fold(rtlOperandSymTab, tree, FlattenSeq(inlined)) = M!Fold(env, tree, stmts)
<1> DEFINE n == Len(stmts)
<1>1. n \in Nat /\ DOMAIN stmts = 1..n /\ \A i \in 1..n : stmts[i] \in RootStmt
  OBVIOUS
<1>2. inlined = [i \in 1..n |-> InlineStmt(stmts[i])] /\ Len(inlined) = n
  BY <1>1
<1>3. CASE n = 0
  <2>1. stmts = << >> /\ FlattenSeq(inlined) = << >>
    BY <1>1, <1>2, <1>3 DEF FlattenSeq
  <2>2. B!Fold(rtlOperandSymTab, tree, << >>) = tree /\ M!Fold(env, tree, << >>) = tree
    BY B!FoldNone, M!FoldNone
  <2> QED
    BY <2>1, <2>2
<1>4. CASE n # 0
  <2> HIDE DEF n
  <2>1. PICK f : /\ FlattenSeq(inlined) = f[n]
                 /\ f[1] = inlined[1]
                 /\ \A i \in 2..n : f[i] = f[i - 1] \o inlined[i]
    BY <1>1, <1>2, <1>4, FlattenRun
  <2>2. PICK g : M!IsRun(g, env, tree, stmts, n) /\ M!Fold(env, tree, stmts) = g[n]
    <3>1. M!HasLength(stmts, n)
      BY <1>1 DEF M!HasLength
    <3>2. M!HasRun(env, tree, stmts, n)
      BY <3>1, M!FoldLeftRun
    <3> QED
      BY <3>2 DEF M!HasRun
  <2>3. g[0] = tree /\ \A k \in 1..n : g[k] = MeanStep(env, g[k - 1], stmts[k])
    BY <2>2 DEF M!IsRun
  <2> DEFINE Q(k) == /\ f[k] \in Seq(RootStmt)
                     /\ B!Fold(rtlOperandSymTab, tree, f[k]) = g[k]
                     /\ g[k] \in TreeSet
             I == {k \in Nat : k + 1 <= n => Q(k + 1)}
  <2>4. 0 \in I
    <3>1. 1 \in 1..n /\ 1 - 1 = 0 /\ 0 + 1 = 1
      BY <1>1, <1>4
    <3>2. f[1] = InlineStmt(stmts[1]) /\ stmts[1] \in RootStmt
      BY <1>1, <1>2, <2>1, <3>1
    <3>3. g[1] = MeanStep(env, tree, stmts[1])
      BY <2>3, <3>1
    <3>4. Q(1)
      BY <3>2, <3>3, InlineStmtMeans
    <3> HIDE DEF Q
    <3> QED
      BY <3>1, <3>4
  <2>5. ASSUME NEW k \in Nat, k \in I PROVE k + 1 \in I
    <3> SUFFICES ASSUME (k + 1) + 1 <= n PROVE Q((k + 1) + 1)
      OBVIOUS
    <3> DEFINE m == k + 1
    <3>1. /\ m \in 1..n /\ m + 1 \in 1..n /\ m + 1 \in 2..n
          /\ (m + 1) - 1 = m /\ k + 1 <= n
      BY <1>1
    <3>2. Q(m)
      BY <2>5, <3>1
    <3> HIDE DEF m
    <3>3. /\ f[m + 1] = f[m] \o InlineStmt(stmts[m + 1])
          /\ stmts[m + 1] \in RootStmt
      BY <1>1, <1>2, <2>1, <3>1
    <3>4. g[m + 1] = MeanStep(env, g[m], stmts[m + 1])
      BY <2>3, <3>1
    <3>5. /\ InlineStmt(stmts[m + 1]) \in Seq(RootStmt)
          /\ B!Fold(rtlOperandSymTab, g[m], InlineStmt(stmts[m + 1])) = g[m + 1]
          /\ g[m + 1] \in TreeSet
      BY <3>2, <3>3, <3>4, InlineStmtMeans
    <3>6. B!Fold(rtlOperandSymTab, tree, f[m] \o InlineStmt(stmts[m + 1]))
            = B!Fold(rtlOperandSymTab, B!Fold(rtlOperandSymTab, tree, f[m]), InlineStmt(stmts[m + 1]))
      BY <3>2, <3>5, B!FoldBoth
    <3>7. f[m + 1] \in Seq(RootStmt)
      BY <3>2, <3>3, <3>5
    <3> QED
      BY <3>2, <3>3, <3>5, <3>6, <3>7 DEF m
  <2> HIDE DEF I
  <2>6. \A k \in Nat : k \in I
    BY <2>4, <2>5, B!InductionOnSet
  <2>7. n - 1 \in Nat /\ (n - 1) + 1 = n /\ n <= n
    BY <1>1, <1>4
  <2>8. Q(n)
    <3> HIDE DEF Q
    <3> QED
      BY <2>6, <2>7 DEF I
  <2> QED
    BY <2>1, <2>2, <2>8
<1> QED
  BY <1>3, <1>4

-----------------------------------------------------------------------------
LEMMA ObjectsBoth ==
    ASSUME NEW s, NEW t, Objects(s), Objects(t)
    PROVE  /\ Objects(s \o t)
           /\ Len(s \o t) = Len(s) + Len(t)
           /\ \A i \in DOMAIN s : i \in DOMAIN (s \o t) /\ (s \o t)[i] = s[i]
           /\ \A i \in DOMAIN t : Len(s) + i \in DOMAIN (s \o t) /\ (s \o t)[Len(s) + i] = t[i]
<1> DEFINE S == Range(s) \cup Range(t)
           st == s \o t
<1>1. s \in Seq(Range(s)) /\ t \in Seq(Range(t))
  BY DEF Objects
<1>2. s \in Seq(S) /\ t \in Seq(S)
  BY <1>1
<1>3. /\ Len(s) \in Nat /\ DOMAIN s = 1..Len(s)
      /\ Len(t) \in Nat /\ DOMAIN t = 1..Len(t)
  BY <1>1
<1> HIDE DEF S
<1>4. st \in Seq(S) /\ Len(st) = Len(s) + Len(t) /\ DOMAIN st = 1..(Len(s) + Len(t))
  BY <1>2, ConcatProperties
<1>5. \A i \in 1..(Len(s) + Len(t)) : st[i] = IF i <= Len(s) THEN s[i] ELSE t[i - Len(s)]
  BY <1>2, ConcatProperties
<1> HIDE DEF st
<1>6. \A i \in DOMAIN s : i \in DOMAIN st /\ st[i] = s[i]
  BY <1>3, <1>4, <1>5
<1>7. ASSUME NEW i \in DOMAIN t PROVE Len(s) + i \in DOMAIN st /\ st[Len(s) + i] = t[i]
  <2>1. /\ Len(s) + i \in 1..(Len(s) + Len(t)) /\ ~(Len(s) + i <= Len(s))
        /\ (Len(s) + i) - Len(s) = i
    BY <1>3
  <2> QED
    BY <1>4, <1>5, <2>1
<1>8. ASSUME NEW i \in DOMAIN st, st[i].type = "abstract" PROVE st[i].stmts \in Body
  <2>1. CASE i <= Len(s)
    <3>1. i \in DOMAIN s /\ st[i] = s[i]
      BY <1>3, <1>4, <1>5, <2>1
    <3> QED
      BY <1>8, <3>1 DEF Objects
  <2>2. CASE ~(i <= Len(s))
    <3>1. i - Len(s) \in DOMAIN t /\ st[i] = t[i - Len(s)]
      BY <1>3, <1>4, <1>5, <2>2
    <3> QED
      BY <1>8, <3>1 DEF Objects
  <2> QED
    BY <2>1, <2>2
<1>9. st \in Seq(Range(st))
  BY <1>4 DEF Range
<1> QED
  BY <1>4, <1>6, <1>7, <1>8, <1>9 DEF Objects, st

LEMMA ObjectsOne ==
    ASSUME NEW x, x.type = "abstract" => x.stmts \in Body
    PROVE  Objects(<<x>>) /\ Len(<<x>>) = 1 /\ DOMAIN <<x>> = {1} /\ <<x>>[1] = x
BY DEF Objects, Range

LEMMA ObjectsAppend ==
    ASSUME NEW s, Objects(s), NEW x, x.type = "abstract" => x.stmts \in Body
    PROVE  /\ Objects(Append(s, x))
           /\ Len(Append(s, x)) = Len(s) + 1
           /\ \A i \in DOMAIN s : i \in DOMAIN Append(s, x) /\ Append(s, x)[i] = s[i]
           /\ Len(s) + 1 \in DOMAIN Append(s, x) /\ Append(s, x)[Len(s) + 1] = x
<1>1. Append(s, x) = s \o <<x>>
  BY DEF Objects
<1> QED
  BY <1>1, ObjectsOne, ObjectsBoth

(* What a pattern has from what it extends is an abstract pattern's too.    *)
LEMMA BaseBody ==
    ASSUME TablesOK, NEW base \in Names, BaseStmts(base) # << >>
    PROVE  /\ BaseStmts(base) \in Body
           /\ BuildTree(BaseStmts(base)) = Meaning(base)
<1>1. CASE IsAbstract(base)
  BY <1>1, AbstractBody DEF BaseStmts, Meaning
<1>2. CASE ~IsAbstract(base)
  <2> DEFINE root == Root(<< >>, base)
  <2>1. BaseStmts(base) = <<root>>
    BY <1>2 DEF BaseStmts
  <2>2. root \in RootStmt /\ root.at = << >> /\ root.value = base
    BY DEF Root, ModeStmt, RootStmt
  <2>3. Meaning(base) = Node(base)
    BY <1>2 DEF Meaning
  <2> HIDE DEF root
  <2>4. <<root>> \in Body
    BY <2>2 DEF Body
  <2>5. Head(<<root>>) = root /\ Tail(<<root>>) = << >>
    OBVIOUS
  <2>6. BuildTree(<<root>>) = B!Fold(rtlOperandSymTab, Node(base), << >>)
    BY <2>2, <2>5, BuildFold DEF BuildTree
  <2> QED
    BY <2>1, <2>3, <2>4, <2>6, B!FoldNone
<1> QED
  BY <1>1, <1>2

ProgramOK == program \in Programs /\ next \in Nat \ {0}

IInv == ProgramOK /\ TablesOK

LEMMA NextDeclaration ==
    ASSUME ProgramOK, next <= Len(program)
    PROVE  next \in DOMAIN program /\ WellFormed(program[next])
<1>1. program \in Seq(Range(program)) /\ \A i \in DOMAIN program : WellFormed(program[i])
  BY ProgramsAssumption DEF ProgramOK
<1>2. Len(program) \in Nat /\ DOMAIN program = 1..Len(program)
  BY <1>1
<1> QED
  BY <1>1, <1>2 DEF ProgramOK

LEMMA InitInv ==
    ASSUME Init
    PROVE  IInv
<1>1. OperatorsTyped(rtlOperandSymTab)
  BY BasisAssumption DEF Init, OperatorsTyped
<1>2. Objects(patterns) /\ NamesOK
  BY DEF Init, Objects, NamesOK, Range
<1> QED
  BY <1>1, <1>2 DEF Init, IInv, ProgramOK, TablesOK

(* The objects with one more, which the name leads to.                      *)
LEMMA AddEntryInv ==
    ASSUME NamesOK, NEW name, NEW objects, Objects(objects), Len(objects) \in DOMAIN objects,
           DOMAIN patterns \subseteq DOMAIN objects, addSymTabEntry(name, objects)
    PROVE  Objects(patterns)' /\ NamesOK'
BY DEF NamesOK, Objects, addSymTabEntry

(* An abstract pattern is what it extends with its statements inlined.      *)
LEMMA AbstractMade ==
    ASSUME IInv, AbstractPattern, BaseStmts(program[next].base) # << >>
    PROVE  LET d     == program[next]
               stmts == BaseStmts(d.base)
                        \o FlattenSeq([i \in DOMAIN d.stmts |-> InlineStmt(d.stmts[i])])
           IN  /\ patterns' = Append(patterns, AbstPattern(d.name, stmts))
               /\ addSymTabEntry(d.name, patterns')
               /\ stmts \in Body
               /\ BuildTree(stmts) = M!Fold(0, Meaning(d.base), d.stmts)
<1> DEFINE d       == program[next]
           base    == BaseStmts(d.base)
           inlined == [i \in DOMAIN d.stmts |-> InlineStmt(d.stmts[i])]
           stmts   == base \o FlattenSeq(inlined)
<1>1. d.base \in Names /\ d.stmts \in Seq(RootStmt)
  BY NextDeclaration DEF IInv, AbstractPattern, WellFormed
<1>2. /\ patterns' = Append(patterns, AbstPattern(d.name, stmts))
      /\ addSymTabEntry(d.name, patterns')
  BY DEF AbstractPattern, addSymTabEntry
<1>3. TablesOK
  BY DEF IInv
<1>4. base \in Body /\ BuildTree(base) = Meaning(d.base)
  BY <1>1, <1>3, BaseBody
<1>5. Meaning(d.base) \in TreeSet
  BY <1>1, <1>3, MeaningIn
<1>6. /\ FlattenSeq(inlined) \in Seq(RootStmt)
      /\ B!Fold(rtlOperandSymTab, Meaning(d.base), FlattenSeq(inlined)) = M!Fold(0, Meaning(d.base), d.stmts)
  BY <1>1, <1>3, <1>5, InlineMeans
<1> HIDE DEF base, inlined
<1>7. stmts \in Body
  <2>1. base \in Seq(RootStmt) /\ base # << >> /\ base[1].at = << >>
    BY <1>4 DEF Body
  <2>2. stmts \in Seq(RootStmt) /\ stmts # << >> /\ stmts[1] = base[1]
    BY <1>6, <2>1
  <2> QED
    BY <2>1, <2>2 DEF Body
<1>8. BuildTree(stmts) = B!Fold(rtlOperandSymTab, BuildTree(base), FlattenSeq(inlined))
  BY <1>4, <1>6, BuildTreeBoth
<1> QED
  BY <1>2, <1>4, <1>6, <1>7, <1>8 DEF base, inlined

LEMMA AbstractInv ==
    ASSUME IInv, AbstractPattern
    PROVE  IInv'
<1>1. ProgramOK'
  BY DEF IInv, ProgramOK, AbstractPattern
<1>2. OperatorsTyped(rtlOperandSymTab)'
  BY DEF IInv, TablesOK, OperatorsTyped, AbstractPattern
<1>3. Objects(patterns)' /\ NamesOK'
  <2>1. Objects(patterns) /\ NamesOK
    BY DEF IInv, TablesOK
  <2>2. CASE BaseStmts(program[next].base) = << >>
    <3>1. UNCHANGED <<patterns, symTab>>
      BY <2>2 DEF AbstractPattern
    <3> QED
      BY <2>1, <3>1 DEF NamesOK, Objects
  <2>3. CASE BaseStmts(program[next].base) # << >>
    <3>1. PICK stmts \in Body :
             /\ patterns' = Append(patterns, AbstPattern(program[next].name, stmts))
             /\ addSymTabEntry(program[next].name, patterns')
      BY <2>3, AbstractMade
    <3>2. /\ Objects(patterns') /\ Len(patterns') \in DOMAIN patterns'
          /\ DOMAIN patterns \subseteq DOMAIN patterns'
      BY <2>1, <3>1, ObjectsAppend DEF AbstPattern
    <3> QED
      BY <2>1, <3>1, <3>2, AddEntryInv
  <2> QED
    BY <2>2, <2>3
<1> QED
  BY <1>1, <1>2, <1>3 DEF IInv, TablesOK

LEMMA ListInv ==
    ASSUME IInv, ListPattern
    PROVE  IInv'
<1>1. ProgramOK'
  BY DEF IInv, ProgramOK, ListPattern
<1>2. Objects(patterns)' /\ NamesOK'
  BY DEF IInv, TablesOK, Objects, NamesOK, ListPattern
<1>3. OperatorsTyped(rtlOperandSymTab)'
  BY DEF IInv, TablesOK, OperatorsTyped, ListPattern, findRtlOperandSymTabEntry
<1> QED
  BY <1>1, <1>2, <1>3 DEF IInv, TablesOK

(* An operator that is instantiated is an abstract pattern of one statement. *)
LEMMA OwnAbstractObjects ==
    ASSUME NEW part, part.parent \in Names
    PROVE  Objects(OwnAbstract(part))
<1> DEFINE root == Root(<< >>, part.parent)
           own  == AbstPattern(part.parent, <<root>>)
<1>1. root \in RootStmt /\ root.at = << >>
  BY DEF Root, ModeStmt, RootStmt
<1> HIDE DEF root
<1>2. own.type = "abstract" => own.stmts \in Body
  BY <1>1 DEF AbstPattern, Body
<1> HIDE DEF own
<1>3. Objects(<<own>>)
  BY <1>2, ObjectsOne
<1>4. Objects(<< >>)
  BY DEF Objects, Range
<1>5. OwnAbstract(part) = <<own>> \/ OwnAbstract(part) = << >>
  BY DEF OwnAbstract, own, root
<1> QED
  BY <1>3, <1>4, <1>5

LEMMA ConcreteInv ==
    ASSUME IInv, ConcretePattern
    PROVE  IInv'
<1> DEFINE d      == program[next]
           inOwn  == OwnAbstract(d.in)
           outOwn == IF IsComposite(d.type) THEN OwnAbstract(d.out) ELSE << >>
           heap   == patterns \o inOwn \o outOwn
<1>1. ProgramOK'
  BY DEF IInv, ProgramOK, ConcretePattern
<1>2. OperatorsTyped(rtlOperandSymTab)'
  BY DEF IInv, TablesOK, OperatorsTyped, ConcretePattern
<1>3. Objects(patterns) /\ NamesOK
  BY DEF IInv, TablesOK
<1>4. /\ d.type # "abstract" /\ d.in.parent \in Names
      /\ IsComposite(d.type) => d.out.parent \in Names
  BY NextDeclaration DEF IInv, ConcretePattern, WellFormed, IsPart
<1>5. /\ Objects(heap) /\ DOMAIN patterns \subseteq DOMAIN heap
  <2>1. Objects(inOwn)
    BY <1>4, OwnAbstractObjects
  <2>2. Objects(outOwn)
    <3>1. CASE IsComposite(d.type)
      BY <1>4, <3>1, OwnAbstractObjects
    <3>2. CASE ~IsComposite(d.type)
      BY <3>2 DEF Objects, Range
    <3> QED
      BY <3>1, <3>2
  <2> HIDE DEF inOwn, outOwn
  <2>3. Objects(patterns \o inOwn) /\ DOMAIN patterns \subseteq DOMAIN (patterns \o inOwn)
    BY <1>3, <2>1, ObjectsBoth
  <2>4. Objects(heap) /\ DOMAIN (patterns \o inOwn) \subseteq DOMAIN heap
    BY <2>2, <2>3, ObjectsBoth
  <2> QED
    BY <2>3, <2>4
<1>6. Objects(patterns)' /\ NamesOK'
  <2>1. CASE UNCHANGED <<patterns, symTab>>
    BY <1>3, <2>1 DEF NamesOK, Objects
  <2>2. CASE \E i, o : addSymTabEntry(d.name,
               Append(heap, [type |-> d.type, name |-> d.name, in |-> i, out |-> o]))
    <3>1. PICK i, o : addSymTabEntry(d.name,
               Append(heap, [type |-> d.type, name |-> d.name, in |-> i, out |-> o]))
      BY <2>2
    <3> DEFINE x == [type |-> d.type, name |-> d.name, in |-> i, out |-> o]
    <3>2. x.type # "abstract"
      BY <1>4
    <3> HIDE DEF x, heap
    <3>3. /\ Objects(Append(heap, x)) /\ Len(Append(heap, x)) \in DOMAIN Append(heap, x)
          /\ DOMAIN heap \subseteq DOMAIN Append(heap, x)
      BY <1>5, <3>2, ObjectsAppend
    <3>4. addSymTabEntry(d.name, Append(heap, x))
      BY <3>1 DEF x
    <3> QED
      BY <1>3, <1>5, <3>3, <3>4, AddEntryInv
  <2> QED
    BY <2>1, <2>2 DEF ConcretePattern
<1> QED
  BY <1>1, <1>2, <1>6 DEF IInv, TablesOK

LEMMA NextInv ==
    ASSUME IInv, [Next]_vars
    PROVE  IInv'
<1>1. CASE AbstractPattern
  BY <1>1, AbstractInv
<1>2. CASE ConcretePattern
  BY <1>2, ConcreteInv
<1>3. CASE ListPattern
  BY <1>3, ListInv
<1>4. CASE UNCHANGED vars
  BY <1>4 DEF vars, IInv, ProgramOK, TablesOK, OperatorsTyped, Objects, NamesOK
<1> QED
  BY <1>1, <1>2, <1>3, <1>4 DEF Next, EndOfInput

(* Every reachable state has tables whose names lead to objects and whose   *)
(* abstract patterns begin at their root.                                   *)
THEOREM TypedTables == Spec => []IInv
BY InitInv, NextInv, PTL DEF Spec

(* An abstract pattern stands for the tree of what it extends, with the     *)
(* trees of what its statements name in the places they say: to inline the  *)
(* statements below their positions is to compose the trees.                *)
THEOREM ExpansionIsComposition == Spec => ExpansionComposes
<1> DEFINE d == program[next]
           A == next' # next /\ d.type = "abstract" /\ patterns' # patterns =>
                  BuildTree(Last(patterns').stmts) =
                    FoldLeft(LAMBDA t, s : ReplaceNode(t, Meaning(s.value), s.at),
                             Meaning(d.base), d.stmts)
<1>1. ASSUME IInv, [Next]_vars PROVE [A]_vars
  <2> SUFFICES ASSUME next' # next, d.type = "abstract", patterns' # patterns
               PROVE  BuildTree(Last(patterns').stmts) =
                        FoldLeft(LAMBDA t, s : ReplaceNode(t, Meaning(s.value), s.at),
                                 Meaning(d.base), d.stmts)
    OBVIOUS
  <2>1. AbstractPattern
    BY <1>1 DEF Next, ConcretePattern, ListPattern, EndOfInput, vars
  <2>2. BaseStmts(d.base) # << >>
    BY <2>1 DEF AbstractPattern
  <2>3. PICK stmts \in Body :
           /\ patterns' = Append(patterns, AbstPattern(d.name, stmts))
           /\ BuildTree(stmts) = M!Fold(0, Meaning(d.base), d.stmts)
    BY <1>1, <2>1, <2>2, AbstractMade
  <2>4. Last(patterns') = AbstPattern(d.name, stmts)
    <3>1. Objects(patterns)
      BY <1>1 DEF IInv, TablesOK
    <3> QED
      BY <2>3, <3>1 DEF Last, Objects
  <2>5. Last(patterns').stmts = stmts
    BY <2>4 DEF AbstPattern
  <2> QED
    BY <2>3, <2>5, MeanFold
<1> QED
  BY <1>1, TypedTables, PTL DEF Spec, ExpansionComposes

-----------------------------------------------------------------------------
(* Setting modes and replacing operands leave the nodes' names alone.       *)
HasFields(n) == n = [name |-> n.name, mode |-> n.mode, pmcReplacements |-> n.pmcReplacements]

SameShape(tree, t) ==
    /\ DOMAIN t = DOMAIN tree
    /\ \A p \in DOMAIN tree : HasFields(t[p]) /\ t[p].name = tree[p].name

LEMMA TreeFields ==
    ASSUME NEW tree \in TreeSet
    PROVE  SameShape(tree, tree)
<1>1. \A p \in DOMAIN tree : tree[p] \in NodeRecord
  BY TreeSetIs
<1>2. HasFields(DummyNode)
  BY DEF HasFields, DummyNode
<1>3. \A name : HasFields([DummyNode EXCEPT !.name = name])
  BY <1>2 DEF HasFields
<1> QED
  BY <1>1, <1>2, <1>3 DEF SameShape, NodeRecord

LEMMA SameLeaves ==
    ASSUME NEW tree, NEW t, SameShape(tree, t)
    PROVE  Leaves(t) = Leaves(tree)
BY DEF Leaves, SameShape

LEMMA ReplaceModeShape ==
    ASSUME NEW tree, NEW t, SameShape(tree, t), NEW mode, NEW at
    PROVE  SameShape(tree, ReplaceMode(t, mode, at))
<1> DEFINE r == ReplaceMode(t, mode, at)
<1>1. DOMAIN r = DOMAIN t
  BY DEF ReplaceMode
<1>2. ASSUME NEW p \in DOMAIN t PROVE HasFields(r[p]) /\ r[p].name = t[p].name
  <2>1. HasFields(t[p])
    BY DEF SameShape
  <2>2. CASE p # at
    BY <2>1, <2>2 DEF ReplaceMode
  <2>3. CASE p = at
    <3>1. r[p] = [t[p] EXCEPT !.mode = mode]
      BY <2>3 DEF ReplaceMode
    <3> QED
      BY <2>1, <3>1 DEF HasFields
  <2> QED
    BY <2>2, <2>3
<1> QED
  BY <1>1, <1>2 DEF SameShape

LEMMA AddPmcReplacementShape ==
    ASSUME NEW tree, NEW t, SameShape(tree, t), NEW stmt
    PROVE  SameShape(tree, AddPmcReplacement(t, stmt))
<1> DEFINE r  == AddPmcReplacement(t, stmt)
           at == Front(stmt.at)
<1>1. DOMAIN r = DOMAIN t
  BY DEF AddPmcReplacement
<1>2. ASSUME NEW p \in DOMAIN t PROVE HasFields(r[p]) /\ r[p].name = t[p].name
  <2>1. HasFields(t[p])
    BY DEF SameShape
  <2>2. CASE p # at
    BY <2>1, <2>2 DEF AddPmcReplacement
  <2>3. CASE p = at
    <3>1. \E x : r[p] = [t[p] EXCEPT !.pmcReplacements = x]
      BY <2>3 DEF AddPmcReplacement
    <3> QED
      BY <2>1, <3>1 DEF HasFields
  <2> QED
    BY <2>2, <2>3
<1> QED
  BY <1>1, <1>2 DEF SameShape

ModeStep(env, t, s) ==
    IF s.type = "mode" THEN ReplaceMode(t, ReplacedMode(env.replacing, s.value), s.at) ELSE t

PmcStep(env, t, s) == IF IsPmcStmt(s) THEN AddPmcReplacement(t, s) ELSE t

KeepsShape(env, t) == SameShape(env.tree, t)

Modes == INSTANCE FoldingProofs WITH op <- ModeStep, inv <- KeepsShape
Pmcs  == INSTANCE FoldingProofs WITH op <- PmcStep, inv <- KeepsShape

LEMMA SetModesShape ==
    ASSUME NEW tree, SameShape(tree, tree), NEW E, NEW stmts \in Seq(E), NEW replacing
    PROVE  SameShape(tree, SetModes(tree, stmts, replacing))
<1> DEFINE env == [tree |-> tree, replacing |-> replacing]
<1>1. SetModes(tree, stmts, replacing) = Modes!Fold(env, tree, stmts)
  BY DEF SetModes, Modes!Fold, Modes!FoldLeft, FoldLeft, Modes!MapThenFoldSet, MapThenFoldSet,
         Modes!Max, Max, ModeStep
<1>2. env.tree = tree
  OBVIOUS
<1> HIDE DEF env
<1>3. \A s, t : KeepsShape(env, t) => KeepsShape(env, ModeStep(env, t, s))
  BY ReplaceModeShape DEF KeepsShape, ModeStep
<1>4. KeepsShape(env, tree)
  BY <1>2 DEF KeepsShape
<1>5. KeepsShape(env, Modes!Fold(env, tree, stmts))
  BY <1>3, <1>4, Modes!FoldKeeps
<1> QED
  BY <1>1, <1>2, <1>5 DEF KeepsShape

LEMMA SetPmcsShape ==
    ASSUME NEW tree, NEW t, SameShape(tree, t), NEW E, NEW stmts \in Seq(E)
    PROVE  SameShape(tree, SetPmcs(t, stmts))
<1> DEFINE env == [tree |-> tree]
<1>1. SetPmcs(t, stmts) = Pmcs!Fold(env, t, stmts)
  BY DEF SetPmcs, Pmcs!Fold, Pmcs!FoldLeft, FoldLeft, Pmcs!MapThenFoldSet, MapThenFoldSet,
         Pmcs!Max, Max, PmcStep
<1>2. env.tree = tree
  OBVIOUS
<1> HIDE DEF env
<1>3. \A s, u : KeepsShape(env, u) => KeepsShape(env, PmcStep(env, u, s))
  BY AddPmcReplacementShape DEF KeepsShape, PmcStep
<1>4. KeepsShape(env, t)
  BY <1>2 DEF KeepsShape
<1>5. KeepsShape(env, Pmcs!Fold(env, t, stmts))
  BY <1>3, <1>4, Pmcs!FoldKeeps
<1> QED
  BY <1>1, <1>2, <1>5 DEF KeepsShape

(* Overriding keeps the number of operands. *)
OverrideStep(n, operands, s) == OverrideOperands(operands, s)

HasLength(n, operands) == operands = [i \in 1..n |-> operands[i]]

Overrides == INSTANCE FoldingProofs WITH op <- OverrideStep, inv <- HasLength

LEMMA OverrideLength ==
    ASSUME NEW n \in Nat, NEW operands, HasLength(n, operands), NEW E, NEW stmts \in Seq(E)
    PROVE  HasLength(n, FoldLeft(OverrideOperands, operands, stmts))
<1>1. FoldLeft(OverrideOperands, operands, stmts) = Overrides!Fold(n, operands, stmts)
  BY DEF Overrides!Fold, Overrides!FoldLeft, FoldLeft, Overrides!MapThenFoldSet, MapThenFoldSet,
         Overrides!Max, Max, OverrideStep
<1>2. ASSUME NEW ops, HasLength(n, ops), NEW s PROVE HasLength(n, OverrideStep(n, ops, s))
  <2>1. DOMAIN ops = 1..n
    BY <1>2 DEF HasLength
  <2>2. \A constraints : HasLength(n, ReplaceConstraints(ops, constraints))
    BY <2>1 DEF HasLength, ReplaceConstraints
  <2>3. \A from, to : HasLength(n, ReplaceModes(ops, from, to))
    BY <2>1 DEF HasLength, ReplaceModes
  <2> QED
    BY <1>2, <2>2, <2>3 DEF OverrideStep, OverrideOperands
<1>3. HasLength(n, Overrides!Fold(n, operands, stmts))
  BY <1>2, Overrides!FoldKeeps
<1> QED
  BY <1>1, <1>3

LEMMA LengthIs ==
    ASSUME NEW n \in Nat, NEW s, HasLength(n, s)
    PROVE  s \in Seq(Range(s)) /\ Len(s) = n
<1>1. DOMAIN s = 1..n
  BY DEF HasLength
<1>2. s \in [1..n -> Range(s)]
  BY <1>1 DEF HasLength, Range
<1> QED
  BY <1>2

LEMMA SequenceHasLength ==
    ASSUME NEW E, NEW s \in Seq(E)
    PROVE  HasLength(Len(s), s) /\ Len(s) \in Nat
BY DEF HasLength

-----------------------------------------------------------------------------
(* A part of a concrete pattern as createPattern leaves it: the abstract    *)
(* pattern it is made over is an older object.                              *)
MadePart(objects, i, part) ==
    /\ part.parent \in 1..(i - 1)
    /\ objects[part.parent].type = "abstract"
    /\ part.operands \in Seq(Range(part.operands))
    /\ part.stmts \in Seq(Range(part.stmts))

MadeParts(objects, i) ==
    objects[i].type # "abstract" =>
        /\ MadePart(objects, i, objects[i].in)
        /\ IsComposite(objects[i].type) => MadePart(objects, i, objects[i].out)

Parents(objects) == \A i \in DOMAIN objects : MadeParts(objects, i)

(* A tree has the shape of the abstract pattern's.                          *)
TreeOf(table, stmts) == B!Fold(table, NodeOf(table, Head(stmts).value), Tail(stmts))

LEMMA BuildTreeIs ==
    ASSUME NEW stmts
    PROVE  BuildTree(stmts) = TreeOf(rtlOperandSymTab, stmts)
BY BuildFold, NodeIs DEF BuildTree, TreeOf

MadeTree(table, objects, part) ==
    SameShape(TreeOf(table, objects[part.parent].stmts), part.tree)

(* What createPattern makes of a part over an object of the heap. *)
PartOver(heap, part, E, F) ==
    part \in [subType  : {"instantiates", "overrides"}, parent : DOMAIN heap,
              operands : Seq(E), stmts : Seq(F), tree : {<< >>}]

IsCreated(heap, part, c) ==
    /\ MadePart(heap, Len(heap) + 1, c)
    /\ AllOperatorsKnown(heap[c.parent].stmts) => MadeTree(rtlOperandSymTab, heap, c)
    /\ Len(c.operands) = Len(part.operands)
          + (IF part.subType = "overrides" THEN Len(heap[part.parent].in.operands) ELSE 0)
    /\ c.parent = IF part.subType = "overrides" THEN heap[part.parent].in.parent ELSE part.parent

LEMMA CreatePartMade ==
    ASSUME OperatorsTyped(rtlOperandSymTab), NEW heap, Objects(heap), Parents(heap),
           NEW part, NEW E, NEW F, PartOver(heap, part, E, F),
           part.subType = "overrides" <=> heap[part.parent].type # "abstract"
    PROVE  IsCreated(heap, part, CreatePart(heap, part))
<1> DEFINE overrides  == part.subType = "overrides"
           cp         == heap[part.parent].in
           ap         == IF overrides THEN cp.parent ELSE part.parent
           ms         == heap[ap].stmts
           operands   == IF overrides THEN cp.operands \o part.operands ELSE part.operands
           stmts      == IF overrides THEN cp.stmts \o part.stmts ELSE part.stmts
           overriding == IF overrides THEN stmts ELSE << >>
           made       == [subType  |-> part.subType,
                          parent   |-> ap,
                          operands |-> FoldLeft(OverrideOperands, NumberOperands(operands), overriding),
                          stmts    |-> UsedUp(stmts),
                          tree     |-> SetPmcs(SetModes(BuildTree(ms), stmts, overriding), stmts)]
           unmade     == [part EXCEPT !.parent = ap, !.operands = operands, !.stmts = stmts]
           G          == Range(operands)
           H          == Range(stmts)
           n          == Len(operands)
<1>1. CreatePart(heap, part) = IF ~AllOperatorsKnown(ms) THEN unmade ELSE made
  BY DEF CreatePart
<1>2. /\ part.parent \in 1..Len(heap) /\ Len(heap) \in Nat /\ DOMAIN heap = 1..Len(heap)
      /\ part.operands \in Seq(E) /\ part.stmts \in Seq(F)
  BY DEF Objects, PartOver
<1>3. overrides => MadePart(heap, part.parent, cp)
  <2>1. part.parent \in DOMAIN heap
    BY <1>2
  <2> QED
    BY <2>1 DEF Parents, MadeParts
<1>4. ap \in 1..Len(heap) /\ heap[ap].type = "abstract"
  BY <1>2, <1>3 DEF MadePart
<1>5. ms \in Body
  BY <1>2, <1>4 DEF Objects
<1>6. /\ operands \in Seq(G) /\ n \in Nat
      /\ n = Len(part.operands) + (IF overrides THEN Len(cp.operands) ELSE 0)
  <2>1. CASE overrides
    <3> DEFINE X == Range(cp.operands) \cup E
    <3>1. cp.operands \in Seq(X) /\ part.operands \in Seq(X)
      <4>1. cp.operands \in Seq(Range(cp.operands))
        BY <1>3, <2>1 DEF MadePart
      <4> QED
        BY <1>2, <4>1
    <3> HIDE DEF X
    <3>2. operands \in Seq(X) /\ n = Len(cp.operands) + Len(part.operands)
      BY <2>1, <3>1, ConcatProperties
    <3>3. Len(cp.operands) \in Nat /\ Len(part.operands) \in Nat
      BY <3>1
    <3>4. operands \in Seq(G)
      BY <3>2, SequenceHasLength, LengthIs
    <3>5. n \in Nat /\ n = Len(part.operands) + Len(cp.operands)
      <4> DEFINE a == Len(part.operands)
                 b == Len(cp.operands)
      <4>1. n = b + a /\ a \in Nat /\ b \in Nat
        BY <3>2, <3>3
      <4> HIDE DEF n, a, b
      <4>2. n \in Nat /\ n = a + b
        BY <4>1
      <4> QED
        BY <4>2 DEF a, b
    <3> HIDE DEF operands, G, n
    <3> QED
      BY <2>1, <3>4, <3>5
  <2>2. CASE ~overrides
    <3>1. operands = part.operands /\ operands \in Seq(E)
      BY <1>2, <2>2
    <3>2. operands \in Seq(G) /\ n \in Nat
      BY <3>1, SequenceHasLength, LengthIs
    <3> QED
      BY <2>2, <3>1, <3>2
  <2> QED
    BY <2>1, <2>2
<1>7. stmts \in Seq(H)
  <2>1. CASE overrides
    <3> DEFINE X == Range(cp.stmts) \cup F
    <3>1. cp.stmts \in Seq(X) /\ part.stmts \in Seq(X)
      <4>1. cp.stmts \in Seq(Range(cp.stmts))
        BY <1>3, <2>1 DEF MadePart
      <4> QED
        BY <1>2, <4>1
    <3> HIDE DEF X
    <3>2. stmts \in Seq(X)
      BY <2>1, <3>1, ConcatProperties
    <3> QED
      BY <3>2, SequenceHasLength, LengthIs
  <2>2. CASE ~overrides
    <3>1. stmts \in Seq(F)
      BY <1>2, <2>2
    <3> QED
      BY <3>1, SequenceHasLength, LengthIs
  <2> QED
    BY <2>1, <2>2
<1> HIDE DEF operands, stmts, G, H, ms, ap
<1>8. overriding \in Seq(H)
  BY <1>7
<1>9. HasLength(n, NumberOperands(operands))
  <2>1. DOMAIN operands = 1..n
    BY <1>6
  <2> QED
    BY <2>1 DEF HasLength, NumberOperands
<1>10. HasLength(n, FoldLeft(OverrideOperands, NumberOperands(operands), overriding))
  <2> HIDE DEF n, overriding
  <2> QED
    BY <1>6, <1>8, <1>9, OverrideLength
<1>11. UsedUp(stmts) \in Seq(Range(UsedUp(stmts)))
  <2>1. Len(stmts) \in Nat /\ DOMAIN stmts = 1..Len(stmts)
    BY <1>7
  <2>2. HasLength(Len(stmts), UsedUp(stmts))
    BY <2>1 DEF HasLength, UsedUp
  <2> QED
    BY <2>1, <2>2, LengthIs
<1>12. SameShape(BuildTree(ms), made.tree)
  <2>1. SameShape(BuildTree(ms), BuildTree(ms))
    BY <1>5, BuildTreeIn, TreeFields
  <2> HIDE DEF overriding
  <2>2. SameShape(BuildTree(ms), SetModes(BuildTree(ms), stmts, overriding))
    BY <1>7, <2>1, SetModesShape
  <2>3. SameShape(BuildTree(ms), SetPmcs(SetModes(BuildTree(ms), stmts, overriding), stmts))
    BY <1>7, <2>2, SetPmcsShape
  <2> QED
    BY <2>3
<1>13. MadePart(heap, Len(heap) + 1, made) /\ Len(made.operands) = n
  <2>1. /\ made.operands \in Seq(Range(made.operands)) /\ Len(made.operands) = n
        /\ made.stmts \in Seq(Range(made.stmts)) /\ made.parent = ap
    BY <1>6, <1>10, <1>11, LengthIs
  <2> HIDE DEF made
  <2> QED
    BY <1>2, <1>4, <2>1 DEF MadePart
<1>14. MadePart(heap, Len(heap) + 1, unmade) /\ unmade.operands = operands
  <2>1. unmade.operands = operands /\ unmade.stmts = stmts /\ unmade.parent = ap
    OBVIOUS
  <2> HIDE DEF unmade
  <2> QED
    BY <1>2, <1>4, <1>6, <1>7, <2>1 DEF MadePart, G, H
<1>15. made.parent = ap /\ unmade.parent = ap
  OBVIOUS
<1>16. MadeTree(rtlOperandSymTab, heap, made)
  BY <1>12, <1>15, BuildTreeIs DEF MadeTree, ms
<1>17. ap = IF overrides THEN cp.parent ELSE part.parent
  BY DEF ap
<1> HIDE DEF made, unmade
<1> QED
  BY <1>1, <1>6, <1>13, <1>14, <1>15, <1>16, <1>17 DEF ms, n, IsCreated

(* createPatternOut. *)
LEMMA CreatePartOutMade ==
    ASSUME OperatorsTyped(rtlOperandSymTab), NEW heap, Objects(heap), NEW part, NEW E, NEW F,
           PartOver(heap, part, E, F), heap[part.parent].type = "abstract"
    PROVE  LET c == CreatePartOut(heap, part)
           IN  /\ MadePart(heap, Len(heap) + 1, c)
               /\ MadeTree(rtlOperandSymTab, heap, c)
               /\ Len(c.operands) = Len(part.operands)
               /\ c.parent = part.parent
<1> DEFINE ms       == heap[part.parent].stmts
           operands == part.operands
           stmts    == part.stmts
           tree     == SetPmcs(SetModes(BuildTree(ms), stmts, << >>), stmts)
           c        == CreatePartOut(heap, part)
           n        == Len(operands)
<1>1. /\ c.operands = NumberOperands(operands) /\ c.stmts = UsedUp(stmts)
      /\ c.tree = tree /\ c.parent = part.parent
  BY DEF CreatePartOut
<1>2. /\ part.parent \in 1..Len(heap) /\ Len(heap) \in Nat /\ DOMAIN heap = 1..Len(heap)
      /\ operands \in Seq(E) /\ stmts \in Seq(F)
  BY DEF Objects, PartOver
<1> HIDE DEF c
<1>3. ms \in Body
  BY <1>2 DEF Objects
<1>4. NumberOperands(operands) \in Seq(Range(NumberOperands(operands))) /\ Len(NumberOperands(operands)) = n
  <2>1. n \in Nat /\ DOMAIN operands = 1..n
    BY <1>2
  <2>2. HasLength(n, NumberOperands(operands))
    BY <2>1 DEF HasLength, NumberOperands
  <2> QED
    BY <2>1, <2>2, LengthIs
<1>5. UsedUp(stmts) \in Seq(Range(UsedUp(stmts)))
  <2>1. Len(stmts) \in Nat /\ DOMAIN stmts = 1..Len(stmts)
    BY <1>2
  <2>2. HasLength(Len(stmts), UsedUp(stmts))
    BY <2>1 DEF HasLength, UsedUp
  <2> QED
    BY <2>1, <2>2, LengthIs
<1>6. SameShape(BuildTree(ms), tree)
  <2>1. SameShape(BuildTree(ms), BuildTree(ms))
    BY <1>3, BuildTreeIn, TreeFields
  <2>2. SameShape(BuildTree(ms), SetModes(BuildTree(ms), stmts, << >>))
    BY <1>2, <2>1, SetModesShape
  <2> QED
    BY <1>2, <2>2, SetPmcsShape
<1>7. MadePart(heap, Len(heap) + 1, c)
  BY <1>1, <1>2, <1>4, <1>5 DEF MadePart
<1>8. MadeTree(rtlOperandSymTab, heap, c)
  BY <1>1, <1>6, BuildTreeIs DEF MadeTree
<1> QED
  BY <1>1, <1>4, <1>7, <1>8 DEF c

-----------------------------------------------------------------------------
LEMMA MadePartMore ==
    ASSUME NEW s, NEW t, Objects(s), \A i \in DOMAIN s : t[i] = s[i],
           NEW i \in 1..(Len(s) + 1), NEW part, MadePart(s, i, part)
    PROVE  MadePart(t, i, part)
<1>1. Len(s) \in Nat /\ DOMAIN s = 1..Len(s)
  BY DEF Objects
<1>2. part.parent \in DOMAIN s
  BY <1>1 DEF MadePart
<1> QED
  BY <1>2 DEF MadePart

(* Abstract patterns and patterns made over older ones keep this so.        *)
LEMMA ParentsBoth ==
    ASSUME NEW s, NEW t, Objects(s), Objects(t), Parents(s),
           \A i \in DOMAIN t : t[i].type = "abstract"
    PROVE  Parents(s \o t)
<1> DEFINE st == s \o t
<1>1. /\ Len(s) \in Nat /\ DOMAIN s = 1..Len(s) /\ Len(t) \in Nat /\ DOMAIN t = 1..Len(t)
  BY DEF Objects
<1>2. /\ Objects(st) /\ Len(st) = Len(s) + Len(t)
      /\ \A i \in DOMAIN s : i \in DOMAIN st /\ st[i] = s[i]
      /\ \A i \in DOMAIN t : st[Len(s) + i] = t[i]
  BY ObjectsBoth
<1> HIDE DEF st
<1>3. DOMAIN st = 1..(Len(s) + Len(t))
  BY <1>2 DEF Objects
<1> SUFFICES ASSUME NEW i \in DOMAIN st PROVE MadeParts(st, i)
  BY DEF Parents, st
<1>4. CASE i <= Len(s)
  <2>1. i \in DOMAIN s /\ i \in 1..(Len(s) + 1)
    BY <1>1, <1>3, <1>4
  <2>2. MadeParts(s, i) /\ st[i] = s[i]
    BY <1>2, <2>1 DEF Parents
  <2> QED
    BY <1>2, <2>1, <2>2, MadePartMore DEF MadeParts
<1>5. CASE ~(i <= Len(s))
  <2>1. i - Len(s) \in DOMAIN t /\ Len(s) + (i - Len(s)) = i
    BY <1>1, <1>3, <1>5
  <2>2. st[i] = t[i - Len(s)]
    BY <1>2, <2>1
  <2> QED
    BY <2>1, <2>2 DEF MadeParts
<1> QED
  BY <1>4, <1>5

LEMMA ParentsAppend ==
    ASSUME NEW s, NEW x, Objects(s), Parents(s), x.type # "abstract",
           MadePart(s, Len(s) + 1, x.in),
           IsComposite(x.type) => MadePart(s, Len(s) + 1, x.out)
    PROVE  Parents(Append(s, x))
<1> DEFINE st == Append(s, x)
<1>1. /\ Len(s) \in Nat /\ DOMAIN s = 1..Len(s)
  BY DEF Objects
<1>2. /\ Objects(st) /\ Len(st) = Len(s) + 1
      /\ \A i \in DOMAIN s : i \in DOMAIN st /\ st[i] = s[i]
      /\ st[Len(s) + 1] = x
  BY ObjectsAppend
<1> HIDE DEF st
<1>3. DOMAIN st = 1..(Len(s) + 1)
  BY <1>2 DEF Objects
<1> SUFFICES ASSUME NEW i \in DOMAIN st PROVE MadeParts(st, i)
  BY DEF Parents, st
<1>4. CASE i <= Len(s)
  <2>1. i \in DOMAIN s /\ i \in 1..(Len(s) + 1)
    BY <1>1, <1>3, <1>4
  <2>2. MadeParts(s, i) /\ st[i] = s[i]
    BY <1>2, <2>1 DEF Parents
  <2> QED
    BY <1>2, <2>1, <2>2, MadePartMore DEF MadeParts
<1>5. CASE ~(i <= Len(s))
  <2>1. i = Len(s) + 1 /\ i \in 1..(Len(s) + 1)
    BY <1>1, <1>3, <1>5
  <2>2. MadePart(st, i, x.in) /\ (IsComposite(x.type) => MadePart(st, i, x.out))
    BY <1>2, <2>1, MadePartMore
  <2> QED
    BY <1>2, <2>1, <2>2 DEF MadeParts
<1> QED
  BY <1>4, <1>5

-----------------------------------------------------------------------------
(* What the theorems about concrete patterns ask of the input, because the  *)
(* compiler never asks it: operators that it knows in what is declared,     *)
(* concrete patterns where some are overridden, an operand for each leaf    *)
(* where an abstract one is instantiated, and no operator that is declared  *)
(* again with another number of children.                                   *)
KnownOperators ==
    \A i \in DOMAIN patterns :
        patterns[i].type = "abstract" => AllOperatorsKnown(patterns[i].stmts)

ConcreteIsNext == next <= Len(program) /\ program[next].type \notin {"abstract", "list"}

OverridesConcrete ==
    ConcreteIsNext /\ program[next].in.subType = "overrides" => ~IsAbstract(program[next].in.parent)

Accepted(d) == ~InError(d.in) /\ (IsComposite(d.type) => ~InError(d.out))

OperandsGiven ==
    LET d == program[next]
    IN  ConcreteIsNext /\ Accepted(d) =>
          /\ Len(d.in.operands) = IF d.in.subType = "overrides" THEN 0
                                  ELSE Cardinality(Leaves(Meaning(d.in.parent)))
          /\ IsComposite(d.type) => Len(d.out.operands) = Cardinality(Leaves(Meaning(d.out.parent)))

AritiesKept ==
    [][\A n \in DOMAIN rtlOperandSymTab : rtlOperandSymTab'[n] = rtlOperandSymTab[n]]_vars

(* The objects of a step, and the parts it makes objects of.                *)
OutOwn(d)    == IF IsComposite(d.type) THEN OwnAbstract(d.out) ELSE << >>
HeapOf(d)    == patterns \o OwnAbstract(d.in) \o OutOwn(d)
InPartOf(d)  == [d.in EXCEPT !.parent = ParentPattern(d.in, Len(patterns) + 1)]
OutPartOf(d) == [d.out EXCEPT !.parent = ParentPattern(d.out, Len(HeapOf(d)))]

(* An own abstract pattern is what its operator means.                      *)
OwnIs(objects, part) ==
    \A i \in DOMAIN objects :
        /\ objects[i].type = "abstract"
        /\ AllOperatorsKnown(objects[i].stmts)
        /\ BuildTree(objects[i].stmts) = Meaning(part.parent)

LEMMA OwnAbstractIs ==
    ASSUME NEW part, part.parent \in Names
    PROVE  /\ OwnIs(OwnAbstract(part), part)
           /\ OwnAbstract(part) = << >> \/ (DOMAIN OwnAbstract(part) = {1} /\ Len(OwnAbstract(part)) = 1)
           /\ OwnAbstract(part) # << >> => part.subType = "instantiates"
<1> DEFINE root == Root(<< >>, part.parent)
           own  == AbstPattern(part.parent, <<root>>)
<1>1. CASE OwnAbstract(part) = << >>
  BY <1>1 DEF OwnIs
<1>2. CASE OwnAbstract(part) # << >>
  <2>1. /\ OwnAbstract(part) = <<own>> /\ part.subType = "instantiates"
        /\ ~IsAbstract(part.parent) /\ findRtlOperandSymTabEntry(part.parent) >= 0
    BY <1>2 DEF OwnAbstract
  <2>2. root.value = part.parent
    BY DEF Root, ModeStmt
  <2>3. own.type = "abstract" /\ own.stmts = <<root>>
    BY DEF AbstPattern
  <2> HIDE DEF own
  <2>4. AllOperatorsKnown(<<root>>)
    <3>1. \A s \in Range(<<root>>) : s = root
      BY DEF Range
    <3> QED
      BY <2>1, <2>2, <3>1 DEF AllOperatorsKnown
  <2> HIDE DEF root
  <2>5. BuildTree(<<root>>) = Meaning(part.parent)
    <3>1. Head(<<root>>) = root /\ Tail(<<root>>) = << >>
      OBVIOUS
    <3>2. BuildTree(<<root>>) = B!Fold(rtlOperandSymTab, Node(part.parent), << >>)
      BY <2>2, <3>1, BuildFold DEF BuildTree
    <3> QED
      BY <2>1, <3>2, B!FoldNone DEF Meaning
  <2>6. DOMAIN <<own>> = {1} /\ <<own>>[1] = own /\ Len(<<own>>) = 1
    OBVIOUS
  <2>7. OwnIs(<<own>>, part)
    BY <2>3, <2>4, <2>5, <2>6 DEF OwnIs
  <2> QED
    BY <2>1, <2>6, <2>7
<1> QED
  BY <1>1, <1>2

(* The heap of a step: the objects, and abstract patterns of their own for  *)
(* the operators that are instantiated.                                     *)
LEMMA HeapIs ==
    ASSUME IInv, Parents(patterns), ConcreteIsNext
    PROVE  LET d    == program[next]
               heap == HeapOf(d)
           IN  /\ Objects(heap) /\ Parents(heap)
               /\ Len(patterns) <= Len(heap)
               /\ \A i \in DOMAIN patterns : i \in DOMAIN heap /\ heap[i] = patterns[i]
               /\ \A i \in DOMAIN heap \ DOMAIN patterns :
                      heap[i].type = "abstract" /\ AllOperatorsKnown(heap[i].stmts)
               /\ OwnAbstract(d.in) # << >> =>
                      /\ Len(patterns) + 1 \in DOMAIN heap
                      /\ heap[Len(patterns) + 1].type = "abstract"
                      /\ BuildTree(heap[Len(patterns) + 1].stmts) = Meaning(d.in.parent)
               /\ OutOwn(d) # << >> =>
                      /\ Len(heap) \in DOMAIN heap
                      /\ heap[Len(heap)].type = "abstract"
                      /\ BuildTree(heap[Len(heap)].stmts) = Meaning(d.out.parent)
<1> DEFINE d     == program[next]
           own   == OwnAbstract(d.in)
           out   == OutOwn(d)
           first == patterns \o own
           heap  == first \o out
<1>1. /\ Objects(patterns) /\ d.in.parent \in Names
      /\ IsComposite(d.type) => d.out.parent \in Names
  BY NextDeclaration DEF IInv, TablesOK, ConcreteIsNext, WellFormed, IsPart
<1>2. /\ Objects(own) /\ OwnIs(own, d.in)
      /\ own = << >> \/ (DOMAIN own = {1} /\ Len(own) = 1)
  BY <1>1, OwnAbstractObjects, OwnAbstractIs
<1>3. /\ Objects(out) /\ OwnIs(out, d.out)
      /\ out = << >> \/ (DOMAIN out = {1} /\ Len(out) = 1)
  <2>1. CASE IsComposite(d.type)
    BY <1>1, <2>1, OwnAbstractObjects, OwnAbstractIs DEF OutOwn
  <2>2. CASE ~IsComposite(d.type)
    BY <2>2 DEF OutOwn, Objects, OwnIs, Range
  <2> QED
    BY <2>1, <2>2
<1>4. HeapOf(d) = heap
  BY DEF HeapOf
<1> HIDE DEF own, out
<1>5. /\ Objects(first) /\ Len(first) = Len(patterns) + Len(own)
      /\ \A i \in DOMAIN patterns : i \in DOMAIN first /\ first[i] = patterns[i]
      /\ \A i \in DOMAIN own : Len(patterns) + i \in DOMAIN first /\ first[Len(patterns) + i] = own[i]
      /\ Parents(first)
  BY <1>1, <1>2, ObjectsBoth, ParentsBoth DEF OwnIs
<1> HIDE DEF first
<1>6. /\ Objects(heap) /\ Len(heap) = Len(first) + Len(out)
      /\ \A i \in DOMAIN first : i \in DOMAIN heap /\ heap[i] = first[i]
      /\ \A i \in DOMAIN out : Len(first) + i \in DOMAIN heap /\ heap[Len(first) + i] = out[i]
      /\ Parents(heap)
  BY <1>3, <1>5, ObjectsBoth, ParentsBoth DEF OwnIs
<1> HIDE DEF heap
<1>7. /\ Len(patterns) \in Nat /\ DOMAIN patterns = 1..Len(patterns)
      /\ Len(own) \in Nat /\ DOMAIN own = 1..Len(own)
      /\ Len(out) \in Nat /\ DOMAIN out = 1..Len(out)
      /\ DOMAIN first = 1..Len(first) /\ DOMAIN heap = 1..Len(heap)
  BY <1>1, <1>2, <1>3, <1>5, <1>6 DEF Objects
<1>8. ASSUME NEW i \in DOMAIN heap \ DOMAIN patterns
      PROVE  heap[i].type = "abstract" /\ AllOperatorsKnown(heap[i].stmts)
  <2>1. CASE i <= Len(first)
    <3>1. i \in DOMAIN first /\ i - Len(patterns) \in DOMAIN own /\ Len(patterns) + (i - Len(patterns)) = i
      BY <1>5, <1>7, <2>1
    <3>2. heap[i] = own[i - Len(patterns)]
      BY <1>5, <1>6, <3>1
    <3> QED
      BY <1>2, <3>1, <3>2 DEF OwnIs
  <2>2. CASE ~(i <= Len(first))
    <3>1. i - Len(first) \in DOMAIN out /\ Len(first) + (i - Len(first)) = i
      BY <1>5, <1>6, <1>7, <2>2
    <3>2. heap[i] = out[i - Len(first)]
      BY <1>6, <3>1
    <3> QED
      BY <1>3, <3>1, <3>2 DEF OwnIs
  <2> QED
    BY <2>1, <2>2
<1>9. own # << >> =>
         /\ Len(patterns) + 1 \in DOMAIN heap
         /\ heap[Len(patterns) + 1].type = "abstract"
         /\ BuildTree(heap[Len(patterns) + 1].stmts) = Meaning(d.in.parent)
  <2> SUFFICES ASSUME own # << >>
               PROVE  /\ Len(patterns) + 1 \in DOMAIN heap
                      /\ heap[Len(patterns) + 1].type = "abstract"
                      /\ BuildTree(heap[Len(patterns) + 1].stmts) = Meaning(d.in.parent)
    OBVIOUS
  <2>1. DOMAIN own = {1}
    BY <1>2
  <2>2. Len(patterns) + 1 \in DOMAIN first /\ first[Len(patterns) + 1] = own[1]
    BY <1>5, <2>1
  <2>3. Len(patterns) + 1 \in DOMAIN heap /\ heap[Len(patterns) + 1] = own[1]
    BY <1>6, <2>2
  <2> QED
    BY <1>2, <2>1, <2>3 DEF OwnIs
<1>10. out # << >> =>
         /\ Len(heap) \in DOMAIN heap
         /\ heap[Len(heap)].type = "abstract"
         /\ BuildTree(heap[Len(heap)].stmts) = Meaning(d.out.parent)
  <2> SUFFICES ASSUME out # << >>
               PROVE  /\ Len(heap) \in DOMAIN heap
                      /\ heap[Len(heap)].type = "abstract"
                      /\ BuildTree(heap[Len(heap)].stmts) = Meaning(d.out.parent)
    OBVIOUS
  <2>1. DOMAIN out = {1} /\ Len(out) = 1
    BY <1>3
  <2>2. Len(heap) = Len(first) + 1
    BY <1>6, <2>1
  <2>3. Len(first) + 1 \in DOMAIN heap /\ heap[Len(first) + 1] = out[1]
    BY <1>6, <2>1
  <2> QED
    BY <1>3, <2>1, <2>2, <2>3 DEF OwnIs
<1>11. /\ Len(patterns) <= Len(heap)
       /\ \A i \in DOMAIN patterns : i \in DOMAIN heap /\ heap[i] = patterns[i]
  BY <1>5, <1>6, <1>7
<1> QED
  BY <1>4, <1>6, <1>8, <1>9, <1>10, <1>11 DEF own, out

LEMMA FoundEntry ==
    ASSUME NamesOK, NEW name, findSymTabEntry(name) # 0
    PROVE  findSymTabEntry(name) \in DOMAIN patterns
BY DEF NamesOK, findSymTabEntry

(* What a part that is accepted is made over: its own abstract pattern at   *)
(* `own', or the object its parent's name leads to.                         *)
LEMMA ParentIs ==
    ASSUME NamesOK, NEW heap, \A i \in DOMAIN patterns : i \in DOMAIN heap /\ heap[i] = patterns[i],
           NEW part, part.parent \in Names, part.subType \in {"instantiates", "overrides"},
           ~InError(part), part.subType = "overrides" => ~IsAbstract(part.parent),
           NEW own,
           OwnAbstract(part) # << >> =>
              /\ own \in DOMAIN heap
              /\ heap[own].type = "abstract"
              /\ BuildTree(heap[own].stmts) = Meaning(part.parent)
    PROVE  LET p == ParentPattern(part, own)
           IN  /\ p \in DOMAIN heap
               /\ part.subType = "overrides" <=> heap[p].type # "abstract"
               /\ part.subType # "overrides" => BuildTree(heap[p].stmts) = Meaning(part.parent)
<1> DEFINE p == ParentPattern(part, own)
           f == findSymTabEntry(part.parent)
<1>1. CASE OwnAbstract(part) # << >>
  <2>1. p = own
    BY <1>1 DEF ParentPattern
  <2>2. part.subType # "overrides"
    BY <1>1, OwnAbstractIs
  <2> QED
    BY <1>1, <2>1, <2>2
<1>2. CASE OwnAbstract(part) = << >>
  <2>1. p = f
    BY <1>2 DEF ParentPattern
  <2>2. CASE part.subType = "overrides"
    <3>1. f # 0
      BY <1>2, <2>2 DEF InError
    <3>2. f \in DOMAIN patterns
      BY <3>1, FoundEntry
    <3>3. patterns[f].type # "abstract"
      BY <2>2, <3>1 DEF IsAbstract
    <3> QED
      BY <2>1, <2>2, <3>2, <3>3
  <2>3. CASE part.subType # "overrides"
    <3>1. IsAbstract(part.parent)
      BY <1>2, <2>3 DEF InError
    <3>2. f # 0 /\ patterns[f].type = "abstract"
      BY <3>1 DEF IsAbstract
    <3>3. f \in DOMAIN patterns
      BY <3>2, FoundEntry
    <3>4. Meaning(part.parent) = BuildTree(patterns[f].stmts)
      BY <3>1 DEF Meaning
    <3> QED
      BY <2>1, <2>3, <3>2, <3>3, <3>4
  <2> QED
    BY <2>2, <2>3
<1> QED
  BY <1>1, <1>2

LEMMA PartIsOver ==
    ASSUME NEW heap, NEW part, IsPart(part), NEW p \in DOMAIN heap
    PROVE  LET q == [part EXCEPT !.parent = p]
           IN  /\ PartOver(heap, q, Range(part.operands), Range(part.stmts))
               /\ q.parent = p /\ q.subType = part.subType /\ q.operands = part.operands
BY DEF IsPart, PartOver

(* An accepted part instantiates an abstract pattern or overrides a         *)
(* concrete one.                                                            *)
LEMMA InPartIs ==
    ASSUME IInv, Parents(patterns), ConcreteIsNext, OverridesConcrete, Accepted(program[next])
    PROVE  LET d    == program[next]
               heap == HeapOf(d)
               part == InPartOf(d)
           IN  /\ PartOver(heap, part, Range(d.in.operands), Range(d.in.stmts))
               /\ part.subType = "overrides" <=> heap[part.parent].type # "abstract"
               /\ part.operands = d.in.operands
               /\ part.subType = d.in.subType
               /\ part.subType # "overrides" =>
                      BuildTree(heap[part.parent].stmts) = Meaning(d.in.parent)
<1> DEFINE d    == program[next]
           heap == HeapOf(d)
           own  == Len(patterns) + 1
           p    == ParentPattern(d.in, own)
<1>1. IsPart(d.in)
  BY NextDeclaration DEF IInv, ConcreteIsNext, WellFormed
<1>2. d.in.parent \in Names /\ d.in.subType \in {"instantiates", "overrides"}
  BY <1>1 DEF IsPart
<1>3. ~InError(d.in) /\ (d.in.subType = "overrides" => ~IsAbstract(d.in.parent))
  BY DEF Accepted, OverridesConcrete
<1>4. /\ \A i \in DOMAIN patterns : i \in DOMAIN heap /\ heap[i] = patterns[i]
      /\ OwnAbstract(d.in) # << >> =>
            /\ own \in DOMAIN heap
            /\ heap[own].type = "abstract"
            /\ BuildTree(heap[own].stmts) = Meaning(d.in.parent)
  BY HeapIs
<1> HIDE DEF heap, own
<1>5. /\ p \in DOMAIN heap
      /\ d.in.subType = "overrides" <=> heap[p].type # "abstract"
      /\ d.in.subType # "overrides" => BuildTree(heap[p].stmts) = Meaning(d.in.parent)
  <2>1. NamesOK
    BY DEF IInv, TablesOK
  <2> QED
    BY <1>2, <1>3, <1>4, <2>1, ParentIs
<1>6. InPartOf(d) = [d.in EXCEPT !.parent = p]
  BY DEF InPartOf, own
<1> HIDE DEF p
<1>7. /\ PartOver(heap, InPartOf(d), Range(d.in.operands), Range(d.in.stmts))
      /\ InPartOf(d).parent = p /\ InPartOf(d).subType = d.in.subType
      /\ InPartOf(d).operands = d.in.operands
  BY <1>1, <1>5, <1>6, PartIsOver
<1> QED
  BY <1>5, <1>7 DEF heap

LEMMA OutPartIs ==
    ASSUME IInv, Parents(patterns), ConcreteIsNext, Accepted(program[next]),
           IsComposite(program[next].type)
    PROVE  LET d    == program[next]
               heap == HeapOf(d)
               part == OutPartOf(d)
           IN  /\ PartOver(heap, part, Range(d.out.operands), Range(d.out.stmts))
               /\ heap[part.parent].type = "abstract"
               /\ part.operands = d.out.operands
               /\ BuildTree(heap[part.parent].stmts) = Meaning(d.out.parent)
<1> DEFINE d    == program[next]
           heap == HeapOf(d)
           own  == Len(heap)
           p    == ParentPattern(d.out, own)
<1>1. IsPart(d.out) /\ d.out.subType = "instantiates"
  BY NextDeclaration DEF IInv, ConcreteIsNext, WellFormed
<1>2. d.out.parent \in Names /\ d.out.subType \in {"instantiates", "overrides"}
  BY <1>1 DEF IsPart
<1>3. ~InError(d.out) /\ (d.out.subType = "overrides" => ~IsAbstract(d.out.parent))
  BY <1>1 DEF Accepted
<1>4. /\ \A i \in DOMAIN patterns : i \in DOMAIN heap /\ heap[i] = patterns[i]
      /\ OwnAbstract(d.out) # << >> =>
            /\ own \in DOMAIN heap
            /\ heap[own].type = "abstract"
            /\ BuildTree(heap[own].stmts) = Meaning(d.out.parent)
  <2>1. OutOwn(d) = OwnAbstract(d.out)
    BY DEF OutOwn
  <2> QED
    BY <2>1, HeapIs
<1>5. OutPartOf(d) = [d.out EXCEPT !.parent = p]
  BY DEF OutPartOf
<1> HIDE DEF heap, own
<1>6. /\ p \in DOMAIN heap
      /\ d.out.subType = "overrides" <=> heap[p].type # "abstract"
      /\ d.out.subType # "overrides" => BuildTree(heap[p].stmts) = Meaning(d.out.parent)
  <2>1. NamesOK
    BY DEF IInv, TablesOK
  <2> QED
    BY <1>2, <1>3, <1>4, <2>1, ParentIs
<1> HIDE DEF p
<1>7. /\ PartOver(heap, OutPartOf(d), Range(d.out.operands), Range(d.out.stmts))
      /\ OutPartOf(d).parent = p
      /\ OutPartOf(d).operands = d.out.operands
  BY <1>1, <1>5, <1>6, PartIsOver
<1> QED
  BY <1>1, <1>6, <1>7 DEF heap

-----------------------------------------------------------------------------
(* The parts a concrete pattern is created with.                            *)
MadeIn(d)  == CreatePart(HeapOf(d), InPartOf(d))
MadeOut(d) == IF IsComposite(d.type) THEN CreatePartOut(HeapOf(d), OutPartOf(d)) ELSE d.out
Made(d)    == [type |-> d.type, name |-> d.name, in |-> MadeIn(d), out |-> MadeOut(d)]

(* A concrete pattern in error changes nothing, another one becomes an      *)
(* object and what it is printed as.                                        *)
LEMMA ConcreteMade ==
    ASSUME ConcretePattern
    PROVE  LET d == program[next]
           IN  /\ ConcreteIsNext
               /\ ~Accepted(d) => UNCHANGED <<patterns, symTab, outPattern, outFile>>
               /\ Accepted(d) =>
                    /\ outPattern' =
                         AfterCreatePattern(d.name, d.type, MadeIn(d))
                         \o (IF IsComposite(d.type) THEN <<PrintedPart(d.name, "out", MadeOut(d))>>
                             ELSE << >>)
                    /\ outFile' = outFile \o outPattern'
                    /\ addSymTabEntry(d.name, Append(HeapOf(d), Made(d)))
BY DEF ConcretePattern, ConcreteIsNext, Accepted, HeapOf, OutOwn, InPartOf, OutPartOf, MadeIn,
       MadeOut, Made

(* What createPattern makes of the IN part of the next declaration.         *)
LEMMA InMade ==
    ASSUME IInv, Parents(patterns), ConcreteIsNext, OverridesConcrete, Accepted(program[next])
    PROVE  LET d    == program[next]
               heap == HeapOf(d)
               over == InPartOf(d).parent
               i    == MadeIn(d)
           IN  /\ MadePart(heap, Len(heap) + 1, i)
               /\ KnownOperators => MadeTree(rtlOperandSymTab, heap, i)
               /\ d.in.subType # "overrides" =>
                     /\ Len(i.operands) = Len(d.in.operands)
                     /\ BuildTree(heap[i.parent].stmts) = Meaning(d.in.parent)
               /\ d.in.subType = "overrides" =>
                     /\ over \in DOMAIN heap
                     /\ heap[over].type # "abstract"
                     /\ i.parent = heap[over].in.parent
                     /\ Len(i.operands) = Len(d.in.operands) + Len(heap[over].in.operands)
<1> DEFINE d    == program[next]
           heap == HeapOf(d)
           part == InPartOf(d)
           i    == MadeIn(d)
           E    == Range(d.in.operands)
           F    == Range(d.in.stmts)
<1>1. /\ PartOver(heap, part, Range(d.in.operands), Range(d.in.stmts))
      /\ part.subType = "overrides" <=> heap[part.parent].type # "abstract"
      /\ part.operands = d.in.operands
      /\ part.subType = d.in.subType
      /\ part.subType # "overrides" => BuildTree(heap[part.parent].stmts) = Meaning(d.in.parent)
  BY InPartIs
<1>2. /\ Objects(heap) /\ Parents(heap)
      /\ \A k \in DOMAIN patterns : k \in DOMAIN heap /\ heap[k] = patterns[k]
      /\ \A k \in DOMAIN heap \ DOMAIN patterns :
             heap[k].type = "abstract" /\ AllOperatorsKnown(heap[k].stmts)
  BY HeapIs
<1>3. i = CreatePart(heap, part)
  BY DEF MadeIn
<1> HIDE DEF heap, part, i, E, F
<1>4. PartOver(heap, part, E, F)
  BY <1>1 DEF E, F
<1>5. OperatorsTyped(rtlOperandSymTab)
  BY DEF IInv, TablesOK
<1>6. IsCreated(heap, part, i)
  BY <1>1, <1>2, <1>3, <1>4, <1>5, CreatePartMade
<1>7. Len(part.operands) \in Nat
  BY <1>4 DEF PartOver
<1>8. KnownOperators => AllOperatorsKnown(heap[i.parent].stmts)
  <2>1. i.parent \in DOMAIN heap /\ heap[i.parent].type = "abstract"
    BY <1>2, <1>6 DEF MadePart, Objects, IsCreated
  <2> QED
    BY <1>2, <2>1 DEF KnownOperators
<1>9. part.parent \in DOMAIN heap
  BY <1>4 DEF PartOver
<1>10. /\ MadePart(heap, Len(heap) + 1, i)
       /\ KnownOperators => MadeTree(rtlOperandSymTab, heap, i)
  BY <1>6, <1>8 DEF IsCreated
<1>11. ASSUME d.in.subType # "overrides"
       PROVE  /\ Len(i.operands) = Len(d.in.operands)
              /\ BuildTree(heap[i.parent].stmts) = Meaning(d.in.parent)
  BY <1>1, <1>6, <1>7, <1>11 DEF IsCreated
<1>12. ASSUME d.in.subType = "overrides"
       PROVE  /\ heap[part.parent].type # "abstract"
              /\ i.parent = heap[part.parent].in.parent
              /\ Len(i.operands) = Len(d.in.operands) + Len(heap[part.parent].in.operands)
  BY <1>1, <1>6, <1>12 DEF IsCreated
<1> QED
  BY <1>9, <1>10, <1>11, <1>12 DEF heap, part, i

(* And createPatternOut of its OUT part.                                    *)
LEMMA OutMade ==
    ASSUME IInv, Parents(patterns), ConcreteIsNext, Accepted(program[next]),
           IsComposite(program[next].type)
    PROVE  LET d    == program[next]
               heap == HeapOf(d)
               o    == MadeOut(d)
           IN  /\ MadePart(heap, Len(heap) + 1, o)
               /\ MadeTree(rtlOperandSymTab, heap, o)
               /\ Len(o.operands) = Len(d.out.operands)
               /\ BuildTree(heap[o.parent].stmts) = Meaning(d.out.parent)
<1> DEFINE d    == program[next]
           heap == HeapOf(d)
           part == OutPartOf(d)
           o    == MadeOut(d)
           E    == Range(d.out.operands)
           F    == Range(d.out.stmts)
<1>1. /\ PartOver(heap, part, Range(d.out.operands), Range(d.out.stmts))
      /\ heap[part.parent].type = "abstract"
      /\ part.operands = d.out.operands
      /\ BuildTree(heap[part.parent].stmts) = Meaning(d.out.parent)
  BY OutPartIs
<1>2. Objects(heap)
  BY HeapIs
<1>3. o = CreatePartOut(heap, part)
  BY DEF MadeOut
<1> HIDE DEF heap, part, o, E, F
<1>4. PartOver(heap, part, E, F)
  BY <1>1 DEF E, F
<1>5. OperatorsTyped(rtlOperandSymTab)
  BY DEF IInv, TablesOK
<1>6. /\ MadePart(heap, Len(heap) + 1, o)
      /\ MadeTree(rtlOperandSymTab, heap, o)
      /\ Len(o.operands) = Len(part.operands)
      /\ o.parent = part.parent
  BY <1>1, <1>2, <1>3, <1>4, <1>5, CreatePartOutMade
<1> QED
  BY <1>1, <1>6 DEF heap, part, o

(* Every part is made over an older abstract pattern, when concrete         *)
(* patterns override concrete ones.                                         *)
LEMMA ParentsInv ==
    ASSUME IInv, Parents(patterns), [Next]_vars, OverridesConcrete
    PROVE  Parents(patterns')
<1>1. CASE AbstractPattern
  <2>1. CASE BaseStmts(program[next].base) = << >>
    BY <1>1, <2>1 DEF AbstractPattern
  <2>2. CASE BaseStmts(program[next].base) # << >>
    <3>1. PICK stmts \in Body : patterns' = Append(patterns, AbstPattern(program[next].name, stmts))
      BY <1>1, <2>2, AbstractMade
    <3> DEFINE x == AbstPattern(program[next].name, stmts)
    <3>2. x.type = "abstract" /\ x.stmts \in Body
      BY DEF AbstPattern
    <3> HIDE DEF x
    <3>3. Objects(patterns)
      BY DEF IInv, TablesOK
    <3>4. Objects(<<x>>) /\ \A i \in DOMAIN <<x>> : <<x>>[i].type = "abstract"
      BY <3>2, ObjectsOne
    <3>5. Append(patterns, x) = patterns \o <<x>>
      BY <3>3 DEF Objects
    <3> QED
      BY <3>1, <3>3, <3>4, <3>5, ParentsBoth DEF x
  <2> QED
    BY <2>1, <2>2
<1>2. CASE ConcretePattern
  <2> DEFINE d == program[next]
  <2>1. ConcreteIsNext
    BY <1>2, ConcreteMade
  <2>2. CASE ~Accepted(d)
    <3>1. patterns' = patterns
      BY <1>2, <2>2, ConcreteMade
    <3> QED
      BY <3>1
  <2>3. CASE Accepted(d)
    <3>1. patterns' = Append(HeapOf(d), Made(d))
      BY <1>2, <2>3, ConcreteMade DEF addSymTabEntry
    <3>2. Objects(HeapOf(d)) /\ Parents(HeapOf(d))
      BY <2>1, HeapIs
    <3>3. MadePart(HeapOf(d), Len(HeapOf(d)) + 1, MadeIn(d))
      BY <2>1, <2>3, InMade
    <3>4. IsComposite(d.type) => MadePart(HeapOf(d), Len(HeapOf(d)) + 1, MadeOut(d))
      BY <2>1, <2>3, OutMade
    <3>5. /\ Made(d).type = d.type /\ Made(d).type # "abstract"
          /\ Made(d).in = MadeIn(d) /\ Made(d).out = MadeOut(d)
      BY <2>1 DEF Made, ConcreteIsNext
    <3> QED
      BY <3>1, <3>2, <3>3, <3>4, <3>5, ParentsAppend
  <2> QED
    BY <2>2, <2>3
<1>3. CASE ListPattern
  BY <1>3 DEF ListPattern
<1>4. CASE UNCHANGED vars
  BY <1>4 DEF vars
<1> QED
  BY <1>1, <1>2, <1>3, <1>4 DEF Next, EndOfInput

-----------------------------------------------------------------------------
(* A part with an operand for each leaf of its tree.                        *)
Sized(table, objects, part) ==
    /\ MadeTree(table, objects, part)
    /\ Len(part.operands) = Cardinality(Leaves(part.tree))

SizedParts(table, objects, x) ==
    x.type # "abstract" =>
        /\ Sized(table, objects, x.in)
        /\ IsComposite(x.type) => Sized(table, objects, x.out)

Sizes(table, objects) == \A i \in DOMAIN objects : SizedParts(table, objects, objects[i])

LEMMA SizedMore ==
    ASSUME NEW table, NEW s, NEW t, Objects(s), Parents(s), Sizes(table, s),
           \A i \in DOMAIN s : t[i] = s[i], NEW i \in DOMAIN s
    PROVE  SizedParts(table, t, s[i])
<1>1. MadeParts(s, i) /\ SizedParts(table, s, s[i])
  BY DEF Parents, Sizes
<1>2. Len(s) \in Nat /\ DOMAIN s = 1..Len(s)
  BY DEF Objects
<1>3. ASSUME NEW part, MadePart(s, i, part), Sized(table, s, part)
      PROVE  Sized(table, t, part)
  <2>1. part.parent \in DOMAIN s
    BY <1>2, <1>3 DEF MadePart
  <2>2. t[part.parent] = s[part.parent]
    BY <2>1
  <2> QED
    BY <1>3, <2>2 DEF Sized, MadeTree
<1> QED
  BY <1>1, <1>3 DEF MadeParts, SizedParts

LEMMA SizesMore ==
    ASSUME NEW table, NEW s, NEW t, Objects(s), Parents(s), Sizes(table, s),
           \A i \in DOMAIN s : t[i] = s[i],
           \A i \in DOMAIN t \ DOMAIN s : SizedParts(table, t, t[i])
    PROVE  Sizes(table, t)
<1> SUFFICES ASSUME NEW i \in DOMAIN t PROVE SizedParts(table, t, t[i])
  BY DEF Sizes
<1>1. CASE i \in DOMAIN s
  BY <1>1, SizedMore
<1>2. CASE i \notin DOMAIN s
  BY <1>2
<1> QED
  BY <1>1, <1>2

(* The tree of a part that is instantiated has the leaves of what is.       *)
LEMMA TreeLeaves ==
    ASSUME NEW heap, NEW part, NEW tree, MadeTree(rtlOperandSymTab, heap, part),
           BuildTree(heap[part.parent].stmts) = tree
    PROVE  Leaves(part.tree) = Leaves(tree)
<1>1. SameShape(tree, part.tree)
  BY BuildTreeIs DEF MadeTree
<1> QED
  BY <1>1, SameLeaves

(* An instantiated pattern has the operands of the input, an overriding one *)
(* those of the overridden, over the same abstract pattern.                 *)
LEMMA InSized ==
    ASSUME IInv, Parents(patterns), Sizes(rtlOperandSymTab, patterns), ConcreteIsNext,
           OverridesConcrete, KnownOperators, OperandsGiven, Accepted(program[next])
    PROVE  Sized(rtlOperandSymTab, HeapOf(program[next]), MadeIn(program[next]))
<1> DEFINE d    == program[next]
           heap == HeapOf(d)
           over == InPartOf(d).parent
           cp   == heap[over].in
           i    == MadeIn(d)
<1>1. MadeTree(rtlOperandSymTab, heap, i)
  BY InMade
<1>2. CASE d.in.subType # "overrides"
  <2>1. /\ Len(i.operands) = Len(d.in.operands)
        /\ BuildTree(heap[i.parent].stmts) = Meaning(d.in.parent)
    BY <1>2, InMade
  <2>2. Len(d.in.operands) = Cardinality(Leaves(Meaning(d.in.parent)))
    BY <1>2 DEF OperandsGiven
  <2>3. Leaves(i.tree) = Leaves(Meaning(d.in.parent))
    BY <1>1, <2>1, TreeLeaves
  <2> HIDE DEF heap, over, i
  <2> QED
    BY <1>1, <2>1, <2>2, <2>3 DEF Sized, heap, i
<1>3. CASE d.in.subType = "overrides"
  <2>1. /\ over \in DOMAIN heap
        /\ heap[over].type # "abstract"
        /\ i.parent = cp.parent
        /\ Len(i.operands) = Len(d.in.operands) + Len(cp.operands)
    BY <1>3, InMade
  <2>2. Len(d.in.operands) = 0
    BY <1>3 DEF OperandsGiven
  <2>3. /\ Objects(patterns) /\ Parents(heap)
        /\ \A k \in DOMAIN patterns : k \in DOMAIN heap /\ heap[k] = patterns[k]
        /\ \A k \in DOMAIN heap \ DOMAIN patterns : heap[k].type = "abstract"
    BY HeapIs DEF IInv, TablesOK
  <2> HIDE DEF heap, over, i
  <2>4. over \in DOMAIN patterns /\ heap[over] = patterns[over]
    BY <2>1, <2>3
  <2>5. SizedParts(rtlOperandSymTab, heap, patterns[over])
    BY <2>3, <2>4, SizedMore
  <2>6. Sized(rtlOperandSymTab, heap, cp)
    BY <2>1, <2>4, <2>5 DEF SizedParts
  <2>7. Len(cp.operands) \in Nat
    <3>1. MadePart(heap, over, cp)
      BY <2>1, <2>3 DEF Parents, MadeParts
    <3> QED
      BY <3>1 DEF MadePart
  <2>8. Len(i.operands) = Len(cp.operands)
    BY <2>1, <2>2, <2>7
  <2>9. Leaves(i.tree) = Leaves(cp.tree)
    <3> DEFINE tree == TreeOf(rtlOperandSymTab, heap[cp.parent].stmts)
    <3>1. SameShape(tree, i.tree) /\ SameShape(tree, cp.tree)
      BY <1>1, <2>1, <2>6 DEF MadeTree, Sized
    <3> HIDE DEF tree
    <3> QED
      BY <3>1, SameLeaves
  <2> QED
    BY <1>1, <2>6, <2>8, <2>9 DEF Sized, heap, i
<1> QED
  BY <1>2, <1>3

LEMMA OutSized ==
    ASSUME IInv, Parents(patterns), ConcreteIsNext, OperandsGiven, Accepted(program[next]),
           IsComposite(program[next].type)
    PROVE  Sized(rtlOperandSymTab, HeapOf(program[next]), MadeOut(program[next]))
<1> DEFINE d    == program[next]
           heap == HeapOf(d)
           o    == MadeOut(d)
<1>1. /\ MadeTree(rtlOperandSymTab, heap, o)
      /\ Len(o.operands) = Len(d.out.operands)
      /\ BuildTree(heap[o.parent].stmts) = Meaning(d.out.parent)
  BY OutMade
<1>2. Len(d.out.operands) = Cardinality(Leaves(Meaning(d.out.parent)))
  BY DEF OperandsGiven
<1> HIDE DEF heap, o
<1>3. Leaves(o.tree) = Leaves(Meaning(d.out.parent))
  BY <1>1, TreeLeaves
<1> QED
  BY <1>1, <1>2, <1>3 DEF Sized, heap, o

(* Trees depend on the arities of the operators they are made of.           *)
LEMMA TreeOfKept ==
    ASSUME NEW table, NEW table2, OperatorsTyped(table), NEW ms \in Body,
           \A s \in Range(ms) : s.value \in DOMAIN table /\ s.value \in DOMAIN table2
                                  /\ table2[s.value] = table[s.value]
    PROVE  TreeOf(table2, ms) = TreeOf(table, ms)
<1> DEFINE first == NodeOf(table, Head(ms).value)
           rest  == Tail(ms)
           R     == {<<x, x>> : x \in TreeSet}
<1>1. \A s \in Range(ms) : NodeOf(table2, s.value) = NodeOf(table, s.value)
  BY DEF NodeOf
<1>2. /\ Head(ms) \in Range(ms) /\ Head(ms) \in RootStmt /\ rest \in Seq(RootStmt)
      /\ \A i \in 1..Len(rest) : rest[i] \in Range(ms) /\ rest[i] \in RootStmt
  BY DEF Body, Range
<1>3. first \in TreeSet
  BY <1>2, NodeOfIn DEF RootStmt
<1>4. NodeOf(table2, Head(ms).value) = first
  BY <1>1, <1>2
<1> HIDE DEF first, rest
<1>5. <<first, first>> \in R
  BY <1>3
<1>6. ASSUME NEW i \in 1..Len(rest), NEW x, NEW y, <<x, y>> \in R
      PROVE  <<BuildStep(table, x, rest[i]), BuildStep(table2, y, rest[i])>> \in R
  <2>1. x \in TreeSet /\ y = x
    BY <1>6
  <2>2. BuildStep(table, x, rest[i]) \in TreeSet
    BY <1>2, <2>1, BuildStepIn
  <2>3. BuildStep(table2, x, rest[i]) = BuildStep(table, x, rest[i])
    BY <1>1, <1>2 DEF BuildStep
  <2> QED
    BY <2>1, <2>2, <2>3
<1> HIDE DEF R
<1>7. <<B!Fold(table, first, rest), B!Fold(table2, first, rest)>> \in R
  BY <1>2, <1>5, <1>6, B!FoldsRelated
<1> QED
  BY <1>4, <1>7 DEF TreeOf, R, first, rest

NamesLead == \A n \in DOMAIN symTab : patterns[symTab[n]].name = n

SizeInv ==
    /\ IInv
    /\ Parents(patterns)
    /\ Sizes(rtlOperandSymTab, patterns)
    /\ NamesLead
    /\ next \in 1..(Len(program) + 1)

LEMMA AddEntryNames ==
    ASSUME NamesOK, NamesLead, NEW name, NEW objects, addSymTabEntry(name, objects),
           \A i \in DOMAIN patterns : objects[i] = patterns[i],
           objects[Len(objects)].name = name
    PROVE  NamesLead'
<1> SUFFICES ASSUME NEW n \in DOMAIN symTab' PROVE patterns'[symTab'[n]].name = n
  BY DEF NamesLead
<1>1. CASE n = name
  BY <1>1 DEF addSymTabEntry
<1>2. CASE n # name
  <2>1. n \in DOMAIN symTab /\ symTab'[n] = symTab[n]
    BY <1>2 DEF addSymTabEntry
  <2>2. symTab[n] \in DOMAIN patterns /\ patterns[symTab[n]].name = n
    BY <2>1 DEF NamesOK, NamesLead
  <2> QED
    BY <2>1, <2>2 DEF addSymTabEntry
<1> QED
  BY <1>1, <1>2

LEMMA AbstractSizes ==
    ASSUME SizeInv, AbstractPattern
    PROVE  Sizes(rtlOperandSymTab', patterns') /\ NamesLead'
<1>1. rtlOperandSymTab' = rtlOperandSymTab
  BY DEF AbstractPattern
<1>2. /\ Objects(patterns) /\ Parents(patterns) /\ Sizes(rtlOperandSymTab, patterns)
      /\ NamesOK /\ NamesLead
  BY DEF SizeInv, IInv, TablesOK
<1>3. CASE BaseStmts(program[next].base) = << >>
  <2>1. UNCHANGED <<patterns, symTab>>
    BY <1>3 DEF AbstractPattern
  <2> QED
    BY <1>1, <1>2, <2>1 DEF NamesLead
<1>4. CASE BaseStmts(program[next].base) # << >>
  <2> DEFINE name == program[next].name
  <2>1. PICK stmts \in Body :
           /\ patterns' = Append(patterns, AbstPattern(name, stmts))
           /\ addSymTabEntry(name, patterns')
    BY <1>4, AbstractMade DEF SizeInv
  <2> DEFINE x == AbstPattern(name, stmts)
  <2>2. x.type = "abstract" /\ x.name = name /\ x.stmts \in Body
    BY DEF AbstPattern
  <2>3. patterns' = Append(patterns, x)
    BY <2>1
  <2> HIDE DEF x, name
  <2>4. /\ Objects(patterns') /\ Len(patterns') = Len(patterns) + 1
        /\ \A i \in DOMAIN patterns : i \in DOMAIN patterns' /\ patterns'[i] = patterns[i]
        /\ patterns'[Len(patterns) + 1] = x
    BY <1>2, <2>2, <2>3, ObjectsAppend
  <2>5. \A i \in DOMAIN patterns' \ DOMAIN patterns : patterns'[i] = x
    <3>1. /\ DOMAIN patterns = 1..Len(patterns) /\ DOMAIN patterns' = 1..(Len(patterns) + 1)
          /\ Len(patterns) \in Nat
      BY <1>2, <2>4 DEF Objects
    <3> QED
      BY <2>4, <3>1
  <2>6. SizedParts(rtlOperandSymTab, patterns', x)
    BY <2>2 DEF SizedParts
  <2>7. Sizes(rtlOperandSymTab, patterns')
    BY <1>2, <2>4, <2>5, <2>6, SizesMore
  <2>8. NamesLead'
    BY <1>2, <2>1, <2>2, <2>4, AddEntryNames DEF name
  <2> QED
    BY <1>1, <2>7, <2>8
<1> QED
  BY <1>3, <1>4

LEMMA ConcreteSizes ==
    ASSUME SizeInv, ConcretePattern, KnownOperators, OverridesConcrete, OperandsGiven
    PROVE  Sizes(rtlOperandSymTab', patterns') /\ NamesLead'
<1> DEFINE d    == program[next]
           heap == HeapOf(d)
           x    == Made(d)
           t    == Append(heap, x)
<1>1. rtlOperandSymTab' = rtlOperandSymTab
  BY DEF ConcretePattern
<1>2. /\ IInv /\ Objects(patterns) /\ Parents(patterns) /\ Sizes(rtlOperandSymTab, patterns)
      /\ NamesOK /\ NamesLead
  BY DEF SizeInv, IInv, TablesOK
<1>3. ConcreteIsNext
  BY ConcreteMade
<1>4. CASE ~Accepted(d)
  <2>1. UNCHANGED <<patterns, symTab>>
    BY <1>4, ConcreteMade
  <2> QED
    BY <1>1, <1>2, <2>1 DEF NamesLead
<1>5. CASE Accepted(d)
  <2>1. addSymTabEntry(d.name, t)
    BY <1>5, ConcreteMade
  <2>2. /\ Objects(heap) /\ Parents(heap)
        /\ \A i \in DOMAIN patterns : i \in DOMAIN heap /\ heap[i] = patterns[i]
        /\ \A i \in DOMAIN heap \ DOMAIN patterns : heap[i].type = "abstract"
    BY <1>2, <1>3, HeapIs
  <2>3. /\ x.type = d.type /\ x.type # "abstract" /\ x.name = d.name
        /\ x.in = MadeIn(d) /\ x.out = MadeOut(d)
    BY <1>3 DEF Made, ConcreteIsNext
  <2>4. Sized(rtlOperandSymTab, heap, x.in)
    BY <1>2, <1>3, <1>5, <2>3, InSized
  <2>5. IsComposite(x.type) => Sized(rtlOperandSymTab, heap, x.out)
    BY <1>2, <1>3, <1>5, <2>3, OutSized
  <2>6. /\ MadePart(heap, Len(heap) + 1, x.in)
        /\ IsComposite(x.type) => MadePart(heap, Len(heap) + 1, x.out)
    BY <1>2, <1>3, <1>5, <2>3, InMade, OutMade
  <2> HIDE DEF x, heap
  <2>7. /\ Len(t) = Len(heap) + 1 /\ Objects(t)
        /\ \A i \in DOMAIN heap : i \in DOMAIN t /\ t[i] = heap[i]
        /\ t[Len(heap) + 1] = x
    BY <2>2, <2>3, ObjectsAppend
  <2> HIDE DEF t
  <2>8. /\ DOMAIN heap = 1..Len(heap) /\ DOMAIN t = 1..(Len(heap) + 1) /\ Len(heap) \in Nat
    BY <2>2, <2>7 DEF Objects
  <2>9. SizedParts(rtlOperandSymTab, t, x)
    <3>1. ASSUME NEW part, MadePart(heap, Len(heap) + 1, part), Sized(rtlOperandSymTab, heap, part)
          PROVE  Sized(rtlOperandSymTab, t, part)
      <4>1. part.parent \in DOMAIN heap
        BY <2>8, <3>1 DEF MadePart
      <4>2. t[part.parent] = heap[part.parent]
        BY <2>7, <4>1
      <4> QED
        BY <3>1, <4>2 DEF Sized, MadeTree
    <3> QED
      BY <2>4, <2>5, <2>6, <3>1 DEF SizedParts
  <2>10. Sizes(rtlOperandSymTab, t)
    <3>1. ASSUME NEW i \in DOMAIN t \ DOMAIN patterns PROVE SizedParts(rtlOperandSymTab, t, t[i])
      <4>1. CASE i \in DOMAIN heap
        BY <2>2, <2>7, <3>1, <4>1 DEF SizedParts
      <4>2. CASE i \notin DOMAIN heap
        <5>1. i = Len(heap) + 1
          BY <2>8, <3>1, <4>2
        <5> QED
          BY <2>7, <2>9, <5>1
      <4> QED
        BY <4>1, <4>2
    <3>2. \A i \in DOMAIN patterns : t[i] = patterns[i]
      BY <2>2, <2>7
    <3> QED
      BY <1>2, <3>1, <3>2, SizesMore
  <2>11. patterns' = t
    BY <2>1 DEF addSymTabEntry
  <2>12. NamesLead'
    <3>1. \A i \in DOMAIN patterns : t[i] = patterns[i]
      BY <2>2, <2>7
    <3>2. t[Len(t)].name = d.name
      BY <2>3, <2>7
    <3> QED
      BY <1>2, <2>1, <3>1, <3>2, AddEntryNames
  <2> QED
    BY <1>1, <2>10, <2>11, <2>12
<1> QED
  BY <1>4, <1>5

(* Lists declare operators, which changes no tree made before.              *)
LEMMA ListSizes ==
    ASSUME SizeInv, ListPattern, KnownOperators,
           \A n \in DOMAIN rtlOperandSymTab : rtlOperandSymTab'[n] = rtlOperandSymTab[n]
    PROVE  Sizes(rtlOperandSymTab', patterns') /\ NamesLead'
<1> DEFINE table  == rtlOperandSymTab
           table2 == rtlOperandSymTab'
<1>1. UNCHANGED <<patterns, symTab>>
  BY DEF ListPattern
<1>2. /\ Objects(patterns) /\ Parents(patterns) /\ Sizes(table, patterns) /\ OperatorsTyped(table)
  BY DEF SizeInv, IInv, TablesOK
<1>3. DOMAIN table \subseteq DOMAIN table2
  BY DEF ListPattern
<1>4. ASSUME NEW i \in DOMAIN patterns, patterns[i].type = "abstract"
      PROVE  TreeOf(table2, patterns[i].stmts) = TreeOf(table, patterns[i].stmts)
  <2> DEFINE ms == patterns[i].stmts
  <2>1. ms \in Body
    BY <1>2, <1>4 DEF Objects
  <2>2. \A s \in Range(ms) : s.value \in DOMAIN table
    BY <1>4 DEF KnownOperators, AllOperatorsKnown, findRtlOperandSymTabEntry
  <2>3. \A s \in Range(ms) : s.value \in DOMAIN table /\ s.value \in DOMAIN table2
                               /\ table2[s.value] = table[s.value]
    BY <1>3, <2>2
  <2> HIDE DEF ms
  <2> QED
    BY <1>2, <2>1, <2>3, TreeOfKept DEF ms
<1> HIDE DEF table, table2
<1>5. ASSUME NEW i \in DOMAIN patterns, NEW part, MadePart(patterns, i, part),
             Sized(table, patterns, part)
      PROVE  Sized(table2, patterns, part)
  <2>1. part.parent \in DOMAIN patterns /\ patterns[part.parent].type = "abstract"
    BY <1>2, <1>5 DEF MadePart, Objects
  <2> QED
    BY <1>4, <1>5, <2>1 DEF Sized, MadeTree
<1>6. Sizes(table2, patterns)
  <2> SUFFICES ASSUME NEW i \in DOMAIN patterns PROVE SizedParts(table2, patterns, patterns[i])
    BY DEF Sizes
  <2>1. SizedParts(table, patterns, patterns[i]) /\ MadeParts(patterns, i)
    BY <1>2 DEF Sizes, Parents
  <2> QED
    BY <1>5, <2>1 DEF SizedParts, MadeParts
<1>7. NamesLead'
  BY <1>1 DEF SizeInv, NamesLead
<1> QED
  BY <1>1, <1>6, <1>7 DEF table2

LEMMA SizeStep ==
    ASSUME SizeInv, [Next]_vars, KnownOperators, OverridesConcrete, OperandsGiven,
           [\A n \in DOMAIN rtlOperandSymTab : rtlOperandSymTab'[n] = rtlOperandSymTab[n]]_vars
    PROVE  SizeInv'
<1>1. IInv' /\ Parents(patterns)'
  BY NextInv, ParentsInv DEF SizeInv
<1>2. Sizes(rtlOperandSymTab, patterns)' /\ NamesLead'
  <2>1. CASE AbstractPattern
    BY <2>1, AbstractSizes
  <2>2. CASE ConcretePattern
    BY <2>2, ConcreteSizes
  <2>3. CASE UNCHANGED vars
    BY <2>3 DEF vars, SizeInv, NamesLead
  <2>4. CASE ListPattern
    <3>1. \A n \in DOMAIN rtlOperandSymTab : rtlOperandSymTab'[n] = rtlOperandSymTab[n]
      BY DEF vars
    <3> QED
      BY <2>4, <3>1, ListSizes
  <2> QED
    BY <2>1, <2>2, <2>3, <2>4 DEF Next, EndOfInput
<1>3. (next \in 1..(Len(program) + 1))'
  <2>1. CASE next' = next /\ program' = program
    BY <2>1 DEF SizeInv
  <2>2. CASE next <= Len(program) /\ next' = next + 1 /\ program' = program
    <3>1. Len(program) \in Nat
      BY ProgramsAssumption DEF SizeInv, IInv, ProgramOK
    <3> QED
      BY <2>2, <3>1 DEF SizeInv
  <2> QED
    BY <2>1, <2>2 DEF Next, AbstractPattern, ConcretePattern, ListPattern, EndOfInput, vars
<1> QED
  BY <1>1, <1>2, <1>3 DEF SizeInv

LEMMA SizeInitially ==
    ASSUME Init
    PROVE  SizeInv
<1>1. IInv
  BY InitInv
<1>2. Parents(patterns) /\ Sizes(rtlOperandSymTab, patterns) /\ NamesLead
  BY DEF Init, Parents, Sizes, NamesLead
<1>3. Len(program) \in Nat
  BY <1>1, ProgramsAssumption DEF IInv, ProgramOK
<1> QED
  BY <1>1, <1>2, <1>3 DEF Init, SizeInv

LEMMA SizesTypeOK ==
    ASSUME SizeInv
    PROVE  SrtlTypeOK
<1>1. \A n \in DOMAIN symTab : symTab[n] \in DOMAIN patterns /\ patterns[symTab[n]].name = n
  BY DEF SizeInv, IInv, TablesOK, NamesOK, NamesLead
<1>2. ASSUME NEW i \in DOMAIN patterns, patterns[i].type # "abstract",
             NEW part \in {patterns[i].in}
                            \cup (IF IsComposite(patterns[i].type) THEN {patterns[i].out} ELSE {})
      PROVE  /\ part.parent \in 1..(i - 1)
             /\ patterns[part.parent].type = "abstract"
             /\ DOMAIN part.tree # {} => Len(part.operands) = Cardinality(Leaves(part.tree))
  <2>1. MadePart(patterns, i, part) /\ Sized(rtlOperandSymTab, patterns, part)
    BY <1>2 DEF SizeInv, Parents, MadeParts, Sizes, SizedParts
  <2> QED
    BY <2>1 DEF MadePart, Sized
<1> QED
  BY <1>1, <1>2 DEF SizeInv, SrtlTypeOK

(* Names lead to objects of that name, every part is made over an abstract  *)
(* pattern made before, and a tree has as many leaves as there are operands *)
(* for traverseTree to use up, however often a pattern is overridden.       *)
THEOREM TreesHaveTheirOperands ==
    Spec /\ []KnownOperators /\ []OverridesConcrete /\ []OperandsGiven /\ AritiesKept
      => []SrtlTypeOK
<1>1. ASSUME SizeInv, [Next]_vars, KnownOperators, OverridesConcrete, OperandsGiven,
             [\A n \in DOMAIN rtlOperandSymTab : rtlOperandSymTab'[n] = rtlOperandSymTab[n]]_vars
      PROVE  SizeInv'
  BY <1>1, SizeStep
<1> QED
  BY <1>1, SizeInitially, SizesTypeOK, PTL DEF Spec, AritiesKept
==============================================================================

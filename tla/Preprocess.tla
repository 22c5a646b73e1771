----------------------------- MODULE Preprocess -----------------------------
(***************************************************************************)
(* preprocess_cfg: how the blocks of GCC's control flow graph are split    *)
(* and their statements turned into items, before either pass starts.      *)
(* Every call and every return statement gets a block of its own, a call   *)
(* has an empty return block after it, and a statement that dereferences   *)
(* is the first one of its block, because liveness looks up its pointer at *)
(* IN of the block.                                                        *)
(*                                                                         *)
(* A block of GCC's has the PHIs of pointers phis, the statements stmts    *)
(* and the successors succ; the blocks are numbered in reverse postorder   *)
(* and the last one returns.  A statement is of a kind, with the items its *)
(* constraints make, none if it has no pointers, and                       *)
(*   "label";                                                              *)
(*   "assign": mem says that a side of it is a MEM_REF;                    *)
(*   "cond"; "library": a call of a function without a body;               *)
(*   "call": the callee and the variables that receive its value;          *)
(*   "return".                                                             *)
(***************************************************************************)
EXTENDS Liveness

(* append_to_bb_constraints: what statements only read is gathered in one  *)
(* item until an assignment comes.                                         *)
AppendItem(code, item) ==
    IF code # <<>> /\ ~IsAlias(item) /\ ~IsAlias(Last(code))
    THEN [code EXCEPT ![Len(code)].uses = @ \cup item.uses]
    ELSE Append(code, item)

(* A block whose aux field is initialised.  callee is the function a call  *)
(* block calls, by itself in a set; ret what of the returned variable is   *)
(* to be seen in the first statement of an end block.                      *)
NewBlock ==
    [code |-> <<>>, has_deref |-> FALSE, callee |-> {}, result |-> {}, ret |-> {}]

(* What preprocess_cfg carries through the statements of one block: the    *)
(* blocks it has been split into, of which the last is cbb, the kind of    *)
(* the statement before in cbb, and whether statements that follow belong  *)
(* to the block split off after a call.  deref_stmt is a global variable.  *)
Blank(deref_stmt) ==
    [blocks |-> <<NewBlock>>, prev |-> "none", has_phi |-> FALSE,
     after_call |-> FALSE, deref_stmt |-> deref_stmt]

Cbb(s) == Last(s.blocks)
SetCbb(s, b) == [s EXCEPT !.blocks[Len(s.blocks)] = b]

AppendItems(s, items) ==
    SetCbb(s, [Cbb(s) EXCEPT !.code = FoldLeft(AppendItem, @, items)])

(* split_bb_at_stmt: cbb is the block of the statements from here on.      *)
SplitBb(s) == [s EXCEPT !.blocks = Append(@, NewBlock), !.prev = "none"]

(* process_phi_pointers *)
ProcessPhiPointers(s, phis) == [AppendItems(s, phis) EXCEPT !.has_phi = phis # <<>>]

(* Sees a store as a dereference, but not a load. *)
IsDerefFault(t) == t.lhs.type = DEREF

(* cs_process_constraint *)
IsDeref(t) == t.lhs.type = DEREF \/ t.rhs.type = DEREF

(* What deref_stmt is after an assignment: it is that of the constraint    *)
(* processed last, which may be one of an earlier statement.               *)
DerefStmt(deref_stmt, items) ==
    LET aliases == SelectSeq(items, IsAlias)
    IN  IF aliases = <<>> THEN deref_stmt ELSE IsDeref(Last(Last(aliases).chain))

(* Leaves a dereference where it is. *)
AtDerefFault(s, stmt) == s

(* A block is split before a possible dereference, but not when only PHIs  *)
(* are before it.                                                          *)
AtDeref(s, stmt) == IF stmt.mem /\ s.prev # "none" THEN SplitBb(s) ELSE s

PrepareAssign(s, stmt) ==
    LET deref == DerefStmt(s.deref_stmt, stmt.items)
        appended == AppendItems(AtDeref(s, stmt), stmt.items)
    IN  [SetCbb(appended, [Cbb(appended) EXCEPT !.has_deref = @ \/ deref])
            EXCEPT !.deref_stmt = deref]

(* A call or return statement has a block of its own, but for a label      *)
(* before it.                                                              *)
AtBoundary(s) ==
    IF s.prev \in {"none", "label"} /\ ~s.has_phi THEN s
    ELSE [SplitBb(s) EXCEPT !.has_phi = @ /\ s.prev \notin {"none", "label"}]

(* The call block gets the arguments, and a return block is put after it.  *)
PrepareCall(s, stmt) ==
    LET called == AppendItems(AtBoundary(s), stmt.items)
        block  == [Cbb(called) EXCEPT !.callee = {stmt.callee}, !.result = stmt.result,
                                      !.has_deref = FALSE]
    IN  [SplitBb(SetCbb(called, block)) EXCEPT !.after_call = TRUE]

(* generate_retval_liveness, and the first statement of the end block as   *)
(* map_return_value will look at it.                                       *)
PrepareReturn(s, stmt) ==
    LET at == AtBoundary(s)
        returned == AppendItems(at, stmt.items)
    IN  SetCbb(returned, [Cbb(returned) EXCEPT
            !.ret = IF at.prev = "label" THEN {}
                    ELSE UNION {item.uses : item \in ToSet(stmt.items)}])

AfterCall(s) ==
    IF s.after_call THEN [SplitBb(s) EXCEPT !.after_call = FALSE, !.has_phi = FALSE] ELSE s

PrepareStmt(s, stmt) ==
    LET done(at) ==
            CASE stmt.kind = "label"  -> at
              [] stmt.kind = "assign" -> PrepareAssign(at, stmt)
              [] stmt.kind = "call"   -> PrepareCall(at, stmt)
              [] stmt.kind = "return" -> PrepareReturn(at, stmt)
              [] stmt.kind \in {"cond", "library"} -> AppendItems(at, stmt.items)
    IN  [Once(done, AfterCall(s)) EXCEPT !.prev = IF stmt.kind = "call" THEN @ ELSE stmt.kind]

(* The blocks one block of GCC's is split into. *)
SplitBlock(deref_stmt, bb) ==
    LET step(s, stmt) == Once(LAMBDA t : PrepareStmt(t, stmt), s)
    IN  FoldLeft(step, ProcessPhiPointers(Blank(deref_stmt), bb.phis), bb.stmts)

(* The parts of every block. *)
SplitBlocks(fn) ==
    LET add(w, s) == [parts |-> Append(w.parts, s.blocks), deref_stmt |-> s.deref_stmt]
        visit(w, bb) ==
            Once(LAMBDA v : Once(LAMBDA s : add(v, s), SplitBlock(v.deref_stmt, bb)), w)
    IN  FoldLeft(visit, [parts |-> <<>>, deref_stmt |-> FALSE], fn).parts

(* Each block by its number; the successors of one of GCC's blocks are     *)
(* those of its last part.                                                 *)
NumberBlocks(fn, parts, blocks) ==
    LET last(i) == Len(FlattenSeq(SubSeq(parts, 1, i)))
        succ(n) == IF \E i \in DOMAIN fn : n = last(i)
                   THEN {last(j-1) + 1 : j \in fn[CHOOSE i \in DOMAIN fn : n = last(i)].succ}
                   ELSE {n + 1}
        calls == {n \in DOMAIN blocks : blocks[n].callee # {}}
    IN  [succ   |-> [n \in DOMAIN blocks |-> succ(n)],
         code   |-> [n \in DOMAIN blocks |-> blocks[n].code],
         deref  |-> {n \in DOMAIN blocks : blocks[n].has_deref},
         callee |-> [n \in calls |-> CHOOSE f \in blocks[n].callee : TRUE],
         result |-> [n \in calls |-> blocks[n].result],
         ret    |-> blocks[Len(blocks)].ret]

(* preprocess_cfg for one function, in the numbering of the blocks it ends *)
(* with.                                                                   *)
PreprocessCfg(fn) ==
    LET number(f, parts) == Once(LAMBDA blocks : NumberBlocks(f, parts, blocks), FlattenSeq(parts))
    IN  Once(LAMBDA f : Once(LAMBDA parts : number(f, parts), SplitBlocks(f)), fn)

-----------------------------------------------------------------------------
(* Statements. *)

Label          == [kind |-> "label"]
Plain(items)   == [kind |-> "assign", mem |-> FALSE, items |-> items]
Memory(items)  == [kind |-> "assign", mem |-> TRUE, items |-> items]
Cond(items)    == [kind |-> "cond", items |-> items]
Library(items) == [kind |-> "library", items |-> items]
Call(f, result, items) ==
    [kind |-> "call", callee |-> f, result |-> result, items |-> items]
ReturnOf(items) == [kind |-> "return", items |-> items]

BasicBlock(phis, stmts, succ) == [phis |-> phis, stmts |-> stmts, succ |-> succ]

Dereferences(items) == \E i \in DOMAIN items : IsAlias(items[i]) /\ Uses(items[i]) # {}

Statement(functions) ==
    [kind : {"label"}]
        \cup [kind : {"assign"}, mem : BOOLEAN, items : Seq(Item)]
        \cup [kind : {"cond", "library"}, items : Seq(Item)]
        \cup [kind : {"call"}, callee : functions, result : SUBSET Var, items : Seq(Item)]
        \cup [kind : {"return"}, items : Seq({item \in Item : ~IsAlias(item)})]

(* A function whose dereferences preprocess_cfg can tell: they are          *)
(* assignments with a MEM_REF on one side, and none of the PHIs right       *)
(* before one assigns the pointer (it splits no block between them).        *)
IsSource(fn, functions) ==
    /\ fn \in Seq([phis : Seq(Item), stmts : Seq(Statement(functions)), succ : SUBSET Nat])
    /\ \A b \in DOMAIN fn :
          /\ Undisturbed(fn[b].phis)
          /\ \A k \in DOMAIN fn[b].stmts :
                LET stmt == fn[b].stmts[k]
                IN  stmt.kind # "label" =>
                        /\ Dereferences(stmt.items) => stmt.kind = "assign" /\ stmt.mem
                        /\ Undisturbed(stmt.items)
                        /\ k = 1 => Undisturbed(fn[b].phis \o stmt.items)
=============================================================================

----------------------------- MODULE SsaExport -----------------------------
(***************************************************************************)
(* What becomes of the result: reset_ssa_names and insert_lipta_on_use     *)
(* write it into GCC's points-to solutions of SSA names, before the        *)
(* analysed program runs.  LFCPA knows the symbol behind an SSA name only; *)
(* a variable local to a function that is assigned in one place is the     *)
(* symbol of one SSA name, and stands for it here.                         *)
(***************************************************************************)
EXTENDS InterPointsTo

VARIABLE pt  \* the solution of every local variable

xvars == <<allvars, pt>>

(* reset_ssa_names: the set is emptied, while what GCC has found out       *)
(* itself about null and anything stays.  Here it has not excluded null.   *)
Reset == [vars |-> {}, null |-> TRUE, anything |-> FALSE, visited |-> FALSE]

(* The variables whose value a statement uses (gimple_use_ops). *)
ItemUses(item) ==
    IF ~IsAlias(item) THEN item.uses
    ELSE {t.rhs.var : t \in {u \in ToSet(item.chain) : u.rhs.type # ADDRESSOF}}

UsesIn(b) == UNION {ItemUses(item) : item \in ToSet(Code(b))}

(* A use of v where the points-to value is pinfo; last says that it is the *)
(* one of the last context of the block.  The set grows with the contexts, *)
(* but is a new one, and empty, once one of them has undef; null has to be *)
(* a pointee in all of them.                                               *)
Visit(s, v, pinfo, last) ==
    LET S == Pointees(pinfo, v)
        anything == s.anything \/ undef_id \in S
    IN  IF s.visited \/ v \notin DOMAIN Known(pinfo) THEN s
        ELSE [vars |-> IF anything THEN {} ELSE s.vars \cup (S \cap Var),
              null |-> s.null /\ nothing_id \in S,
              anything |-> anything,
              visited |-> last]

(* Never comes back to an SSA name. *)
InsertAtBlockFault(d, s, b, v) ==
    LET out == d[OutOf(b)]
    IN  IF v \notin UsesIn(b) \/ out = <<>> THEN s ELSE Visit(s, v, out[1].pinfo, TRUE)

(* The contexts at OUT of block b, one after the other.  One without       *)
(* information leaves out_pval as it is: the value of the one before it is *)
(* used again.                                                             *)
InsertAtBlock(d, s, b, v) ==
    LET out == d[OutOf(b)]
        visit(w, i) ==
            LET pval == IF out[i].pinfo \in {NoInfo, EmptyVal} THEN w.pval ELSE out[i].pinfo
            IN  [s |-> Visit(w.s, v, pval, i = Len(out)), pval |-> pval]
    IN  IF v \notin UsesIn(b) THEN s
        ELSE FoldLeft(visit, [s |-> s, pval |-> EmptyVal], [i \in DOMAIN out |-> i]).s

(* insert_lipta_on_use, function by function and block by block. *)
InsertLiptaOnUse(d, f, v) ==
    FoldLeft(LAMBDA s, i : InsertAtBlock(d, s, <<f, i>>, v), Reset,
             [i \in DOMAIN prog[f].code |-> i])

Solution(d, v) ==
    LET f == CHOOSE g \in DOMAIN prog : IsLocal(v, g)
    IN  IF IsGlobal(v) THEN Reset ELSE InsertLiptaOnUse(d, f, v)

-----------------------------------------------------------------------------
XInit == PInit /\ pt = [v \in Var |-> Reset]

(* execute_ipacs: compute_pointsto has returned. *)
Export ==
    /\ PtaDone
    /\ pt' = [v \in Var |-> Solution(info, v)]

Analyse == (Passes /\ UNCHANGED pt) \/ Export

XNext == Analyse \/ (Run /\ UNCHANGED pt)

XSpec == XInit /\ [][XNext]_xvars

(* The passes are calls that go on until they return: weak fairness of     *)
(* Analyse, which is enabled, and changes the state, as long as the        *)
(* execution has not begun (it would be a deadlock otherwise).             *)
XFairSpec == XSpec /\ ([]<>(phase = "run") \/ []<><<Analyse>>_xvars)

-----------------------------------------------------------------------------
(* Wherever the program uses a local pointer, GCC's solution has what it   *)
(* points to, although it is taken from the ends of the blocks, and a name *)
(* is not visited again after the first block whose last context knows it  *)
(* ("We only need to visit each SSA_NAME once").  A copy to a variable     *)
(* that is dead is no such use: there the set may be the empty one.        *)
ExportSound ==
    Running /\ Head(stack).left # <<>> /\ ~IsAlias(Head(Head(stack).left)) =>
        \A v \in Head(Head(stack).left).uses :
            IsGlobal(v) \/ store[v] = Undefined \/ pt[v].anything
                \/ store[v] \in pt[v].vars \cup (IF pt[v].null THEN {nothing_id} ELSE {})
=============================================================================

------------------------------ MODULE Liveness ------------------------------
(***************************************************************************)
(* What a block does to the set of live pointers: find_live_vars and       *)
(* compute_liveness_from_constraint of pointsto-callstrings.cpp.  A set of *)
(* live variables is a set here; the code keeps the index of a list in a   *)
(* pool, negative for the empty list.                                      *)
(*                                                                         *)
(* An item of a block is an alias item, a chain of constraints of one      *)
(* statement or PHI, or a use item, the pointers a statement only reads.   *)
(***************************************************************************)
EXTENDS Transfer

Item ==
    [alias : {TRUE}, chain : Seq(Constraint) \ {<<>>}]
        \cup [alias : {FALSE}, uses : SUBSET Var]

IsAlias(item) == item.alias

(* The pointers a statement reads or dereferences. *)
Uses(item) ==
    IF ~IsAlias(item) THEN item.uses
    ELSE UNION {(IF t.lhs.type = DEREF THEN {t.lhs.var} ELSE {})
                  \cup (IF t.rhs.type = DEREF THEN {t.rhs.var} ELSE {}) :
                t \in {item.chain[i] : i \in DOMAIN item.chain}}

(* An item assigns none of the pointers of V, nor anything through a        *)
(* pointer; and the items of a sequence leave alone what one further down   *)
(* dereferences.                                                           *)
LeavesAlone(item, V) ==
    IsAlias(item) =>
        \A k \in DOMAIN item.chain :
            item.chain[k].lhs.type = SCALAR /\ item.chain[k].lhs.var \notin V

Undisturbed(items) ==
    \A i \in DOMAIN items : IsAlias(items[i]) /\ Uses(items[i]) # {} =>
        \A j \in 1..(i - 1) : LeavesAlone(items[j], Uses(items[i]))

(* add_to_df_list takes proper variables only. *)
ProperVars(S) == {v \in S : IsProperVar(v)}

(* What find_live_vars carries from constraint to constraint, bottom-up:   *)
(* the live set it started from, and the GEN and KILL so far.              *)
LiveState == [live : SUBSET Var, gen : SUBSET Var, kill : SUBSET Var]

(* A load makes its pointer live, but not what the pointer points to. *)
LiveScalarFault(s, P, t) ==
    LET lhs_live == t.lhs.var \in s.gen \cup s.live
        rhs      == IF t.rhs.type = ADDRESSOF THEN {} ELSE {t.rhs.var}
    IN  [s EXCEPT !.kill = @ \cup {t.lhs.var},
                  !.gen  = (@ \ {t.lhs.var})
                              \cup (IF lhs_live THEN ProperVars(rhs) ELSE {})]

(* A scalar is killed; if it is live below, or was generated below, the    *)
(* right side is live, and with a load so are the pointees of the right    *)
(* side at IN.                                                             *)
LiveScalar(s, P, t) ==
    LET lhs_live == t.lhs.var \in s.gen \cup s.live
        rhs      == CASE t.rhs.type = ADDRESSOF -> {}
                      [] t.rhs.type = SCALAR    -> {t.rhs.var}
                      [] t.rhs.type = DEREF     -> {t.rhs.var} \cup Pointees(P, t.rhs.var)
    IN  [s EXCEPT !.kill = @ \cup {t.lhs.var},
                  !.gen  = (@ \ {t.lhs.var})
                              \cup (IF lhs_live THEN ProperVars(rhs) ELSE {})]

(* A store keeps its pointer live.  If nothing is known of the pointer,    *)
(* everything below is forgotten first; if something is, neither a target  *)
(* is killed nor the right side made live: lhsvar stays -1 for the offset  *)
(* zero, since unexpandable_var holds of it.                               *)
LiveStore(s, P, t) ==
    LET below == IF t.lhs.var \in DOMAIN P
                 THEN s ELSE [live |-> {}, gen |-> {}, kill |-> {}]
    IN  [below EXCEPT !.gen = @ \cup {t.lhs.var}]

(* Of a chain only the first constraint has an effect: lhsvar is -1 for    *)
(* the others, which then make nothing live.                               *)
LiveChain(s, P, chain) ==
    IF chain[1].lhs.type = SCALAR
    THEN LiveScalar(s, P, chain[1]) ELSE LiveStore(s, P, chain[1])

LiveItem(s, P, item) ==
    IF IsAlias(item) THEN LiveChain(s, P, item.chain)
    ELSE [s EXCEPT !.gen = @ \cup item.uses]

(* The constraints of a block, bottom-up. *)
LiveTop(live, P, code) ==
    LET state[i \in 0..Len(code)] ==
            IF i = 0 THEN [live |-> live, gen |-> {}, kill |-> {}]
            ELSE LiveItem(state[i - 1], P, code[Len(code) + 1 - i])
    IN  state[Len(code)]

(* Subtracts KILL after GEN was added. *)
LiveInFault(live, P, code) ==
    LET top == LiveTop(live, P, code)
    IN  (top.live \cup top.gen) \ top.kill

(* find_live_vars for one context, whose live set has been copied from OUT *)
(* and whose points-to value is that at IN: (live - KILL) U GEN.           *)
LiveIn(live, P, code) ==
    LET top == LiveTop(live, P, code)
    IN  (top.live \ top.kill) \cup top.gen

(* find_pointsto_pair for one context: the alias items, top-down.          *)
BlockOut(P, code) ==
    LET out[i \in 0..Len(code)] ==
            IF i = 0 THEN P
            ELSE IF IsAlias(code[i]) THEN ChainOut(out[i - 1], code[i].chain)
            ELSE out[i - 1]
    IN  out[Len(code)]

-----------------------------------------------------------------------------
(* The passes look through bypass blocks: the blocks reached from those of  *)
(* S along next edges through these, and one round of the search.           *)
Expand(T, next, bypass) == T \cup UNION {next[c] : c \in T \cap bypass}

Through(S, next, bypass) ==
    LET rounds == Cardinality(DOMAIN next)
        reach[n \in 0..rounds] ==
            IF n = 0 THEN S ELSE Expand(reach[n-1], next, bypass)
    IN  reach[rounds] \ bypass
=============================================================================

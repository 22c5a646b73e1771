----------------------------- MODULE Execution -----------------------------
(***************************************************************************)
(* What a constraint of the analysed program means when the program runs:  *)
(* the reference the analysis is checked against.  A store s maps every    *)
(* variable to the variable it points to, to nothing_id for a null pointer *)
(* and to undef_id before the first assignment.                            *)
(***************************************************************************)
EXTENDS Transfer

Undefined == undef_id

(* The variable a constraint assigns and the value of its right side. *)
Target(s, lhs) == IF lhs.type = SCALAR THEN lhs.var ELSE s[lhs.var]

Value(s, rhs) ==
    CASE rhs.type = ADDRESSOF -> rhs.var
      [] rhs.type = SCALAR    -> s[rhs.var]
      [] rhs.type = DEREF     -> s[s[rhs.var]]

(* Nothing the constraint dereferences is null or uninitialised. *)
Executable(s, t) ==
    /\ t.lhs.type = DEREF => s[t.lhs.var] \in Var
    /\ t.rhs.type # ADDRESSOF => t.rhs.var \in Var
    /\ t.rhs.type = DEREF => s[t.rhs.var] \in Var

(* An offset from a variable stays within it or leads nowhere. *)
Values(s, rhs) ==
    {Value(s, rhs)}
        \cup (IF rhs.off /\ Value(s, rhs) \in Var THEN {Undefined} ELSE {})

Execute(s, t, value) == [s EXCEPT ![Target(s, t.lhs)] = value]

-----------------------------------------------------------------------------
(* The programs the analysis is sound for.  may[v] is what v may point to   *)
(* by the types of the program: the code drops a pointer's own address from *)
(* its pointees, so no variable may be among what it may point to.          *)
Typing(may) == may \in [Var -> SUBSET Var] /\ \A v \in Var : v \notin may[v]

PointedTo(may, S) == UNION {may[c] : c \in S \cap Var}

RhsMay(may, rhs) ==
    CASE rhs.type = ADDRESSOF -> {rhs.var} \cap Var
      [] rhs.type = SCALAR    -> PointedTo(may, {rhs.var})
      [] rhs.type = DEREF     -> PointedTo(may, PointedTo(may, {rhs.var}))

TargetsMay(may, lhs) == IF lhs.type = SCALAR THEN {lhs.var} ELSE may[lhs.var]

(* A constraint that copies nothing of a wrong type.  GIMPLE has no         *)
(* statement that loads a pointer and stores it.                            *)
WellTyped(may, t) ==
    /\ \A v \in TargetsMay(may, t.lhs) : RhsMay(may, t.rhs) \subseteq may[v]
    /\ ~(t.lhs.type = DEREF /\ t.rhs.type = DEREF)

(* The arguments of a PHI are assigned to its one result.                   *)
OneResult(c) ==
    Len(c) > 1 => \A i \in DOMAIN c : c[i].lhs = [type |-> SCALAR, var |-> c[1].lhs.var]

TypedChain(may, c) == OneResult(c) /\ \A i \in DOMAIN c : WellTyped(may, c[i])

(* What a value and a store say is what the types allow.                    *)
TypedVal(may, P) == \A v \in DOMAIN P : P[v] \cap Var \subseteq may[v]

TypedStore(may, s) == \A v \in Var : s[v] \in Var => s[v] \in may[v]
=============================================================================

------------------------------ MODULE Transfer ------------------------------
(***************************************************************************)
(* What one constraint does to a points-to value: the pta_lhs_* functions, *)
(* compute_stmt_out and compute_phi_gen of pointsto-callstrings.cpp.       *)
(*                                                                         *)
(* A constraint is [lhs, rhs].  lhs.type is SCALAR for an assignment to    *)
(* the variable and DEREF for a store through it; rhs.type is ADDRESSOF,   *)
(* SCALAR or DEREF.  rhs.off says that an offset is left after reducing    *)
(* the right side to a field variable (pointer arithmetic); the offset of  *)
(* the left side is taken to be zero.                                      *)
(***************************************************************************)
EXTENDS PointsTo, SequencesExt

(* F(x), for which x is evaluated once.                                    *)
Once(F(_), x) == CHOOSE r \in {F(y) : y \in {x}} : TRUE

SCALAR    == "scalar"
DEREF     == "deref"
ADDRESSOF == "addressof"

Constraint ==
    [lhs : [type : {SCALAR, DEREF}, var : Var],
     rhs : [type : {SCALAR, DEREF, ADDRESSOF}, var : Id, off : BOOLEAN]]

(* Forgets the undef of a leftover offset. *)
GenPointeesFault(target, pointees, off) == Normalize(pointees \ {target})

(* pta_lhs_scalar_rhs_addr for one target and all the right-side pointees: *)
(* a pointer never gets itself as a pointee, and a leftover offset adds    *)
(* undef beside a proper pointee.                                          *)
GenPointees(target, pointees, off) ==
    LET others == pointees \ {target}
        undef  == IF off /\ \E c \in others : IsProperVar(c) THEN {undef_id} ELSE {}
    IN  Normalize(others \cup undef)

(* Forgets that null and undef are no targets. *)
GenValFault(targets, pointees, off) ==
    [t \in {u \in targets : pointees \ {u} # {}} |-> GenPointees(t, pointees, off)]

GenVal(targets, pointees, off) ==
    [t \in {u \in targets : IsProperVar(u) /\ pointees \ {u} # {}} |->
        GenPointees(t, pointees, off)]

UndefVal(targets) == GenVal(targets, {undef_id}, FALSE)

-----------------------------------------------------------------------------
(* The pointees a right side stands for, by its type.                      *)

RhsFound(P, rhs) ==
    CASE rhs.type = ADDRESSOF -> TRUE
      [] rhs.type = SCALAR    -> rhs.var \in DOMAIN P
      [] rhs.type = DEREF     -> Pointees(P, rhs.var) \cap DOMAIN P # {}

RhsPointees(P, rhs) ==
    CASE rhs.type = ADDRESSOF -> {rhs.var}
      [] rhs.type = SCALAR    -> Pointees(P, rhs.var)
      [] rhs.type = DEREF     -> IndirectPointees(P, rhs.var)

(* An assignment to a scalar: undef when nothing is known of the right side. *)
GenLhsScalar(P, lhs, rhs) ==
    IF RhsFound(P, rhs)
    THEN GenVal({lhs.var}, RhsPointees(P, rhs), rhs.off)
    ELSE UndefVal({lhs.var})

(* A store of an unknown value: undef, if the target is a must-pointee.    *)
GenUnknownStore(P, lhs) ==
    IF HasMustPointee(P, lhs.var) THEN UndefVal(Pointees(P, lhs.var)) ELSE EmptyVal

(* A store of an address or of a scalar. *)
GenLhsDeref(P, lhs, rhs) ==
    IF RhsFound(P, rhs)
    THEN GenVal(Pointees(P, lhs.var), RhsPointees(P, rhs), rhs.off)
    ELSE GenUnknownStore(P, lhs)

(* A store of a load.  The loop over the pointees of the right side stops  *)
(* at the first one, d, that has information, and the code then takes the  *)
(* indirect pointees of d, the variable the loop left behind.  (When no    *)
(* pointee has information the loop leaves a multiple of the bitmap's      *)
(* element size behind, an identifier taken to have no information.)       *)
GenLhsDerefRhsDeref(P, lhs, rhs) ==
    LET known == Pointees(P, rhs.var) \cap DOMAIN P
        first == CHOOSE d \in known : \A e \in known : d <= e
    IN  IF known # {}
        THEN GenVal(Pointees(P, lhs.var), IndirectPointees(P, first), rhs.off)
        ELSE GenUnknownStore(P, lhs)

StmtGen(P, t) ==
    CASE t.lhs.type = SCALAR -> GenLhsScalar(P, t.lhs, t.rhs)
      [] t.lhs.type = DEREF /\ t.rhs.type # DEREF -> GenLhsDeref(P, t.lhs, t.rhs)
      [] t.lhs.type = DEREF /\ t.rhs.type = DEREF ->
            GenLhsDerefRhsDeref(P, t.lhs, t.rhs)

(* Overwrites every target of a store. *)
StmtKillFault(P, t) == TRUE

(* A scalar is always overwritten, a store overwrites a must-pointee only. *)
StmtKill(P, t) == t.lhs.type = DEREF => HasMustPointee(P, t.lhs.var)

-----------------------------------------------------------------------------
(* out = (in - KILL) U GEN.  When nothing is left of in, the pointers whose *)
(* only pointee is undef are dropped; otherwise the loop over GEN, by       *)
(* ascending identifier, returns at the first of them.                      *)
ComputePointsToOut(P, gen, kill) ==
    LET rest   == IF kill THEN RemovePointeeSets(P, DOMAIN gen) ELSE P
        undefs == {v \in DOMAIN gen : HasOnlyUndefPointee(gen, v)}
        added  == IF DOMAIN rest = {}
                  THEN DOMAIN gen \ undefs
                  ELSE {v \in DOMAIN gen : \A u \in undefs : v < u}
    IN  [v \in DOMAIN rest \cup added |->
            IF v \notin added THEN rest[v]
            ELSE IF v \in DOMAIN rest THEN Normalize(rest[v] \cup gen[v])
            ELSE gen[v]]

StmtOut(P, t) == ComputePointsToOut(P, StmtGen(P, t), StmtKill(P, t))

(* compute_phi_gen for every constraint of a PHI: their GENs are merged.    *)
PhiGen(P, chain) ==
    LET gen[i \in 0..Len(chain)] ==
            IF i = 0 THEN EmptyVal ELSE MergePointsTo(gen[i - 1], StmtGen(P, chain[i]))
    IN  gen[Len(chain)]

(* The flag of the last one decides whether the old value is killed.        *)
PhiOut(P, chain) ==
    ComputePointsToOut(P, PhiGen(P, chain), StmtKill(P, chain[Len(chain)]))

(* A chain with one constraint is an assignment, a longer one is a PHI.     *)
ChainOut(P, chain) ==
    IF Len(chain) = 1 THEN StmtOut(P, chain[1]) ELSE PhiOut(P, chain)
=============================================================================

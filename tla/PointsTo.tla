------------------------------ MODULE PointsTo ------------------------------
(***************************************************************************)
(* The points-to values of the LFCPA plugin and the operations of the      *)
(* points-to API of pointsto-callstrings.h.                                *)
(*                                                                         *)
(* The code keeps a points-to value as a list of (lhs, rhs bitmap) nodes,  *)
(* sorted by lhs, in a hash-consed pool, and passes pool indices around:   *)
(* two indices are equal exactly when the two values are, and a negative   *)
(* index is the empty list.  Here a value is a function from the pointers  *)
(* that have information to the set of identifiers they may point to.      *)
(***************************************************************************)
EXTENDS Naturals

CONSTANT Var  \* identifiers of the variables cs_new_var_info created

undef_id   == 0
nothing_id == 1
integer_id == 2

(* is_proper_var: every identifier above the three artificial ones. *)
IsProperVar(id) == id > integer_id

ASSUME VarAssumption == Var \subseteq {i \in Nat : IsProperVar(i)}

Id == Var \cup {undef_id, nothing_id, integer_id}

IsPointsToVal(P) == DOMAIN P \subseteq Var /\ P \in [DOMAIN P -> SUBSET Id]

EmptyVal == [v \in {} |-> {}]

-----------------------------------------------------------------------------
(* Pointee sets. *)

IsSingleton(S) == \E c \in S : S = {c}

(* Faults a mutant puts in the place of the definition they are named for. *)
NormalizeFault(S) == S

(* undef is redundant beside two other pointees. *)
Normalize(S) ==
    IF \E c, d \in S \ {undef_id} : c # d THEN S \ {undef_id} ELSE S

PrependUndef(S) == IF IsSingleton(S) THEN S \cup {undef_id} ELSE S

-----------------------------------------------------------------------------
(* Points-to values. *)

Pointees(P, v) == IF v \in DOMAIN P THEN P[v] ELSE {}

IndirectPointees(P, v) == UNION {Pointees(P, c) : c \in Pointees(P, v)}

HasMustPointee(P, v) == v \in DOMAIN P /\ IsSingleton(P[v])

HasOnlyUndefPointee(P, v) == Pointees(P, v) = {undef_id}

(* A pointer the value already has gets the union, a new one the set as is. *)
AddPointeeSet(P, v, S) ==
    [w \in DOMAIN P \cup {v} |->
        IF w # v THEN P[w]
        ELSE IF v \in DOMAIN P THEN Normalize(P[v] \cup S) ELSE S]

(* remove_pointee_set for every pointer in D. *)
RemovePointeeSets(P, D) == [w \in DOMAIN P \ D |-> P[w]]

(* The part of P about the pointers in L: what calculate_actual_out keeps. *)
RestrictTo(P, L) == [w \in DOMAIN P \cap L |-> P[w]]

(* Prepends undef for the pointers of the first value only. *)
MergePointsToFault(P, Q) ==
    IF DOMAIN P = {} THEN Q
    ELSE [v \in DOMAIN P \cup DOMAIN Q |->
            IF v \notin DOMAIN P THEN Q[v]
            ELSE IF v \notin DOMAIN Q THEN PrependUndef(P[v])
            ELSE Normalize(P[v] \cup Q[v])]

(* Skips the pointers only the second value has. *)
MergePointsToLossy(P, Q) ==
    IF DOMAIN P = {} THEN Q
    ELSE [v \in DOMAIN P |-> Normalize(P[v] \cup Pointees(Q, v))]

(* The confluence of two values.  A pointer only one side knows may be     *)
(* uninitialised on the other: its single pointee is no must-pointee now.  *)
(* The first argument wins nothing when it is empty: the second is copied. *)
MergePointsTo(P, Q) ==
    IF DOMAIN P = {} THEN Q
    ELSE IF P = Q THEN P
    ELSE [v \in DOMAIN P \cup DOMAIN Q |->
            IF v \in DOMAIN P \cap DOMAIN Q
            THEN Normalize(P[v] \cup Q[v])
            ELSE PrependUndef(Pointees(P, v) \cup Pointees(Q, v))]

-----------------------------------------------------------------------------
(* The shape every stored value must have: no pointer without pointees,    *)
(* none whose only pointee is undef (that is what absence means), and      *)
(* undef only beside exactly one other pointee, so that a single pointee   *)
(* is a must-pointee.                                                      *)
NormalSet(S) ==
    /\ S \ {undef_id} # {}
    /\ undef_id \in S => IsSingleton(S \ {undef_id})

NormalVal(P) == \A v \in DOMAIN P : NormalSet(P[v])

(* Q tells at least what P tells: more pointees, fewer must-pointees.      *)
AtLeast(P, Q) ==
    /\ DOMAIN P \subseteq DOMAIN Q
    /\ \A v \in DOMAIN P :
          /\ P[v] \ {undef_id} \subseteq Q[v]
          /\ ~IsSingleton(P[v]) => ~IsSingleton(Q[v])
=============================================================================

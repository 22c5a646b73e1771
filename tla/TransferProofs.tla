--------------------------- MODULE TransferProofs ---------------------------
(***************************************************************************)
(* What the points-to operators preserve, for every set of variables (the  *)
(* type of a value, its normal form, the order the confluence goes up),    *)
(* and with them what one constraint, a chain of them and a whole block do *)
(* to points-to values in normal form, to live sets and to the soundness   *)
(* of a value for a store, for any number of variables and constraints.    *)
(***************************************************************************)
EXTENDS Liveness, Execution, TLAPS, WellFoundedInduction

(* Normal form without the exclusion of {undef}: what GEN satisfies before *)
(* compute_pointsto_out drops the pointers that only have undef.           *)
Tidy(S) ==
    /\ S # {}
    /\ undef_id \in S => ~ \E c, d \in S \ {undef_id} : c # d

TidyVal(P) == \A v \in DOMAIN P : Tidy(P[v])

-----------------------------------------------------------------------------
(* Normal form is tidiness without the set of undef alone. *)
LEMMA NormalIsTidy ==
    ASSUME NEW S
    PROVE  NormalSet(S) <=> Tidy(S) /\ S # {undef_id}
BY DEF NormalSet, Tidy, IsSingleton

(* normalize_rhs_val makes every set of pointees tidy. *)
LEMMA NormalizeTidy ==
    ASSUME NEW S, S # {}
    PROVE  Tidy(Normalize(S))
BY DEF Normalize, Tidy

(* normalize_rhs_val drops nothing but undef, and nothing from a pair. *)
LEMMA NormalizeKeeps ==
    ASSUME NEW S
    PROVE  /\ Normalize(S) \subseteq S
           /\ S \ {undef_id} \subseteq Normalize(S)
           /\ ~IsSingleton(S) => ~IsSingleton(Normalize(S))
<1>1. CASE \E c, d \in S \ {undef_id} : c # d
  <2>1. PICK c \in S \ {undef_id}, d \in S \ {undef_id} : c # d
    BY <1>1
  <2>2. Normalize(S) = S \ {undef_id}
    BY <1>1 DEF Normalize
  <2>3. ~IsSingleton(Normalize(S))
    BY <2>1, <2>2 DEF IsSingleton
  <2> QED
    BY <2>2, <2>3
<1>2. CASE ~ \E c, d \in S \ {undef_id} : c # d
  BY <1>2 DEF Normalize
<1> QED
  BY <1>1, <1>2

(* prepend_undef_to_rhs keeps sets tidy and leaves no must-pointee but undef. *)
LEMMA PrependTidy ==
    ASSUME NEW S, Tidy(S)
    PROVE  Tidy(PrependUndef(S))
BY DEF PrependUndef, Tidy, IsSingleton

LEMMA PrependKeeps ==
    ASSUME NEW S
    PROVE  /\ S \subseteq PrependUndef(S)
           /\ PrependUndef(S) \subseteq S \cup {undef_id}
           /\ ~IsSingleton(S) => ~IsSingleton(PrependUndef(S))
BY DEF PrependUndef, IsSingleton

-----------------------------------------------------------------------------
(* The confluence of values that are both about some pointer, by pointer.  *)
LEMMA MergeCases ==
    ASSUME NEW P, NEW Q, DOMAIN P # {}, P # Q
    PROVE  /\ DOMAIN MergePointsTo(P, Q) = DOMAIN P \cup DOMAIN Q
           /\ \A v \in DOMAIN P \cap DOMAIN Q :
                 MergePointsTo(P, Q)[v] = Normalize(P[v] \cup Q[v])
           /\ \A v \in DOMAIN P \ DOMAIN Q :
                 MergePointsTo(P, Q)[v] = PrependUndef(P[v])
           /\ \A v \in DOMAIN Q \ DOMAIN P :
                 MergePointsTo(P, Q)[v] = PrependUndef(Q[v])
<1> DEFINE M == MergePointsTo(P, Q)
<1>1. M = [v \in DOMAIN P \cup DOMAIN Q |->
             IF v \in DOMAIN P \cap DOMAIN Q
             THEN Normalize(P[v] \cup Q[v])
             ELSE PrependUndef(Pointees(P, v) \cup Pointees(Q, v))]
  BY DEF MergePointsTo
<1>2. ASSUME NEW v \in DOMAIN P \ DOMAIN Q
      PROVE  Pointees(P, v) \cup Pointees(Q, v) = P[v]
  BY DEF Pointees
<1>3. ASSUME NEW v \in DOMAIN Q \ DOMAIN P
      PROVE  Pointees(P, v) \cup Pointees(Q, v) = Q[v]
  BY DEF Pointees
<1> HIDE DEF M
<1>4. DOMAIN M = DOMAIN P \cup DOMAIN Q
  BY <1>1
<1>5. \A v \in DOMAIN P \cap DOMAIN Q : M[v] = Normalize(P[v] \cup Q[v])
  BY <1>1
<1>6. \A v \in DOMAIN P \ DOMAIN Q : M[v] = PrependUndef(P[v])
  BY <1>1, <1>2
<1>7. \A v \in DOMAIN Q \ DOMAIN P : M[v] = PrependUndef(Q[v])
  BY <1>1, <1>3
<1> QED
  BY <1>4, <1>5, <1>6, <1>7 DEF M

(* The confluence of two tidy values is tidy. *)
LEMMA MergeTidy ==
    ASSUME NEW P, NEW Q, TidyVal(P), TidyVal(Q)
    PROVE  TidyVal(MergePointsTo(P, Q))
<1> DEFINE M == MergePointsTo(P, Q)
<1>1. CASE DOMAIN P = {} \/ P = Q
  BY <1>1 DEF MergePointsTo
<1>2. CASE DOMAIN P # {} /\ P # Q
  <2>0. /\ DOMAIN M = DOMAIN P \cup DOMAIN Q
        /\ \A v \in DOMAIN P \cap DOMAIN Q : M[v] = Normalize(P[v] \cup Q[v])
        /\ \A v \in DOMAIN P \ DOMAIN Q : M[v] = PrependUndef(P[v])
        /\ \A v \in DOMAIN Q \ DOMAIN P : M[v] = PrependUndef(Q[v])
    BY <1>2, MergeCases
  <2> SUFFICES ASSUME NEW v \in DOMAIN M PROVE Tidy(M[v])
    BY DEF TidyVal
  <2> HIDE DEF M
  <2>1. CASE v \in DOMAIN P \cap DOMAIN Q
    <3>1. P[v] \cup Q[v] # {}
      BY <2>1 DEF TidyVal, Tidy
    <3> QED
      BY <3>1, <2>1, <2>0, NormalizeTidy
  <2>2. CASE v \in DOMAIN P \ DOMAIN Q
    BY <2>2, <2>0, PrependTidy DEF TidyVal
  <2>3. CASE v \in DOMAIN Q \ DOMAIN P
    BY <2>3, <2>0, PrependTidy DEF TidyVal
  <2> QED
    BY <2>0, <2>1, <2>2, <2>3
<1> QED
  BY <1>1, <1>2

(* The confluence of two values in normal form is in normal form. *)
LEMMA MergeNormal ==
    ASSUME NEW P, NEW Q, NormalVal(P), NormalVal(Q)
    PROVE  NormalVal(MergePointsTo(P, Q))
<1> DEFINE M == MergePointsTo(P, Q)
<1>1. CASE DOMAIN P = {} \/ P = Q
  BY <1>1 DEF MergePointsTo
<1>2. CASE DOMAIN P # {} /\ P # Q
  <2>0. /\ DOMAIN M = DOMAIN P \cup DOMAIN Q
        /\ \A v \in DOMAIN P \cap DOMAIN Q : M[v] = Normalize(P[v] \cup Q[v])
        /\ \A v \in DOMAIN P \ DOMAIN Q : M[v] = PrependUndef(P[v])
        /\ \A v \in DOMAIN Q \ DOMAIN P : M[v] = PrependUndef(Q[v])
    BY <1>2, MergeCases
  <2>1. TidyVal(P) /\ TidyVal(Q)
    BY NormalIsTidy DEF NormalVal, TidyVal
  <2>2. TidyVal(M)
    BY <2>1, MergeTidy
  <2> SUFFICES ASSUME NEW v \in DOMAIN M PROVE NormalSet(M[v])
    BY DEF NormalVal
  <2> HIDE DEF M
  <2>3. ASSUME NEW S, NormalSet(S)
        PROVE  S \ {undef_id} # {}
    BY <2>3 DEF NormalSet
  <2>4. M[v] # {undef_id}
    <3>1. CASE v \in DOMAIN P \cap DOMAIN Q
      <4>1. (P[v] \cup Q[v]) \ {undef_id} # {}
        BY <3>1, <2>3 DEF NormalVal
      <4>2. (P[v] \cup Q[v]) \ {undef_id} \subseteq Normalize(P[v] \cup Q[v])
        BY NormalizeKeeps
      <4> QED
        BY <4>1, <4>2, <3>1, <2>0
    <3>2. CASE v \in DOMAIN P \ DOMAIN Q
      <4>1. P[v] \ {undef_id} # {}
        BY <3>2, <2>3 DEF NormalVal
      <4> QED
        BY <4>1, <3>2, <2>0, PrependKeeps
    <3>3. CASE v \in DOMAIN Q \ DOMAIN P
      <4>1. Q[v] \ {undef_id} # {}
        BY <3>3, <2>3 DEF NormalVal
      <4> QED
        BY <4>1, <3>3, <2>0, PrependKeeps
    <3> QED
      BY <3>1, <3>2, <3>3, <2>0
  <2> QED
    BY <2>2, <2>4, NormalIsTidy DEF TidyVal
<1> QED
  BY <1>1, <1>2

(* The confluence loses nothing of either side and makes no must-pointee.  *)
LEMMA MergeAtLeast ==
    ASSUME NEW P, NEW Q, NormalVal(P), NormalVal(Q)
    PROVE  /\ AtLeast(P, MergePointsTo(P, Q))
           /\ AtLeast(Q, MergePointsTo(P, Q))
<1> DEFINE M == MergePointsTo(P, Q)
<1>1. CASE DOMAIN P = {} \/ P = Q
  BY <1>1 DEF MergePointsTo, AtLeast
<1>2. CASE DOMAIN P # {} /\ P # Q
  <2>0. /\ DOMAIN M = DOMAIN P \cup DOMAIN Q
        /\ \A v \in DOMAIN P \cap DOMAIN Q : M[v] = Normalize(P[v] \cup Q[v])
        /\ \A v \in DOMAIN P \ DOMAIN Q : M[v] = PrependUndef(P[v])
        /\ \A v \in DOMAIN Q \ DOMAIN P : M[v] = PrependUndef(Q[v])
    BY <1>2, MergeCases
  <2> HIDE DEF M
  <2>1. ASSUME NEW v \in DOMAIN P \cap DOMAIN Q
        PROVE  /\ P[v] \ {undef_id} \subseteq M[v]
               /\ Q[v] \ {undef_id} \subseteq M[v]
               /\ ~IsSingleton(P[v]) => ~IsSingleton(M[v])
               /\ ~IsSingleton(Q[v]) => ~IsSingleton(M[v])
    <3>1. M[v] = Normalize(P[v] \cup Q[v])
      BY <2>0
    <3>2. P[v] # {} /\ Q[v] # {}
      BY DEF NormalVal, NormalSet
    <3>3. IsSingleton(P[v] \cup Q[v]) => IsSingleton(P[v]) /\ IsSingleton(Q[v])
      BY <3>2 DEF IsSingleton
    <3> QED
      BY <3>1, <3>3, NormalizeKeeps
  <2>2. ASSUME NEW v \in DOMAIN P \ DOMAIN Q
        PROVE  /\ P[v] \ {undef_id} \subseteq M[v]
               /\ ~IsSingleton(P[v]) => ~IsSingleton(M[v])
    BY <2>0, PrependKeeps
  <2>3. ASSUME NEW v \in DOMAIN Q \ DOMAIN P
        PROVE  /\ Q[v] \ {undef_id} \subseteq M[v]
               /\ ~IsSingleton(Q[v]) => ~IsSingleton(M[v])
    BY <2>0, PrependKeeps
  <2> QED
    BY <2>0, <2>1, <2>2, <2>3 DEF AtLeast, M
<1> QED
  BY <1>1, <1>2

(* Two values that both know something have one confluence. *)
LEMMA MergeCommutes ==
    ASSUME NEW P, NEW Q, DOMAIN P # {}, DOMAIN Q # {}
    PROVE  MergePointsTo(P, Q) = MergePointsTo(Q, P)
<1>1. CASE P = Q
  BY <1>1
<1>2. CASE P # Q
  <2>1. \A v : /\ P[v] \cup Q[v] = Q[v] \cup P[v]
               /\ Pointees(P, v) \cup Pointees(Q, v) = Pointees(Q, v) \cup Pointees(P, v)
    OBVIOUS
  <2>2. /\ DOMAIN P \cup DOMAIN Q = DOMAIN Q \cup DOMAIN P
        /\ DOMAIN P \cap DOMAIN Q = DOMAIN Q \cap DOMAIN P
    OBVIOUS
  <2> QED
    BY <1>2, <2>1, <2>2 DEF MergePointsTo
<1> QED
  BY <1>1, <1>2

(* The confluence of two values is a value. *)
LEMMA MergeType ==
    ASSUME NEW P, NEW Q, IsPointsToVal(P), IsPointsToVal(Q)
    PROVE  IsPointsToVal(MergePointsTo(P, Q))
<1> DEFINE M == MergePointsTo(P, Q)
<1>1. CASE DOMAIN P = {} \/ P = Q
  BY <1>1 DEF MergePointsTo
<1>2. CASE DOMAIN P # {} /\ P # Q
  <2>0. /\ DOMAIN M = DOMAIN P \cup DOMAIN Q
        /\ \A v \in DOMAIN P \cap DOMAIN Q : M[v] = Normalize(P[v] \cup Q[v])
        /\ \A v \in DOMAIN P \ DOMAIN Q : M[v] = PrependUndef(P[v])
        /\ \A v \in DOMAIN Q \ DOMAIN P : M[v] = PrependUndef(Q[v])
    BY <1>2, MergeCases
  <2>4. M = [v \in DOMAIN M |-> M[v]]
    BY <1>2 DEF MergePointsTo
  <2> HIDE DEF M
  <2>1. undef_id \in Id
    BY DEF Id
  <2>2. ASSUME NEW v \in DOMAIN P \cup DOMAIN Q
        PROVE  M[v] \subseteq Id
    <3>1. CASE v \in DOMAIN P \cap DOMAIN Q
      <4>1. Normalize(P[v] \cup Q[v]) \subseteq P[v] \cup Q[v]
        BY NormalizeKeeps
      <4>2. P[v] \subseteq Id /\ Q[v] \subseteq Id
        BY <3>1 DEF IsPointsToVal
      <4> QED
        BY <4>1, <4>2, <3>1, <2>0
    <3>2. CASE v \in DOMAIN P \ DOMAIN Q
      BY <3>2, <2>0, <2>1, PrependKeeps DEF IsPointsToVal
    <3>3. CASE v \in DOMAIN Q \ DOMAIN P
      BY <3>3, <2>0, <2>1, PrependKeeps DEF IsPointsToVal
    <3> QED
      BY <3>1, <3>2, <3>3
  <2>5. M \in [DOMAIN M -> SUBSET Id]
    BY <2>0, <2>2, <2>4
  <2> QED
    BY <2>0, <2>5 DEF IsPointsToVal, M
<1> QED
  BY <1>1, <1>2

-----------------------------------------------------------------------------
(* GEN and the points-to value it makes. *)

LEMMA GenPointeesTidy ==
    ASSUME NEW target, NEW pointees, NEW off, pointees \ {target} # {}
    PROVE  Tidy(GenPointees(target, pointees, off))
<1> DEFINE others == pointees \ {target}
           undef  == IF off /\ \E c \in others : IsProperVar(c)
                     THEN {undef_id} ELSE {}
<1>1. others \cup undef # {}
  OBVIOUS
<1>2. GenPointees(target, pointees, off) = Normalize(others \cup undef)
  BY DEF GenPointees
<1> QED
  BY <1>1, <1>2, NormalizeTidy

LEMMA GenPointeesType ==
    ASSUME NEW target, NEW pointees \in SUBSET Id, NEW off
    PROVE  GenPointees(target, pointees, off) \subseteq Id
<1> DEFINE others == pointees \ {target}
           undef  == IF off /\ \E c \in others : IsProperVar(c)
                     THEN {undef_id} ELSE {}
<1>1. others \cup undef \subseteq Id
  BY DEF Id
<1>2. GenPointees(target, pointees, off) = Normalize(others \cup undef)
  BY DEF GenPointees
<1>3. Normalize(others \cup undef) \subseteq others \cup undef
  BY NormalizeKeeps
<1> QED
  BY <1>1, <1>2, <1>3

LEMMA GenValTidy ==
    ASSUME NEW targets, NEW pointees, NEW off
    PROVE  TidyVal(GenVal(targets, pointees, off))
BY GenPointeesTidy DEF TidyVal, GenVal

LEMMA GenValType ==
    ASSUME NEW targets \in SUBSET Id, NEW pointees \in SUBSET Id, NEW off
    PROVE  IsPointsToVal(GenVal(targets, pointees, off))
<1>1. ASSUME NEW u \in targets, IsProperVar(u)
      PROVE  u \in Var
  BY <1>1 DEF Id, IsProperVar, undef_id, nothing_id, integer_id
<1>2. DOMAIN GenVal(targets, pointees, off) \subseteq Var
  BY <1>1 DEF GenVal
<1>3. \A t \in DOMAIN GenVal(targets, pointees, off) :
         GenPointees(t, pointees, off) \in SUBSET Id
  BY GenPointeesType
<1> QED
  BY <1>2, <1>3 DEF IsPointsToVal, GenVal

(* What a well-formed value says of any variable is a set of identifiers.  *)
LEMMA PointeesType ==
    ASSUME NEW P, IsPointsToVal(P)
    PROVE  /\ \A v : Pointees(P, v) \in SUBSET Id
           /\ \A v : IndirectPointees(P, v) \in SUBSET Id
BY DEF Pointees, IndirectPointees, IsPointsToVal

(* The GEN of every constraint is tidy and a value. *)
LEMMA StmtGenTidy ==
    ASSUME NEW P, NEW t \in Constraint
    PROVE  TidyVal(StmtGen(P, t))
<1>1. TidyVal(EmptyVal)
  BY DEF TidyVal, EmptyVal
<1>2. \A S : TidyVal(UndefVal(S))
  BY GenValTidy DEF UndefVal
<1>3. TidyVal(GenUnknownStore(P, t.lhs))
  BY <1>1, <1>2 DEF GenUnknownStore
<1>4. TidyVal(GenLhsScalar(P, t.lhs, t.rhs))
  BY <1>2, GenValTidy DEF GenLhsScalar
<1>5. TidyVal(GenLhsDeref(P, t.lhs, t.rhs))
  BY <1>3, GenValTidy DEF GenLhsDeref
<1>6. TidyVal(GenLhsDerefRhsDeref(P, t.lhs, t.rhs))
  BY <1>3, GenValTidy DEF GenLhsDerefRhsDeref
<1>7. t.lhs.type = SCALAR \/ t.lhs.type = DEREF
  BY DEF Constraint
<1> QED
  BY <1>4, <1>5, <1>6, <1>7 DEF StmtGen

LEMMA StmtGenType ==
    ASSUME NEW P, IsPointsToVal(P), NEW t \in Constraint
    PROVE  IsPointsToVal(StmtGen(P, t))
<1>1. IsPointsToVal(EmptyVal)
  BY DEF IsPointsToVal, EmptyVal
<1>2. \A S \in SUBSET Id : IsPointsToVal(UndefVal(S))
  <2>1. {undef_id} \in SUBSET Id
    BY DEF Id
  <2> QED
    BY <2>1, GenValType DEF UndefVal
<1>3. /\ t.lhs.type \in {SCALAR, DEREF} /\ t.lhs.var \in Var
      /\ t.rhs.type \in {SCALAR, DEREF, ADDRESSOF} /\ t.rhs.var \in Id
  BY DEF Constraint
<1>4. {t.lhs.var} \in SUBSET Id /\ {t.rhs.var} \in SUBSET Id
  BY <1>3 DEF Id
<1>5. RhsPointees(P, t.rhs) \in SUBSET Id
  BY <1>3, <1>4, PointeesType DEF RhsPointees
<1>6. Pointees(P, t.lhs.var) \in SUBSET Id
  BY PointeesType
<1>7. IsPointsToVal(GenUnknownStore(P, t.lhs))
  BY <1>1, <1>2, <1>6 DEF GenUnknownStore
<1>8. IsPointsToVal(GenLhsScalar(P, t.lhs, t.rhs))
  BY <1>2, <1>4, <1>5, GenValType DEF GenLhsScalar
<1>9. IsPointsToVal(GenLhsDeref(P, t.lhs, t.rhs))
  BY <1>5, <1>6, <1>7, GenValType DEF GenLhsDeref
<1>10. IsPointsToVal(GenLhsDerefRhsDeref(P, t.lhs, t.rhs))
  BY <1>6, <1>7, PointeesType, GenValType DEF GenLhsDerefRhsDeref
<1> QED
  BY <1>3, <1>8, <1>9, <1>10 DEF StmtGen

-----------------------------------------------------------------------------
(* OUT = (IN - KILL) U GEN, pointer by pointer: what is left of IN, or GEN *)
(* where GEN is not undef alone, or their normalised union.                *)
LEMMA OutCases ==
    ASSUME NEW P, NEW g, NEW kill, g \in [DOMAIN g -> SUBSET Id],
           DOMAIN g \subseteq Var, NEW v \in DOMAIN ComputePointsToOut(P, g, kill)
    PROVE  LET out == ComputePointsToOut(P, g, kill) IN
             \/ v \in DOMAIN P /\ out[v] = P[v]
             \/ v \in DOMAIN g /\ g[v] # {undef_id} /\ out[v] = g[v]
             \/ /\ v \in DOMAIN P /\ v \in DOMAIN g /\ g[v] # {undef_id}
                /\ out[v] = Normalize(P[v] \cup g[v])
<1> DEFINE rest   == IF kill THEN RemovePointeeSets(P, DOMAIN g) ELSE P
           undefs == {w \in DOMAIN g : HasOnlyUndefPointee(g, w)}
           added  == IF DOMAIN rest = {}
                     THEN DOMAIN g \ undefs
                     ELSE {w \in DOMAIN g : \A u \in undefs : w < u}
           out    == ComputePointsToOut(P, g, kill)
<1>1. out = [w \in DOMAIN rest \cup added |->
               IF w \notin added THEN rest[w]
               ELSE IF w \in DOMAIN rest THEN Normalize(rest[w] \cup g[w])
               ELSE g[w]]
  BY DEF ComputePointsToOut
<1>2. \A w \in DOMAIN rest : w \in DOMAIN P /\ rest[w] = P[w]
  BY DEF RemovePointeeSets
<1>3. \A w \in added : w \in DOMAIN g /\ g[w] # {undef_id}
  <2> SUFFICES ASSUME NEW w \in added, g[w] = {undef_id} PROVE FALSE
    OBVIOUS
  <2>1. w \in undefs
    BY DEF HasOnlyUndefPointee, Pointees
  <2>2. w \in Nat
    BY VarAssumption
  <2>3. ~(w < w)
    BY <2>2
  <2> QED
    BY <2>1, <2>3
<1> HIDE DEF rest, undefs, added, out
<1>4. v \in DOMAIN rest \cup added
  BY <1>1 DEF out
<1>5. CASE v \notin added
  BY <1>1, <1>2, <1>4, <1>5 DEF out
<1>6. CASE v \in added /\ v \in DOMAIN rest
  BY <1>1, <1>2, <1>3, <1>6 DEF out
<1>7. CASE v \in added /\ v \notin DOMAIN rest
  BY <1>1, <1>3, <1>7 DEF out
<1> QED
  BY <1>5, <1>6, <1>7

LEMMA OutNormal ==
    ASSUME NEW P, NEW g, NEW kill, NormalVal(P), TidyVal(g),
           g \in [DOMAIN g -> SUBSET Id], DOMAIN g \subseteq Var
    PROVE  NormalVal(ComputePointsToOut(P, g, kill))
<1> SUFFICES ASSUME NEW v \in DOMAIN ComputePointsToOut(P, g, kill)
             PROVE  NormalSet(ComputePointsToOut(P, g, kill)[v])
  BY DEF NormalVal
<1> DEFINE out == ComputePointsToOut(P, g, kill)
<1>1. CASE v \in DOMAIN P /\ out[v] = P[v]
  BY <1>1 DEF NormalVal
<1>2. CASE v \in DOMAIN g /\ g[v] # {undef_id} /\ out[v] = g[v]
  BY <1>2, NormalIsTidy DEF TidyVal
<1>3. CASE /\ v \in DOMAIN P /\ v \in DOMAIN g
           /\ out[v] = Normalize(P[v] \cup g[v])
  <2>1. NormalSet(P[v])
    BY <1>3 DEF NormalVal
  <2>2. (P[v] \cup g[v]) \ {undef_id} # {}
    BY <2>1 DEF NormalSet
  <2>3. (P[v] \cup g[v]) \ {undef_id} \subseteq Normalize(P[v] \cup g[v])
    BY NormalizeKeeps
  <2>4. Tidy(Normalize(P[v] \cup g[v]))
    BY <2>2, NormalizeTidy
  <2>5. Normalize(P[v] \cup g[v]) # {undef_id}
    BY <2>2, <2>3
  <2> QED
    BY <1>3, <2>4, <2>5, NormalIsTidy
<1> QED
  BY <1>1, <1>2, <1>3, OutCases

LEMMA OutType ==
    ASSUME NEW P, NEW g, NEW kill, IsPointsToVal(P), IsPointsToVal(g)
    PROVE  IsPointsToVal(ComputePointsToOut(P, g, kill))
<1> DEFINE out == ComputePointsToOut(P, g, kill)
<1>1. g \in [DOMAIN g -> SUBSET Id] /\ DOMAIN g \subseteq Var
  BY DEF IsPointsToVal
<1>2. ASSUME NEW v \in DOMAIN out
      PROVE  v \in Var /\ out[v] \subseteq Id
  <2>1. CASE v \in DOMAIN P /\ out[v] = P[v]
    BY <2>1 DEF IsPointsToVal
  <2>2. CASE v \in DOMAIN g /\ out[v] = g[v]
    BY <2>2 DEF IsPointsToVal
  <2>3. CASE /\ v \in DOMAIN P /\ v \in DOMAIN g
             /\ out[v] = Normalize(P[v] \cup g[v])
    <3>1. Normalize(P[v] \cup g[v]) \subseteq P[v] \cup g[v]
      BY NormalizeKeeps
    <3>2. P[v] \subseteq Id /\ g[v] \subseteq Id /\ v \in Var
      BY <2>3 DEF IsPointsToVal
    <3> QED
      BY <2>3, <3>1, <3>2
  <2> QED
    BY <1>1, <2>1, <2>2, <2>3, OutCases
<1>3. out = [v \in DOMAIN out |-> out[v]]
  BY DEF ComputePointsToOut
<1> HIDE DEF out
<1>4. DOMAIN out \subseteq Var /\ out \in [DOMAIN out -> SUBSET Id]
  BY <1>2, <1>3
<1> QED
  BY <1>4 DEF out, IsPointsToVal

LEMMA EmptyIsValue ==
    IsPointsToVal(EmptyVal) /\ NormalVal(EmptyVal) /\ TidyVal(EmptyVal)
BY DEF IsPointsToVal, NormalVal, TidyVal, EmptyVal

-----------------------------------------------------------------------------
(* Going along a list. *)

LEMMA UpTo ==
    ASSUME NEW n \in Nat, NEW S, 0 \in S, \A i \in 1..n : i - 1 \in S => i \in S
    PROVE  0..n \subseteq S
<1> DEFINE C == (0..n) \ S
<1> SUFFICES ASSUME C # {} PROVE FALSE
  OBVIOUS
<1>1. C \in SUBSET Nat
  OBVIOUS
<1>2. PICK m \in C : \A y \in C : ~ (<<y, m>> \in OpToRel(<, Nat))
  BY <1>1, WFMin, NatLessThanWellFounded
<1>3. \A y \in C : ~ (y < m)
  <2> TAKE y \in C
  <2>1. y \in Nat /\ m \in Nat
    OBVIOUS
  <2> QED
    BY <1>2, <2>1 DEF OpToRel
<1>4. m \in 1..n /\ m - 1 \in 0..n /\ m - 1 < m
  OBVIOUS
<1>5. m - 1 \notin C
  BY <1>3, <1>4
<1> QED
  BY <1>4, <1>5

(* What a loop keeps from round to round holds at its end. *)
LEMMA Kept ==
    ASSUME NEW S, NEW n \in Nat, NEW f, f[0] \in S,
           \A i \in 1..n : f[i - 1] \in S => f[i] \in S
    PROVE  f[n] \in S
<1> DEFINE T == {i \in 0..n : f[i] \in S}
<1>1. 0 \in T
  OBVIOUS
<1>2. \A i \in 1..n : i - 1 \in T => i \in T
  OBVIOUS
<1> HIDE DEF T
<1>3. 0..n \subseteq T
  BY <1>1, <1>2, UpTo
<1> QED
  BY <1>3 DEF T

(* The recursive functions that model loops exist. *)
Steps(n, S) == [1..n -> [S -> S]]

IsRun(f, n, S, s0, F) ==
    /\ f \in [0..n -> S]
    /\ f[0] = s0
    /\ \A i \in 1..n : f[i] = F[i][f[i - 1]]

HasRun(n, S, s0, F) == \E f : IsRun(f, n, S, s0, F)

LEMMA Loop ==
    ASSUME NEW S, NEW n \in Nat, NEW s0 \in S, NEW F \in Steps(n, S)
    PROVE  HasRun(n, S, s0, F)
<1> USE DEF Steps
<1> DEFINE Is(f, m) == f[0] = s0 /\ \A i \in 1..m : f[i] = F[i][f[i - 1]]
           Upto(m) == \E f \in [0..m -> S] : Is(f, m)
           T == {m \in 0..n : Upto(m)}
<1>1. Upto(0)
  <2> DEFINE f == [i \in 0..0 |-> s0]
  <2>1. f \in [0..0 -> S] /\ Is(f, 0)
    OBVIOUS
  <2> QED
    BY <2>1
<1>2. ASSUME NEW i \in 1..n, Upto(i - 1)
      PROVE  Upto(i)
  <2>1. PICK f \in [0..(i - 1) -> S] : Is(f, i - 1)
    BY <1>2
  <2> DEFINE g == [j \in 0..i |-> IF j = i THEN F[i][f[i - 1]] ELSE f[j]]
  <2>2. F[i][f[i - 1]] \in S
    OBVIOUS
  <2>3. \A j \in 0..i : j # i => j \in 0..(i - 1)
    OBVIOUS
  <2>4. g \in [0..i -> S]
    BY <2>2, <2>3
  <2>5. g[0] = s0
    BY <2>1
  <2>6. \A j \in 1..i : g[j] = F[j][g[j - 1]]
    <3> TAKE j \in 1..i
    <3>1. CASE j = i
      <4>1. g[i - 1] = f[i - 1] /\ g[i] = F[i][f[i - 1]]
        OBVIOUS
      <4> QED
        BY <3>1, <4>1
    <3>2. CASE j # i
      <4>1. j \in 1..(i - 1) /\ j - 1 # i /\ j - 1 \in 0..i /\ j \in 0..i
        BY <3>2
      <4>2. g[j] = f[j] /\ g[j - 1] = f[j - 1]
        BY <3>2, <4>1
      <4> QED
        BY <4>1, <4>2, <2>1
    <3> QED
      BY <3>1, <3>2
  <2>7. Is(g, i)
    BY <2>5, <2>6
  <2> HIDE DEF g
  <2> QED
    BY <2>4, <2>7
<1>3. Upto(n)
  <2> HIDE DEF Upto
  <2>1. 0 \in T /\ \A i \in 1..n : i - 1 \in T => i \in T
    BY <1>1, <1>2
  <2> HIDE DEF T
  <2>2. 0..n \subseteq T
    BY <2>1, UpTo
  <2> QED
    BY <2>2 DEF T
<1> QED
  BY <1>3 DEF HasRun, IsRun

-----------------------------------------------------------------------------
(* A chain and a block take values in normal form to such values. *)

NormalValues == {P \in UNION {[D -> SUBSET Id] : D \in SUBSET Var} : NormalVal(P)}
TidyValues   == {P \in UNION {[D -> SUBSET Id] : D \in SUBSET Var} : TidyVal(P)}

LEMMA ValueSets ==
    ASSUME NEW P
    PROVE  /\ P \in NormalValues <=> IsPointsToVal(P) /\ NormalVal(P)
           /\ P \in TidyValues <=> IsPointsToVal(P) /\ TidyVal(P)
<1>1. P \in UNION {[D -> SUBSET Id] : D \in SUBSET Var} <=> IsPointsToVal(P)
  <2>1. ASSUME IsPointsToVal(P)
        PROVE  P \in UNION {[D -> SUBSET Id] : D \in SUBSET Var}
    BY <2>1 DEF IsPointsToVal
  <2>2. ASSUME NEW D \in SUBSET Var, P \in [D -> SUBSET Id]
        PROVE  IsPointsToVal(P)
    BY <2>2 DEF IsPointsToVal
  <2> QED
    BY <2>1, <2>2
<1> QED
  BY <1>1 DEF NormalValues, TidyValues

(* PhiGen is what a run of the loop over the arguments ends with.          *)
IsPhiRun(f, P, chain) ==
    /\ f[0] = EmptyVal
    /\ \A i \in 1..Len(chain) :
          /\ chain[i] \in Constraint
          /\ f[i] = MergePointsTo(f[i - 1], StmtGen(P, chain[i]))
    /\ \A i \in 0..Len(chain) : f[i] \in TidyValues
    /\ PhiGen(P, chain) = f[Len(chain)]

LEMMA PhiRun ==
    ASSUME NEW P \in NormalValues, NEW chain \in Seq(Constraint)
    PROVE  \E f : IsPhiRun(f, P, chain)
<1> DEFINE n == Len(chain)
           F == [i \in 1..n |-> [Q \in TidyValues |->
                    MergePointsTo(Q, StmtGen(P, chain[i]))]]
           Is(f) == f = [i \in 0..n |-> IF i = 0 THEN EmptyVal
                            ELSE MergePointsTo(f[i - 1], StmtGen(P, chain[i]))]
           gen == CHOOSE f : Is(f)
<1>1. \A i \in 1..n : chain[i] \in Constraint
  OBVIOUS
<1>2. \A i \in 1..n : IsPointsToVal(StmtGen(P, chain[i])) /\ TidyVal(StmtGen(P, chain[i]))
  BY <1>1, ValueSets, StmtGenType, StmtGenTidy
<1>3. \A i \in 1..n : \A Q \in TidyValues :
         MergePointsTo(Q, StmtGen(P, chain[i])) \in TidyValues
  BY <1>2, ValueSets, MergeTidy, MergeType
<1>4. F \in [1..n -> [TidyValues -> TidyValues]]
  BY <1>3
<1>5. EmptyVal \in TidyValues
  BY EmptyIsValue, ValueSets
<1>6. n \in Nat
  OBVIOUS
<1>7. PICK f : IsRun(f, n, TidyValues, EmptyVal, F)
  <2> HIDE DEF F, n
  <2>1. F \in Steps(n, TidyValues)
    BY <1>4, <1>5, <1>6 DEF Steps
  <2>2. HasRun(n, TidyValues, EmptyVal, F)
    BY <2>1, <1>4, <1>5, <1>6, Loop
  <2> QED
    BY <2>2 DEF HasRun
<1>8. \A i \in 1..n : f[i] = MergePointsTo(f[i - 1], StmtGen(P, chain[i]))
  <2> TAKE i \in 1..n
  <2>1. f[i - 1] \in TidyValues /\ f[i] = F[i][f[i - 1]]
    BY <1>7 DEF IsRun
  <2> QED
    BY <2>1
<1>9. Is(f)
  <2>1. \A i \in 0..n : f[i] = IF i = 0 THEN EmptyVal
                            ELSE MergePointsTo(f[i - 1], StmtGen(P, chain[i]))
    BY <1>7, <1>8 DEF IsRun
  <2>2. f = [i \in 0..n |-> f[i]]
    BY <1>7 DEF IsRun
  <2> QED
    BY <2>1, <2>2
<1>10. Is(gen)
  <2> HIDE DEF Is
  <2> QED
    BY <1>9
<1>a. PhiGen(P, chain) = gen[n]
  BY DEF PhiGen
<1> HIDE DEF gen
<1>11. gen[0] = EmptyVal
  BY <1>10
<1>12. \A i \in 1..n : gen[i] = MergePointsTo(gen[i - 1], StmtGen(P, chain[i]))
  BY <1>10
<1>13. \A i \in 0..n : gen[i] \in TidyValues
  <2> DEFINE T == {i \in 0..n : gen[i] \in TidyValues}
  <2>1. 0 \in T
    BY <1>5, <1>6, <1>11
  <2>2. \A i \in 1..n : i - 1 \in T => i \in T
    BY <1>3, <1>6, <1>12
  <2> HIDE DEF T, n
  <2>3. 0..n \subseteq T
    BY <1>6, <2>1, <2>2, UpTo
  <2> QED
    BY <2>3 DEF T
<1>14. IsPhiRun(gen, P, chain)
  BY <1>1, <1>a, <1>11, <1>12, <1>13 DEF IsPhiRun
<1> QED
  BY <1>14

LEMMA PhiGenTidy ==
    ASSUME NEW P \in NormalValues, NEW chain \in Seq(Constraint)
    PROVE  PhiGen(P, chain) \in TidyValues
<1>1. PICK f : IsPhiRun(f, P, chain)
  BY PhiRun
<1>2. Len(chain) \in 0..Len(chain)
  OBVIOUS
<1> QED
  BY <1>1, <1>2 DEF IsPhiRun

LEMMA ChainOutValue ==
    ASSUME NEW P \in NormalValues, NEW chain \in Seq(Constraint) \ {<<>>}
    PROVE  ChainOut(P, chain) \in NormalValues
<1>1. IsPointsToVal(P) /\ NormalVal(P)
  BY ValueSets
<1>2. \A g, kill : IsPointsToVal(g) /\ TidyVal(g) =>
         ComputePointsToOut(P, g, kill) \in NormalValues
  BY <1>1, OutType, OutNormal, ValueSets DEF IsPointsToVal
<1>3. chain[1] \in Constraint
  OBVIOUS
<1>4. StmtOut(P, chain[1]) \in NormalValues
  BY <1>1, <1>2, <1>3, StmtGenType, StmtGenTidy DEF StmtOut
<1>5. PhiOut(P, chain) \in NormalValues
  BY <1>2, PhiGenTidy, ValueSets DEF PhiOut
<1> QED
  BY <1>4, <1>5 DEF ChainOut

LEMMA ItemParts ==
    ASSUME NEW item \in Item
    PROVE  /\ IsAlias(item) \in BOOLEAN
           /\ IsAlias(item) => item.chain \in Seq(Constraint) \ {<<>>}
           /\ IsAlias(item) => item.chain[1] \in Constraint
           /\ ~IsAlias(item) => item.uses \in SUBSET Var
<1>1. CASE item \in [alias : {TRUE}, chain : Seq(Constraint) \ {<<>>}]
  <2>1. item.alias = TRUE
    BY <1>1
  <2>2. item.chain \in Seq(Constraint) /\ item.chain # <<>>
    BY <1>1
  <2>3. item.chain[1] \in Constraint
    BY <2>2
  <2> QED
    BY <2>1, <2>2, <2>3 DEF IsAlias
<1>2. CASE item \in [alias : {FALSE}, uses : SUBSET Var]
  <2>1. item.alias = FALSE
    BY <1>2
  <2>2. item.uses \in SUBSET Var
    BY <1>2
  <2> QED
    BY <2>1, <2>2 DEF IsAlias
<1> QED
  BY <1>1, <1>2 DEF Item

(* What an item makes of a value, and what a run over a block ends with.   *)
ItemOut(P, item) == IF IsAlias(item) THEN ChainOut(P, item.chain) ELSE P

IsBlockRun(f, P, code) ==
    /\ f[0] = P
    /\ \A i \in 1..Len(code) : code[i] \in Item /\ f[i] = ItemOut(f[i - 1], code[i])
    /\ \A i \in 0..Len(code) : f[i] \in NormalValues
    /\ BlockOut(P, code) = f[Len(code)]

LEMMA BlockRun ==
    ASSUME NEW P \in NormalValues, NEW code \in Seq(Item)
    PROVE  \E f : IsBlockRun(f, P, code)
<1> DEFINE n == Len(code)
           Step(i, Q) == IF IsAlias(code[i]) THEN ChainOut(Q, code[i].chain) ELSE Q
           F == [i \in 1..n |-> [Q \in NormalValues |-> Step(i, Q)]]
           Is(f) == f = [i \in 0..n |-> IF i = 0 THEN P
                            ELSE IF IsAlias(code[i]) THEN ChainOut(f[i - 1], code[i].chain)
                            ELSE f[i - 1]]
           out == CHOOSE f : Is(f)
<1>1. \A i \in 1..n : code[i] \in Item
  OBVIOUS
<1>2. \A i \in 1..n : \A Q \in NormalValues : Step(i, Q) \in NormalValues
  BY <1>1, ItemParts, ChainOutValue
<1>3. F \in [1..n -> [NormalValues -> NormalValues]]
  BY <1>2
<1>4. n \in Nat
  OBVIOUS
<1>5. PICK f : IsRun(f, n, NormalValues, P, F)
  <2> HIDE DEF F, n
  <2>1. F \in Steps(n, NormalValues)
    BY <1>3, <1>4 DEF Steps
  <2>2. HasRun(n, NormalValues, P, F)
    BY <2>1, <1>3, <1>4, Loop
  <2> QED
    BY <2>2 DEF HasRun
<1>6. \A i \in 1..n : f[i] = Step(i, f[i - 1])
  <2> TAKE i \in 1..n
  <2>1. f[i - 1] \in NormalValues /\ f[i] = F[i][f[i - 1]]
    BY <1>5 DEF IsRun
  <2> HIDE DEF Step
  <2> QED
    BY <2>1
<1>7. Is(f)
  <2>1. \A i \in 0..n : f[i] = IF i = 0 THEN P
                            ELSE IF IsAlias(code[i]) THEN ChainOut(f[i - 1], code[i].chain)
                            ELSE f[i - 1]
    BY <1>5, <1>6 DEF IsRun
  <2>2. f = [i \in 0..n |-> f[i]]
    BY <1>5 DEF IsRun
  <2> QED
    BY <2>1, <2>2
<1>8. Is(out)
  <2> HIDE DEF Is
  <2> QED
    BY <1>7
<1>a. BlockOut(P, code) = out[n]
  BY DEF BlockOut
<1> HIDE DEF out
<1>9. out[0] = P
  BY <1>8
<1>10. \A i \in 1..n : out[i] = Step(i, out[i - 1])
  BY <1>8
<1>11. \A i \in 0..n : out[i] \in NormalValues
  <2> DEFINE T == {i \in 0..n : out[i] \in NormalValues}
  <2>1. 0 \in T
    BY <1>4, <1>9
  <2>2. \A i \in 1..n : i - 1 \in T => i \in T
    <3> HIDE DEF Step
    <3> QED
      BY <1>2, <1>4, <1>10
  <2> HIDE DEF T, n
  <2>3. 0..n \subseteq T
    BY <1>4, <2>1, <2>2, UpTo
  <2> QED
    BY <2>3 DEF T
<1>12. IsBlockRun(out, P, code)
  BY <1>1, <1>a, <1>9, <1>10, <1>11 DEF IsBlockRun, ItemOut
<1> QED
  BY <1>12

LEMMA BlockOutValue ==
    ASSUME NEW P \in NormalValues, NEW code \in Seq(Item)
    PROVE  BlockOut(P, code) \in NormalValues
<1>1. PICK f : IsBlockRun(f, P, code)
  BY BlockRun
<1>2. Len(code) \in 0..Len(code)
  OBVIOUS
<1> QED
  BY <1>1, <1>2 DEF IsBlockRun

(* Item by item. *)
LEMMA BlockOutStep ==
    ASSUME NEW P \in NormalValues, NEW code \in Seq(Item), NEW i \in 1..Len(code)
    PROVE  BlockOut(P, SubSeq(code, 1, i))
              = ItemOut(BlockOut(P, SubSeq(code, 1, i - 1)), code[i])
<1> DEFINE long  == SubSeq(code, 1, i)
           short == SubSeq(code, 1, i - 1)
<1>1. /\ long \in Seq(Item) /\ short \in Seq(Item)
      /\ Len(long) = i /\ Len(short) = i - 1 /\ i \in Nat /\ i - 1 \in Nat
      /\ \A j \in 1..i : long[j] = code[j]
      /\ \A j \in 1..(i - 1) : short[j] = code[j]
  <2>1. i \in Nat /\ i >= 1 /\ i - 1 \in Nat /\ i <= Len(code) /\ Len(code) \in Nat
    OBVIOUS
  <2>2. long \in Seq(Item) /\ Len(long) = i /\ \A j \in 1..i : long[j] = code[j]
    BY <2>1
  <2>3. short \in Seq(Item) /\ Len(short) = i - 1 /\ \A j \in 1..(i - 1) : short[j] = code[j]
    BY <2>1
  <2> QED
    BY <2>1, <2>2, <2>3
<1> HIDE DEF long, short
<1>2. PICK f : IsBlockRun(f, P, long)
  BY <1>1, BlockRun
<1>3. PICK g : IsBlockRun(g, P, short)
  BY <1>1, BlockRun
<1> DEFINE T == {j \in 0..(i - 1) : f[j] = g[j]}
<1>4. 0 \in T
  BY <1>1, <1>2, <1>3 DEF IsBlockRun
<1>5. \A j \in 1..(i - 1) : j - 1 \in T => j \in T
  <2> SUFFICES ASSUME NEW j \in 1..(i - 1), j - 1 \in T PROVE f[j] = g[j]
    BY <1>1
  <2>1. f[j] = ItemOut(f[j - 1], code[j]) /\ g[j] = ItemOut(g[j - 1], code[j])
    <3>1. j \in 1..Len(long) /\ j \in 1..Len(short) /\ long[j] = code[j] /\ short[j] = code[j]
      BY <1>1
    <3> QED
      BY <1>2, <1>3, <3>1 DEF IsBlockRun
  <2> QED
    BY <2>1
<1> HIDE DEF T
<1>6. 0..(i - 1) \subseteq T
  <2> DEFINE m == i - 1
  <2>1. m \in Nat /\ 0 \in T /\ \A j \in 1..m : j - 1 \in T => j \in T
    BY <1>1, <1>4, <1>5
  <2> HIDE DEF m
  <2>2. 0..m \subseteq T
    BY <2>1, UpTo
  <2> QED
    BY <2>2 DEF m
<1>7. f[i - 1] = g[i - 1]
  BY <1>1, <1>6 DEF T
<1>8. f[i] = ItemOut(f[i - 1], code[i])
  <2>1. i \in 1..Len(long) /\ long[i] = code[i]
    BY <1>1
  <2> QED
    BY <1>2, <2>1 DEF IsBlockRun
<1>9. BlockOut(P, long) = f[i] /\ BlockOut(P, short) = g[i - 1]
  BY <1>1, <1>2, <1>3 DEF IsBlockRun
<1> QED
  BY <1>7, <1>8, <1>9 DEF long, short

LEMMA BlockOutEnds ==
    ASSUME NEW P \in NormalValues, NEW code \in Seq(Item)
    PROVE  /\ BlockOut(P, <<>>) = P
           /\ SubSeq(code, 1, 0) = <<>> /\ SubSeq(code, 1, Len(code)) = code
<1>1. PICK f : IsBlockRun(f, P, <<>>)
  <2>1. <<>> \in Seq(Item)
    OBVIOUS
  <2> QED
    BY <2>1, BlockRun
<1>2. BlockOut(P, <<>>) = P
  BY <1>1 DEF IsBlockRun
<1>3. SubSeq(code, 1, 0) = <<>> /\ SubSeq(code, 1, Len(code)) = code
  OBVIOUS
<1> QED
  BY <1>2, <1>3

-----------------------------------------------------------------------------
(* What a block makes of a live set. *)

LEMMA LiveItemType ==
    ASSUME NEW s \in LiveState, NEW P, IsPointsToVal(P), NEW item \in Item
    PROVE  LiveItem(s, P, item) \in LiveState
<1>1. CASE ~IsAlias(item)
  BY <1>1, ItemParts DEF LiveItem, LiveState
<1>2. CASE IsAlias(item)
  <2> DEFINE t == item.chain[1]
  <2>1. t \in Constraint
    BY <1>2, ItemParts
  <2>2. t.lhs.var \in Var /\ t.rhs.var \in Id
    BY <2>1 DEF Constraint
  <2>3. \A S \in SUBSET Id : ProperVars(S) \in SUBSET Var
    BY DEF ProperVars, Id, IsProperVar, undef_id, nothing_id, integer_id
  <2>4. Pointees(P, t.rhs.var) \in SUBSET Id
    BY PointeesType
  <2> HIDE DEF t
  <2>5. LiveScalar(s, P, t) \in LiveState
    <3> DEFINE rhs == CASE t.rhs.type = ADDRESSOF -> {}
                        [] t.rhs.type = SCALAR    -> {t.rhs.var}
                        [] t.rhs.type = DEREF     -> {t.rhs.var} \cup Pointees(P, t.rhs.var)
               made == IF t.lhs.var \in s.gen \cup s.live THEN ProperVars(rhs) ELSE {}
    <3>1. t.rhs.type \in {SCALAR, DEREF, ADDRESSOF}
      BY <2>1 DEF Constraint
    <3>2. rhs \in SUBSET Id
      BY <2>2, <2>4, <3>1 DEF SCALAR, DEREF, ADDRESSOF
    <3>3. made \in SUBSET Var
      BY <2>3, <3>2
    <3>4. LiveScalar(s, P, t) = [s EXCEPT !.kill = @ \cup {t.lhs.var},
                                          !.gen  = (@ \ {t.lhs.var}) \cup made]
      BY DEF LiveScalar
    <3> HIDE DEF made
    <3> QED
      BY <2>2, <3>3, <3>4 DEF LiveState
  <2>6. LiveStore(s, P, t) \in LiveState
    BY <2>2 DEF LiveStore, LiveState
  <2> QED
    BY <1>2, <2>5, <2>6 DEF LiveItem, LiveChain, t
<1> QED
  BY <1>1, <1>2

(* LiveTop is what a run of the loop over the block ends with. *)
IsLiveRun(f, live, P, code) ==
    /\ f \in [0..Len(code) -> LiveState]
    /\ f[0] = [live |-> live, gen |-> {}, kill |-> {}]
    /\ \A i \in 1..Len(code) :
          /\ code[Len(code) + 1 - i] \in Item
          /\ f[i] = LiveItem(f[i - 1], P, code[Len(code) + 1 - i])
    /\ LiveTop(live, P, code) = f[Len(code)]

LEMMA LiveRun ==
    ASSUME NEW live \in SUBSET Var, NEW P, IsPointsToVal(P), NEW code \in Seq(Item)
    PROVE  \E f : IsLiveRun(f, live, P, code)
<1> DEFINE n == Len(code)
           below == [live |-> live, gen |-> {}, kill |-> {}]
           item(i) == code[n + 1 - i]
           F == [i \in 1..n |-> [s \in LiveState |-> LiveItem(s, P, item(i))]]
           Is(f) == f = [i \in 0..Len(code) |->
                            IF i = 0 THEN [live |-> live, gen |-> {}, kill |-> {}]
                            ELSE LiveItem(f[i - 1], P, code[Len(code) + 1 - i])]
           state == CHOOSE f : Is(f)
<1>1. n \in Nat /\ \A i \in 1..n : item(i) \in Item
  <2>1. n \in Nat /\ \A i \in 1..n : n + 1 - i \in 1..n
    OBVIOUS
  <2> QED
    BY <2>1
<1>2. below \in LiveState
  BY DEF LiveState
<1> HIDE DEF below, item
<1>3. \A i \in 1..n : \A s \in LiveState : LiveItem(s, P, item(i)) \in LiveState
  BY <1>1, LiveItemType
<1>4. PICK f : IsRun(f, n, LiveState, below, F)
  <2>1. F \in Steps(n, LiveState)
    BY <1>3 DEF Steps
  <2> HIDE DEF F, n
  <2>2. HasRun(n, LiveState, below, F)
    BY <1>1, <1>2, <2>1, Loop
  <2> QED
    BY <2>2 DEF HasRun
<1>5. f \in [0..n -> LiveState] /\ f[0] = below
  BY <1>4 DEF IsRun
<1>6. \A i \in 1..n : f[i] = LiveItem(f[i - 1], P, item(i))
  <2> TAKE i \in 1..n
  <2>1. f[i - 1] \in LiveState /\ f[i] = F[i][f[i - 1]]
    BY <1>4, <1>5 DEF IsRun
  <2> QED
    BY <2>1
<1> HIDE DEF F
<1>7. Is(f)
  <2>1. \A i \in 0..n : f[i] = IF i = 0 THEN below ELSE LiveItem(f[i - 1], P, item(i))
    BY <1>5, <1>6
  <2>2. f = [i \in 0..n |-> f[i]]
    BY <1>5
  <2>3. f = [i \in 0..n |-> IF i = 0 THEN below ELSE LiveItem(f[i - 1], P, item(i))]
    BY <2>1, <2>2
  <2> QED
    BY <2>3 DEF below, item
<1>8. Is(state)
  <2> HIDE DEF Is
  <2> QED
    BY <1>7
<1>9. LiveTop(live, P, code) = state[Len(code)]
  BY DEF LiveTop
<1> HIDE DEF state
<1>10. state[0] = below
  BY <1>8 DEF below
<1>11. \A i \in 1..n : state[i] = LiveItem(state[i - 1], P, item(i))
  <2> TAKE i \in 1..n
  <2>1. i \in 0..Len(code) /\ i # 0
    OBVIOUS
  <2> QED
    BY <1>8, <2>1 DEF item
<1>12. state = [i \in 0..n |-> state[i]]
  BY <1>8
<1> HIDE DEF Is, n
<1>13. \A i \in 0..n : state[i] \in LiveState
  <2> DEFINE T == {i \in 0..n : state[i] \in LiveState}
  <2>1. 0 \in T
    BY <1>1, <1>2, <1>10
  <2>2. \A i \in 1..n : i - 1 \in T => i \in T
    BY <1>1, <1>3, <1>11
  <2> HIDE DEF T
  <2>3. 0..n \subseteq T
    BY <1>1, <2>1, <2>2, UpTo
  <2> QED
    BY <2>3 DEF T
<1>14. state \in [0..n -> LiveState]
  BY <1>12, <1>13
<1>15. IsLiveRun(state, live, P, code)
  BY <1>1, <1>9, <1>10, <1>11, <1>14 DEF IsLiveRun, n, item, below
<1> QED
  BY <1>15

LEMMA LiveInType ==
    ASSUME NEW live \in SUBSET Var, NEW P, IsPointsToVal(P), NEW code \in Seq(Item)
    PROVE  LiveIn(live, P, code) \in SUBSET Var
<1>1. PICK f : IsLiveRun(f, live, P, code)
  BY LiveRun
<1>2. Len(code) \in 0..Len(code)
  OBVIOUS
<1>3. LiveTop(live, P, code) \in LiveState
  BY <1>1, <1>2 DEF IsLiveRun
<1> QED
  BY <1>3 DEF LiveIn, LiveState
(* More information at IN, or more live at OUT, makes nothing less live.   *)
LiveLess(s, t) ==
    /\ s.live \subseteq t.live
    /\ s.gen \subseteq t.gen
    /\ s.live = {} \/ s.kill = t.kill

LEMMA LiveItemGrows ==
    ASSUME NEW s \in LiveState, NEW t \in LiveState, LiveLess(s, t),
           NEW P, NEW Q, AtLeast(P, Q), NEW item \in Item
    PROVE  LiveLess(LiveItem(s, P, item), LiveItem(t, Q, item))
<1>1. CASE ~IsAlias(item)
  BY <1>1 DEF LiveItem, LiveLess, LiveState
<1>2. CASE IsAlias(item)
  <2> DEFINE c == item.chain[1]
  <2>1. c \in Constraint
    BY <1>2, ItemParts
  <2> HIDE DEF c
  <2>2. ProperVars({c.rhs.var} \cup Pointees(P, c.rhs.var))
           \subseteq ProperVars({c.rhs.var} \cup Pointees(Q, c.rhs.var))
    <3>1. ~IsProperVar(undef_id)
      BY DEF IsProperVar, undef_id, integer_id
    <3>2. Pointees(P, c.rhs.var) \ {undef_id} \subseteq Pointees(Q, c.rhs.var)
      BY DEF AtLeast, Pointees
    <3> QED
      BY <3>1, <3>2 DEF ProperVars
  <2>3. LiveLess(LiveScalar(s, P, c), LiveScalar(t, Q, c))
    <3> DEFINE rhs(V) == CASE c.rhs.type = ADDRESSOF -> {}
                           [] c.rhs.type = SCALAR    -> {c.rhs.var}
                           [] c.rhs.type = DEREF     -> {c.rhs.var} \cup Pointees(V, c.rhs.var)
               made(u, V) == IF c.lhs.var \in u.gen \cup u.live
                             THEN ProperVars(rhs(V)) ELSE {}
    <3>1. c.rhs.type \in {SCALAR, DEREF, ADDRESSOF}
      BY <2>1 DEF Constraint
    <3>2. ProperVars(rhs(P)) \subseteq ProperVars(rhs(Q))
      BY <2>2, <3>1 DEF SCALAR, DEREF, ADDRESSOF
    <3>3. made(s, P) \subseteq made(t, Q)
      BY <3>2 DEF LiveLess
    <3>4. /\ LiveScalar(s, P, c) = [s EXCEPT !.kill = @ \cup {c.lhs.var},
                                             !.gen  = (@ \ {c.lhs.var}) \cup made(s, P)]
          /\ LiveScalar(t, Q, c) = [t EXCEPT !.kill = @ \cup {c.lhs.var},
                                             !.gen  = (@ \ {c.lhs.var}) \cup made(t, Q)]
      BY DEF LiveScalar
    <3> HIDE DEF made
    <3> QED
      BY <3>3, <3>4 DEF LiveLess, LiveState
  <2>4. LiveLess(LiveStore(s, P, c), LiveStore(t, Q, c))
    <3>1. CASE c.lhs.var \in DOMAIN P
      <4>1. c.lhs.var \in DOMAIN Q
        BY <3>1 DEF AtLeast
      <4> QED
        BY <3>1, <4>1 DEF LiveStore, LiveLess, LiveState
    <3>2. CASE c.lhs.var \notin DOMAIN P
      BY <3>2 DEF LiveStore, LiveLess, LiveState
    <3> QED
      BY <3>1, <3>2
  <2> QED
    BY <1>2, <2>3, <2>4 DEF LiveItem, LiveChain, c
<1> QED
  BY <1>1, <1>2

LEMMA LiveInGrows ==
    ASSUME NEW live \in SUBSET Var, NEW more \in SUBSET Var, live \subseteq more,
           NEW P, NEW Q, IsPointsToVal(P), IsPointsToVal(Q), AtLeast(P, Q),
           NEW code \in Seq(Item)
    PROVE  LiveIn(live, P, code) \subseteq LiveIn(more, Q, code)
<1> DEFINE n == Len(code)
<1>1. PICK f : IsLiveRun(f, live, P, code)
  BY LiveRun
<1>2. PICK g : IsLiveRun(g, more, Q, code)
  BY LiveRun
<1> DEFINE T == {i \in 0..n : LiveLess(f[i], g[i])}
<1>3. n \in Nat
  OBVIOUS
<1>4. 0 \in T
  <2>1. /\ f[0] = [live |-> live, gen |-> {}, kill |-> {}]
        /\ g[0] = [live |-> more, gen |-> {}, kill |-> {}]
    BY <1>1, <1>2 DEF IsLiveRun
  <2>2. LiveLess(f[0], g[0])
    BY <2>1 DEF LiveLess
  <2> QED
    BY <1>3, <2>2
<1>5. ASSUME NEW i \in 1..n, i - 1 \in T
      PROVE  i \in T
  <2>1. f[i - 1] \in LiveState /\ g[i - 1] \in LiveState /\ code[n + 1 - i] \in Item
    BY <1>1, <1>2, <1>5 DEF IsLiveRun
  <2>2. f[i] = LiveItem(f[i - 1], P, code[n + 1 - i]) /\ g[i] = LiveItem(g[i - 1], Q, code[n + 1 - i])
    BY <1>1, <1>2 DEF IsLiveRun
  <2>3. LiveLess(f[i], g[i])
    BY <1>5, <2>1, <2>2, LiveItemGrows
  <2> QED
    BY <2>3
<1> HIDE DEF T
<1>6. n \in T
  <2>1. 0..n \subseteq T
    <3> HIDE DEF n
    <3> QED
      BY <1>3, <1>4, <1>5, UpTo
  <2> QED
    BY <1>3, <2>1
<1>7. LiveLess(LiveTop(live, P, code), LiveTop(more, Q, code))
  BY <1>1, <1>2, <1>6 DEF T, IsLiveRun
<1> QED
  BY <1>7 DEF LiveLess, LiveIn

(* Only a dereference asks what is known at IN. *)
NoDeref(code) ==
    \A i \in DOMAIN code :
        IsAlias(code[i]) =>
            DEREF \notin {code[i].chain[1].lhs.type, code[i].chain[1].rhs.type}

LEMMA LiveInSame ==
    ASSUME NEW live \in SUBSET Var, NEW P, NEW Q, IsPointsToVal(P), IsPointsToVal(Q),
           NEW code \in Seq(Item), NoDeref(code)
    PROVE  LiveIn(live, P, code) = LiveIn(live, Q, code)
<1> DEFINE n == Len(code)
<1>1. PICK f : IsLiveRun(f, live, P, code)
  BY LiveRun
<1>2. PICK g : IsLiveRun(g, live, Q, code)
  BY LiveRun
<1> DEFINE T == {i \in 0..n : f[i] = g[i]}
<1>3. n \in Nat
  OBVIOUS
<1>4. 0 \in T
  <2>1. f[0] = g[0]
    BY <1>1, <1>2 DEF IsLiveRun
  <2> QED
    BY <1>3, <2>1
<1>5. ASSUME NEW i \in 1..n, i - 1 \in T
      PROVE  i \in T
  <2> DEFINE item == code[n + 1 - i]
  <2>1. item \in Item /\ n + 1 - i \in DOMAIN code
    BY <1>1, <1>3 DEF IsLiveRun
  <2>2. f[i] = LiveItem(f[i - 1], P, item) /\ g[i] = LiveItem(f[i - 1], Q, item)
    BY <1>1, <1>2, <1>5 DEF IsLiveRun
  <2>3. IsAlias(item) => item.chain[1].lhs.type # DEREF /\ item.chain[1].rhs.type # DEREF
    BY <2>1 DEF NoDeref
  <2>4. IsAlias(item) => item.chain[1] \in Constraint
    BY <2>1, ItemParts
  <2> HIDE DEF item
  <2>5. LiveItem(f[i - 1], P, item) = LiveItem(f[i - 1], Q, item)
    <3>1. CASE ~IsAlias(item)
      BY <3>1 DEF LiveItem
    <3>2. CASE IsAlias(item)
      <4> DEFINE c == item.chain[1]
      <4>1. c.lhs.type = SCALAR /\ c.rhs.type \in {SCALAR, ADDRESSOF}
        BY <2>3, <2>4, <3>2 DEF Constraint
      <4> HIDE DEF c
      <4>2. LiveScalar(f[i - 1], P, c) = LiveScalar(f[i - 1], Q, c)
        BY <4>1 DEF LiveScalar, SCALAR, ADDRESSOF, DEREF
      <4> QED
        BY <3>2, <4>1, <4>2 DEF LiveItem, LiveChain, c
    <3> QED
      BY <3>1, <3>2
  <2> QED
    BY <2>2, <2>5
<1> HIDE DEF T
<1>6. n \in T
  <2>1. 0..n \subseteq T
    <3> HIDE DEF n
    <3> QED
      BY <1>3, <1>4, <1>5, UpTo
  <2> QED
    BY <1>3, <2>1
<1>7. LiveTop(live, P, code) = LiveTop(live, Q, code)
  BY <1>1, <1>2, <1>6 DEF T, IsLiveRun
<1> QED
  BY <1>7 DEF LiveIn

(* A block without items changes nothing. *)
LEMMA LiveInEmpty ==
    ASSUME NEW live \in SUBSET Var, NEW P, IsPointsToVal(P)
    PROVE  LiveIn(live, P, <<>>) = live
<1>1. PICK f : IsLiveRun(f, live, P, <<>>)
  <2>1. <<>> \in Seq(Item)
    OBVIOUS
  <2> QED
    BY <2>1, LiveRun
<1>2. LiveTop(live, P, <<>>) = [live |-> live, gen |-> {}, kill |-> {}]
  BY <1>1 DEF IsLiveRun
<1> QED
  BY <1>2 DEF LiveIn

-----------------------------------------------------------------------------
(* The order of values, and what crosses an edge. *)

LEMMA AtLeastOrder ==
    /\ \A P : AtLeast(P, P)
    /\ \A P, Q, R : AtLeast(P, Q) /\ AtLeast(Q, R) => AtLeast(P, R)
<1>1. \A P : AtLeast(P, P)
  BY DEF AtLeast
<1>2. ASSUME NEW P, NEW Q, NEW R, AtLeast(P, Q), AtLeast(Q, R)
      PROVE  AtLeast(P, R)
  BY <1>2 DEF AtLeast
<1> QED
  BY <1>1, <1>2

LEMMA RestrictValue ==
    ASSUME NEW P \in NormalValues, NEW L
    PROVE  /\ RestrictTo(P, L) \in NormalValues
           /\ DOMAIN RestrictTo(P, L) \subseteq L
           /\ DOMAIN P \subseteq L => RestrictTo(P, L) = P
<1>1. IsPointsToVal(P) /\ NormalVal(P)
  BY ValueSets
<1>2. IsPointsToVal(RestrictTo(P, L)) /\ NormalVal(RestrictTo(P, L))
  BY <1>1 DEF RestrictTo, IsPointsToVal, NormalVal
<1>3. DOMAIN P \subseteq L => RestrictTo(P, L) = P
  <2> SUFFICES ASSUME DOMAIN P \subseteq L PROVE RestrictTo(P, L) = P
    OBVIOUS
  <2>1. P = [v \in DOMAIN P |-> P[v]]
    BY <1>1 DEF IsPointsToVal
  <2>2. DOMAIN P \cap L = DOMAIN P
    OBVIOUS
  <2> QED
    BY <2>1, <2>2 DEF RestrictTo
<1> QED
  BY <1>2, <1>3, ValueSets DEF RestrictTo

LEMMA MergeValue ==
    ASSUME NEW P \in NormalValues, NEW Q \in NormalValues
    PROVE  /\ MergePointsTo(P, Q) \in NormalValues
           /\ DOMAIN MergePointsTo(P, Q) = DOMAIN P \cup DOMAIN Q
           /\ AtLeast(P, MergePointsTo(P, Q))
           /\ AtLeast(Q, MergePointsTo(P, Q))
           /\ MergePointsTo(P, P) = P
<1>1. IsPointsToVal(P) /\ NormalVal(P) /\ IsPointsToVal(Q) /\ NormalVal(Q)
  BY ValueSets
<1>2. IsPointsToVal(MergePointsTo(P, Q)) /\ NormalVal(MergePointsTo(P, Q))
  BY <1>1, MergeType, MergeNormal
<1>3. AtLeast(P, MergePointsTo(P, Q)) /\ AtLeast(Q, MergePointsTo(P, Q))
  BY <1>1, MergeAtLeast
<1>4. DOMAIN MergePointsTo(P, Q) = DOMAIN P \cup DOMAIN Q /\ MergePointsTo(P, P) = P
  BY DEF MergePointsTo
<1> QED
  BY <1>2, <1>3, <1>4, ValueSets

-----------------------------------------------------------------------------
(* What the passes reach when they look through blocks: round by round.    *)
Reaches(f, B, S, next, bypass) ==
    /\ f[0] = S
    /\ \A i \in 1..Cardinality(B) : f[i] = Expand(f[i - 1], next, bypass)
    /\ \A i \in 0..Cardinality(B) : f[i] \in SUBSET B
    /\ Through(S, next, bypass) = f[Cardinality(B)] \ bypass

HasReach(B, S, next, bypass) == \E f : Reaches(f, B, S, next, bypass)

LEMMA ThroughRun ==
    ASSUME NEW B, Cardinality(B) \in Nat, NEW S \in SUBSET B,
           NEW next \in [B -> SUBSET B], NEW bypass
    PROVE  HasReach(B, S, next, bypass)
<1> DEFINE n == Cardinality(DOMAIN next)
           F == [i \in 1..n |-> [T \in SUBSET B |-> Expand(T, next, bypass)]]
           Is(f) == f = [i \in 0..Cardinality(DOMAIN next) |->
                            IF i = 0 THEN S ELSE Expand(f[i-1], next, bypass)]
           reach == CHOOSE f : Is(f)
<1>1. n = Cardinality(B) /\ n \in Nat
  OBVIOUS
<1>2. \A T \in SUBSET B : Expand(T, next, bypass) \in SUBSET B
  BY DEF Expand
<1>3. PICK f : IsRun(f, n, SUBSET B, S, F)
  <2>1. F \in Steps(n, SUBSET B)
    BY <1>2 DEF Steps
  <2> HIDE DEF F, n
  <2>2. HasRun(n, SUBSET B, S, F)
    BY <1>1, <2>1, Loop
  <2> QED
    BY <2>2 DEF HasRun
<1>4. f \in [0..n -> SUBSET B] /\ f[0] = S
  BY <1>3 DEF IsRun
<1>5. \A i \in 1..n : f[i] = Expand(f[i - 1], next, bypass)
  <2> TAKE i \in 1..n
  <2> HIDE DEF n, F
  <2>1. i - 1 \in 0..n
    BY <1>1
  <2>2. f[i - 1] \in SUBSET B /\ f[i] = F[i][f[i - 1]]
    BY <1>3, <1>4, <2>1 DEF IsRun
  <2> QED
    BY <2>2 DEF F
<1>6. Is(f)
  <2>1. \A i \in 0..n : f[i] = IF i = 0 THEN S ELSE Expand(f[i - 1], next, bypass)
    BY <1>1, <1>4, <1>5
  <2>2. f = [i \in 0..n |-> f[i]]
    BY <1>4
  <2>3. f = [i \in 0..n |-> IF i = 0 THEN S ELSE Expand(f[i - 1], next, bypass)]
    BY <2>1, <2>2
  <2> QED
    BY <2>3
<1>7. Is(reach)
  <2> HIDE DEF Is
  <2> QED
    BY <1>6
<1>8. Through(S, next, bypass) = reach[n] \ bypass
  BY DEF Through
<1> HIDE DEF reach, F
<1>9. reach[0] = S
  BY <1>1, <1>7
<1>10. \A i \in 1..n : reach[i] = Expand(reach[i - 1], next, bypass)
  <2> TAKE i \in 1..n
  <2>1. i \in 0..Cardinality(DOMAIN next) /\ i # 0
    BY <1>1
  <2> QED
    BY <1>7, <2>1
<1> HIDE DEF Is, n
<1>11. \A i \in 0..n : reach[i] \in SUBSET B
  <2> DEFINE T == {i \in 0..n : reach[i] \in SUBSET B}
  <2>1. 0 \in T
    BY <1>1, <1>9
  <2>2. \A i \in 1..n : i - 1 \in T => i \in T
    BY <1>1, <1>2, <1>10
  <2> HIDE DEF T
  <2>3. 0..n \subseteq T
    BY <1>1, <2>1, <2>2, UpTo
  <2> QED
    BY <2>3 DEF T
<1>12. Reaches(reach, B, S, next, bypass)
  BY <1>1, <1>8, <1>9, <1>10, <1>11 DEF Reaches
<1> QED
  BY <1>12 DEF HasReach

-----------------------------------------------------------------------------
(* Soundness of a value for a store. *)

(* P tells where the variables of V point in s. *)
SoundFor(P, s, V) == \A v \in V : s[v] # Undefined => s[v] \in Pointees(P, v)

-----------------------------------------------------------------------------
(* What normalising, merging and OUT keep of a pointee other than undef.   *)

LEMMA NormalizeHas ==
    ASSUME NEW S, NEW c \in S, c # undef_id
    PROVE  c \in Normalize(S)
BY NormalizeKeeps

LEMMA MergeHas ==
    ASSUME NEW P, NEW Q, NEW v, NEW c, c # undef_id,
           c \in Pointees(P, v) \/ c \in Pointees(Q, v)
    PROVE  c \in Pointees(MergePointsTo(P, Q), v)
<1> DEFINE M == MergePointsTo(P, Q)
<1> SUFFICES c \in Pointees(M, v)
  OBVIOUS
<1>1. CASE P = Q
  BY <1>1 DEF MergePointsTo
<1>2. CASE DOMAIN P = {}
  BY <1>2 DEF MergePointsTo, Pointees
<1>3. CASE DOMAIN P # {} /\ P # Q
  <2>0. /\ DOMAIN M = DOMAIN P \cup DOMAIN Q
        /\ \A w \in DOMAIN P \cap DOMAIN Q : M[w] = Normalize(P[w] \cup Q[w])
        /\ \A w \in DOMAIN P \ DOMAIN Q : M[w] = PrependUndef(P[w])
        /\ \A w \in DOMAIN Q \ DOMAIN P : M[w] = PrependUndef(Q[w])
    BY <1>3, MergeCases
  <2> HIDE DEF M
  <2>1. v \in DOMAIN P \/ v \in DOMAIN Q
    BY DEF Pointees
  <2>2. CASE v \in DOMAIN P \cap DOMAIN Q
    <3>1. c \in P[v] \cup Q[v]
      BY <2>2 DEF Pointees
    <3>2. c \in Normalize(P[v] \cup Q[v])
      BY <3>1, NormalizeHas
    <3> QED
      BY <3>2, <2>2, <2>0 DEF Pointees
  <2>3. CASE v \in DOMAIN P \ DOMAIN Q
    <3>1. c \in P[v]
      BY <2>3 DEF Pointees
    <3> QED
      BY <3>1, <2>3, <2>0, PrependKeeps DEF Pointees
  <2>4. CASE v \in DOMAIN Q \ DOMAIN P
    <3>1. c \in Q[v]
      BY <2>4 DEF Pointees
    <3> QED
      BY <3>1, <2>4, <2>0, PrependKeeps DEF Pointees
  <2> QED
    BY <2>1, <2>2, <2>3, <2>4
<1> QED
  BY <1>1, <1>2, <1>3

(* The confluence invents nothing but undef. *)
LEMMA MergeFrom ==
    ASSUME NEW P, NEW Q, NEW v \in DOMAIN MergePointsTo(P, Q),
           NEW c \in MergePointsTo(P, Q)[v], c # undef_id
    PROVE  c \in Pointees(P, v) \cup Pointees(Q, v)
<1> DEFINE M == MergePointsTo(P, Q)
<1>1. CASE DOMAIN P = {} \/ P = Q
  BY <1>1 DEF MergePointsTo, Pointees
<1>2. CASE DOMAIN P # {} /\ P # Q
  <2>0. /\ DOMAIN M = DOMAIN P \cup DOMAIN Q
        /\ \A w \in DOMAIN P \cap DOMAIN Q : M[w] = Normalize(P[w] \cup Q[w])
        /\ \A w \in DOMAIN P \ DOMAIN Q : M[w] = PrependUndef(P[w])
        /\ \A w \in DOMAIN Q \ DOMAIN P : M[w] = PrependUndef(Q[w])
    BY <1>2, MergeCases
  <2>1. v \in DOMAIN M /\ c \in M[v]
    OBVIOUS
  <2> HIDE DEF M
  <2>2. CASE v \in DOMAIN P \cap DOMAIN Q
    <3>1. c \in P[v] \cup Q[v]
      <4>1. Normalize(P[v] \cup Q[v]) \subseteq P[v] \cup Q[v]
        BY NormalizeKeeps
      <4>2. M[v] = Normalize(P[v] \cup Q[v])
        BY <2>2, <2>0
      <4> QED
        BY <2>1, <4>1, <4>2
    <3> QED
      BY <2>2, <3>1 DEF Pointees
  <2>3. CASE v \in DOMAIN P \ DOMAIN Q
    <3>1. c \in P[v]
      BY <2>3, <2>1, <2>0, PrependKeeps
    <3> QED
      BY <2>3, <3>1 DEF Pointees
  <2>4. CASE v \in DOMAIN Q \ DOMAIN P
    <3>1. c \in Q[v]
      BY <2>4, <2>1, <2>0, PrependKeeps
    <3> QED
      BY <2>4, <3>1 DEF Pointees
  <2> QED
    BY <2>0, <2>1, <2>2, <2>3, <2>4
<1> QED
  BY <1>1, <1>2

LEMMA MergeTyped ==
    ASSUME NEW may, NEW P, NEW Q, TypedVal(may, P), TypedVal(may, Q)
    PROVE  TypedVal(may, MergePointsTo(P, Q))
<1> SUFFICES ASSUME NEW v \in DOMAIN MergePointsTo(P, Q),
                    NEW c \in MergePointsTo(P, Q)[v] \cap Var
             PROVE  c \in may[v]
  BY DEF TypedVal
<1>1. c # undef_id
  BY VarAssumption DEF IsProperVar, undef_id, integer_id
<1>2. c \in Pointees(P, v) \cup Pointees(Q, v)
  BY <1>1, MergeFrom
<1> QED
  BY <1>2 DEF TypedVal, Pointees

(* Soundness of OUT for the store s after a statement that assigned x: the *)
(* pointees of the other variables of V are those of IN, that of x is in   *)
(* GEN if x is one of them, GEN keeps the loop over it from stopping short *)
(* of x, and where something is killed GEN is about x alone.               *)
LEMMA OutSound ==
    ASSUME NEW P, NEW g, NEW kill \in BOOLEAN, NEW s, NEW x, NEW V,
           SoundFor(P, s, V \ {x}),
           x \in V /\ s[x] # Undefined =>
              /\ x \in DOMAIN g /\ s[x] \in g[x]
              /\ \A w \in DOMAIN g : g[w] # {undef_id},
           kill => DOMAIN g \subseteq {x}
    PROVE  SoundFor(ComputePointsToOut(P, g, kill), s, V)
<1> DEFINE rest   == IF kill THEN RemovePointeeSets(P, DOMAIN g) ELSE P
           undefs == {w \in DOMAIN g : HasOnlyUndefPointee(g, w)}
           added  == IF DOMAIN rest = {}
                     THEN DOMAIN g \ undefs
                     ELSE {w \in DOMAIN g : \A u \in undefs : w < u}
           out    == ComputePointsToOut(P, g, kill)
<1>1. out = [w \in DOMAIN rest \cup added |->
               IF w \notin added THEN rest[w]
               ELSE IF w \in DOMAIN rest THEN Normalize(rest[w] \cup g[w])
               ELSE g[w]]
  BY DEF ComputePointsToOut
<1>2. \A w : w \in DOMAIN P /\ (kill => w \notin DOMAIN g) =>
                w \in DOMAIN rest /\ rest[w] = P[w]
  BY DEF RemovePointeeSets
<1>3. x \in V /\ s[x] # Undefined => x \in added
  <2> SUFFICES ASSUME x \in V, s[x] # Undefined PROVE x \in added
    OBVIOUS
  <2>1. undefs = {}
    BY DEF HasOnlyUndefPointee, Pointees
  <2> QED
    BY <2>1
<1> HIDE DEF rest, added, out
<1> SUFFICES ASSUME NEW v \in V, s[v] # Undefined
             PROVE  s[v] \in Pointees(out, v)
  BY DEF SoundFor, out
<1>4. CASE v = x
  BY <1>1, <1>3, <1>4, NormalizeHas DEF Pointees, Undefined
<1>5. CASE v # x
  <2>1. v \in DOMAIN P /\ s[v] \in P[v]
    BY <1>5 DEF SoundFor, Pointees
  <2>2. v \in DOMAIN rest /\ s[v] \in rest[v]
    BY <2>1, <1>2, <1>5
  <2> QED
    BY <1>1, <2>2, NormalizeHas DEF Pointees, Undefined
<1> QED
  BY <1>4, <1>5

-----------------------------------------------------------------------------
(* GEN, for a store that the value is sound for.                           *)

LEMMA GenValHas ==
    ASSUME NEW targets, NEW pointees, NEW off, NEW x \in targets,
           IsProperVar(x), NEW c \in pointees, c # x, c # undef_id
    PROVE  /\ x \in DOMAIN GenVal(targets, pointees, off)
           /\ c \in GenVal(targets, pointees, off)[x]
<1> DEFINE others == pointees \ {x}
           undef  == IF off /\ \E d \in others : IsProperVar(d)
                     THEN {undef_id} ELSE {}
<1>1. GenPointees(x, pointees, off) = Normalize(others \cup undef)
  BY DEF GenPointees
<1>2. c \in others \cup undef
  OBVIOUS
<1>3. c \in GenPointees(x, pointees, off)
  BY <1>1, <1>2, NormalizeHas
<1> QED
  BY <1>3 DEF GenVal

LEMMA GenValFrom ==
    ASSUME NEW targets, NEW pointees, NEW off,
           NEW w \in DOMAIN GenVal(targets, pointees, off)
    PROVE  /\ w \in targets /\ IsProperVar(w)
           /\ GenVal(targets, pointees, off)[w] \subseteq pointees \cup {undef_id}
<1> DEFINE others == pointees \ {w}
           undef  == IF off /\ \E d \in others : IsProperVar(d)
                     THEN {undef_id} ELSE {}
<1>1. GenVal(targets, pointees, off)[w] = Normalize(others \cup undef)
  BY DEF GenVal, GenPointees
<1>2. Normalize(others \cup undef) \subseteq others \cup undef
  BY NormalizeKeeps
<1> QED
  BY <1>1, <1>2 DEF GenVal

(* What a value says of the variables in S is what they may point to. *)
LEMMA PointeesTyped ==
    ASSUME NEW may, NEW P, TypedVal(may, P), IsPointsToVal(P)
    PROVE  /\ \A v : Pointees(P, v) \cap Var \subseteq PointedTo(may, {v})
           /\ \A v : IndirectPointees(P, v) \cap Var
                        \subseteq PointedTo(may, PointedTo(may, {v}))
<1>1. ASSUME NEW v, NEW c \in Pointees(P, v) \cap Var
      PROVE  v \in Var /\ c \in may[v]
  BY DEF Pointees, TypedVal, IsPointsToVal
<1>2. \A v : Pointees(P, v) \cap Var \subseteq PointedTo(may, {v})
  BY <1>1 DEF PointedTo
<1>3. ASSUME NEW v, NEW c \in IndirectPointees(P, v) \cap Var
      PROVE  c \in PointedTo(may, PointedTo(may, {v}))
  <2>1. PICK d \in Pointees(P, v) : c \in Pointees(P, d)
    BY DEF IndirectPointees
  <2>2. d \in Var /\ c \in may[d]
    BY <2>1, <1>1
  <2>3. d \in PointedTo(may, {v})
    BY <2>1, <2>2, <1>2
  <2> QED
    BY <2>2, <2>3 DEF PointedTo
<1> QED
  BY <1>2, <1>3

LEMMA RhsTyped ==
    ASSUME NEW may, NEW P, TypedVal(may, P), IsPointsToVal(P), NEW t \in Constraint
    PROVE  RhsPointees(P, t.rhs) \cap Var \subseteq RhsMay(may, t.rhs)
<1>1. t.rhs.type \in {SCALAR, DEREF, ADDRESSOF}
  BY DEF Constraint
<1> QED
  BY <1>1, PointeesTyped DEF RhsPointees, RhsMay, SCALAR, DEREF, ADDRESSOF

(* The GEN of a well-typed constraint is well-typed. *)
LEMMA GenTyped ==
    ASSUME NEW may, NEW P, TypedVal(may, P), IsPointsToVal(P),
           NEW t \in Constraint, WellTyped(may, t)
    PROVE  TypedVal(may, StmtGen(P, t))
<1> DEFINE R == RhsPointees(P, t.rhs)
<1>0. /\ t.lhs.type \in {SCALAR, DEREF} /\ t.lhs.var \in Var
      /\ undef_id \notin Var
  BY VarAssumption DEF Constraint, IsProperVar, undef_id, integer_id
<1>1. ASSUME NEW targets, NEW off, NEW w \in DOMAIN GenVal(targets, {undef_id}, off)
      PROVE  GenVal(targets, {undef_id}, off)[w] \cap Var = {}
  BY <1>0, GenValFrom
<1>2. \A targets : TypedVal(may, UndefVal(targets))
  BY <1>1 DEF TypedVal, UndefVal
<1>3. ASSUME NEW targets, \A w \in targets \cap Var : w \in TargetsMay(may, t.lhs),
             targets \subseteq Id
      PROVE  TypedVal(may, GenVal(targets, R, t.rhs.off))
  <2> SUFFICES ASSUME NEW w \in DOMAIN GenVal(targets, R, t.rhs.off),
                      NEW c \in GenVal(targets, R, t.rhs.off)[w] \cap Var
               PROVE  c \in may[w]
    BY DEF TypedVal
  <2>1. w \in targets /\ IsProperVar(w) /\ c \in R
    BY <1>0, GenValFrom
  <2>2. w \in Var
    BY <2>1, <1>3 DEF Id, IsProperVar, undef_id, nothing_id, integer_id
  <2>3. c \in RhsMay(may, t.rhs)
    BY <2>1, RhsTyped
  <2> QED
    BY <2>1, <2>2, <2>3, <1>3 DEF WellTyped
<1>4. CASE t.lhs.type = SCALAR
  <2>1. TypedVal(may, GenVal({t.lhs.var}, R, t.rhs.off))
    BY <1>0, <1>3, <1>4 DEF TargetsMay, Id
  <2>2. StmtGen(P, t) = GenLhsScalar(P, t.lhs, t.rhs)
    BY <1>4 DEF StmtGen, SCALAR, DEREF
  <2> QED
    BY <1>2, <2>1, <2>2 DEF GenLhsScalar
<1>5. CASE t.lhs.type = DEREF
  <2>1. Pointees(P, t.lhs.var) \cap Var \subseteq may[t.lhs.var]
    BY DEF TypedVal, Pointees
  <2>2. TypedVal(may, GenVal(Pointees(P, t.lhs.var), R, t.rhs.off))
    BY <2>1, <1>3, <1>5, PointeesType DEF TargetsMay, SCALAR, DEREF
  <2>3. TypedVal(may, EmptyVal)
    BY DEF TypedVal, EmptyVal
  <2>4. StmtGen(P, t) = GenLhsDeref(P, t.lhs, t.rhs)
    BY <1>5 DEF StmtGen, WellTyped, SCALAR, DEREF
  <2> QED
    BY <1>2, <2>2, <2>3, <2>4 DEF GenLhsDeref, GenUnknownStore
<1> QED
  BY <1>0, <1>4, <1>5

(* The variables a right side reads. *)
ReadBy(P, rhs) ==
    CASE rhs.type = ADDRESSOF -> {}
      [] rhs.type = SCALAR    -> {rhs.var}
      [] rhs.type = DEREF     -> {rhs.var} \cup (Pointees(P, rhs.var) \cap Var)

(* The execution stays in its types. *)
LEMMA ExecuteTyped ==
    ASSUME NEW may, Typing(may), NEW s \in [Var -> Id], TypedStore(may, s),
           NEW t \in Constraint, WellTyped(may, t), Executable(s, t),
           NEW value \in Values(s, t.rhs)
    PROVE  /\ Target(s, t.lhs) \in Var
           /\ Target(s, t.lhs) \in TargetsMay(may, t.lhs)
           /\ value \in Var => value \in RhsMay(may, t.rhs) /\ value \in may[Target(s, t.lhs)]
           /\ value # Undefined => value = Value(s, t.rhs)
           /\ Execute(s, t, value) \in [Var -> Id]
           /\ TypedStore(may, Execute(s, t, value))
<1> DEFINE x == Target(s, t.lhs)
           next == Execute(s, t, value)
<1>0. /\ t.lhs.type \in {SCALAR, DEREF} /\ t.lhs.var \in Var
      /\ t.rhs.type \in {SCALAR, DEREF, ADDRESSOF} /\ t.rhs.var \in Id
      /\ undef_id \notin Var /\ Undefined = undef_id /\ Undefined \in Id
  BY VarAssumption DEF Constraint, IsProperVar, undef_id, integer_id, Undefined, Id
<1>1. x \in Var
  BY <1>0 DEF Target, Executable, SCALAR, DEREF
<1>2. x \in TargetsMay(may, t.lhs)
  BY <1>0, <1>1 DEF Target, TargetsMay, Executable, TypedStore, SCALAR, DEREF
<1>3. value # Undefined => value = Value(s, t.rhs)
  BY DEF Values
<1>4. value \in Id /\ (value \in Var => value \in RhsMay(may, t.rhs))
  <2>1. CASE t.rhs.type = ADDRESSOF
    <3>1. Value(s, t.rhs) = t.rhs.var
      BY <2>1 DEF Value, SCALAR, DEREF, ADDRESSOF
    <3> QED
      BY <1>0, <1>3, <2>1, <3>1 DEF RhsMay, SCALAR, DEREF, ADDRESSOF
  <2>2. CASE t.rhs.type = SCALAR
    <3>1. t.rhs.var \in Var /\ Value(s, t.rhs) = s[t.rhs.var]
      BY <2>2 DEF Value, Executable, SCALAR, DEREF, ADDRESSOF
    <3>2. RhsMay(may, t.rhs) = PointedTo(may, {t.rhs.var})
      BY <2>2 DEF RhsMay, SCALAR, DEREF, ADDRESSOF
    <3>3. value \in Id
      BY <1>0, <1>3, <3>1
    <3>4. value \in Var => value \in may[t.rhs.var]
      BY <1>0, <1>3, <3>1 DEF TypedStore
    <3> QED
      BY <3>1, <3>2, <3>3, <3>4 DEF PointedTo
  <2>3. CASE t.rhs.type = DEREF
    <3> DEFINE d == s[t.rhs.var]
    <3>1. d \in Var /\ t.rhs.var \in Var /\ Value(s, t.rhs) = s[d]
      BY <2>3 DEF Value, Executable, SCALAR, DEREF, ADDRESSOF
    <3>2. RhsMay(may, t.rhs) = PointedTo(may, PointedTo(may, {t.rhs.var}))
      BY <2>3 DEF RhsMay, SCALAR, DEREF, ADDRESSOF
    <3>3. d \in PointedTo(may, {t.rhs.var})
      BY <3>1 DEF TypedStore, PointedTo
    <3>4. value \in Id
      BY <1>0, <1>3, <3>1
    <3>5. value \in Var => value \in may[d]
      BY <1>0, <1>3, <3>1 DEF TypedStore
    <3> HIDE DEF d
    <3> QED
      BY <3>1, <3>2, <3>3, <3>4, <3>5 DEF PointedTo
  <2> QED
    BY <1>0, <2>1, <2>2, <2>3
<1>5. value \in Var => value \in may[x]
  BY <1>2, <1>4 DEF WellTyped
<1>6. next = [s EXCEPT ![x] = value]
  BY DEF Execute
<1> HIDE DEF x, next
<1>7. next \in [Var -> Id] /\ next[x] = value /\ \A v \in Var \ {x} : next[v] = s[v]
  BY <1>1, <1>4, <1>6
<1>8. TypedStore(may, next)
  BY <1>5, <1>7 DEF TypedStore
<1> QED
  BY <1>1, <1>2, <1>3, <1>4, <1>5, <1>7, <1>8 DEF x, next

(* A kill is of the variable that is assigned, if the value is sound for a *)
(* pointer that is stored through.                                         *)
LEMMA KillSound ==
    ASSUME NEW P, NEW s, NEW V, SoundFor(P, s, V), NEW t \in Constraint,
           Executable(s, t), t.lhs.type = DEREF => t.lhs.var \in V,
           ~(t.lhs.type = DEREF /\ t.rhs.type = DEREF), StmtKill(P, t)
    PROVE  DOMAIN StmtGen(P, t) \subseteq {Target(s, t.lhs)}
<1> DEFINE x == Target(s, t.lhs)
           g == StmtGen(P, t)
<1>0. /\ t.lhs.type \in {SCALAR, DEREF} /\ undef_id \notin Var /\ Undefined = undef_id
  BY VarAssumption DEF Constraint, IsProperVar, undef_id, integer_id, Undefined
<1>1. CASE t.lhs.type = SCALAR
  <2>1. x = t.lhs.var /\ g = GenLhsScalar(P, t.lhs, t.rhs)
    BY <1>1 DEF Target, StmtGen, SCALAR, DEREF
  <2> QED
    BY <2>1 DEF GenLhsScalar, UndefVal, GenVal
<1>2. CASE t.lhs.type = DEREF
  <2> DEFINE T == Pointees(P, t.lhs.var)
  <2>1. x = s[t.lhs.var] /\ g = GenLhsDeref(P, t.lhs, t.rhs) /\ x \in Var
    BY <1>2, <1>0 DEF Target, StmtGen, Executable, SCALAR, DEREF
  <2>2. x \in T
    BY <2>1, <1>0, <1>2 DEF SoundFor
  <2>3. DOMAIN g \subseteq T
    BY <2>1 DEF GenLhsDeref, GenUnknownStore, UndefVal, GenVal, EmptyVal
  <2>4. T = {x}
    BY <2>2, <1>2 DEF StmtKill, HasMustPointee, IsSingleton, Pointees, SCALAR, DEREF
  <2> QED
    BY <2>3, <2>4
<1> QED
  BY <1>0, <1>1, <1>2

(* A constraint the execution s can take, and a value that is sound for    *)
(* what the constraint reads: what it assigns, unless it is undefined, is  *)
(* in GEN of the variable it is assigned to, and GEN holds no pointer with *)
(* undef alone.                                                            *)
LEMMA GenSound ==
    ASSUME NEW may, Typing(may),
           NEW P, IsPointsToVal(P), TypedVal(may, P),
           NEW s \in [Var -> Id], TypedStore(may, s), NEW V, SoundFor(P, s, V),
           NEW t \in Constraint, WellTyped(may, t), Executable(s, t),
           t.lhs.type = DEREF => t.lhs.var \in V, ReadBy(P, t.rhs) \subseteq V,
           NEW value \in Values(s, t.rhs), value # Undefined
    PROVE  LET g == StmtGen(P, t)
               x == Target(s, t.lhs)
           IN  /\ x \in DOMAIN g /\ value \in g[x]
               /\ \A w \in DOMAIN g : g[w] # {undef_id}
<1> DEFINE R == RhsPointees(P, t.rhs)
           x == Target(s, t.lhs)
           g == StmtGen(P, t)
<1>0. /\ t.lhs.type \in {SCALAR, DEREF} /\ t.lhs.var \in Var
      /\ t.rhs.type \in {SCALAR, DEREF, ADDRESSOF} /\ t.rhs.var \in Id
      /\ undef_id \notin Var /\ Undefined = undef_id
      /\ \A c \in Var : IsProperVar(c)
  BY VarAssumption DEF Constraint, IsProperVar, undef_id, integer_id, Undefined
<1>1. /\ x \in Var /\ x \in TargetsMay(may, t.lhs) /\ value = Value(s, t.rhs)
      /\ value \in Var => value \in RhsMay(may, t.rhs) /\ value \in may[x]
  BY ExecuteTyped
<1>2. RhsFound(P, t.rhs) /\ value \in R
  <2>1. CASE t.rhs.type = ADDRESSOF
    BY <2>1, <1>1 DEF Value, RhsFound, RhsPointees, SCALAR, DEREF, ADDRESSOF
  <2>2. CASE t.rhs.type = SCALAR
    <3>1. t.rhs.var \in V /\ value = s[t.rhs.var]
      BY <2>2, <1>1 DEF Value, ReadBy, SCALAR, DEREF, ADDRESSOF
    <3>2. value \in Pointees(P, t.rhs.var)
      BY <3>1 DEF SoundFor
    <3> QED
      BY <2>2, <3>2 DEF RhsFound, RhsPointees, Pointees, SCALAR, DEREF, ADDRESSOF
  <2>3. CASE t.rhs.type = DEREF
    <3> DEFINE d == s[t.rhs.var]
    <3>1. d \in Var /\ value = s[d]
      BY <2>3, <1>1 DEF Value, Executable, SCALAR, DEREF, ADDRESSOF
    <3>2. t.rhs.var \in V /\ Pointees(P, t.rhs.var) \cap Var \subseteq V
      BY <2>3 DEF ReadBy, SCALAR, DEREF, ADDRESSOF
    <3>3. d \in Pointees(P, t.rhs.var)
      BY <3>1, <3>2, <1>0 DEF SoundFor
    <3>4. d \in V
      BY <3>1, <3>2, <3>3
    <3>5. value \in Pointees(P, d)
      BY <3>1, <3>4 DEF SoundFor
    <3>6. d \in DOMAIN P
      BY <3>5 DEF Pointees
    <3>7. value \in IndirectPointees(P, t.rhs.var)
      BY <3>3, <3>5 DEF IndirectPointees
    <3> QED
      BY <2>3, <3>3, <3>6, <3>7 DEF RhsFound, RhsPointees, SCALAR, DEREF, ADDRESSOF
  <2> QED
    BY <1>0, <2>1, <2>2, <2>3
<1>3. value # x
  BY <1>1 DEF Typing
<1>4. ASSUME NEW targets, targets \cap Var \subseteq TargetsMay(may, t.lhs),
             targets \in SUBSET Id,
             NEW w \in DOMAIN GenVal(targets, R, t.rhs.off)
      PROVE  GenVal(targets, R, t.rhs.off)[w] # {undef_id}
  <2>1. w \in targets /\ IsProperVar(w)
    BY GenValFrom
  <2>2. w \in Var
    BY <2>1, <1>4 DEF Id, IsProperVar, undef_id, nothing_id, integer_id
  <2>3. value # w
    BY <2>1, <2>2, <1>1, <1>4 DEF WellTyped, Typing
  <2>4. value \in GenVal(targets, R, t.rhs.off)[w]
    BY <2>1, <2>3, <1>0, <1>2, GenValHas
  <2> QED
    BY <2>4, <1>0
<1>5. CASE t.lhs.type = SCALAR
  <2>1. x = t.lhs.var /\ g = GenVal({x}, R, t.rhs.off)
    BY <1>2, <1>5 DEF Target, StmtGen, GenLhsScalar, SCALAR, DEREF
  <2>2. DOMAIN g \subseteq {x}
    BY <2>1 DEF GenVal
  <2>3. x \in DOMAIN g /\ value \in g[x]
    BY <2>1, <1>0, <1>1, <1>2, <1>3, GenValHas
  <2> QED
    BY <2>2, <2>3, <1>0
<1>6. CASE t.lhs.type = DEREF
  <2> DEFINE T == Pointees(P, t.lhs.var)
  <2>1. x = s[t.lhs.var] /\ g = GenVal(T, R, t.rhs.off)
    BY <1>2, <1>6 DEF Target, StmtGen, GenLhsDeref, WellTyped, SCALAR, DEREF
  <2>2. x \in T
    BY <2>1, <1>0, <1>1, <1>6 DEF SoundFor
  <2>3. T \in SUBSET Id /\ T \cap Var \subseteq TargetsMay(may, t.lhs)
    <3>1. T \cap Var \subseteq may[t.lhs.var]
      BY <1>0 DEF TypedVal, Pointees
    <3> QED
      BY <3>1, <1>6, PointeesType DEF TargetsMay, SCALAR, DEREF
  <2>4. x \in DOMAIN g /\ value \in g[x]
    BY <2>1, <2>2, <1>0, <1>1, <1>2, <1>3, GenValHas
  <2>5. \A w \in DOMAIN g : g[w] # {undef_id}
    BY <2>1, <2>3, <1>4
  <2> QED
    BY <2>4, <2>5
<1> QED
  BY <1>0, <1>5, <1>6

LEMMA OutTyped ==
    ASSUME NEW may, NEW P, NEW g, NEW kill, IsPointsToVal(g),
           TypedVal(may, P), TypedVal(may, g)
    PROVE  TypedVal(may, ComputePointsToOut(P, g, kill))
<1> DEFINE out == ComputePointsToOut(P, g, kill)
<1> SUFFICES ASSUME NEW v \in DOMAIN out, NEW c \in out[v] \cap Var
             PROVE  c \in may[v]
  BY DEF TypedVal
<1>1. g \in [DOMAIN g -> SUBSET Id] /\ DOMAIN g \subseteq Var
  BY DEF IsPointsToVal
<1>2. \/ v \in DOMAIN P /\ out[v] = P[v]
      \/ v \in DOMAIN g /\ out[v] = g[v]
      \/ v \in DOMAIN P /\ v \in DOMAIN g /\ out[v] = Normalize(P[v] \cup g[v])
  BY <1>1, OutCases
<1>3. Normalize(P[v] \cup g[v]) \subseteq P[v] \cup g[v]
  BY NormalizeKeeps
<1> HIDE DEF out
<1> QED
  BY <1>2, <1>3 DEF TypedVal

(* The GEN of an assignment to a scalar is about that scalar. *)
LEMMA ScalarGenDomain ==
    ASSUME NEW P, NEW t, t.lhs.type = SCALAR
    PROVE  DOMAIN StmtGen(P, t) \subseteq {t.lhs.var}
<1>1. StmtGen(P, t) = GenLhsScalar(P, t.lhs, t.rhs)
  BY DEF StmtGen, SCALAR, DEREF
<1> QED
  BY <1>1 DEF GenLhsScalar, UndefVal, GenVal

LEMMA MergeDomain ==
    ASSUME NEW P, NEW Q
    PROVE  DOMAIN MergePointsTo(P, Q) \subseteq DOMAIN P \cup DOMAIN Q
BY DEF MergePointsTo

-----------------------------------------------------------------------------
(* Chains and blocks of well-typed constraints keep values well-typed.     *)

LEMMA ChainTyped ==
    ASSUME NEW may, NEW P \in NormalValues, TypedVal(may, P),
           NEW chain \in Seq(Constraint) \ {<<>>}, TypedChain(may, chain)
    PROVE  TypedVal(may, ChainOut(P, chain))
<1>1. IsPointsToVal(P)
  BY ValueSets
<1>2. ASSUME NEW i \in DOMAIN chain
      PROVE  TypedVal(may, StmtGen(P, chain[i])) /\ IsPointsToVal(StmtGen(P, chain[i]))
  <2>1. chain[i] \in Constraint /\ WellTyped(may, chain[i])
    BY DEF TypedChain
  <2> QED
    BY <1>1, <2>1, GenTyped, StmtGenType
<1>3. 1 \in DOMAIN chain /\ DOMAIN chain = 1..Len(chain) /\ Len(chain) \in Nat
  OBVIOUS
<1>4. TypedVal(may, StmtOut(P, chain[1]))
  BY <1>2, <1>3, OutTyped DEF StmtOut
<1>5. PICK f : IsPhiRun(f, P, chain)
  BY PhiRun
<1> DEFINE T == {i \in 0..Len(chain) : TypedVal(may, f[i])}
<1>6. 0 \in T
  BY <1>3, <1>5 DEF IsPhiRun, TypedVal, EmptyVal
<1>7. \A i \in 1..Len(chain) : i - 1 \in T => i \in T
  BY <1>2, <1>3, <1>5, MergeTyped DEF IsPhiRun
<1> HIDE DEF T
<1>8. 0..Len(chain) \subseteq T
  BY <1>3, <1>6, <1>7, UpTo
<1>9. TypedVal(may, PhiGen(P, chain)) /\ IsPointsToVal(PhiGen(P, chain))
  BY <1>3, <1>5, <1>8, PhiGenTidy, ValueSets DEF T, IsPhiRun
<1>10. TypedVal(may, PhiOut(P, chain))
  BY <1>9, OutTyped DEF PhiOut
<1> QED
  BY <1>4, <1>10 DEF ChainOut

TypedItems(may, code) ==
    \A i \in DOMAIN code : IsAlias(code[i]) => TypedChain(may, code[i].chain)

LEMMA ItemTyped ==
    ASSUME NEW may, NEW P \in NormalValues, TypedVal(may, P), NEW item \in Item,
           IsAlias(item) => TypedChain(may, item.chain)
    PROVE  /\ TypedVal(may, ItemOut(P, item)) /\ ItemOut(P, item) \in NormalValues
<1>1. CASE IsAlias(item)
  BY <1>1, ItemParts, ChainTyped, ChainOutValue DEF ItemOut
<1>2. CASE ~IsAlias(item)
  BY <1>2 DEF ItemOut
<1> QED
  BY <1>1, <1>2

LEMMA BlockTyped ==
    ASSUME NEW may, NEW P \in NormalValues, TypedVal(may, P),
           NEW code \in Seq(Item), TypedItems(may, code)
    PROVE  TypedVal(may, BlockOut(P, code))
<1>1. PICK f : IsBlockRun(f, P, code)
  BY BlockRun
<1> DEFINE T == {i \in 0..Len(code) : TypedVal(may, f[i])}
<1>2. Len(code) \in Nat /\ DOMAIN code = 1..Len(code)
  OBVIOUS
<1>3. 0 \in T
  BY <1>1, <1>2 DEF IsBlockRun
<1>4. \A i \in 1..Len(code) : i - 1 \in T => i \in T
  <2> SUFFICES ASSUME NEW i \in 1..Len(code), i - 1 \in T PROVE i \in T
    OBVIOUS
  <2>1. /\ code[i] \in Item /\ f[i] = ItemOut(f[i - 1], code[i])
        /\ f[i - 1] \in NormalValues /\ TypedVal(may, f[i - 1])
        /\ IsAlias(code[i]) => TypedChain(may, code[i].chain)
    BY <1>1, <1>2 DEF IsBlockRun, TypedItems
  <2>2. TypedVal(may, f[i])
    BY <2>1, ItemTyped
  <2> QED
    BY <2>2
<1> HIDE DEF T
<1>5. 0..Len(code) \subseteq T
  BY <1>2, <1>3, <1>4, UpTo
<1> QED
  BY <1>1, <1>2, <1>5 DEF T, IsBlockRun

-----------------------------------------------------------------------------
(* What leaves a pointer alone leaves its pointees.                        *)
LEMMA OutLeaves ==
    ASSUME NEW P, NEW g, NEW kill, NEW v, v \notin DOMAIN g
    PROVE  Pointees(ComputePointsToOut(P, g, kill), v) = Pointees(P, v)
<1> DEFINE rest == IF kill THEN RemovePointeeSets(P, DOMAIN g) ELSE P
           out == ComputePointsToOut(P, g, kill)
<1>1. v \in DOMAIN out <=> v \in DOMAIN rest
  BY DEF ComputePointsToOut
<1>2. v \in DOMAIN rest => out[v] = rest[v]
  BY DEF ComputePointsToOut
<1>3. /\ v \in DOMAIN rest <=> v \in DOMAIN P
      /\ v \in DOMAIN rest => rest[v] = P[v]
  BY DEF RemovePointeeSets
<1> HIDE DEF out, rest
<1> QED
  BY <1>1, <1>2, <1>3 DEF Pointees, out

LEMMA ChainLeaves ==
    ASSUME NEW P \in NormalValues, NEW item \in Item, NEW V, NEW v \in V, LeavesAlone(item, V)
    PROVE  Pointees(ItemOut(P, item), v) = Pointees(P, v)
<1>1. CASE ~IsAlias(item)
  BY <1>1 DEF ItemOut
<1>2. CASE IsAlias(item)
  <2> DEFINE chain == item.chain
             n == Len(chain)
  <2>1. /\ chain \in Seq(Constraint) \ {<<>>}
        /\ \A k \in DOMAIN chain : chain[k].lhs.type = SCALAR /\ chain[k].lhs.var # v
    BY <1>2, ItemParts DEF LeavesAlone
  <2> HIDE DEF chain
  <2>2. /\ n \in Nat \ {0} /\ 1 \in DOMAIN chain /\ n \in DOMAIN chain /\ DOMAIN chain = 1..n
    BY <2>1
  <2>3. \A k \in DOMAIN chain : v \notin DOMAIN StmtGen(P, chain[k])
    BY <2>1, ScalarGenDomain
  <2>4. Pointees(StmtOut(P, chain[1]), v) = Pointees(P, v)
    BY <2>2, <2>3, OutLeaves DEF StmtOut
  <2>5. PICK f : IsPhiRun(f, P, chain)
    BY <2>1, PhiRun
  <2> DEFINE T == {k \in 0..n : v \notin DOMAIN f[k]}
  <2>6. 0 \in T
    BY <2>2, <2>5 DEF IsPhiRun, EmptyVal
  <2>7. \A k \in 1..n : k - 1 \in T => k \in T
    BY <2>2, <2>3, <2>5, MergeDomain DEF IsPhiRun
  <2> HIDE DEF T, n
  <2>8. 0..n \subseteq T
    BY <2>2, <2>6, <2>7, UpTo
  <2>9. v \notin DOMAIN PhiGen(P, chain)
    BY <2>2, <2>5, <2>8 DEF T, IsPhiRun, n
  <2>10. Pointees(PhiOut(P, chain), v) = Pointees(P, v)
    BY <2>9, OutLeaves DEF PhiOut
  <2> QED
    BY <1>2, <2>4, <2>10 DEF ItemOut, ChainOut, chain
<1> QED
  BY <1>1, <1>2

LEMMA BlockLeaves ==
    ASSUME NEW P \in NormalValues, NEW code \in Seq(Item), NEW V, NEW v \in V,
           NEW n \in 0..Len(code), \A j \in 1..n : LeavesAlone(code[j], V)
    PROVE  Pointees(BlockOut(P, SubSeq(code, 1, n)), v) = Pointees(P, v)
<1> DEFINE Before(k) == BlockOut(P, SubSeq(code, 1, k))
           T == {k \in 0..n : Pointees(Before(k), v) = Pointees(P, v) /\ Before(k) \in NormalValues}
<1>1. n \in Nat /\ \A k \in 1..n : k \in 1..Len(code) /\ code[k] \in Item
  <2>1. Len(code) \in Nat
    OBVIOUS
  <2> QED
    BY <2>1
<1>2. 0 \in T
  <2>1. Before(0) = P
    BY BlockOutEnds
  <2> QED
    BY <1>1, <2>1
<1>3. \A k \in 1..n : k - 1 \in T => k \in T
  <2> SUFFICES ASSUME NEW k \in 1..n, k - 1 \in T PROVE k \in T
    OBVIOUS
  <2>1. Before(k) = ItemOut(Before(k - 1), code[k])
    BY <1>1, BlockOutStep
  <2>2. /\ Before(k - 1) \in NormalValues
        /\ Pointees(Before(k - 1), v) = Pointees(P, v)
    OBVIOUS
  <2> HIDE DEF Before
  <2>3. Pointees(Before(k), v) = Pointees(P, v)
    BY <1>1, <2>1, <2>2, ChainLeaves
  <2>4. Before(k) \in NormalValues
    BY <1>1, <2>1, <2>2, ItemParts, ChainOutValue DEF ItemOut
  <2> QED
    BY <2>3, <2>4
<1> HIDE DEF T
<1>4. 0..n \subseteq T
  BY <1>1, <1>2, <1>3, UpTo
<1>5. n \in T
  BY <1>1, <1>4
<1> QED
  BY <1>5 DEF T

-----------------------------------------------------------------------------
(* A chain, of which the execution takes one constraint.                   *)

(* The merged GEN of a PHI has what the GEN of each argument has. *)
LEMMA PhiHas ==
    ASSUME NEW P \in NormalValues, NEW chain \in Seq(Constraint), NEW x,
           \A i \in DOMAIN chain : chain[i].lhs.type = SCALAR /\ chain[i].lhs.var = x
    PROVE  /\ DOMAIN PhiGen(P, chain) \subseteq {x}
           /\ \A i \in DOMAIN chain : \A c \in Pointees(StmtGen(P, chain[i]), x) :
                 c # undef_id => c \in Pointees(PhiGen(P, chain), x)
<1>1. PICK f : IsPhiRun(f, P, chain)
  BY PhiRun
<1>2. Len(chain) \in Nat /\ DOMAIN chain = 1..Len(chain)
  OBVIOUS
<1> DEFINE Has(i) == \A j \in 1..i : \A c \in Pointees(StmtGen(P, chain[j]), x) :
                        c # undef_id => c \in Pointees(f[i], x)
           T == {i \in 0..Len(chain) : DOMAIN f[i] \subseteq {x} /\ Has(i)}
<1>3. 0 \in T
  BY <1>1, <1>2 DEF IsPhiRun, EmptyVal
<1>4. \A i \in 1..Len(chain) : i - 1 \in T => i \in T
  <2> SUFFICES ASSUME NEW i \in 1..Len(chain), i - 1 \in T PROVE i \in T
    OBVIOUS
  <2>1. f[i] = MergePointsTo(f[i - 1], StmtGen(P, chain[i]))
    BY <1>1 DEF IsPhiRun
  <2>2. DOMAIN StmtGen(P, chain[i]) \subseteq {x}
    BY <1>2, ScalarGenDomain
  <2>3. DOMAIN f[i] \subseteq {x}
    BY <2>1, <2>2, MergeDomain
  <2>4. Has(i)
    <3> SUFFICES ASSUME NEW j \in 1..i, NEW c \in Pointees(StmtGen(P, chain[j]), x),
                        c # undef_id
                 PROVE  c \in Pointees(f[i], x)
      OBVIOUS
    <3>1. c \in Pointees(f[i - 1], x) \/ c \in Pointees(StmtGen(P, chain[i]), x)
      <4>1. j = i \/ j \in 1..(i - 1)
        OBVIOUS
      <4> QED
        BY <4>1
    <3> QED
      BY <2>1, <3>1, MergeHas
  <2> QED
    BY <2>3, <2>4
<1> HIDE DEF T
<1>5. 0..Len(chain) \subseteq T
  BY <1>2, <1>3, <1>4, UpTo
<1>6. Len(chain) \in T
  BY <1>2, <1>5
<1> QED
  BY <1>1, <1>2, <1>6 DEF T, IsPhiRun

(* V is live before the chain, W after it: what W says of a variable that  *)
(* the chain assigns, V says of what it reads.                             *)
LEMMA LongChain ==
    ASSUME NEW S, NEW chain \in Seq(S) \ {<<>>}, Len(chain) # 1
    PROVE  Len(chain) > 1
<1> DEFINE n == Len(chain)
<1>1. 1 \in DOMAIN chain /\ DOMAIN chain = 1..n /\ n \in Nat
  OBVIOUS
<1>2. 1 \in 1..n /\ n # 1
  BY <1>1
<1> HIDE DEF n
<1>3. n > 1
  BY <1>1, <1>2
<1> QED
  BY <1>3 DEF n

LEMMA ChainSound ==
    ASSUME NEW may, Typing(may), NEW P \in NormalValues, TypedVal(may, P),
           NEW s \in [Var -> Id], TypedStore(may, s),
           NEW V, NEW W, SoundFor(P, s, V),
           NEW chain \in Seq(Constraint) \ {<<>>}, TypedChain(may, chain),
           NEW i \in DOMAIN chain, Executable(s, chain[i]),
           NEW value \in Values(s, chain[i].rhs),
           chain[i].lhs.type = DEREF => chain[i].lhs.var \in V,
           Target(s, chain[i].lhs) \in W => ReadBy(P, chain[i].rhs) \subseteq V,
           W \ {Target(s, chain[i].lhs)} \subseteq V
    PROVE  /\ Execute(s, chain[i], value) \in [Var -> Id]
           /\ TypedStore(may, Execute(s, chain[i], value))
           /\ SoundFor(ChainOut(P, chain), Execute(s, chain[i], value), W)
<1> DEFINE t == chain[i]
           x == Target(s, t.lhs)
           g == StmtGen(P, t)
           next == Execute(s, t, value)
<1>0. /\ t \in Constraint /\ WellTyped(may, t) /\ OneResult(chain)
      /\ ~(t.lhs.type = DEREF /\ t.rhs.type = DEREF)
      /\ IsPointsToVal(P) /\ t.lhs.type \in {SCALAR, DEREF}
  <2>1. t \in Constraint /\ WellTyped(may, t) /\ OneResult(chain)
    BY DEF TypedChain
  <2> QED
    BY <2>1, ValueSets DEF WellTyped, Constraint
<1>1. x \in Var /\ next \in [Var -> Id] /\ TypedStore(may, next)
  BY <1>0, ExecuteTyped
<1>2. next = [s EXCEPT ![x] = value]
  BY DEF Execute
<1>3. x \in W /\ value # Undefined =>
         /\ x \in DOMAIN g /\ value \in g[x]
         /\ \A w \in DOMAIN g : g[w] # {undef_id}
  BY <1>0, GenSound
<1>4. StmtKill(P, t) => DOMAIN g \subseteq {x}
  BY <1>0, KillSound
<1>5. StmtKill(P, t) \in BOOLEAN
  BY DEF StmtKill
<1>6. SoundFor(P, next, W \ {x}) /\ next[x] = value
  <2> HIDE DEF x, next
  <2>1. next[x] = value /\ \A v \in Var \ {x} : next[v] = s[v]
    BY <1>1, <1>2
  <2>2. \A v : v \notin Var => next[v] = s[v]
    <3>1. \A v : v \notin Var => v # x
      BY <1>1
    <3> QED
      BY <3>1, <1>2
  <2> QED
    BY <2>1, <2>2 DEF SoundFor, x
<1>7. CASE Len(chain) = 1
  <2>1. chain[1] = t
    BY <1>7
  <2> HIDE DEF t, x, g, next
  <2>2. SoundFor(ComputePointsToOut(P, g, StmtKill(P, t)), next, W)
    BY <1>3, <1>4, <1>5, <1>6, OutSound
  <2>3. ChainOut(P, chain) = ComputePointsToOut(P, g, StmtKill(P, t))
    BY <1>7, <2>1 DEF ChainOut, StmtOut, g
  <2> QED
    BY <1>1, <2>2, <2>3 DEF t, next
<1>7a. Len(chain) # 1 => Len(chain) > 1
  <2> HIDE DEF t, x, g, next
  <2> QED
    BY LongChain
<1>8. CASE Len(chain) # 1
  <2> DEFINE u == chain[1].lhs.var
             last == chain[Len(chain)]
             h == PhiGen(P, chain)
             kill == StmtKill(P, last)
  <2>1. \A j \in DOMAIN chain : chain[j].lhs.type = SCALAR /\ chain[j].lhs.var = u
    BY <1>0, <1>7a, <1>8 DEF OneResult
  <2>2. x = u
    BY <2>1 DEF Target
  <2>3. /\ DOMAIN h \subseteq {u}
        /\ \A c \in Pointees(g, u) : c # undef_id => c \in Pointees(h, u)
    <3> HIDE DEF u
    <3>1. /\ DOMAIN PhiGen(P, chain) \subseteq {u}
          /\ \A j \in DOMAIN chain : \A c \in Pointees(StmtGen(P, chain[j]), u) :
                c # undef_id => c \in Pointees(PhiGen(P, chain), u)
      <4> HIDE DEF t, x, g, h, next
      <4> QED
        BY <2>1, PhiHas
    <3> QED
      BY <3>1
  <2> HIDE DEF h, x, g, next
  <2>4. x \in W /\ next[x] # Undefined =>
           /\ x \in DOMAIN h /\ next[x] \in h[x]
           /\ \A w \in DOMAIN h : h[w] # {undef_id}
    BY <1>3, <1>6, <2>2, <2>3 DEF Pointees, Undefined
  <2>5. kill \in BOOLEAN /\ DOMAIN h \subseteq {x}
    BY <2>2, <2>3 DEF StmtKill
  <2> HIDE DEF kill
  <2>6. SoundFor(ComputePointsToOut(P, h, kill), next, W)
    BY <1>6, <2>4, <2>5, OutSound
  <2>7. ChainOut(P, chain) = ComputePointsToOut(P, h, kill)
    BY <1>8 DEF ChainOut, PhiOut, h, kill
  <2> QED
    BY <1>1, <2>6, <2>7 DEF next
<1> QED
  BY <1>7, <1>8

-----------------------------------------------------------------------------
(* What is live before an item, from what is live after it.                *)

LiveSet(s) == (s.live \ s.kill) \cup s.gen

(* The loop over a block ends with its first item. *)
LEMMA LiveCons ==
    ASSUME NEW live \in SUBSET Var, NEW P, IsPointsToVal(P),
           NEW code \in Seq(Item), code # <<>>
    PROVE  /\ Tail(code) \in Seq(Item) /\ Head(code) \in Item
           /\ LiveTop(live, P, Tail(code)) \in LiveState
           /\ LiveTop(live, P, code) = LiveItem(LiveTop(live, P, Tail(code)), P, Head(code))
<1> DEFINE n == Len(code)
           rest == Tail(code)
<1>1. /\ 1 \in DOMAIN code /\ DOMAIN code = 1..n /\ n \in Nat
      /\ \A i \in DOMAIN code : code[i] \in Item
  OBVIOUS
<1>2. rest \in Seq(Item) /\ Len(rest) = n - 1 /\ Head(code) = code[1]
      /\ \A i \in 1..(n - 1) : rest[i] = code[i + 1]
  OBVIOUS
<1>3. n \in Nat /\ n >= 1
  <2> HIDE DEF n
  <2>1. 1 \in 1..n
    BY <1>1
  <2> QED
    BY <1>1, <2>1
<1> HIDE DEF rest
<1>4. PICK f : IsLiveRun(f, live, P, code)
  BY LiveRun
<1>5. PICK g : IsLiveRun(g, live, P, rest)
  BY <1>2, LiveRun
<1> HIDE DEF n
<1> DEFINE m == n - 1
           T == {i \in 0..m : f[i] = g[i]}
<1>6. m \in Nat /\ n = m + 1 /\ Len(code) = n /\ Len(rest) = m
  BY <1>2, <1>3 DEF n
<1>7. 0 \in T
  <2>1. f[0] = g[0]
    BY <1>4, <1>5 DEF IsLiveRun
  <2> HIDE DEF m
  <2> QED
    BY <1>6, <2>1
<1>8. \A i \in 1..m : i - 1 \in T => i \in T
  <2> SUFFICES ASSUME NEW i \in 1..m, i - 1 \in T PROVE i \in T
    OBVIOUS
  <2>1. /\ f[i] = LiveItem(f[i - 1], P, code[n + 1 - i])
        /\ g[i] = LiveItem(g[i - 1], P, rest[m + 1 - i])
    BY <1>4, <1>5, <1>6 DEF IsLiveRun
  <2>2. m + 1 - i \in 1..(n - 1) /\ m + 1 - i + 1 = n + 1 - i
    BY <1>6
  <2>3. rest[m + 1 - i] = code[n + 1 - i]
    BY <1>2, <2>2
  <2> QED
    BY <2>1, <2>3
<1> HIDE DEF T
<1>9. m \in T
  <2>1. 0..m \subseteq T
    <3> HIDE DEF m
    <3> QED
      BY <1>6, <1>7, <1>8, UpTo
  <2> QED
    BY <1>6, <2>1
<1>10. f[m] = LiveTop(live, P, rest) /\ f[m] \in LiveState
  BY <1>4, <1>5, <1>6, <1>9 DEF T, IsLiveRun
<1>11. LiveTop(live, P, code) = LiveItem(f[m], P, code[1])
  <2>1. n \in 1..n /\ n + 1 - n = 1 /\ n - 1 = m
    BY <1>6
  <2>2. f[n] = LiveItem(f[n - 1], P, code[n + 1 - n])
    BY <1>4, <1>6, <2>1 DEF IsLiveRun
  <2>3. LiveTop(live, P, code) = f[n]
    BY <1>4, <1>6 DEF IsLiveRun
  <2> QED
    BY <2>1, <2>2, <2>3
<1> QED
  BY <1>1, <1>2, <1>10, <1>11 DEF rest

(* What one item keeps and adds.  A store through a pointer nothing is     *)
(* known of keeps the pointer alone.                                       *)
LEMMA UseLive ==
    ASSUME NEW s \in LiveState, NEW P, NEW item \in Item, ~IsAlias(item)
    PROVE  LiveSet(s) \cup item.uses \subseteq LiveSet(LiveItem(s, P, item))
BY DEF LiveSet, LiveItem, LiveState

LEMMA ChainLive ==
    ASSUME NEW s \in LiveState, NEW P \in NormalValues, NEW item \in Item, IsAlias(item)
    PROVE  LET t   == item.chain[1]
               top == LiveSet(LiveItem(s, P, item))
           IN  /\ t.lhs.type = SCALAR =>
                     /\ LiveSet(s) \ {t.lhs.var} \subseteq top
                     /\ t.lhs.var \in LiveSet(s) => ReadBy(P, t.rhs) \cap Var \subseteq top
               /\ t.lhs.type = DEREF =>
                     /\ t.lhs.var \in top
                     /\ t.lhs.var \in DOMAIN P => LiveSet(s) \subseteq top
<1> DEFINE t == item.chain[1]
           top == LiveSet(LiveItem(s, P, item))
<1>1. t \in Constraint
  BY ItemParts
<1>2. t.lhs.type \in {SCALAR, DEREF} /\ t.rhs.type \in {SCALAR, DEREF, ADDRESSOF}
  BY <1>1 DEF Constraint
<1>3. LiveItem(s, P, item) = IF t.lhs.type = SCALAR THEN LiveScalar(s, P, t)
                             ELSE LiveStore(s, P, t)
  BY DEF LiveItem, LiveChain
<1> HIDE DEF t
<1>4. CASE t.lhs.type = SCALAR
  <2> DEFINE x == t.lhs.var
             rhs == CASE t.rhs.type = ADDRESSOF -> {}
                      [] t.rhs.type = SCALAR    -> {t.rhs.var}
                      [] t.rhs.type = DEREF     -> {t.rhs.var} \cup Pointees(P, t.rhs.var)
             made == IF x \in s.gen \cup s.live THEN ProperVars(rhs) ELSE {}
             next == LiveScalar(s, P, t)
  <2>1. next = [s EXCEPT !.kill = @ \cup {x}, !.gen = (@ \ {x}) \cup made]
    BY DEF LiveScalar
  <2>2. \A S : S \cap Var \subseteq ProperVars(S)
    BY VarAssumption DEF ProperVars, IsProperVar
  <2>3. ReadBy(P, t.rhs) \cap Var \subseteq ProperVars(rhs)
    BY <1>2, <2>2 DEF ReadBy, SCALAR, DEREF, ADDRESSOF
  <2> HIDE DEF rhs
  <2>4. x \in LiveSet(s) => made = ProperVars(rhs)
    BY DEF LiveSet
  <2> HIDE DEF made, x, next
  <2>5. next.live = s.live /\ next.kill = s.kill \cup {x} /\ next.gen = (s.gen \ {x}) \cup made
    BY <2>1 DEF LiveState
  <2>6. top = LiveSet(next)
    BY <1>3, <1>4 DEF next
  <2> HIDE DEF top
  <2>7. /\ LiveSet(s) \ {x} \subseteq top
        /\ x \in LiveSet(s) => ReadBy(P, t.rhs) \cap Var \subseteq top
    BY <2>3, <2>4, <2>5, <2>6 DEF LiveSet
  <2> QED
    BY <1>4, <2>7 DEF t, x, top, SCALAR, DEREF
<1>5. CASE t.lhs.type = DEREF
  <2>1. top = LiveSet(LiveStore(s, P, t))
    BY <1>3, <1>5 DEF SCALAR, DEREF
  <2>2. t.lhs.var \in top /\ (t.lhs.var \in DOMAIN P => LiveSet(s) \subseteq top)
    BY <2>1 DEF LiveStore, LiveSet, LiveState
  <2> QED
    BY <1>5, <2>2 DEF t, SCALAR, DEREF
<1> QED
  BY <1>2, <1>4, <1>5

LEMMA ChainHead ==
    ASSUME NEW S, NEW chain \in Seq(S) \ {<<>>}
    PROVE  1 \in DOMAIN chain /\ \A i \in DOMAIN chain : chain[i] \in S
OBVIOUS

(* The execution of one of the chain's constraints.  P is the value at IN, *)
(* from which liveness is computed, Q the value before the item; of what   *)
(* the item dereferences both say the same.                                *)
LEMMA ItemSound ==
    ASSUME NEW may, Typing(may), NEW P \in NormalValues,
           NEW Q \in NormalValues, TypedVal(may, Q),
           NEW s \in [Var -> Id], TypedStore(may, s),
           NEW live \in LiveState, NEW item \in Item, IsAlias(item),
           TypedChain(may, item.chain),
           SoundFor(Q, s, LiveSet(LiveItem(live, P, item))),
           \A j \in DOMAIN item.chain :
              \/ j = 1 /\ item.chain[j].lhs.type = SCALAR
              \/ item.chain[j].rhs.type = ADDRESSOF,
           item.chain[1].lhs.type = DEREF =>
              Pointees(Q, item.chain[1].lhs.var) = Pointees(P, item.chain[1].lhs.var),
           item.chain[1].rhs.type = DEREF =>
              Pointees(Q, item.chain[1].rhs.var) = Pointees(P, item.chain[1].rhs.var),
           NEW i \in DOMAIN item.chain, Executable(s, item.chain[i]),
           NEW value \in Values(s, item.chain[i].rhs)
    PROVE  /\ Execute(s, item.chain[i], value) \in [Var -> Id]
           /\ TypedStore(may, Execute(s, item.chain[i], value))
           /\ SoundFor(ChainOut(Q, item.chain), Execute(s, item.chain[i], value), LiveSet(live))
<1> DEFINE chain == item.chain
           t == chain[i]
           first == chain[1]
           V == LiveSet(LiveItem(live, P, item))
           W == LiveSet(live)
<1>1. /\ chain \in Seq(Constraint) \ {<<>>} /\ 1 \in DOMAIN chain
      /\ first \in Constraint /\ t \in Constraint
  <2>1. chain \in Seq(Constraint) \ {<<>>}
    BY ItemParts
  <2>2. 1 \in DOMAIN chain /\ \A j \in DOMAIN chain : chain[j] \in Constraint
    <3> HIDE DEF chain
    <3> QED
      BY <2>1, ChainHead
  <2> QED
    BY <2>1, <2>2
<1>2. /\ first.lhs.type = SCALAR =>
            /\ W \ {first.lhs.var} \subseteq V
            /\ first.lhs.var \in W => ReadBy(P, first.rhs) \cap Var \subseteq V
      /\ first.lhs.type = DEREF =>
            /\ first.lhs.var \in V
            /\ first.lhs.var \in DOMAIN P => W \subseteq V
  BY ChainLive
<1>3. OneResult(chain)
  BY DEF TypedChain
<1>4. t.rhs.type # ADDRESSOF => i = 1
  OBVIOUS
<1>5. first.lhs.type \in {SCALAR, DEREF} /\ t.lhs.type \in {SCALAR, DEREF}
  BY <1>1 DEF Constraint
<1> SUFFICES /\ t.lhs.type = DEREF => t.lhs.var \in V
             /\ Target(s, t.lhs) \in W => ReadBy(Q, t.rhs) \subseteq V
             /\ W \ {Target(s, t.lhs)} \subseteq V
  <2> HIDE DEF V, W
  <2> QED
    BY <1>1, ChainSound DEF V, W
<1>6. t.rhs.type # ADDRESSOF => ReadBy(Q, t.rhs) \subseteq ReadBy(P, first.rhs) \cap Var
  <2>1. t.rhs.type \in {SCALAR, DEREF, ADDRESSOF}
    BY <1>1 DEF Constraint
  <2>2. t.rhs.type # ADDRESSOF => t.rhs.var \in Var /\ t = first
    BY <1>4 DEF Executable
  <2> HIDE DEF t, first
  <2>3. first.rhs.type = DEREF =>
              Pointees(Q, first.rhs.var) = Pointees(P, first.rhs.var)
    BY DEF first
  <2> QED
    BY <2>1, <2>2, <2>3 DEF ReadBy, SCALAR, DEREF, ADDRESSOF
<1>7. t.rhs.type = ADDRESSOF => ReadBy(Q, t.rhs) = {}
  BY DEF ReadBy, SCALAR, DEREF, ADDRESSOF
<1>8. Len(chain) # 1 => t.lhs = first.lhs /\ first.lhs.type = SCALAR
  <2>1. Len(chain) # 1 => Len(chain) > 1
    <3>1. chain \in Seq(Constraint) \ {<<>>}
      BY <1>1
    <3> HIDE DEF chain
    <3> QED
      BY <3>1, LongChain
  <2> QED
    BY <1>1, <1>3, <2>1 DEF OneResult
<1>9. Len(chain) = 1 => t = first
  BY <1>1
<1>10. CASE first.lhs.type = SCALAR
  <2>1. t.lhs.type = SCALAR /\ t.lhs.var = first.lhs.var
    BY <1>8, <1>9, <1>10
  <2>2. Target(s, t.lhs) = first.lhs.var
    BY <2>1 DEF Target
  <2> HIDE DEF t, first, V, W
  <2> QED
    BY <1>2, <1>6, <1>7, <1>10, <2>1, <2>2 DEF SCALAR, DEREF
<1>11. CASE first.lhs.type = DEREF
  <2> DEFINE p == first.lhs.var
  <2>1. t = first
    BY <1>8, <1>9, <1>11 DEF SCALAR, DEREF
  <2>2. t.rhs.type = ADDRESSOF
    <3> HIDE DEF chain
    <3> QED
      BY <1>11, <2>1 DEF SCALAR, DEREF, chain
  <2>3. p \in V /\ s[p] \in Var
    BY <1>2, <1>11, <2>1 DEF Executable
  <2>4. s[p] # undef_id
    BY <2>3, VarAssumption DEF IsProperVar, undef_id, integer_id
  <2>5. s[p] \in Pointees(Q, p) /\ Pointees(Q, p) = Pointees(P, p)
    BY <1>11, <2>3, <2>4 DEF SoundFor, Undefined
  <2>6. p \in DOMAIN P
    BY <2>4, <2>5 DEF Pointees
  <2>7. W \subseteq V
    BY <1>2, <1>11, <2>6
  <2> QED
    BY <1>7, <1>11, <2>1, <2>2, <2>3, <2>7
<1> QED
  BY <1>5, <1>10, <1>11
=============================================================================

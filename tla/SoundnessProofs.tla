--------------------------- MODULE SoundnessProofs --------------------------
(***************************************************************************)
(* Along every program, of any constraints over any variables, the values  *)
(* stay in normal form and the confluence only adds to them; and if its    *)
(* constraints are well typed, the transfer functions and the confluence   *)
(* are sound, however many variables and statements it has.                *)
(***************************************************************************)
EXTENDS StraightLine, TransferProofs, SequenceTheorems

-----------------------------------------------------------------------------
(* The inductive invariant: beside the type and the normal form of both    *)
(* branches, the GEN a PHI has aggregated so far is tidy.                  *)
IInv == TypeOK /\ Normal /\ TidyVal(gen)

(* The concrete step keeps the store a store. *)
LEMMA ExecuteType ==
    ASSUME family \in Families, store \in [Var -> Id],
           NEW c \in family.chains, ExecuteOne(c)
    PROVE  store' \in [Var -> Id]
<1>1. CASE ~taken
  BY <1>1 DEF ExecuteOne
<1>2. CASE taken
  <2>1. PICK i \in DOMAIN c :
           /\ Executable(store, c[i])
           /\ \E value \in Values(store, c[i].rhs) :
                 store' = Execute(store, c[i], value)
    BY <1>2 DEF ExecuteOne
  <2>2. c[i] \in Constraint
    BY FamiliesAssumption
  <2>3. Var \subseteq Id /\ Undefined \in Id
    BY DEF Id, Undefined
  <2>4. Value(store, c[i].rhs) \in Id
    <3>1. CASE c[i].rhs.type = ADDRESSOF
      BY <2>2, <3>1 DEF Value, Constraint, ADDRESSOF, SCALAR, DEREF
    <3>2. CASE c[i].rhs.type = SCALAR
      BY <2>1, <3>2 DEF Value, Executable, ADDRESSOF, SCALAR, DEREF
    <3>3. CASE c[i].rhs.type = DEREF
      BY <2>1, <3>3 DEF Value, Executable, ADDRESSOF, SCALAR, DEREF
    <3> QED
      BY <2>2, <3>1, <3>2, <3>3 DEF Constraint
  <2>5. Values(store, c[i].rhs) \subseteq Id
    BY <2>3, <2>4 DEF Values
  <2> QED
    BY <2>1, <2>5 DEF Execute
<1> QED
  BY <1>1, <1>2

LEMMA InitInv == Init => IInv
<1> SUFFICES ASSUME Init PROVE IInv
  OBVIOUS
<1>1. store \in [Var -> Id]
  BY FamiliesAssumption DEF Init
<1>2. IsPointsToVal(EntryVal(store))
  BY <1>1 DEF EntryVal, IsPointsToVal
<1>3. NormalVal(EntryVal(store))
  BY <1>1 DEF EntryVal, NormalVal, NormalSet, IsSingleton, Undefined
<1>4. <<>> \in Seq(Constraint)
  OBVIOUS
<1> QED
  BY <1>1, <1>2, <1>3, <1>4, EmptyIsValue DEF Init, IInv, TypeOK, Normal

LEMMA NextInv == IInv /\ [Next]_vars => IInv'
<1> SUFFICES ASSUME IInv, [Next]_vars PROVE IInv'
  OBVIOUS
<1> USE DEF IInv, Normal
<1>1. ASSUME NEW c \in family.chains, Assignment(c)
      PROVE  IInv'
  <2>1. store' \in [Var -> Id]
    BY <1>1, ExecuteType DEF Assignment, TypeOK
  <2>2. c[1] \in Constraint
    BY <1>1, FamiliesAssumption DEF Assignment, TypeOK
  <2>3. IsPointsToVal(StmtGen(p, c[1])) /\ TidyVal(StmtGen(p, c[1]))
    BY <2>2, StmtGenType, StmtGenTidy DEF TypeOK
  <2>4. IsPointsToVal(p') /\ NormalVal(p')
    BY <1>1, <2>3, OutType, OutNormal DEF Assignment, StmtOut, TypeOK, IsPointsToVal
  <2>5. stmts' \in Nat
    BY <1>1 DEF Assignment, NextStatement, TypeOK
  <2> QED
    BY <1>1, <2>1, <2>4, <2>5 DEF Assignment, TypeOK
<1>2. ASSUME NEW c \in family.chains, PhiBegin(c)
      PROVE  IInv'
  <2>1. store' \in [Var -> Id]
    BY <1>2, ExecuteType DEF PhiBegin, TypeOK
  <2>2. args' \in Seq(Constraint)
    BY <1>2, FamiliesAssumption DEF PhiBegin, TypeOK
  <2>3. stmts' \in Nat
    BY <1>2 DEF PhiBegin, NextStatement, TypeOK
  <2> QED
    BY <1>2, <2>1, <2>2, <2>3, EmptyIsValue DEF PhiBegin, TypeOK
<1>3. CASE PhiArgument
  <2>1. Head(args) \in Constraint /\ Tail(args) \in Seq(Constraint)
    BY <1>3 DEF PhiArgument, TypeOK
  <2>2. IsPointsToVal(StmtGen(p, Head(args))) /\ TidyVal(StmtGen(p, Head(args)))
    BY <2>1, StmtGenType, StmtGenTidy DEF TypeOK
  <2>3. IsPointsToVal(gen') /\ TidyVal(gen')
    BY <1>3, <2>2, MergeType, MergeTidy DEF PhiArgument, TypeOK
  <2> QED
    BY <1>3, <2>1, <2>3 DEF PhiArgument, TypeOK
<1>4. CASE PhiEnd
  <2>1. args[1] \in Constraint
    <3>1. args \in Seq(Constraint) /\ Len(args) = 1
      BY <1>4 DEF PhiEnd, TypeOK
    <3> QED
      BY <3>1
  <2>2. IsPointsToVal(StmtGen(p, args[1])) /\ TidyVal(StmtGen(p, args[1]))
    BY <2>1, StmtGenType, StmtGenTidy DEF TypeOK
  <2> DEFINE g == MergePointsTo(gen, StmtGen(p, args[1]))
  <2>3. IsPointsToVal(g) /\ TidyVal(g)
    BY <2>2, MergeType, MergeTidy DEF TypeOK
  <2>4. p' = ComputePointsToOut(p, g, StmtKill(p, args[1]))
    BY <1>4 DEF PhiEnd
  <2> HIDE DEF g
  <2>5. IsPointsToVal(p') /\ NormalVal(p')
    BY <2>3, <2>4, OutType, OutNormal DEF TypeOK, IsPointsToVal
  <2>6. <<>> \in Seq(Constraint)
    OBVIOUS
  <2> QED
    BY <1>4, <2>5, <2>6, EmptyIsValue DEF PhiEnd, TypeOK
<1>5. CASE Fork
  BY <1>5 DEF Fork, TypeOK
<1>6. CASE Switch
  BY <1>6 DEF Switch, TypeOK
<1>7. CASE Join
  <2>1. IsPointsToVal(p') /\ NormalVal(p')
    BY <1>7, MergeType, MergeNormal DEF Join, TypeOK
  <2> QED
    BY <1>7, <2>1, EmptyIsValue DEF Join, TypeOK
<1>8. CASE UNCHANGED vars
  BY <1>8 DEF vars, TypeOK
<1> QED
  BY <1>1, <1>2, <1>3, <1>4, <1>5, <1>6, <1>7, <1>8 DEF Next

(* The inductive invariant holds in every reachable state. *)
LEMMA Invariant == Spec => []IInv
BY InitInv, NextInv, PTL DEF Spec

(* Type correctness of the analysis and of the execution beside it. *)
THEOREM TypeCorrect == Spec => []TypeOK
<1>1. IInv => TypeOK
  BY DEF IInv
<1> QED
  BY <1>1, Invariant, PTL

(* Every value is in normal form, for any program: "exactly one bit" in    *)
(* has_must_pointee can be trusted to mean "one pointee, initialised".     *)
THEOREM AlwaysNormal == Spec => []Normal
<1>1. IInv => Normal
  BY DEF IInv
<1> QED
  BY <1>1, Invariant, PTL

(* Where branches meet the values only grow, for any program. *)
THEOREM JoinsGrow == Spec => JoinLosesNothing
<1>1. ASSUME IInv, [Next]_vars, forked, ~forked'
      PROVE  AtLeast(p, p') /\ AtLeast(q, p')
  <2>1. Join
    BY <1>1 DEF Next, vars, Assignment, PhiBegin, PhiArgument, PhiEnd, Fork, Switch
  <2> QED
    BY <2>1, <1>1, MergeAtLeast DEF Join, IInv, Normal
<1>2. IInv /\ [Next]_vars => [forked /\ ~forked' => AtLeast(p, p') /\ AtLeast(q, p')]_vars
  BY <1>1
<1> QED
  BY <1>2, Invariant, PTL DEF Spec, JoinLosesNothing

(* The order in which two non-empty values arrive makes no difference. *)
THEOREM JoinsCommute == Spec => []JoinOrderIrrelevant
<1>1. JoinOrderIrrelevant
  BY MergeCommutes DEF JoinOrderIrrelevant
<1> QED
  BY <1>1, PTL

-----------------------------------------------------------------------------
PhiVar == args[1].lhs.var

(* The inductive invariant.  While the arguments of a PHI are gone through  *)
(* the execution is already past it, and what it assigned is in the GEN of  *)
(* an argument that has been merged or still has to be.                     *)
TypedInv(may) ==
    /\ TypedVal(may, p) /\ TypedVal(may, q) /\ TypedVal(may, gen)
    /\ TypedStore(may, store)

PhiInv(may) ==
    \A i \in DOMAIN args :
        /\ WellTyped(may, args[i])
        /\ args[i].lhs = [type |-> SCALAR, var |-> PhiVar]

GenInv ==
    /\ args # <<>> => DOMAIN gen \subseteq {PhiVar}
    /\ args # <<>> /\ taken /\ store[PhiVar] # Undefined =>
          \/ store[PhiVar] \in Pointees(gen, PhiVar)
          \/ \E i \in DOMAIN args : store[PhiVar] \in Pointees(StmtGen(p, args[i]), PhiVar)

SoundInv(may) ==
    /\ forked \/ taken
    /\ TypedInv(may)
    /\ PhiInv(may)
    /\ GenInv
    /\ SoundFor(Taken, store, IF args # <<>> /\ taken THEN Var \ {PhiVar} ELSE Var)

-----------------------------------------------------------------------------
(* The invariant, action by action. *)

LEMMA InitSound ==
    ASSUME NEW may, TypedPrograms(may), Init
    PROVE  SoundInv(may)
<1>1. store \in [Var -> Id] /\ TypedStore(may, store)
  BY FamiliesAssumption DEF Init, TypedPrograms
<1>2. TypedVal(may, EntryVal(store))
  BY <1>1 DEF TypedVal, EntryVal, TypedStore
<1>3. TypedVal(may, EmptyVal)
  BY DEF TypedVal, EmptyVal
<1>4. SoundFor(EntryVal(store), store, Var)
  BY DEF SoundFor, EntryVal, Pointees
<1> QED
  BY <1>1, <1>2, <1>3, <1>4
     DEF Init, SoundInv, TypedInv, PhiInv, GenInv, Taken

(* What the execution does at a chain, for a value that is sound before it. *)
LEMMA ExecuteSound ==
    ASSUME NEW may, TypedPrograms(may), IInv, SoundInv(may), args = <<>>,
           NEW c \in family.chains, ExecuteOne(c), taken
    PROVE  \E i \in DOMAIN c :
              LET g == StmtGen(p, c[i])
                  x == Target(store, c[i].lhs)
              IN  /\ x \in Var
                  /\ SoundFor(p, store', Var \ {x})
                  /\ TypedStore(may, store')
                  /\ store'[x] # Undefined =>
                        /\ x \in DOMAIN g /\ store'[x] \in g[x]
                        /\ \A w \in DOMAIN g : g[w] # {undef_id}
                  /\ StmtKill(p, c[i]) => DOMAIN g \subseteq {x}
<1>1. PICK i \in DOMAIN c :
         /\ Executable(store, c[i])
         /\ \E value \in Values(store, c[i].rhs) :
               store' = Execute(store, c[i], value)
  BY DEF ExecuteOne
<1>2. PICK value \in Values(store, c[i].rhs) : store' = Execute(store, c[i], value)
  BY <1>1
<1>3. c[i] \in Constraint /\ WellTyped(may, c[i])
  BY FamiliesAssumption DEF IInv, TypeOK, TypedPrograms, TypedChain
<1>4. /\ IsPointsToVal(p) /\ NormalVal(p) /\ TypedVal(may, p)
      /\ store \in [Var -> Id] /\ TypedStore(may, store) /\ SoundFor(p, store, Var)
  BY DEF IInv, TypeOK, Normal, SoundInv, TypedInv, Taken
<1>5. /\ Typing(may)
      /\ c[i].lhs.var \in Var /\ ReadBy(p, c[i].rhs) \subseteq Var
      /\ ~(c[i].lhs.type = DEREF /\ c[i].rhs.type = DEREF)
  <2>1. c[i].rhs.type # ADDRESSOF => c[i].rhs.var \in Var
    BY <1>1 DEF Executable
  <2>2. c[i].rhs.type \in {SCALAR, DEREF, ADDRESSOF} /\ c[i].lhs.var \in Var
    BY <1>3 DEF Constraint
  <2>3. ReadBy(p, c[i].rhs) \subseteq Var
    BY <2>1, <2>2 DEF ReadBy, SCALAR, DEREF, ADDRESSOF
  <2> QED
    BY <2>2, <2>3, <1>3 DEF TypedPrograms, WellTyped
<1> DEFINE g == StmtGen(p, c[i])
           x == Target(store, c[i].lhs)
<1>a. /\ x \in Var
      /\ value \in Var => value \in may[x]
  BY <1>1, <1>3, <1>4, <1>5, ExecuteTyped
<1>b. StmtKill(p, c[i]) => DOMAIN g \subseteq {x}
  BY <1>1, <1>3, <1>4, <1>5, KillSound
<1>c. value # Undefined =>
         /\ x \in DOMAIN g /\ value \in g[x]
         /\ \A w \in DOMAIN g : g[w] # {undef_id}
  BY <1>1, <1>3, <1>4, <1>5, GenSound
<1>6. /\ x \in Var
      /\ value \in Var => value \in may[x]
      /\ value # Undefined =>
            /\ x \in DOMAIN g /\ value \in g[x]
            /\ \A w \in DOMAIN g : g[w] # {undef_id}
      /\ StmtKill(p, c[i]) => DOMAIN g \subseteq {x}
  BY <1>a, <1>b, <1>c
<1>7. store' = [store EXCEPT ![x] = value]
  BY <1>2 DEF Execute
<1> HIDE DEF g, x
<1>8. store'[x] = value /\ \A v \in Var \ {x} : store'[v] = store[v]
  BY <1>4, <1>6, <1>7
<1>9. SoundFor(p, store', Var \ {x}) /\ TypedStore(may, store')
  BY <1>4, <1>6, <1>8 DEF SoundFor, TypedStore
<1> QED
  BY <1>6, <1>8, <1>9 DEF g, x

LEMMA NextSound ==
    ASSUME NEW may, TypedPrograms(may), IInv, SoundInv(may), [Next]_vars
    PROVE  SoundInv(may)'
<1>0. TypedVal(may, EmptyVal)
  BY DEF TypedVal, EmptyVal
<1>a. /\ family \in Families
      /\ IsPointsToVal(p) /\ IsPointsToVal(q) /\ IsPointsToVal(gen)
      /\ args \in Seq(Constraint) /\ taken \in BOOLEAN
  BY DEF IInv, TypeOK
<1>1. ASSUME NEW c \in family.chains, Assignment(c)
      PROVE  SoundInv(may)'
  <2>1. args = <<>> /\ args' = <<>> /\ Len(c) = 1 /\ ExecuteOne(c)
    BY <1>1 DEF Assignment, NextStatement
  <2>2. c[1] \in Constraint /\ WellTyped(may, c[1]) /\ DOMAIN c = {1}
    BY <1>a, <2>1, FamiliesAssumption DEF TypedPrograms, TypedChain
  <2>3. TypedVal(may, p')
    <3>1. TypedVal(may, StmtGen(p, c[1])) /\ IsPointsToVal(StmtGen(p, c[1]))
      BY <2>2, <1>a, GenTyped, StmtGenType DEF SoundInv, TypedInv
    <3> QED
      BY <3>1, <1>1, OutTyped DEF Assignment, StmtOut, SoundInv, TypedInv
  <2>4. TypedStore(may, store')
    BY <2>1, ExecuteSound DEF ExecuteOne, SoundInv, TypedInv
  <2>5. SoundFor(Taken', store', Var)
    <3>1. CASE taken
      <4> DEFINE g == StmtGen(p, c[1])
                 x == Target(store, c[1].lhs)
      <4>1. /\ x \in Var
            /\ SoundFor(p, store', Var \ {x})
            /\ store'[x] # Undefined =>
                  /\ x \in DOMAIN g /\ store'[x] \in g[x]
                  /\ \A w \in DOMAIN g : g[w] # {undef_id}
            /\ StmtKill(p, c[1]) => DOMAIN g \subseteq {x}
        BY <2>1, <2>2, <3>1, ExecuteSound
      <4>2. StmtKill(p, c[1]) \in BOOLEAN
        BY DEF StmtKill
      <4> HIDE DEF g, x
      <4>3. SoundFor(ComputePointsToOut(p, g, StmtKill(p, c[1])), store', Var)
        BY <4>1, <4>2, OutSound
      <4> QED
        BY <4>3, <3>1, <1>1 DEF Assignment, StmtOut, Taken, g
    <3>2. CASE ~taken
      BY <3>2, <1>1 DEF Assignment, ExecuteOne, SoundInv, Taken, SoundFor
    <3> QED
      BY <3>1, <3>2
  <2> QED
    BY <2>1, <2>3, <2>4, <2>5, <1>1
       DEF Assignment, SoundInv, TypedInv, PhiInv, GenInv
<1>2. ASSUME NEW c \in family.chains, PhiBegin(c)
      PROVE  SoundInv(may)'
  <2>1. /\ args = <<>> /\ args' = c /\ Len(c) > 1 /\ ExecuteOne(c)
        /\ gen' = EmptyVal /\ p' = p /\ q' = q /\ taken' = taken /\ forked' = forked
    BY <1>2 DEF PhiBegin, NextStatement
  <2>2. \A i \in DOMAIN c : /\ c[i] \in Constraint /\ WellTyped(may, c[i])
                            /\ c[i].lhs = [type |-> SCALAR, var |-> c[1].lhs.var]
    BY <1>a, <2>1, FamiliesAssumption DEF TypedPrograms, TypedChain, OneResult
  <2>3. PhiInv(may)'
    BY <2>1, <2>2 DEF PhiInv, PhiVar
  <2>4. TypedStore(may, store')
    BY <2>1, ExecuteSound DEF ExecuteOne, SoundInv, TypedInv
  <2>5. TypedInv(may)'
    BY <2>1, <2>4, <1>0 DEF SoundInv, TypedInv
  <2>6. PhiVar' = c[1].lhs.var /\ args' # <<>>
    BY <2>1 DEF PhiVar
  <2>7. DOMAIN gen' = {}
    BY <2>1 DEF EmptyVal
  <2>8. CASE taken
    <3>1. PICK i \in DOMAIN c :
             LET g == StmtGen(p, c[i])
                 x == Target(store, c[i].lhs)
             IN  /\ x \in Var
                 /\ SoundFor(p, store', Var \ {x})
                 /\ TypedStore(may, store')
                 /\ store'[x] # Undefined =>
                       /\ x \in DOMAIN g /\ store'[x] \in g[x]
                       /\ \A w \in DOMAIN g : g[w] # {undef_id}
                 /\ StmtKill(p, c[i]) => DOMAIN g \subseteq {x}
      BY <2>1, <2>8, ExecuteSound
    <3>2. Target(store, c[i].lhs) = PhiVar'
      BY <2>2, <2>6 DEF Target
    <3>3. SoundFor(p, store', Var \ {PhiVar'})
      BY <3>1, <3>2
    <3>4. store'[PhiVar'] # Undefined =>
             store'[PhiVar'] \in Pointees(StmtGen(p, c[i]), PhiVar')
      BY <3>1, <3>2 DEF Pointees
    <3>5. GenInv'
      BY <2>1, <2>6, <2>7, <3>4 DEF GenInv
    <3> QED
      BY <2>1, <2>3, <2>5, <2>6, <2>8, <3>3, <3>5 DEF SoundInv, Taken
  <2>9. CASE ~taken
    <3>1. store' = store
      BY <2>1, <2>9 DEF ExecuteOne
    <3> QED
      BY <2>1, <2>3, <2>5, <2>7, <2>9, <3>1 DEF SoundInv, Taken, GenInv
  <2> QED
    BY <2>8, <2>9
<1>3. CASE PhiArgument
  <2>1. /\ Len(args) > 1 /\ gen' = MergePointsTo(gen, StmtGen(p, args[1]))
        /\ args' = Tail(args) /\ args # <<>> /\ args' # <<>>
        /\ UNCHANGED <<store, p, q, forked, taken>>
    <3>1. Len(args) > 1 /\ args' = Tail(args)
      BY <1>3 DEF PhiArgument
    <3>2. args # <<>> /\ Head(args) = args[1]
      BY <3>1, <1>a
    <3>3. Len(Tail(args)) = Len(args) - 1 /\ Tail(args) \in Seq(Constraint)
      BY <3>2, <1>a
    <3>4. Len(args) \in Nat
      BY <1>a
    <3>5. Len(Tail(args)) # 0
      BY <3>1, <3>3, <3>4
    <3>6. Tail(args) # <<>>
      BY <3>5, EmptySeq
    <3> QED
      BY <3>1, <3>2, <3>6, <1>3 DEF PhiArgument
  <2>2. /\ DOMAIN args' = 1..(Len(args) - 1)
        /\ \A i \in DOMAIN args' : i + 1 \in DOMAIN args /\ args'[i] = args[i+1]
        /\ 1 \in DOMAIN args /\ 1 \in DOMAIN args' /\ Len(args) \in Nat
    BY <2>1, <1>a
  <2>3. PhiVar' = PhiVar
    BY <2>2 DEF SoundInv, PhiInv, PhiVar
  <2>4. PhiInv(may)'
    BY <2>2, <2>3 DEF SoundInv, PhiInv
  <2>5. args[1] \in Constraint /\ WellTyped(may, args[1])
    BY <2>2, <1>a DEF SoundInv, PhiInv
  <2>6. TypedInv(may)'
    <3>1. TypedVal(may, StmtGen(p, args[1]))
      BY <2>5, <1>a, GenTyped DEF SoundInv, TypedInv
    <3> QED
      BY <3>1, <2>1, MergeTyped DEF SoundInv, TypedInv
  <2>7. DOMAIN gen' \subseteq {PhiVar}
    <3>1. DOMAIN StmtGen(p, args[1]) \subseteq {PhiVar}
      BY <2>2, ScalarGenDomain DEF SoundInv, PhiInv
    <3> QED
      BY <3>1, <2>1, MergeDomain DEF SoundInv, GenInv
  <2>8. ASSUME taken, store[PhiVar] # Undefined
        PROVE  \/ store[PhiVar] \in Pointees(gen', PhiVar)
               \/ \E i \in DOMAIN args' :
                     store[PhiVar] \in Pointees(StmtGen(p, args'[i]), PhiVar)
    <3>1. CASE \/ store[PhiVar] \in Pointees(gen, PhiVar)
               \/ store[PhiVar] \in Pointees(StmtGen(p, args[1]), PhiVar)
      BY <3>1, <2>1, <2>8, MergeHas DEF Undefined
    <3>2. ASSUME NEW i \in DOMAIN args, i # 1,
                 store[PhiVar] \in Pointees(StmtGen(p, args[i]), PhiVar)
          PROVE  \E j \in DOMAIN args' :
                    store[PhiVar] \in Pointees(StmtGen(p, args'[j]), PhiVar)
      <4>0. DOMAIN args = 1..Len(args) /\ Len(args) \in Nat
        BY <1>a
      <4>1. i - 1 \in 1..(Len(args) - 1) /\ (i - 1) + 1 = i
        BY <3>2, <4>0
      <4>2. i - 1 \in DOMAIN args' /\ args'[i - 1] = args[i]
        BY <4>1, <2>2
      <4> QED
        BY <4>2, <3>2
    <3> QED
      BY <3>1, <3>2, <2>1, <2>8 DEF SoundInv, GenInv
  <2>9. GenInv'
    BY <2>1, <2>3, <2>7, <2>8 DEF GenInv
  <2> QED
    BY <2>1, <2>3, <2>4, <2>6, <2>9 DEF SoundInv, Taken
<1>4. CASE PhiEnd
  <2> DEFINE G == StmtGen(p, args[1])
             g == MergePointsTo(gen, G)
             x == PhiVar
  <2>1. /\ Len(args) = 1 /\ args # <<>> /\ args' = <<>> /\ DOMAIN args = {1}
        /\ p' = ComputePointsToOut(p, g, StmtKill(p, args[1]))
        /\ gen' = EmptyVal
        /\ UNCHANGED <<store, q, forked, taken>>
    BY <1>4, <1>a DEF PhiEnd
  <2>2. args[1] \in Constraint /\ WellTyped(may, args[1]) /\ args[1].lhs.type = SCALAR
    BY <2>1, <1>a DEF SoundInv, PhiInv
  <2>3. TypedVal(may, G) /\ IsPointsToVal(G) /\ DOMAIN G \subseteq {x}
    BY <2>2, <1>a, GenTyped, StmtGenType, ScalarGenDomain DEF SoundInv, TypedInv, PhiVar
  <2>4. TypedVal(may, g) /\ IsPointsToVal(g) /\ DOMAIN g \subseteq {x}
    BY <2>1, <2>3, <1>a, MergeTyped, MergeType, MergeDomain
       DEF SoundInv, TypedInv, GenInv
  <2>5. taken /\ store[x] # Undefined => store[x] \in Pointees(g, x)
    BY <2>1, MergeHas DEF SoundInv, GenInv, Undefined
  <2> HIDE DEF g
  <2>6. TypedVal(may, p')
    BY <2>1, <2>4, OutTyped DEF SoundInv, TypedInv
  <2>7. x \in Var /\ StmtKill(p, args[1]) \in BOOLEAN
    BY <2>2 DEF PhiVar, Constraint, StmtKill
  <2>8. ASSUME taken
        PROVE  SoundFor(p', store, Var)
    <3>1. store[x] # Undefined =>
             /\ x \in DOMAIN g /\ store[x] \in g[x]
             /\ \A w \in DOMAIN g : g[w] # {undef_id}
      BY <2>4, <2>5, <2>8 DEF Pointees, Undefined
    <3>2. SoundFor(p, store, Var \ {x})
      BY <2>1, <2>8 DEF SoundInv, Taken
    <3> HIDE DEF x
    <3> QED
      BY <3>1, <3>2, <2>1, <2>4, <2>7, OutSound
  <2>9. SoundFor(Taken', store', Var)
    BY <2>1, <2>8 DEF SoundInv, Taken
  <2> QED
    BY <2>1, <2>6, <2>9, <1>0 DEF SoundInv, TypedInv, PhiInv, GenInv
<1>5. CASE Fork
  BY <1>5 DEF Fork, SoundInv, TypedInv, PhiInv, GenInv, Taken, PhiVar
<1>6. CASE Switch
  BY <1>6, <1>a DEF Switch, SoundInv, TypedInv, PhiInv, GenInv, Taken, PhiVar
<1>7. CASE Join
  <2>1. /\ args = <<>> /\ args' = <<>> /\ p' = MergePointsTo(p, q)
        /\ q' = EmptyVal /\ taken' /\ store' = store /\ gen' = gen
    BY <1>7 DEF Join
  <2>2. TypedInv(may)'
    BY <2>1, <1>0, MergeTyped DEF SoundInv, TypedInv
  <2>3. SoundFor(Taken, store, Var)
    BY <2>1 DEF SoundInv
  <2>4. SoundFor(p', store, Var)
    BY <2>1, <2>3, MergeHas DEF SoundFor, Taken, Undefined
  <2> QED
    BY <2>1, <2>2, <2>4 DEF SoundInv, PhiInv, GenInv, Taken
<1>8. CASE UNCHANGED vars
  BY <1>8 DEF vars, SoundInv, TypedInv, PhiInv, GenInv, Taken, PhiVar
<1> QED
  BY <1>1, <1>2, <1>3, <1>4, <1>5, <1>6, <1>7, <1>8 DEF Next

(* The analysis is sound for every well-typed program, whatever its         *)
(* variables, constraints and branches: a variable the execution has        *)
(* initialised points where the value of its branch says it may point       *)
(* (find_pointsto_pair, compute_pointsto_out and the confluence).           *)
THEOREM Soundness ==
    ASSUME NEW may, TypedPrograms(may)
    PROVE  Spec => []Sound
<1>1. Init => SoundInv(may)
  BY InitSound
<1>2. IInv /\ SoundInv(may) /\ [Next]_vars => SoundInv(may)'
  BY NextSound
<1>3. SoundInv(may) => Sound
  BY DEF SoundInv, Sound, SoundFor, Taken
<1> QED
  BY <1>1, <1>2, <1>3, Invariant, PTL DEF Spec

-----------------------------------------------------------------------------
(* Must-pointees of scalar programs. *)

Definite(S, c) == IsSingleton(S) /\ S # {undef_id} => c \in S

(* The must-pointees P has for the variables of V are where they point in s. *)
DefiniteFor(P, s, V) ==
    \A v \in DOMAIN P \cap V : IsSingleton(P[v]) => s[v] \in P[v]

(* The inductive invariant: k is known on both branches, and while a PHI is *)
(* gone through, what the execution assigned is definite in one of the GENs.*)
DefiniteGenInv ==
    taken => \/ DOMAIN gen = {PhiVar} /\ Definite(gen[PhiVar], store[PhiVar])
             \/ \E i \in DOMAIN args :
                   Definite(StmtGen(p, args[i])[PhiVar], store[PhiVar])

MustInv(k) ==
    /\ k \in DOMAIN p
    /\ forked => k \in DOMAIN q
    /\ \A i \in DOMAIN args : args[i].lhs.var # k /\ args[i].rhs.type # DEREF
    /\ args # <<>> => DefiniteGenInv /\ DOMAIN gen \in {{}, {PhiVar}}
    /\ DefiniteFor(Taken, store, IF args # <<>> /\ taken THEN Var \ {PhiVar} ELSE Var)

LEMMA SingletonNormalize ==
    ASSUME NEW S, IsSingleton(Normalize(S)), S # {}
    PROVE  IsSingleton(S) /\ Normalize(S) = S
<1>1. IsSingleton(S)
  BY NormalizeKeeps
<1> QED
  BY <1>1 DEF IsSingleton, Normalize

(* The confluence of two sets is a single pointee only of equal ones. *)
LEMMA SingletonUnion ==
    ASSUME NEW A, NEW B, A # {}, B # {}, IsSingleton(Normalize(A \cup B))
    PROVE  A = B /\ Normalize(A \cup B) = A
<1>1. IsSingleton(A \cup B) /\ Normalize(A \cup B) = A \cup B
  BY SingletonNormalize
<1> QED
  BY <1>1 DEF IsSingleton

LEMMA MergeDefinite ==
    ASSUME NEW x, NEW c, NEW G, NEW H, TidyVal(G), TidyVal(H),
           DOMAIN G \in {{}, {x}}, DOMAIN H = {x},
           \/ DOMAIN G = {x} /\ Definite(G[x], c)
           \/ Definite(H[x], c)
    PROVE  /\ DOMAIN MergePointsTo(G, H) = {x}
           /\ Definite(MergePointsTo(G, H)[x], c)
<1> DEFINE M == MergePointsTo(G, H)
<1>1. CASE DOMAIN G = {} \/ G = H
  <2>1. M = H
    BY <1>1 DEF MergePointsTo
  <2> QED
    BY <2>1, <1>1
<1>2. CASE DOMAIN G = {x} /\ G # H
  <2>0. /\ DOMAIN M = DOMAIN G \cup DOMAIN H
        /\ \A v \in DOMAIN G \cap DOMAIN H : M[v] = Normalize(G[v] \cup H[v])
    BY <1>2, MergeCases
  <2>1. DOMAIN M = {x} /\ M[x] = Normalize(G[x] \cup H[x])
    BY <2>0, <1>2
  <2>2. G[x] # {} /\ H[x] # {}
    BY <1>2 DEF TidyVal, Tidy
  <2>3. IsSingleton(M[x]) => G[x] = H[x] /\ M[x] = G[x]
    BY <2>1, <2>2, SingletonUnion
  <2> HIDE DEF M
  <2> QED
    BY <1>2, <2>1, <2>3 DEF Definite, M
<1> QED
  BY <1>1, <1>2

(* GEN of an assignment that does not load is about its variable.          *)
LEMMA ScalarGen ==
    ASSUME NEW may \in [Var -> SUBSET Var], \A v \in Var : v \notin may[v],
           NEW P, IsPointsToVal(P), NormalVal(P), TypedVal(may, P),
           NEW t \in Constraint, WellTyped(may, t),
           t.lhs.type = SCALAR, t.rhs.type # DEREF
    PROVE  LET x == t.lhs.var
               R == RhsPointees(P, t.rhs)
           IN  /\ RhsFound(P, t.rhs) =>
                     /\ R # {} /\ x \notin R
                     /\ StmtGen(P, t) = GenVal({x}, R, t.rhs.off)
               /\ ~RhsFound(P, t.rhs) => StmtGen(P, t) = GenVal({x}, {undef_id}, FALSE)
               /\ DOMAIN StmtGen(P, t) = {x}
<1> DEFINE x == t.lhs.var
           R == RhsPointees(P, t.rhs)
<1>0. /\ x \in Var /\ IsProperVar(x) /\ x # undef_id
      /\ t.rhs.type \in {SCALAR, ADDRESSOF}
  <2>1. x \in Var /\ t.rhs.type \in {SCALAR, DEREF, ADDRESSOF}
    BY DEF Constraint
  <2>2. \A c \in Var : IsProperVar(c) /\ c # undef_id
    BY VarAssumption DEF IsProperVar, undef_id, integer_id
  <2> QED
    BY <2>1, <2>2
<1>1. StmtGen(P, t) = GenLhsScalar(P, t.lhs, t.rhs)
  BY DEF StmtGen, SCALAR, DEREF
<1>2. x \notin R
  <2>1. R \cap Var \subseteq RhsMay(may, t.rhs)
    BY RhsTyped
  <2>2. RhsMay(may, t.rhs) \subseteq may[x]
    BY DEF WellTyped, TargetsMay
  <2> QED
    BY <2>1, <2>2, <1>0
<1>3. RhsFound(P, t.rhs) => R # {}
  <2>1. CASE t.rhs.type = ADDRESSOF
    BY <2>1 DEF RhsPointees, SCALAR, DEREF, ADDRESSOF
  <2>2. CASE t.rhs.type = SCALAR
    BY <2>2 DEF RhsPointees, RhsFound, Pointees, NormalVal, NormalSet,
                SCALAR, DEREF, ADDRESSOF
  <2> QED
    BY <1>0, <2>1, <2>2
<1>4. \A S, off : S \ {x} # {} => DOMAIN GenVal({x}, S, off) = {x}
  BY <1>0 DEF GenVal
<1>5. CASE RhsFound(P, t.rhs)
  <2>1. StmtGen(P, t) = GenVal({x}, R, t.rhs.off)
    BY <1>1, <1>5 DEF GenLhsScalar
  <2>2. R \ {x} # {}
    BY <1>2, <1>3, <1>5
  <2> QED
    BY <2>1, <2>2, <1>2, <1>3, <1>4, <1>5
<1>6. CASE ~RhsFound(P, t.rhs)
  <2>1. StmtGen(P, t) = GenVal({x}, {undef_id}, FALSE)
    BY <1>1, <1>6 DEF GenLhsScalar, UndefVal
  <2> QED
    BY <2>1, <1>0, <1>4, <1>6
<1> QED
  BY <1>5, <1>6

(* A single pointee it generates is what the execution assigns.            *)
LEMMA ScalarGenDefinite ==
    ASSUME NEW may \in [Var -> SUBSET Var], \A v \in Var : v \notin may[v],
           NEW P, IsPointsToVal(P), NormalVal(P), TypedVal(may, P),
           NEW s, DefiniteFor(P, s, Var),
           NEW t \in Constraint, WellTyped(may, t), Executable(s, t),
           t.lhs.type = SCALAR, t.rhs.type # DEREF,
           NEW value \in Values(s, t.rhs)
    PROVE  Definite(StmtGen(P, t)[t.lhs.var], value)
<1> DEFINE x == t.lhs.var
           R == RhsPointees(P, t.rhs)
           S == StmtGen(P, t)[x]
           undef == IF t.rhs.off /\ \E d \in R : IsProperVar(d) THEN {undef_id} ELSE {}
<1>0. /\ \A c \in Var : IsProperVar(c) /\ c # undef_id
      /\ x \in Var
      /\ t.rhs.type \in {SCALAR, ADDRESSOF}
  <2>1. x \in Var /\ t.rhs.type \in {SCALAR, DEREF, ADDRESSOF}
    BY DEF Constraint
  <2>2. \A c \in Var : IsProperVar(c) /\ c # undef_id
    BY VarAssumption DEF IsProperVar, undef_id, integer_id
  <2> QED
    BY <2>1, <2>2
<1> SUFFICES ASSUME IsSingleton(S), S # {undef_id} PROVE value \in S
  BY DEF Definite
<1>1. RhsFound(P, t.rhs)
  <2> SUFFICES ASSUME ~RhsFound(P, t.rhs) PROVE FALSE
    OBVIOUS
  <2>1. StmtGen(P, t) = GenVal({x}, {undef_id}, FALSE) /\ DOMAIN StmtGen(P, t) = {x}
    BY ScalarGen
  <2>2. S \subseteq {undef_id}
    <3>1. x \in DOMAIN GenVal({x}, {undef_id}, FALSE)
      BY <2>1
    <3>2. ASSUME NEW off, NEW w \in DOMAIN GenVal({x}, {undef_id}, off)
          PROVE  GenVal({x}, {undef_id}, off)[w] \subseteq {undef_id}
      BY GenValFrom
    <3> QED
      BY <2>1, <3>1, <3>2, Zenon
  <2> QED
    BY <2>2 DEF IsSingleton
<1>2. /\ R # {} /\ x \notin R /\ DOMAIN StmtGen(P, t) = {x}
      /\ StmtGen(P, t) = GenVal({x}, R, t.rhs.off)
  BY <1>1, ScalarGen
<1>3. S = GenPointees(x, R, t.rhs.off)
  BY <1>2 DEF GenVal
<1>4. R \ {x} = R
  BY <1>2
<1>5. S = Normalize(R \cup undef)
  BY <1>3, <1>4 DEF GenPointees
<1> HIDE DEF S
<1>6. IsSingleton(R \cup undef) /\ S = R \cup undef
  BY <1>2, <1>5, SingletonNormalize
<1>7. PICK c : R = {c} /\ S = {c} /\ undef \subseteq {c}
  BY <1>2, <1>6 DEF IsSingleton
<1>8. c # undef_id
  BY <1>7
<1>9. ~(t.rhs.off /\ IsProperVar(c))
  BY <1>7, <1>8
<1>10. Value(s, t.rhs) = c
  <2>1. CASE t.rhs.type = ADDRESSOF
    BY <2>1, <1>7 DEF RhsPointees, Value, SCALAR, DEREF, ADDRESSOF
  <2>2. CASE t.rhs.type = SCALAR
    <3>1. t.rhs.var \in Var /\ t.rhs.var \in DOMAIN P
      BY <2>2, <1>1 DEF Executable, RhsFound, SCALAR, DEREF, ADDRESSOF
    <3>2. P[t.rhs.var] = {c}
      BY <2>2, <3>1, <1>7 DEF RhsPointees, Pointees, SCALAR, DEREF, ADDRESSOF
    <3>3. s[t.rhs.var] \in P[t.rhs.var]
      BY <3>1, <3>2 DEF DefiniteFor, IsSingleton
    <3> QED
      BY <2>2, <3>2, <3>3 DEF Value, SCALAR, DEREF, ADDRESSOF
  <2> QED
    BY <1>0, <2>1, <2>2
<1>11. value = c
  BY <1>9, <1>10, <1>0 DEF Values
<1> QED
  BY <1>7, <1>11

(* OUT where all of GEN is about one killed variable: the rest stays.      *)
Reassigned(P, g, x, out) ==
    /\ DOMAIN P \ {x} \subseteq DOMAIN out
    /\ \A v \in DOMAIN out :
          \/ v # x /\ v \in DOMAIN P /\ out[v] = P[v]
          \/ v = x /\ g[x] # {undef_id} /\ out[v] = g[x]

LEMMA OutKilled ==
    ASSUME NEW P, NEW g, NEW kill \in BOOLEAN, NEW x \in Var, DOMAIN g = {x}, kill
    PROVE  Reassigned(P, g, x, ComputePointsToOut(P, g, kill))
<1> DEFINE rest   == RemovePointeeSets(P, DOMAIN g)
           undefs == {w \in DOMAIN g : HasOnlyUndefPointee(g, w)}
           added  == IF DOMAIN rest = {}
                     THEN DOMAIN g \ undefs
                     ELSE {w \in DOMAIN g : \A u \in undefs : w < u}
           out    == ComputePointsToOut(P, g, kill)
<1>1. out = [w \in DOMAIN rest \cup added |->
               IF w \notin added THEN rest[w]
               ELSE IF w \in DOMAIN rest THEN Normalize(rest[w] \cup g[w])
               ELSE g[w]]
  BY DEF ComputePointsToOut
<1>2. DOMAIN rest = DOMAIN P \ {x} /\ \A w \in DOMAIN P \ {x} : rest[w] = P[w]
  BY DEF RemovePointeeSets
<1>3. \A w \in added : w = x /\ g[x] # {undef_id}
  <2> SUFFICES ASSUME x \in added, g[x] = {undef_id} PROVE FALSE
    OBVIOUS
  <2>1. x \in undefs
    BY DEF HasOnlyUndefPointee, Pointees
  <2>2. x \in Nat
    BY VarAssumption
  <2> QED
    BY <2>1, <2>2
<1> HIDE DEF rest, undefs, added, out
<1>4. DOMAIN out = DOMAIN rest \cup added
  BY <1>1
<1>5. ASSUME NEW v \in DOMAIN out
      PROVE  \/ v # x /\ v \in DOMAIN P /\ out[v] = P[v]
             \/ v = x /\ g[x] # {undef_id} /\ out[v] = g[x]
  <2>1. CASE v \in added
    BY <2>1, <1>1, <1>2, <1>3, <1>4
  <2>2. CASE v \notin added
    BY <2>2, <1>1, <1>2, <1>4
  <2> QED
    BY <2>1, <2>2
<1> QED
  BY <1>2, <1>4, <1>5 DEF Reassigned, out

LEMMA InitMust ==
    ASSUME NEW k \in Var, ScalarProgram(k), Init
    PROVE  MustInv(k)
<1>1. store \in family.entries /\ store[k] # Undefined
  BY DEF Init, ScalarProgram
<1>2. k \in DOMAIN EntryVal(store) /\ DefiniteFor(EntryVal(store), store, Var)
  BY <1>1 DEF EntryVal, DefiniteFor
<1> QED
  BY <1>2 DEF Init, MustInv, Taken

(* What the execution assigns at a chain is definite in GEN. *)
LEMMA ExecuteDefinite ==
    ASSUME NEW may, TypedPrograms(may), NEW k \in Var, ScalarProgram(k),
           IInv, SoundInv(may), MustInv(k), args = <<>>,
           NEW c \in family.chains, ExecuteOne(c), taken
    PROVE  \E i \in DOMAIN c :
              LET x == c[i].lhs.var
              IN  /\ x \in Var
                  /\ Definite(StmtGen(p, c[i])[x], store'[x])
                  /\ DefiniteFor(p, store', Var \ {x})
<1>1. PICK i \in DOMAIN c :
         /\ Executable(store, c[i])
         /\ \E value \in Values(store, c[i].rhs) :
               store' = Execute(store, c[i], value)
  BY DEF ExecuteOne
<1>2. PICK value \in Values(store, c[i].rhs) : store' = Execute(store, c[i], value)
  BY <1>1
<1>3. /\ c[i] \in Constraint /\ WellTyped(may, c[i])
      /\ c[i].lhs.type = SCALAR /\ c[i].rhs.type # DEREF
  BY FamiliesAssumption DEF IInv, TypeOK, TypedPrograms, TypedChain, ScalarProgram
<1>4. /\ IsPointsToVal(p) /\ NormalVal(p) /\ TypedVal(may, p)
      /\ store \in [Var -> Id] /\ DefiniteFor(p, store, Var)
  BY DEF IInv, TypeOK, Normal, SoundInv, TypedInv, MustInv, Taken
<1>5. may \in [Var -> SUBSET Var] /\ \A v \in Var : v \notin may[v]
  BY DEF TypedPrograms, Typing
<1> DEFINE x == c[i].lhs.var
<1>6. Definite(StmtGen(p, c[i])[x], value)
  BY <1>1, <1>3, <1>4, <1>5, ScalarGenDefinite
<1>7. x \in Var /\ store' = [store EXCEPT ![x] = value]
  BY <1>2, <1>3 DEF Execute, Target, Constraint
<1> HIDE DEF x
<1>8. store'[x] = value /\ \A v \in Var \ {x} : store'[v] = store[v]
  BY <1>4, <1>7
<1>9. DefiniteFor(p, store', Var \ {x})
  BY <1>4, <1>8 DEF DefiniteFor
<1> QED
  BY <1>6, <1>7, <1>8, <1>9 DEF x

(* A statement that assigns x keeps the must-pointees definite. *)
LEMMA OutDefinite ==
    ASSUME NEW P, NEW g, NEW kill \in BOOLEAN, NEW x \in Var, DOMAIN g = {x}, kill, NEW s
    PROVE  /\ Definite(g[x], s[x]) /\ DefiniteFor(P, s, Var \ {x})
                => DefiniteFor(ComputePointsToOut(P, g, kill), s, Var)
           /\ \A k \in DOMAIN P \ {x} : k \in DOMAIN ComputePointsToOut(P, g, kill)
<1> DEFINE out == ComputePointsToOut(P, g, kill)
<1>1. Reassigned(P, g, x, out)
  BY OutKilled
<1> HIDE DEF out
<1>2. ASSUME Definite(g[x], s[x]), DefiniteFor(P, s, Var \ {x})
      PROVE  DefiniteFor(out, s, Var)
  BY <1>1, <1>2 DEF DefiniteFor, Definite, Reassigned
<1>3. DOMAIN P \ {x} \subseteq DOMAIN out
  BY <1>1 DEF Reassigned
<1> QED
  BY <1>2, <1>3 DEF out

(* And so does the confluence of two values that both know something.      *)
LEMMA MergeDefiniteFor ==
    ASSUME NEW P, NEW Q, NormalVal(P), NormalVal(Q), DOMAIN P # {}, DOMAIN Q # {},
           NEW s, DefiniteFor(P, s, Var) \/ DefiniteFor(Q, s, Var)
    PROVE  DefiniteFor(MergePointsTo(P, Q), s, Var)
<1> DEFINE M == MergePointsTo(P, Q)
<1>1. CASE P = Q
  BY <1>1 DEF MergePointsTo
<1>2. CASE P # Q
  <2>0. /\ DOMAIN M = DOMAIN P \cup DOMAIN Q
        /\ \A w \in DOMAIN P \cap DOMAIN Q : M[w] = Normalize(P[w] \cup Q[w])
        /\ \A w \in DOMAIN P \ DOMAIN Q : M[w] = PrependUndef(P[w])
        /\ \A w \in DOMAIN Q \ DOMAIN P : M[w] = PrependUndef(Q[w])
    BY <1>2, MergeCases
  <2> HIDE DEF M
  <2> SUFFICES ASSUME NEW v \in DOMAIN M, v \in Var, IsSingleton(M[v])
               PROVE  s[v] \in M[v]
    BY DEF DefiniteFor, M
  <2>1. ASSUME NEW S, NormalSet(S)
        PROVE  S # {} /\ ~IsSingleton(PrependUndef(S))
    <3>1. CASE IsSingleton(S)
      BY <2>1, <3>1 DEF NormalSet, PrependUndef, IsSingleton
    <3>2. CASE ~IsSingleton(S)
      BY <2>1, <3>2, PrependKeeps DEF NormalSet
    <3> QED
      BY <3>1, <3>2
  <2>2. v \in DOMAIN P \cap DOMAIN Q
    BY <2>0, <2>1 DEF NormalVal
  <2>3. P[v] # {} /\ Q[v] # {}
    BY <2>1, <2>2 DEF NormalVal
  <2>a. M[v] = Normalize(P[v] \cup Q[v]) /\ IsSingleton(Normalize(P[v] \cup Q[v]))
    BY <2>0, <2>2
  <2>4. P[v] = Q[v] /\ M[v] = P[v]
    <3>1. P[v] = Q[v] /\ Normalize(P[v] \cup Q[v]) = P[v]
      BY <2>3, <2>a, SingletonUnion
    <3> QED
      BY <3>1, <2>a
  <2> QED
    BY <2>2, <2>4 DEF DefiniteFor
<1> QED
  BY <1>1, <1>2
(* A step keeps the invariant of the must-pointees. *)
LEMMA NextMust ==
    ASSUME NEW may, TypedPrograms(may), NEW k \in Var, ScalarProgram(k),
           IInv, SoundInv(may), MustInv(k), [Next]_vars
    PROVE  MustInv(k)'
<1>0. /\ IsPointsToVal(p) /\ IsPointsToVal(q) /\ NormalVal(p) /\ NormalVal(q)
      /\ TidyVal(gen) /\ args \in Seq(Constraint)
      /\ taken \in BOOLEAN /\ forked \in BOOLEAN /\ store \in [Var -> Id]
      /\ family \in Families
  BY DEF IInv, TypeOK, Normal
<1>1. /\ forked \/ taken
      /\ TypedVal(may, p) /\ TypedVal(may, q) /\ PhiInv(may)
  BY DEF SoundInv, TypedInv
<1>2. /\ may \in [Var -> SUBSET Var] /\ \A v \in Var : v \notin may[v]
      /\ k \in Var
  BY DEF TypedPrograms, Typing, ScalarProgram
<1>3. ASSUME NEW t \in Constraint, WellTyped(may, t),
             t.lhs.type = SCALAR, t.rhs.type # DEREF
      PROVE  /\ t.lhs.var \in Var /\ DOMAIN StmtGen(p, t) = {t.lhs.var}
             /\ StmtKill(p, t) /\ StmtKill(p, t) \in BOOLEAN
             /\ TidyVal(StmtGen(p, t))
  <2>1. DOMAIN StmtGen(p, t) = {t.lhs.var}
    BY <1>3, <1>0, <1>1, <1>2, ScalarGen
  <2>2. t.lhs.var \in Var
    BY DEF Constraint
  <2>3. StmtKill(p, t) /\ StmtKill(p, t) \in BOOLEAN
    BY <1>3 DEF StmtKill, SCALAR, DEREF
  <2> QED
    BY <2>1, <2>2, <2>3, StmtGenTidy
<1>4. ASSUME NEW c \in family.chains, Assignment(c)
      PROVE  MustInv(k)'
  <2> DEFINE t == c[1]
             x == t.lhs.var
             g == StmtGen(p, t)
             kill == StmtKill(p, t)
  <2>1. args = <<>> /\ args' = <<>> /\ Len(c) = 1 /\ ExecuteOne(c)
    BY <1>4 DEF Assignment, NextStatement
  <2>2. /\ t \in Constraint /\ WellTyped(may, t) /\ DOMAIN c = {1}
        /\ t.lhs.type = SCALAR /\ t.rhs.type # DEREF /\ x # k
    BY <1>0, <2>1, FamiliesAssumption DEF TypedPrograms, TypedChain, ScalarProgram
  <2>3. x \in Var /\ DOMAIN g = {x} /\ kill /\ kill \in BOOLEAN
    BY <2>2, <1>3
  <2>4. p' = ComputePointsToOut(p, g, kill) /\ UNCHANGED <<q, forked, taken, args, gen>>
    BY <1>4 DEF Assignment, StmtOut
  <2>5. taken => Definite(g[x], store'[x]) /\ DefiniteFor(p, store', Var \ {x})
    BY <2>1, <2>2, ExecuteDefinite
  <2>6. ~taken => store' = store
    BY <2>1 DEF ExecuteOne
  <2> HIDE DEF g, kill
  <2>7. k \in DOMAIN p'
    BY <2>2, <2>3, <2>4, OutDefinite DEF MustInv
  <2>8. taken => DefiniteFor(p', store', Var)
    BY <2>3, <2>4, <2>5, OutDefinite
  <2>9. DefiniteFor(Taken', store', Var)
    BY <2>1, <2>4, <2>6, <2>8 DEF Taken, MustInv
  <2> QED
    BY <2>1, <2>4, <2>7, <2>9 DEF MustInv
<1>5. ASSUME NEW c \in family.chains, PhiBegin(c)
      PROVE  MustInv(k)'
  <2>1. /\ args = <<>> /\ args' = c /\ Len(c) > 1 /\ ExecuteOne(c)
        /\ gen' = EmptyVal /\ UNCHANGED <<p, q, forked, taken>>
    BY <1>5 DEF PhiBegin, NextStatement
  <2>2. \A i \in DOMAIN c : /\ c[i].lhs.type = SCALAR /\ c[i].rhs.type # DEREF
                            /\ c[i].lhs.var # k
                            /\ c[i].lhs.var = c[1].lhs.var
    <3>1. \A i \in DOMAIN c : c[i].lhs = [type |-> SCALAR, var |-> c[1].lhs.var]
      BY <1>0, <2>1 DEF TypedPrograms, TypedChain, OneResult
    <3>2. \A i \in DOMAIN c : c[i].rhs.type # DEREF /\ c[i].lhs.var # k
      BY DEF ScalarProgram
    <3> QED
      BY <3>1, <3>2
  <2>3. PhiVar' = c[1].lhs.var /\ args' # <<>> /\ DOMAIN gen' = {}
    BY <2>1 DEF PhiVar, EmptyVal
  <2>4. CASE taken
    <3>1. PICK i \in DOMAIN c :
             LET x == c[i].lhs.var
             IN  /\ x \in Var
                 /\ Definite(StmtGen(p, c[i])[x], store'[x])
                 /\ DefiniteFor(p, store', Var \ {x})
      BY <2>1, <2>4, ExecuteDefinite
    <3>2. c[i].lhs.var = PhiVar'
      BY <2>2, <2>3
    <3>3. DefiniteGenInv'
      BY <2>1, <3>1, <3>2 DEF DefiniteGenInv
    <3> QED
      BY <2>1, <2>2, <2>3, <2>4, <3>1, <3>2, <3>3 DEF MustInv, Taken
  <2>5. CASE ~taken
    BY <2>1, <2>2, <2>3, <2>5 DEF MustInv, Taken, DefiniteGenInv, ExecuteOne
  <2> QED
    BY <2>4, <2>5
<1>6. CASE PhiArgument \/ PhiEnd
  <2> DEFINE t == args[1]
             h == StmtGen(p, t)
             g == MergePointsTo(gen, h)
             kill == StmtKill(p, t)
  <2>1. args # <<>> /\ 1 \in DOMAIN args /\ DOMAIN args = 1..Len(args) /\ Len(args) \in Nat
    BY <1>0, <1>6 DEF PhiArgument, PhiEnd
  <2>2. t \in Constraint /\ WellTyped(may, t)
        /\ t.lhs = [type |-> SCALAR, var |-> PhiVar] /\ t.rhs.type # DEREF /\ PhiVar # k
    BY <2>1, <1>0, <1>1 DEF PhiInv, MustInv
  <2>3. /\ PhiVar \in Var /\ DOMAIN h = {PhiVar} /\ TidyVal(h)
        /\ kill /\ kill \in BOOLEAN
    BY <2>2, <1>3
  <2>4. DOMAIN gen \in {{}, {PhiVar}} /\ DefiniteGenInv
    BY <2>1 DEF MustInv
  <2>5. DOMAIN g = {PhiVar}
    <3>1. DOMAIN g = DOMAIN gen \cup DOMAIN h
      BY <2>3, <2>4 DEF MergePointsTo
    <3> QED
      BY <2>3, <2>4, <3>1
  <2>6. (\/ DOMAIN gen = {PhiVar} /\ Definite(gen[PhiVar], store[PhiVar])
         \/ Definite(h[PhiVar], store[PhiVar]))
           => Definite(g[PhiVar], store[PhiVar])
    BY <2>3, <2>4, <1>0, MergeDefinite
  <2> HIDE DEF h, g, kill
  <2>7. CASE PhiArgument
    <3>1. /\ gen' = g /\ args' = Tail(args) /\ Len(args) > 1
          /\ UNCHANGED <<store, p, q, forked, taken>>
      <4>1. Head(args) = args[1]
        BY <2>1
      <4> QED
        BY <4>1, <2>7 DEF PhiArgument, g, h
    <3>2. /\ DOMAIN args' = 1..(Len(args) - 1)
          /\ \A i \in DOMAIN args' : i + 1 \in DOMAIN args /\ args'[i] = args[i+1]
          /\ 1 \in DOMAIN args'
      BY <3>1, <2>1, <1>0
    <3>3. args' # <<>>
      BY <3>2
    <3>4. PhiVar' = PhiVar
      BY <3>2, <1>1 DEF PhiInv, PhiVar
    <3>5. ASSUME taken
          PROVE  \/ Definite(g[PhiVar], store[PhiVar])
                 \/ \E i \in DOMAIN args' :
                       Definite(StmtGen(p, args'[i])[PhiVar], store[PhiVar])
      <4>1. CASE DOMAIN gen = {PhiVar} /\ Definite(gen[PhiVar], store[PhiVar])
        BY <4>1, <2>6
      <4>2. ASSUME NEW i \in DOMAIN args,
                   Definite(StmtGen(p, args[i])[PhiVar], store[PhiVar])
            PROVE  \/ Definite(g[PhiVar], store[PhiVar])
                   \/ \E j \in DOMAIN args' :
                         Definite(StmtGen(p, args'[j])[PhiVar], store[PhiVar])
        <5>1. CASE i = 1
          BY <5>1, <4>2, <2>6 DEF h
        <5>2. CASE i # 1
          <6>1. i - 1 \in 1..(Len(args) - 1) /\ (i - 1) + 1 = i
            BY <5>2, <2>1
          <6>2. i - 1 \in DOMAIN args' /\ args'[i - 1] = args[i]
            BY <6>1, <3>2
          <6> QED
            BY <6>2, <4>2
        <5> QED
          BY <5>1, <5>2
      <4> QED
        BY <4>1, <4>2, <2>4, <3>5 DEF DefiniteGenInv
    <3>6. DefiniteGenInv' /\ DOMAIN gen' \in {{}, {PhiVar'}}
      BY <3>1, <3>4, <3>5, <2>5 DEF DefiniteGenInv
    <3>7. \A i \in DOMAIN args' : args'[i].lhs.var # k /\ args'[i].rhs.type # DEREF
      BY <3>2 DEF MustInv
    <3> QED
      BY <2>1, <3>1, <3>3, <3>4, <3>6, <3>7 DEF MustInv, Taken
  <2>8. CASE PhiEnd
    <3>1. /\ p' = ComputePointsToOut(p, g, kill) /\ args' = <<>>
          /\ Len(args) = 1 /\ UNCHANGED <<store, q, forked, taken>>
      BY <2>8 DEF PhiEnd, g, h, kill
    <3>2. k \in DOMAIN p'
      BY <2>2, <2>3, <2>5, <3>1, OutDefinite DEF MustInv
    <3>3. ASSUME taken PROVE DefiniteFor(p', store, Var)
      <4>1. DefiniteFor(p, store, Var \ {PhiVar})
        BY <2>1, <3>3 DEF MustInv, Taken
      <4>2. DOMAIN args = {1}
        BY <2>1, <3>1
      <4>3. Definite(g[PhiVar], store[PhiVar])
        BY <4>2, <2>4, <2>6, <3>3 DEF DefiniteGenInv, h
      <4> QED
        BY <4>1, <4>3, <2>3, <2>5, <3>1, OutDefinite
    <3>4. DefiniteFor(Taken', store', Var)
      BY <3>1, <3>3, <2>1 DEF MustInv, Taken
    <3> QED
      BY <3>1, <3>2, <3>4 DEF MustInv
  <2> QED
    BY <1>6, <2>7, <2>8
<1>7. CASE Fork
  BY <1>7, <1>1 DEF Fork, MustInv, Taken
<1>8. CASE Switch
  BY <1>8, <1>0, <1>1 DEF Switch, MustInv, Taken
<1>9. CASE Join
  <2>1. /\ args = <<>> /\ forked /\ p' = MergePointsTo(p, q)
        /\ forked' = FALSE /\ taken' = TRUE /\ UNCHANGED <<store, args, gen>>
    BY <1>9 DEF Join
  <2>2. k \in DOMAIN p /\ k \in DOMAIN q /\ DefiniteFor(Taken, store, Var)
    BY <2>1 DEF MustInv
  <2>3. DefiniteFor(p', store, Var)
    BY <2>1, <2>2, <1>0, MergeDefiniteFor DEF Taken
  <2>4. k \in DOMAIN p'
    BY <2>1, <2>2 DEF MergePointsTo
  <2> QED
    BY <2>1, <2>3, <2>4 DEF MustInv, Taken
<1>10. CASE UNCHANGED vars
  BY <1>10 DEF vars, MustInv, DefiniteGenInv, PhiVar, Taken
<1> QED
  BY <1>4, <1>5, <1>6, <1>7, <1>8, <1>9, <1>10 DEF Next

(* MustIsDefinite: in a program without loads and stores, in which some     *)
(* initialised pointer is never assigned, a must-pointee is where the       *)
(* pointer points on every execution, whatever order the branches and the   *)
(* arguments of a PHI are worked through (copy_pointsto_to_succ, the        *)
(* prepending of undef in merge_pointsto_info).                             *)
THEOREM MustPointees ==
    ASSUME NEW may, TypedPrograms(may)
    PROVE  Spec => []MustIsDefinite
<1> DEFINE Must == \A k \in Var : ScalarProgram(k) => MustInv(k)
<1>1. Init => SoundInv(may) /\ Must
  BY InitSound, InitMust
<1>2. ASSUME IInv, SoundInv(may), Must, [Next]_vars
      PROVE  SoundInv(may)' /\ Must'
  <2>1. family' = family
    BY <1>2 DEF Next, vars, Assignment, PhiBegin, PhiArgument, PhiEnd, Fork, Switch, Join
  <2>2. \A k \in Var : ScalarProgram(k)' => ScalarProgram(k)
    BY <2>1 DEF ScalarProgram
  <2>3. ASSUME NEW k \in Var, ScalarProgram(k)
        PROVE  MustInv(k)'
    BY <1>2, <2>3, NextMust
  <2> QED
    BY <1>2, <2>2, <2>3, NextSound
<1>3. IInv /\ Must => MustIsDefinite
  <2> SUFFICES ASSUME IInv, NEW k \in Var, MustInv(k), args = <<>>
               PROVE  \A v \in DOMAIN Taken : IsSingleton(Taken[v]) => store[v] \in Taken[v]
    BY DEF MustIsDefinite
  <2> QED
    BY DEF IInv, TypeOK, IsPointsToVal, MustInv, DefiniteFor, Taken
<1> QED
  BY <1>1, <1>2, <1>3, Invariant, PTL DEF Spec
=============================================================================

---------------------------- MODULE StraightLine ----------------------------
(***************************************************************************)
(* Two straight-line branches of a program that meet: the points-to value  *)
(* find_pointsto_pair computes along each, statement by statement, the     *)
(* confluence propagate_pointsto_to_all_succs merges them with, and a      *)
(* concrete execution of the one branch that is really taken.              *)
(*                                                                         *)
(* The execution is what the analysis is about.  One that dereferences     *)
(* anything but a variable's address is outside the analysed language and  *)
(* goes no further.                                                        *)
(***************************************************************************)
EXTENDS Execution

(***************************************************************************)
(* Families of programs: chains are the constraint chains they consist of, *)
(* each one constraint or the arguments of a PHI; entries are the stores   *)
(* they may start with; bound is the number of statements of all branches  *)
(* together.                                                               *)
(***************************************************************************)
CONSTANT Families

ASSUME FamiliesAssumption ==
    \A f \in Families :
        /\ \A c \in f.chains : c \in Seq(Constraint) /\ Len(c) > 0
        /\ f.entries \subseteq [Var -> Id]

VARIABLES
    family,  \* what the program is one of
    store,   \* the execution
    p,       \* the points-to value of the branch the analysis is in
    q,       \* the points-to value of the other branch
    forked,  \* whether there is another branch
    taken,   \* whether the execution is in the branch the analysis is in
    args,    \* the arguments left of the PHI the analysis is at
    gen,     \* the aggregated GEN of the arguments so far
    stmts    \* statements so far

vars == <<family, store, p, q, forked, taken, args, gen, stmts>>

-----------------------------------------------------------------------------
(* What the entry of the procedure knows: the initialised pointers. *)
EntryVal(s) == [v \in {u \in Var : s[u] # Undefined} |-> {s[v]}]

-----------------------------------------------------------------------------
Init ==
    /\ family \in Families
    /\ store \in family.entries
    /\ p = EntryVal(store)
    /\ q = EmptyVal
    /\ forked = FALSE
    /\ taken = TRUE
    /\ args = <<>>
    /\ gen = EmptyVal
    /\ stmts = 0

(* The execution comes to a PHI with one of its arguments.                 *)
ExecuteOne(c) ==
    IF taken
    THEN \E i \in DOMAIN c :
            /\ Executable(store, c[i])
            /\ \E value \in Values(store, c[i].rhs) :
                  store' = Execute(store, c[i], value)
    ELSE UNCHANGED store

NextStatement ==
    /\ args = <<>>
    /\ stmts < family.bound
    /\ stmts' = stmts + 1

(* A chain of one constraint: compute_stmt_out. *)
Assignment(c) ==
    /\ NextStatement
    /\ Len(c) = 1
    /\ ExecuteOne(c)
    /\ p' = StmtOut(p, c[1])
    /\ UNCHANGED <<family, q, forked, taken, args, gen>>

(* A longer chain: the loop over the arguments starts with no GEN. *)
PhiBegin(c) ==
    /\ NextStatement
    /\ Len(c) > 1
    /\ ExecuteOne(c)
    /\ args' = c
    /\ gen' = EmptyVal
    /\ UNCHANGED <<family, p, q, forked, taken>>

(* compute_phi_gen for one argument that is not the last. *)
PhiArgument ==
    /\ Len(args) > 1
    /\ gen' = MergePointsTo(gen, StmtGen(p, Head(args)))
    /\ args' = Tail(args)
    /\ UNCHANGED <<family, store, p, q, forked, taken, stmts>>

(* The last argument, and compute_pointsto_out_1 after the loop. *)
PhiEnd ==
    /\ Len(args) = 1
    /\ p' = ComputePointsToOut(p, MergePointsTo(gen, StmtGen(p, args[1])),
                               StmtKill(p, args[1]))
    /\ args' = <<>>
    /\ gen' = EmptyVal
    /\ UNCHANGED <<family, store, q, forked, taken, stmts>>

(* The block ends with a condition: both successors get its value. *)
Fork ==
    /\ args = <<>>
    /\ ~forked
    /\ forked' = TRUE
    /\ q' = p
    /\ UNCHANGED <<family, store, p, taken, args, gen, stmts>>

(* The worklist turns to a block of the other branch. *)
Switch ==
    /\ args = <<>>
    /\ forked
    /\ p' = q
    /\ q' = p
    /\ taken' = ~taken
    /\ UNCHANGED <<family, store, forked, args, gen, stmts>>

(* The branches meet; this one reached the common block first. *)
Join ==
    /\ args = <<>>
    /\ forked
    /\ p' = MergePointsTo(p, q)
    /\ q' = EmptyVal
    /\ forked' = FALSE
    /\ taken' = TRUE
    /\ UNCHANGED <<family, store, args, gen, stmts>>

Next ==
    \/ \E c \in family.chains : Assignment(c)
    \/ \E c \in family.chains : PhiBegin(c)
    \/ PhiArgument
    \/ PhiEnd
    \/ Fork
    \/ Switch
    \/ Join

Spec == Init /\ [][Next]_vars

-----------------------------------------------------------------------------
(* Programs of well-typed statements. *)
TypedPrograms(may) ==
    /\ Typing(may)
    /\ \A f \in Families :
          /\ \A c \in f.chains : TypedChain(may, c)
          /\ \A s \in f.entries : TypedStore(may, s)

(* Programs without loads and stores in which the pointer k is initialised *)
(* before the entry and never assigned, so that no value is ever empty.    *)
ScalarProgram(k) ==
    /\ \A c \in family.chains : \A i \in DOMAIN c :
          c[i].lhs.type = SCALAR /\ c[i].lhs.var # k /\ c[i].rhs.type # DEREF
    /\ \A s \in family.entries : s[k] # Undefined

-----------------------------------------------------------------------------
(* The value of the branch the execution is in. *)
Taken == IF taken THEN p ELSE q

TypeOK ==
    /\ family \in Families
    /\ store \in [Var -> Id]
    /\ IsPointsToVal(p) /\ IsPointsToVal(q) /\ IsPointsToVal(gen)
    /\ forked \in BOOLEAN
    /\ taken \in BOOLEAN
    /\ args \in Seq(Constraint)
    /\ stmts \in Nat

(* Every value the analysis computes is in normal form: no pointer is kept *)
(* with no pointee or with undef alone, and undef never stands beside two  *)
(* others, so that the test "exactly one bit" decides what is killed.      *)
Normal == NormalVal(p) /\ NormalVal(q)

(* The analysis is sound: after every statement, a variable the execution  *)
(* initialised points where the value says it may point.                   *)
Sound ==
    args = <<>> =>
        \A v \in Var : store[v] # Undefined => store[v] \in Pointees(Taken, v)

(* A must-pointee is the pointee on every execution, the uninitialised     *)
(* pointer included: that is why the confluence prepends undef, and what   *)
(* lets compute_stmt_out overwrite the target of a store.                  *)
MustIsDefinite ==
    args = <<>> /\ (\E k \in Var : ScalarProgram(k)) =>
        \A v \in DOMAIN Taken : IsSingleton(Taken[v]) => store[v] \in Taken[v]

(* Two values that both know something have one confluence: the result     *)
(* does not depend on the order in which the worklist delivers them.       *)
JoinOrderIrrelevant ==
    forked /\ DOMAIN p # {} /\ DOMAIN q # {} =>
        MergePointsTo(p, q) = MergePointsTo(q, p)

(* Where branches meet nothing is lost, whichever value came first, and no *)
(* pointer becomes a must-pointee: the values at IN only grow, on which    *)
(* the termination of the worklist rests (merge_pointsto_info).            *)
JoinLosesNothing ==
    [][forked /\ ~forked' => AtLeast(p, p') /\ AtLeast(q, p')]_vars
=============================================================================

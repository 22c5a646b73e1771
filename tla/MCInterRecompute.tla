-------------------------- MODULE MCInterRecompute --------------------------
(***************************************************************************)
(* Families of programs of several functions that dereference pointers to  *)
(* a and b, pointers to objects themselves: in a callee, through a         *)
(* parameter, and in the caller, through what a callee has set.  Only      *)
(* blocks that are not the first one of a function dereference.            *)
(***************************************************************************)
EXTENDS MCInterPointsTo, InterRecompute

Load(v, u) == <<[alias |-> TRUE,
                 chain |-> <<[lhs |-> [type |-> SCALAR, var |-> v],
                              rhs |-> [type |-> DEREF, var |-> u, off |-> FALSE]]>>]>>

StoreAddr(v, u) == <<[alias |-> TRUE,
                      chain |-> <<[lhs |-> [type |-> DEREF, var |-> v],
                                   rhs |-> [type |-> ADDRESSOF, var |-> u, off |-> FALSE]]>>]>>

(* A function that dereferences in its second block, ... *)
Passing(codes, local) ==
    {Body(<<{2}, {3}, {}>>, <<c[1], c[2], None>>, << >>, << >>, {local, t1}) : c \in codes}

(* ... which is passed by, or is in a loop.                                *)
Perhaps(bodies) == {[o EXCEPT !.succ[1] = {2, 3}] : o \in bodies}
Repeating(bodies) == {[o EXCEPT !.succ[2] = {2, 3}] : o \in bodies}

Loads(u)  == {<<c, Load(t1, u) \o Use({t1})>> : c \in {None, Addr(a, o2)}}
Stores(u) == {<<c, StoreAddr(u, o2)>> : c \in {None, Use({b})}}

Derefs(codes, local) ==
    LET bodies == Passing(codes, local)
    IN  Void(bodies \cup Perhaps(bodies) \cup Repeating(bodies))

(* main calls f with two pointers, one after the other.                     *)
Pointed2(args, codes, ends) ==
    Void({Body(<<{2}, {3}, {4}, {5}, {6}, {7}, {8}, {}>>,
               <<Addr(a, o1) \o Addr(b, o1), arg[1], None, c, arg[2], None, e, None>>,
               2 :> "f" @@ 5 :> "f", 2 :> {} @@ 5 :> {}, {x}) :
            arg \in args, c \in codes, e \in ends})

Same == {<<Addr(p, v), Addr(p, v)>> : v \in {a, b}}
Mixed == {<<Addr(p, v), Addr(p, u)>> : v \in {a, b}, u \in {a, b}}

Readers == {Use({a}), Use({b})}

Loaded == Two(Pointed2(Same, {None}, Readers) \cup FirstInLoop(Pointed2(Same, {None}, Readers)),
              Derefs(Loads(p), p))
Stored == Two(Pointed2(Mixed, {None, Addr(a, o2)}, Readers)
                 \cup FirstInLoop(Pointed2(Mixed, {None, Addr(a, o2)}, Readers)),
              Derefs(Stores(p), p))

(* main dereferences the global q after a call of f, which may set it, and  *)
(* what f calls.                                                            *)
After ==
    LET m == {Body(<<{2}, {3}, {4}, {5}, {6}, {}>>,
                   <<Addr(a, o1) \o Addr(b, o1) \o Addr(q, v), None, None, c, l, None>>,
                   2 :> "f", 2 :> {}, {x}) :
                v \in {a, b}, c \in {None, Addr(a, o2)},
                l \in {Load(x, q) \o Use({x}), StoreAddr(q, o2) \o Use({a})}}
    IN  Void(m \cup {[o EXCEPT !.succ[5] = {2, 6}] : o \in m})

Setters == Leaf({Addr(q, a), Addr(q, b), None}, {None, Addr(a, o2)}, p)

SetByCallee == Two(After, Void(Setters))

(* g, which f calls, dereferences the global q. *)
Deep ==
    Three(Void({Body(<<{2}, {3}, {4}, {5}, {}>>,
                   <<Addr(a, o1) \o Addr(b, o1) \o Addr(q, v), None, None, e, None>>,
                   2 :> "f", 2 :> {}, {x}) : v \in {a, b}, e \in Readers}),
          Void(Calling("g", {None}, {None, Addr(b, o2)}, {None, Addr(q, a)}, p)
                  \cup CallingAtStart("g", {None}, {None, Addr(q, b)}, p)),
          Derefs(Loads(q) \cup Stores(q), t2))

(* g sets q, and f dereferences it after the call. *)
DeepAfter ==
    Three(Void({Body(<<{2}, {3}, {4}, {5}, {}>>,
                   <<Addr(a, o1) \o Addr(b, o1) \o Addr(q, v), None, None, e, None>>,
                   2 :> "f", 2 :> {}, {x}) : v \in {a, b}, e \in Readers}),
          Void(Calling("g", {None}, {None, Addr(b, o2)}, {Load(p, q) \o Use({p})}, p)
                  \cup CallingAtStart("g", {None}, {Load(p, q) \o Use({p})}, p)),
          Void(Setters))

RecomputePrograms == Loaded \cup Stored \cup SetByCallee \cup Deep \cup DeepAfter
AllPrograms == PtaPrograms \cup RecomputePrograms
=============================================================================

--------------------------- MODULE MCInterLiveness ---------------------------
(***************************************************************************)
(* Families of programs of two and three functions with one choice of code *)
(* for every block that may have some: two globals a and b, a local x of   *)
(* main, a parameter p of f and q of g.                                    *)
(***************************************************************************)
EXTENDS InterLiveness

a == 5
b == 6
x == 7
p == 8
q == 9

MCVar == {a, b, x, p, q}
MCFn  == {"main", "f", "g"}

Use(vs)    == <<[alias |-> FALSE, uses |-> vs]>>
Copy(v, u) == <<[alias |-> TRUE,
                 chain |-> <<[lhs |-> [type |-> SCALAR, var |-> v],
                              rhs |-> [type |-> SCALAR, var |-> u, off |-> FALSE]]>>]>>
Kill(v)    == <<[alias |-> TRUE,
                 chain |-> <<[lhs |-> [type |-> SCALAR, var |-> v],
                              rhs |-> [type |-> ADDRESSOF, var |-> x, off |-> FALSE]]>>]>>

None == <<>>

Body(succ, code, callee, result, local) ==
    [succ |-> succ, code |-> code, callee |-> callee, result |-> result, local |-> local]

(* The end block of a function has nothing but its return statement. *)
Return(v) == Use({v})

(* A function without calls. *)
Leaf(codes, ends, local) ==
    {Body(<<{2}, {}>>, <<c \o e, None>>, << >>, << >>, {local}) : c \in codes, e \in ends}

(* A function of one block. *)
Single(codes, local) == {Body(<<{}>>, <<c>>, << >>, << >>, {local}) : c \in codes}

(* A function that calls once, in a block of its own or in its first one. *)
Calling(h, args, codes, ends, local) ==
    {Body(<<{2}, {3}, {4}, {5}, {}>>, <<c, arg, None, e, None>>, 2 :> h, 2 :> {}, {local}) :
        c \in codes, arg \in args, e \in ends}

CallingAtStart(h, args, ends, local) ==
    {Body(<<{2}, {3}, {4}, {}>>, <<arg, None, e, None>>, 1 :> h, 1 :> {}, {local}) :
        arg \in args, e \in ends}

(* main calls h1 and then h2; between them code, and after them an end. *)
Sequence(h1, h2, args, codes, ends) ==
    {Body(<<{2}, {3}, {4}, {5}, {6}, {7}, {8}, {}>>,
          <<None, arg1, None, c, arg2, None, e, None>>,
          2 :> h1 @@ 5 :> h2, 2 :> {x} @@ 5 :> {}, {x}) :
        arg1 \in args, arg2 \in args, c \in codes, e \in ends}

(* The first call is in a loop. *)
Repeated(h1, h2, args, codes, ends) ==
    {[m EXCEPT !.succ[4] = {2, 5}] : m \in Sequence(h1, h2, args, codes, ends)}

(* Both calls are in a loop. *)
Looped(h1, h2, args, codes, ends) ==
    {Body(<<{2}, {3}, {4}, {5}, {6}, {7}, {2, 8}, {9}, {}>>,
          <<None, arg1, None, c, arg2, None, None, e, None>>,
          2 :> h1 @@ 5 :> h2, 2 :> {} @@ 5 :> {}, {x}) :
        arg1 \in args, arg2 \in args, c \in codes, e \in ends}

(* One of the two calls is made. *)
Choice(h1, h2, args, ends) ==
    {Body(<<{2, 4}, {3}, {6}, {5}, {6}, {7}, {}>>,
          <<None, arg1, None, arg2, None, e, None>>,
          2 :> h1 @@ 4 :> h2, 2 :> {} @@ 4 :> {}, {x}) :
        arg1 \in args, arg2 \in args, e \in ends}

(* The call of h can be passed by. *)
Optional(h, args, codes, ends, local) ==
    {Body(<<{2, 4}, {3}, {4}, {5}, {}>>, <<c, arg, None, e, None>>,
          2 :> h, 2 :> {}, {local}) :
        c \in codes, arg \in args, e \in ends}

Two(mains, fs) == {"main" :> m @@ "f" :> f : m \in mains, f \in fs}
Three(mains, fs, gs) ==
    {"main" :> m @@ "f" :> f @@ "g" :> g : m \in mains, f \in fs, g \in gs}

Codes == {None, Use({a}), Kill(a), Copy(a, b)}
EndCodes  == {Use({a}), Use({b, x})}
Args  == {Copy(p, x), Copy(p, a)}

MainCallsF ==
    Two(Sequence("f", "f", Args, Codes, EndCodes) \cup Repeated("f", "f", Args, Codes, EndCodes),
        Leaf({None, Copy(a, p), Copy(b, a)}, {None, Kill(b)}, p)
           \cup Single({None, Return(p)}, p))

MainCallsFCallsG ==
    Three(Sequence("f", "f", {Copy(p, x)}, Codes, EndCodes)
             \cup Repeated("f", "f", {Copy(p, x)}, Codes, EndCodes),
          Calling("g", {Copy(q, p)}, {None, Copy(b, a)}, {None, Kill(a)}, p)
             \cup CallingAtStart("g", {Copy(q, p)}, {None, Kill(a)}, p),
          Leaf({Copy(a, q)}, {None, Kill(b)}, q))

MainCallsBoth ==
    Three(Choice("f", "g", {None}, EndCodes) \cup Choice("g", "f", {None}, EndCodes),
          Calling("g", {None}, {None, Kill(a)}, {None, Copy(b, a)}, p)
             \cup CallingAtStart("g", {None}, {None, Kill(b)}, p),
          Leaf({None, Copy(b, a)}, {None, Kill(b)}, q))

(* f is called in a loop, by main and by g. *)
MainCallsBothLoop ==
    Three(Looped("g", "f", {Copy(q, a), None}, Codes, EndCodes),
          Leaf({None}, {None, Kill(b)}, p),
          CallingAtStart("f", {None}, {None, Kill(b)}, q))

(* A choice in a loop, so that f is on the list before g, which calls it.   *)
MainChoosesLoop ==
    Three({Body(<<{2}, {3, 5}, {4}, {8}, {6}, {7}, {8}, {2, 9}, {10}, {}>>,
                <<None, c, None, None, None, None, k, None, e, None>>,
                3 :> "f" @@ 5 :> "g", 3 :> {} @@ 5 :> {}, {x}) :
             c \in Codes, k \in Codes, e \in EndCodes},
          Leaf({None}, {None, Kill(b)}, p),
          Calling("f", {None}, {None}, {None, Kill(b)}, q)
             \cup CallingAtStart("f", {None}, {None, Kill(b)}, q))

MCPrograms == MainCallsF \cup MainCallsFCallsG \cup MainCallsBoth
                \cup MainCallsBothLoop \cup MainChoosesLoop

(* Recursion: f calls itself, or g, which calls f. *)
Recursive ==
    Two(Sequence("f", "f", {None}, Codes, EndCodes),
        Optional("f", {None}, {None, Copy(b, a)}, {None, Kill(a)}, p))

Mutual ==
    Three(Sequence("f", "g", {None}, {None, Kill(a)}, {Use({a})}),
          Optional("g", {None}, {None, Copy(b, a)}, {None, Kill(a)}, p),
          Optional("f", {None}, {None, Copy(a, b)}, {None}, q))

Loops ==
    Three(Looped("g", "f", {Copy(q, a)}, {None, Copy(a, b)}, EndCodes),
          Leaf({None}, {None, Kill(b)}, p),
          CallingAtStart("f", {None}, {None, Kill(b)}, q))

TerminationPrograms == Recursive \cup Mutual \cup Loops
=============================================================================

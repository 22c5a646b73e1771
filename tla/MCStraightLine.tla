--------------------------- MODULE MCStraightLine ---------------------------
(***************************************************************************)
(* Small well-typed programs: two objects, two pointers to them and, where *)
(* a run needs it, a pointer to the pointers.                              *)
(***************************************************************************)
EXTENDS StraightLine

o1 == 3
o2 == 4
x  == 5
y  == 6
z  == 7

MCVar == {o1, o2, x, y, z}

Scalar(v)    == [type |-> SCALAR, var |-> v]
Deref(v)     == [type |-> DEREF, var |-> v]
AddrOf(v)    == [type |-> ADDRESSOF, var |-> v, off |-> FALSE]
Copy(v)      == [type |-> SCALAR, var |-> v, off |-> FALSE]
Load(v)      == [type |-> DEREF, var |-> v, off |-> FALSE]
Arith(v)     == [type |-> SCALAR, var |-> v, off |-> TRUE]

Assign(l, r) == <<[lhs |-> l, rhs |-> r]>>

Ptrs == {x, y}
Objs == {o1, o2}

Scalars ==
    {Assign(Scalar(v), AddrOf(o)) : v \in Ptrs, o \in Objs}
        \cup {Assign(Scalar(x), Copy(y)), Assign(Scalar(y), Copy(x)),
              Assign(Scalar(y), AddrOf(nothing_id)), Assign(Scalar(x), Arith(y))}

Loads  == {Assign(Scalar(x), Load(z))}
Stores ==
    {Assign(Deref(z), AddrOf(o2)), Assign(Deref(z), Copy(x)), Assign(Deref(z), Copy(y))}
Links  == {Assign(Scalar(z), AddrOf(v)) : v \in Ptrs}
Phis   == {Assign(Scalar(x), Copy(y)) \o Assign(Scalar(x), AddrOf(o1)),
           Assign(Scalar(z), AddrOf(y)) \o Assign(Scalar(z), Copy(z))}

AllChains    == Scalars \cup Loads \cup Stores \cup Links \cup Phis
ScalarChains == Scalars \cup {Assign(Scalar(x), Copy(y)) \o Assign(Scalar(x), AddrOf(o1))}

Uninitialised == [v \in MCVar |-> undef_id]

MCFamily(chains, entry, bound) == [chains |-> chains, entries |-> {entry}, bound |-> bound]

(* Programs of all statements that start with nothing initialised, and      *)
(* longer ones without loads and stores in which a global is.              *)
MCFamilies ==
    {MCFamily(AllChains, Uninitialised, 5),
     MCFamily(ScalarChains, [Uninitialised EXCEPT ![z] = x], 7)}

(* Longer ones in which the first branch at a join may know nothing.       *)
EntryEmpty == {MCFamily(ScalarChains, Uninitialised, 7)}

(* What the types let a variable point to. *)
MCMayPoint == [v \in MCVar |-> IF v \in Ptrs THEN Objs ELSE IF v = z THEN Ptrs ELSE {}]

ASSUME TypedProgramsAssumption == TypedPrograms(MCMayPoint)
=============================================================================

---------------------------- MODULE CallstringMap ----------------------------
(***************************************************************************)
(* The callstring map of a function, for liveness: contexts that reach the *)
(* end block with the same set of live variables share a row, and only the *)
(* lhs of a row, its representative, is taken through the function.  The   *)
(* start block then hands the lhs's result to the contexts of its rhs.     *)
(*                                                                         *)
(* A map m is [rows, required, out]: rows maps the lhs of each row to its  *)
(* present_in_out flag, its rhs, a function from the contexts in it to     *)
(* their flags, and nr, by which the rows are ordered, the highest, the    *)
(* latest one, first; required is lcsmap_required; out is the list at OUT  *)
(* of the end block, whose members the code shares with the rows.          *)
(***************************************************************************)
EXTENDS FiniteSetsExt, Sequences

NoRows == << >>

(* The function f without c, with the value e for c, and over another one. *)
Without(f, c) == [d \in DOMAIN f \ {c} |-> f[d]]

With(f, c, e) == [d \in DOMAIN f \cup {c} |-> IF d = c THEN e ELSE f[d]]

Over(f, g) == [d \in DOMAIN f \cup DOMAIN g |-> IF d \in DOMAIN f THEN f[d] ELSE g[d]]

(* All contexts in the map, and the lhs of the row a context is in. *)
Mapped(rows) == DOMAIN rows \cup UNION {DOMAIN rows[l].rhs : l \in DOMAIN rows}

LhsOf(rows, c) ==
    IF c \in DOMAIN rows THEN c ELSE CHOOSE l \in DOMAIN rows : c \in DOMAIN rows[l].rhs

(* The rows, other than c's own, whose value is that of c. *)
SameValue(m, c) == {l \in DOMAIN m.rows \ {c} : m.out[l].linfo = m.out[c].linfo}

NextNr(rows) == 1 + Max({0} \cup {rows[l].nr : l \in DOMAIN rows})

(* Joins the first row there is. *)
PutIntoMapFault(m, c, present) ==
    IF m.rows = NoRows
    THEN [m EXCEPT !.rows = With(@, c, [present |-> present, rhs |-> << >>, nr |-> 1])]
    ELSE LET l == CHOOSE d \in DOMAIN m.rows : TRUE
         IN  [m EXCEPT !.required = TRUE, !.rows[l].rhs = With(@, c, present)]

(* Puts a context into the map that is not in it: into a row of its own, or *)
(* into the rhs of the row with its value, or as the lhs of that row in     *)
(* exchange for the old one.                                                *)
PutIntoMap(m, c, present) ==
    IF SameValue(m, c) = {}
    THEN [m EXCEPT !.rows =
             With(@, c, [present |-> present, rhs |-> << >>, nr |-> NextNr(@)])]
    ELSE LET l   == CHOOSE d \in SameValue(m, c) : TRUE
             row == m.rows[l]
             joined ==
                IF m.out[l].new_lvdf /\ ~row.present /\ present
                THEN With(Without(m.rows, l), c,
                          [row EXCEPT !.present = TRUE, !.rhs = With(@, l, FALSE)])
                ELSE [m.rows EXCEPT ![l].rhs = With(@, c, present)]
         IN  [m EXCEPT !.rows = joined, !.required = TRUE]

(* modify_lcsmap_1: the value of the lhs c has changed.  If no other row    *)
(* has the new value the whole row takes it, whatever the values of its     *)
(* rhs; otherwise the row is merged into the other one.                     *)
ChangeLhs(m, c) ==
    LET moved == m.rows[c].rhs
    IN  IF SameValue(m, c) = {}
        THEN [m EXCEPT !.required = @ \/ moved # << >>]
        ELSE LET l == CHOOSE d \in SameValue(m, c) : TRUE
                 again == IF m.out[l].new_lvdf THEN {} ELSE DOMAIN moved
                 merged ==
                    [m EXCEPT
                        !.rows = [Without(m.rows, c) EXCEPT ![l].rhs = Over(moved, @)],
                        !.out = [d \in DOMAIN @ |->
                            IF d \in again THEN [@[d] EXCEPT !.new_lvdf = TRUE] ELSE @[d]]]
             IN  PutIntoMap(merged, c, m.rows[c].present)

(* The context stays in its old row. *)
ChangeRhsFault(m, c) == PutIntoMap(m, c, m.rows[LhsOf(m.rows, c)].rhs[c])

(* The value of the context c, in some rhs, has changed. *)
ChangeRhs(m, c) ==
    LET l == LhsOf(m.rows, c)
    IN  PutIntoMap([m EXCEPT !.rows[l].rhs = Without(@, c)], c, m.rows[l].rhs[c])

(* modify_lcsmap_at_endblock for a context whose member of OUT is in place  *)
(* and has its new_lvdf flag set.  The flag is always set by then, and the  *)
(* lhs of a row is that very member: modify_lcsmap_2, which would choose    *)
(* another lhs for the rest of the row, is never called.                    *)
ModifyLcsmapAtEndblock(m, c, is_new) ==
    CASE is_new -> PutIntoMap(m, c, FALSE)
      [] ~is_new /\ c \in DOMAIN m.rows -> ChangeLhs(m, c)
      [] ~is_new /\ c \notin DOMAIN m.rows -> ChangeRhs(m, c)
=============================================================================

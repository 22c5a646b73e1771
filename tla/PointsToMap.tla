----------------------------- MODULE PointsToMap -----------------------------
(***************************************************************************)
(* The callstring map of a function for points-to information, pcsmap: the *)
(* contexts that reach the start block with the same points-to value share *)
(* a row, only the lhs of a row is taken through the function, and the end *)
(* block hands the lhs's result to the contexts of its rhs.                *)
(*                                                                         *)
(* A map m is [rows, required, in, out, caller]: rows is the sequence of   *)
(* rows, the latest first, each with an lhs, its present_in_out flag and   *)
(* an rhs, a sequence of [el, present]; required is pcsmap_required; in is *)
(* the list at IN of the start block, whose members lhs and el stand for   *)
(* by id; out is the list at OUT of the end block and caller that at OUT   *)
(* of the call block being processed.                                      *)
(***************************************************************************)
EXTENDS ContextLists

Member(m, id) == m.in[Index(m.in, id)]

RhsIds(row) == {row.rhs[j].el : j \in DOMAIN row.rhs}

MappedIds(rows) == UNION {{rows[i].lhs} \cup RhsIds(rows[i]) : i \in DOMAIN rows}

First(S) == IF S = {} THEN 0 ELSE Min(S)

(* The first other row, whatever its value. *)
RowOfFault(m, id, i) == First(DOMAIN m.rows \ {i})

(* The first row, but for row i, whose lhs has the value of member id.     *)
RowOf(m, id, i) ==
    First({j \in DOMAIN m.rows \ {i} :
              Member(m, m.rows[j].lhs).pinfo = Member(m, id).pinfo})

(* exchange_csmap_entries *)
Exchange(row, j) ==
    [row EXCEPT !.lhs = row.rhs[j].el, !.present = row.rhs[j].present,
                !.rhs[j] = [el |-> row.lhs, present |-> row.present]]

(* Puts member id in the rhs of row k, or in exchange for its lhs. *)
JoinRow(m, k, id, present) ==
    LET row == [m.rows[k] EXCEPT !.rhs = <<[el |-> id, present |-> present]>> \o @]
        new == Member(m, row.lhs).new_ptadf
    IN  [m EXCEPT !.rows[k] = IF new /\ ~row.present /\ present
                              THEN Exchange(row, 1) ELSE row,
                  !.required = TRUE]

AddToMap(m, id, present) ==
    LET k == RowOf(m, id, 0)
    IN  IF k # 0 THEN JoinRow(m, k, id, present)
        ELSE [m EXCEPT !.rows = <<[lhs |-> id, present |-> present, rhs |-> <<>>]>> \o @]

(* modify_pcsmap_1: the context of row i's lhs, which is new, has changed  *)
(* to the member id.  Another row with its value takes over the whole row. *)
ModifyPcsmap1(m, i, id) ==
    LET row == m.rows[i]
        k   == RowOf(m, id, i)
        lhs == Index(m.in, row.lhs)
        again  == IF Member(m, m.rows[k].lhs).new_ptadf THEN {} ELSE RhsIds(row)
        marked == [j \in DOMAIN m.in |->
                      [m.in[j] EXCEPT !.new_ptadf = @ \/ m.in[j].id \in again]]
        taken  == JoinRow([m EXCEPT !.rows[k].rhs = row.rhs \o @, !.in = marked],
                          k, id, row.present)
    IN  IF k = 0
        THEN [m EXCEPT !.in[lhs].pinfo = Member(m, id).pinfo,
                       !.in[lhs].new_ptadf = TRUE,
                       !.required = @ \/ row.rhs # <<>>]
        ELSE [taken EXCEPT !.rows = RemoveAt(@, i)]

(* The lhs of a row with the first of its rhs in its place, or, if that is *)
(* new, the first that is not, or else the first that is present.          *)
NextLhs(m, row) ==
    LET moved == [lhs |-> row.rhs[1].el, present |-> row.rhs[1].present,
                  rhs |-> Tail(row.rhs)]
        new(r, j) == Member(m, r.rhs[j].el).new_ptadf
        better(s, j) ==
            IF s.done THEN s
            ELSE IF ~new(s.row, j) THEN [s EXCEPT !.row = Exchange(s.row, j), !.done = TRUE]
            ELSE IF ~s.found /\ s.row.rhs[j].present
                 THEN [s EXCEPT !.row = Exchange(s.row, j), !.found = TRUE]
            ELSE s
    IN  IF ~Member(m, moved.lhs).new_ptadf THEN moved
        ELSE FoldLeft(better, [row |-> moved, done |-> FALSE, found |-> FALSE],
                      [j \in DOMAIN moved.rhs |-> j]).row

(* regenerate_pta_at_out: context c of OUT hands its value to that of the  *)
(* member e.  One that would be the first of OUT goes to the list of the   *)
(* block being processed, which is the call block.                         *)
RegeneratePtaAtOut(m, c, e) ==
    LET i    == Place(m.out, e.cs)
        val  == m.out[Place(m.out, c)].pinfo
        temp == [e EXCEPT !.pinfo = val, !.linfo = {},
                       !.new_ptadf = FALSE, !.new_lvdf = FALSE]
    IN  IF ~Holds(m.out, c) THEN m
        ELSE IF Holds(m.out, e.cs) THEN [m EXCEPT !.out[i].pinfo = val]
        ELSE IF i = 1 THEN [m EXCEPT !.caller = Insert(@, 1, temp)]
        ELSE [m EXCEPT !.out = Insert(@, i, temp)]

(* modify_pcsmap_2: row i is to do without its lhs, which is not new.      *)
ModifyPcsmap2(m, i, c) ==
    LET row   == m.rows[i]
        moved == NextLhs(m, row)
    IN  IF row.rhs = <<>> THEN [m EXCEPT !.rows = RemoveAt(@, i)]
        ELSE RegeneratePtaAtOut([m EXCEPT !.rows[i] = moved], c, Member(m, moved.lhs))

(* Leaves it in the row of its old value. *)
LeaveRhsFault(m, c) == m

(* Takes context c out of the rhs it is in. *)
LeaveRhs(m, c) ==
    LET other(r) == Member(m, r.el).cs # c
    IN  [m EXCEPT !.rows = [i \in DOMAIN @ |->
            [@[i] EXCEPT !.rhs = SelectSeq(@, other)]]]

(* modify_pcsmap_at_startblock for the member id; lhs_of_lcsmap says that  *)
(* its context is the lhs of a row for liveness.                           *)
ModifyPcsmapAtStartblock(m, id, is_new, lhs_of_lcsmap) ==
    LET c == Member(m, id).cs
        i == First({j \in DOMAIN m.rows : Member(m, m.rows[j].lhs).cs = c})
        in_rhs == \E j \in DOMAIN m.rows : \E k \in DOMAIN m.rows[j].rhs :
                     /\ Member(m, m.rows[j].rhs[k].el).cs = c
                     /\ m.rows[j].rhs[k].present
    IN  IF is_new THEN AddToMap(m, id, lhs_of_lcsmap)
        ELSE IF i = 0 THEN AddToMap(LeaveRhs(m, c), id, lhs_of_lcsmap \/ in_rhs)
        ELSE IF Member(m, m.rows[i].lhs).new_ptadf THEN ModifyPcsmap1(m, i, id)
        ELSE AddToMap(ModifyPcsmap2(m, i, c), id, lhs_of_lcsmap \/ m.rows[i].present)
=============================================================================

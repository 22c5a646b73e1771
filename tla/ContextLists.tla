---------------------------- MODULE ContextLists ----------------------------
(***************************************************************************)
(* The lists of contexts at IN and OUT of a block: struct cs_dfa and the   *)
(* loops over it.  A list is a sequence of members                         *)
(*                                                                         *)
(*   [cs, id, linfo, pinfo, new_lvdf, new_ptadf]                           *)
(*                                                                         *)
(* cs is the context; id tells the members of one list apart, for those    *)
(* who keep a pointer to a member.  A search for a context stops at the    *)
(* first member whose context is not above it, on the assumption that      *)
(* the contexts descend.                                                   *)
(***************************************************************************)
EXTENDS Transfer

(* The points-to index -2 a member starts with: not the empty value, but   *)
(* the same to every reader.                                               *)
NoInfo == [v \in {undef_id} |-> {}]

(* The context whose index in the pool of call strings is zero in the code. *)
FirstContext == 1

Known(pinfo) == RestrictTo(pinfo, Var)

Contexts(list) == {list[i].cs : i \in DOMAIN list}

(* Passes by the contexts below c. *)
PlaceFault(list, c) ==
    LET found == SelectInSeq(list, LAMBDA e : e.cs = c)
    IN  IF found = 0 THEN Len(list) + 1 ELSE found

(* Where the search for context c in the list stops. *)
Place(list, c) ==
    LET found == SelectInSeq(list, LAMBDA e : e.cs <= c)
    IN  IF found = 0 THEN Len(list) + 1 ELSE found

Holds(list, c) == Place(list, c) <= Len(list) /\ list[Place(list, c)].cs = c

Insert(list, i, e) == InsertAt(list, i, [e EXCEPT !.id = Len(list) + 1])

Index(list, id) == CHOOSE i \in DOMAIN list : list[i].id = id

NewMembers(list) == SelectSeq(list, LAMBDA e : e.new_ptadf)

ClearPta(list) == [i \in DOMAIN list |-> [list[i] EXCEPT !.new_ptadf = FALSE]]

NewLvMembers(list) == SelectSeq(list, LAMBDA e : e.new_lvdf)

ClearLv(list) == [i \in DOMAIN list |-> [list[i] EXCEPT !.new_lvdf = FALSE]]

-----------------------------------------------------------------------------
(* copy_in_to_out for one member of IN. *)
CopyTo(out, e) ==
    LET i == Place(out, e.cs)
    IN  IF ~Holds(out, e.cs) THEN Insert(out, i, e)
        ELSE [out EXCEPT ![i].pinfo = e.pinfo, ![i].new_ptadf = TRUE]

(* calculate_actual_out: what is live for the member e and where it goes,  *)
(* there for the context the search has stopped at.                        *)
ActualOut(e, list) ==
    LET i == Place(list, e.cs)
    IN  RestrictTo(e.pinfo, IF i > Len(list) THEN e.linfo ELSE e.linfo \cap list[i].linfo)

(* The arguments of merge_pointsto the other way round. *)
InConfluenceFault(pinfo, new) == MergePointsTo(new, Known(pinfo))

(* compute_in_confluence *)
InConfluence(pinfo, new) == MergePointsTo(Known(pinfo), new)

(* The list at IN of a successor, or of a called function, when the member *)
(* e has been sent to it.  The block has to be processed if that differs.  *)
SendTo(list, e) ==
    LET i    == Place(list, e.cs)
        new  == ActualOut(e, list)
        conf == InConfluence(list[i].pinfo, new)
    IN  IF ~Holds(list, e.cs) THEN Insert(list, i, [e EXCEPT !.pinfo = new])
        ELSE IF conf = list[i].pinfo THEN list
        ELSE [list EXCEPT ![i].pinfo = conf, ![i].new_ptadf = TRUE]

-----------------------------------------------------------------------------
(* The same for liveness, when it is computed again. *)

(* copy_out_to_in for one member of OUT. *)
CopyLvTo(in, e) ==
    LET i == Place(in, e.cs)
    IN  IF ~Holds(in, e.cs) THEN Insert(in, i, e)
        ELSE [in EXCEPT ![i].linfo = e.linfo, ![i].new_lvdf = TRUE]

GrowsBy(list, e) ==
    ~Holds(list, e.cs) \/ ~(e.linfo \subseteq list[Place(list, e.cs)].linfo)

(* The union with what is live for the member e (compute_lout_union).      *)
UniteLvWith(list, e) ==
    LET i == Place(list, e.cs)
    IN  IF ~Holds(list, e.cs) THEN Insert(list, i, e)
        ELSE [list EXCEPT ![i].linfo = @ \cup e.linfo,
                          ![i].new_lvdf = @ \/ GrowsBy(list, e)]

(* The list at OUT of a predecessor, or of a called function, when the     *)
(* member e has been sent to it: its points-to information is new, grown   *)
(* or not.                                                                 *)
SendLvTo(list, e) ==
    LET i == Place(list, e.cs)
    IN  IF ~Holds(list, e.cs) THEN Insert(list, i, e)
        ELSE [UniteLvWith(list, e) EXCEPT ![i].new_ptadf = TRUE]

-----------------------------------------------------------------------------
(* Return blocks. *)

(* compute_out_confluence: a union, nothing becomes uninitialised.         *)
OutConfluence(p, q) ==
    IF DOMAIN Known(q) = {} THEN p
    ELSE IF DOMAIN Known(p) = {} THEN q
    ELSE [v \in DOMAIN p \cup DOMAIN q |->
            IF v \in DOMAIN p \cap DOMAIN q THEN Normalize(p[v] \cup q[v])
            ELSE Pointees(p, v) \cup Pointees(q, v)]

(* copy_in_to_out_1 for one member of IN. *)
JoinTo(out, e) ==
    LET i    == Place(out, e.cs)
        conf == OutConfluence(out[i].pinfo, e.pinfo)
    IN  IF ~Holds(out, e.cs) THEN Insert(out, i, e)
        ELSE IF conf = out[i].pinfo THEN out
        ELSE [out EXCEPT ![i].pinfo = conf, ![i].new_ptadf = TRUE]

(* The test ai->cs_index = cpinfo->cs_index is an assignment: the member   *)
(* the search has stopped at gets the context, and the test fails for the  *)
(* first context of the pool, whose index is zero.                         *)
Rename(list, e) ==
    LET i == Place(list, e.cs)
    IN  IF i > Len(list) THEN list ELSE [list EXCEPT ![i].cs = e.cs]

AddsMember(list, e) == Place(list, e.cs) > Len(list) \/ e.cs = FirstContext

(* propagate_pointsto_to_returnblock_in: what the callee leaves is written *)
(* over what went past it.                                                 *)
ReturnToIn(in, e) ==
    LET i   == Place(in, e.cs)
        new == ActualOut(e, in)
    IN  IF AddsMember(in, e) THEN Insert(Rename(in, e), i, [e EXCEPT !.pinfo = new])
        ELSE [Rename(in, e) EXCEPT
                ![i].pinfo = IF @ = new THEN @ ELSE ComputePointsToOut(Known(@), new, TRUE)]

(* propagate_pointsto_to_returnblock_out, with calculate_actual_out_1.     *)
ReturnToOut(out, e) ==
    LET i   == Place(out, e.cs)
        new == IF i > Len(out) THEN EmptyVal ELSE RestrictTo(e.pinfo, out[i].linfo)
    IN  IF AddsMember(out, e) THEN Insert(Rename(out, e), i, [e EXCEPT !.pinfo = new])
        ELSE [Rename(out, e) EXCEPT ![i].pinfo = InConfluence(@, new)]
=============================================================================

--------------------------- MODULE InterRecompute ---------------------------
(***************************************************************************)
(* compute_liveness (true): when points-to information has arrived at a    *)
(* block that dereferences, the pointees of the pointer become live there, *)
(* and the liveness pass runs again, now over the lists that have the      *)
(* points-to information, before compute_pointsto starts again.  The       *)
(* worklists and the order of blocks and functions are those of            *)
(* InterLiveness; what is not new goes from OUT to IN again, too, and the  *)
(* points-to information of every list that liveness is sent to becomes    *)
(* new.  (A predecessor that can be reached in two ways through bypassed   *)
(* blocks gets what is sent to it once.)                                   *)
(***************************************************************************)
EXTENDS SsaExport

-----------------------------------------------------------------------------
(* Transfers within a block. *)

(* copy_out_to_in *)
CopyLvOutToIn(d, b) ==
    [d EXCEPT ![InOf(b)] = FoldLeft(CopyLvTo, @, NewLvMembers(d[OutOf(b)])),
              ![OutOf(b)] = ClearLv(@)]

(* copy_out_to_in_1 *)
CopyAllOutToIn(d, b) ==
    [d EXCEPT ![InOf(b)] = FoldLeft(CopyLvTo, @, d[OutOf(b)]),
              ![OutOf(b)] = ClearLv(@)]

(* Goes through the block with what has been live at IN. *)
FindLiveVarsAgainFault(d, b) ==
    [d EXCEPT ![InOf(b)] =
        [i \in DOMAIN @ |->
            [@[i] EXCEPT !.linfo = LiveIn(@, Known(d[InOf(b)][i].pinfo), Code(b))]]]

(* find_live_vars (true), on all contexts at IN. *)
FindLiveVarsAgain(d, b) ==
    LET live(copied) ==
            [copied EXCEPT ![InOf(b)] =
                [i \in DOMAIN @ |->
                    [@[i] EXCEPT !.linfo =
                        LiveIn(@, Known(copied[InOf(b)][i].pinfo), Code(b))]]]
    IN  Once(live, CopyAllOutToIn(d, b))

(* What all blocks but those at a start end with, as Propagate for the     *)
(* first liveness pass.                                                    *)
AgainPropagate(d, b, flagged, pta) ==
    LET new   == NewLvMembers(d[InOf(b)])
        to    == {OutOf(a) : a \in LvPreds(b)}
        grown == {a \in LvPreds(b) : \E i \in DOMAIN new : GrowsBy(d[OutOf(a)], new[i])}
        known == {a \in LvPreds(b) : \E i \in DOMAIN new : Holds(d[OutOf(a)], new[i].cs)}
        sent  == [l \in Lists |-> IF l \in to THEN FoldLeft(SendLvTo, d[l], new) ELSE d[l]]
    IN  /\ info' = [sent EXCEPT ![InOf(b)] = ClearLv(@)]
        /\ process_lv' = (process_lv \ {b}) \cup grown \cup flagged
        /\ process_pta' = process_pta \cup known \cup grown \cup flagged \cup pta

-----------------------------------------------------------------------------
(* The end of a function. *)

(* regenerate_pta_at_in and regenerate_pta_at_out: at one end of block b   *)
(* the context of e gets the points-to value of context rep.  Where it     *)
(* would be the first of the list it becomes the first of the end block's  *)
(* instead.                                                                *)
RegeneratePtaAt(d, b, end, rep, e) ==
    LET list == IF end = "in" THEN InOf(b) ELSE OutOf(b)
        home == IF end = "in" THEN InOf(End(b[1])) ELSE OutOf(End(b[1]))
        i    == Place(d[list], e.cs)
        val  == d[list][Place(d[list], rep)].pinfo
        temp == [e EXCEPT !.pinfo = val, !.linfo = {},
                          !.new_lvdf = FALSE, !.new_ptadf = FALSE]
    IN  IF ~Holds(d[list], rep) THEN d
        ELSE IF Holds(d[list], e.cs) THEN [d EXCEPT ![list][i].pinfo = val]
        ELSE IF i = 1 THEN [d EXCEPT ![home] = Insert(@, 1, temp)]
        ELSE [d EXCEPT ![list] = Insert(@, i, temp)]

(* ... at both ends of every block of the function, from the last one on.  *)
RegeneratePta(d, f, rep, e) ==
    LET out(x, b) == IF b = End(f) THEN x ELSE RegeneratePtaAt(x, b, "out", rep, e)
        in(x, b)  == IF b = Start(f) THEN x ELSE RegeneratePtaAt(x, b, "in", rep, e)
        at(b, x)  == IF PtaBypass(b) THEN x ELSE Once(LAMBDA y : in(y, b), out(x, b))
    IN  FoldRight(at, [i \in Blocks(f) |-> <<f, i>>], d)

(* The lhs's of lcsmap, that of the latest row first. *)
LatestFirst(rows) == SetToSortSeq(DOMAIN rows, LAMBDA k, l : rows[k].nr > rows[l].nr)

(* regenerate_pinfo_for_lcsmap_lhs: the counterpart of RegenerateLinfo for  *)
(* the lhs's of lcsmap and the rows of pcsmap.  Nothing more is done for an *)
(* lhs once it has been met in a rhs with something new.                    *)
RegeneratePinfo(d, f) ==
    LET m    == MapOf(d, f)
        out  == d[OutOf(End(f))]
        lhs(i) == Member(m, m.rows[i].lhs)
        own(c) == First({i \in DOMAIN m.rows : lhs(i).cs = c})
        before(c) == IF own(c) = 0 THEN Len(m.rows) ELSE own(c) - 1
        visits(c) == [i \in 1..before(c) |-> <<c, i>>]
        visit(w, v) ==
            LET c   == v[1]
                met == {id \in RhsIds(m.rows[v[2]]) : Member(m, id).cs = c}
                new == lhs(v[2]).new_ptadf \/ \E id \in met : Member(m, id).new_ptadf
                skip == IF met # {} /\ new THEN w.skip \cup {c} ELSE w.skip
                rep  == IF met # {} /\ ~new THEN {lhs(v[2]).cs} ELSE w.rep
                regenerated(r) == RegeneratePta(w.info, f, r, out[Place(out, c)])
            IN  [rep |-> rep, skip |-> skip,
                 info |-> IF c \in skip \/ rep = {} THEN w.info
                          ELSE regenerated(CHOOSE r \in rep : TRUE)]
        rows == LatestFirst(lcsmap[f])
    IN  FoldLeft(visit, [rep |-> {}, skip |-> {}, info |-> d],
                 FlattenSeq([j \in DOMAIN rows |-> visits(rows[j])])).info

(* ... and those contexts are present in pcsmap. *)
PresentInPcsmap(f) ==
    LET m    == MapOf(info, f)
        lhs(id) == Member(m, id).cs \in DOMAIN lcsmap[f]
        el(r) == [r EXCEPT !.present = @ \/ lhs(r.el)]
        row(r) == [r EXCEPT !.present = @ \/ lhs(r.lhs),
                            !.rhs = [j \in DOMAIN @ |-> el(@[j])]]
    IN  [pcsmap EXCEPT ![f] = [i \in DOMAIN @ |-> row(@[i])]]

(* compute_mapped_in_at_endblock, as in LvEndBlock. *)
MappedIn(d, f) ==
    LET out  == d[OutOf(End(f))]
        rows == LatestFirst(lcsmap[f])
        lhs  == SelectSeq([j \in DOMAIN rows |-> out[Place(out, rows[j])]],
                          LAMBDA e : e.new_lvdf)
        quiet(e) == ~lcsmap_required[f] /\ e.cs \in DOMAIN lcsmap[f]
    IN  [d EXCEPT ![InOf(End(f))] = FoldLeft(CopyLvTo, @, lhs),
                  ![OutOf(End(f))] = [i \in DOMAIN @ |->
                      [@[i] EXCEPT !.new_lvdf = @ /\ ~quiet(out[i])]]]

PresentAtEnd(f) ==
    LET out == info[OutOf(End(f))]
    IN  [lcsmap EXCEPT ![f] = [c \in DOMAIN @ |->
            [@[c] EXCEPT !.present = @ \/ out[Place(out, c)].new_lvdf]]]

-----------------------------------------------------------------------------
(* The start of a function. *)

(* perform_regeneration_at_startblock for one lhs and the context c of its *)
(* rhs: the context gets, at IN of the start block, what is live for the   *)
(* lhs there.                                                              *)
HandBack(in, out, l, c) ==
    LET rep == in[Place(in, l)]
        i   == Place(in, c)
    IN  IF ~Holds(in, l) \/ ~(rep.new_lvdf \/ out[Place(out, c)].new_lvdf) THEN in
        ELSE IF ~Holds(in, c)
             THEN Insert(in, i, [rep EXCEPT !.cs = c, !.pinfo = NoInfo, !.new_lvdf = TRUE])
        ELSE IF in[i].new_lvdf \/ in[i].linfo = rep.linfo THEN in
        ELSE [in EXCEPT ![i].linfo = rep.linfo, ![i].new_lvdf = TRUE]

RegenerateAtStartblock(d, f) ==
    LET rows == LatestFirst(lcsmap[f])
        rhs(l) == SetToSortSeq(DOMAIN lcsmap[f][l].rhs, LAMBDA c1, c2 : c1 > c2)
        pairs == FlattenSeq([j \in DOMAIN rows |->
                    [k \in DOMAIN rhs(rows[j]) |-> <<rows[j], rhs(rows[j])[k]>>]])
        hand(in, pair) == HandBack(in, d[OutOf(End(f))], pair[1], pair[2])
    IN  [d EXCEPT ![InOf(Start(f))] = FoldLeft(hand, @, pairs),
                  ![OutOf(End(f))] = ClearLv(@)]

(* propagate_liveness_to_callblock: every new context goes back to the     *)
(* first member at OUT of its call block that has the caller's context.    *)
BackToCallBlock(w, e) ==
    LET b   == CallerBlock(e.cs)
        p   == CallerOf(w.info, e.cs)
        out == w.info[OutOf(b)]
        i   == SelectInSeq(out, LAMBDA a : a.cs = p)
        grows == ~(e.linfo \subseteq out[i].linfo)
    IN  IF i = 0 THEN w
        ELSE [info  |-> [w.info EXCEPT ![OutOf(b)][i].linfo = @ \cup e.linfo,
                                       ![OutOf(b)][i].new_ptadf = TRUE,
                                       ![OutOf(b)][i].new_lvdf = @ \/ grows],
              grown |-> IF grows THEN w.grown \cup {b} ELSE w.grown,
              wl    |-> IF grows THEN AddToFnWorklist1(w.wl, lv_node, b[1]) ELSE w.wl]

(* From the start block of f, with the lists d, back to the callers; there *)
(* is no way back from main.                                               *)
BackToCallers(d, f) ==
    LET regenerated == IF lcsmap_required[f] THEN RegenerateAtStartblock(d, f) ELSE d
        back(x) == FoldLeft(BackToCallBlock, [info |-> x, grown |-> {}, wl |-> fn_worklist],
                            NewLvMembers(x[InOf(Start(f))]))
        quiet(w) == [w EXCEPT !.info[InOf(Start(f))] = ClearLv(@)]
    IN  IF f = main THEN [info |-> d, grown |-> {}, wl |-> fn_worklist]
        ELSE Once(quiet, Once(back, regenerated))

-----------------------------------------------------------------------------
(* Calls. *)

(* compute_call_stmt_liveness *)
CallStmtLivenessAgain(d, b) ==
    LET before(e) == [e EXCEPT !.linfo = @ \cup LiveParms(b)]
        at_in(in, e) ==
            UniteLvWith(in, [before(e) EXCEPT !.linfo = RemoveNonLocalVars(@, b[1])])
    IN  [d EXCEPT ![InOf(b)] = FoldLeft(at_in, @, NewLvMembers(d[OutOf(b)])),
                  ![OutOf(b)] = [i \in DOMAIN @ |->
                      IF @[i].new_lvdf THEN [before(@[i]) EXCEPT !.new_lvdf = FALSE] ELSE @[i]]]

(* copy_in_at_returnblock *)
CopyInAtReturnblockAgain(d, b) ==
    LET killed(in, e) == UniteLvWith(in, [e EXCEPT !.linfo = @ \ Result(CallOf(b))])
    IN  [d EXCEPT ![InOf(b)] = FoldLeft(killed, @, NewLvMembers(d[OutOf(b)])),
                  ![OutOf(b)] = ClearLv(@)]

(* modify_lcsmap_at_endblock, whose rows share the members of w.out, for   *)
(* the member with the context c.                                          *)
ModifyLcsmapOf(w, c) ==
    LET member(k) == w.out[Place(w.out, k)]
        m == ModifyLcsmapAtEndblock(
                [rows |-> w.rows, required |-> w.required,
                 out |-> [k \in Contexts(w.out) |-> [linfo |-> member(k).linfo,
                                                     new_lvdf |-> member(k).new_lvdf]]],
                c, c \notin Mapped(w.rows))
        put(n) == [w EXCEPT !.rows = n.rows, !.required = n.required,
                            !.out = [i \in DOMAIN @ |->
                                [@[i] EXCEPT !.new_lvdf = n.out[w.out[i].cs].new_lvdf]]]
    IN  Once(put, m)

(* propagate_liveness_to_endblock for the member e at IN of the return     *)
(* block of call; its points-to value goes with it.                        *)
EnterCalleeAgain(w, call, e) ==
    LET string == <<call>> \o String(w.pool, e.cs)
        known  == {k \in Contexts(w.out) \ {0} : w.pool[k] = string}
        c      == IF known = {} THEN Len(w.pool) + 1 ELSE CHOOSE k \in known : TRUE
        sent   == [e EXCEPT !.cs = c, !.linfo = RemoveLocalVars(@)]
        put    == [w EXCEPT !.out = SendLvTo(@, sent), !.add = TRUE,
                            !.pool = IF known = {} THEN Append(@, string) ELSE @]
    IN  IF GrowsBy(w.out, sent) THEN ModifyLcsmapOf(put, c)
        ELSE [w EXCEPT !.out = SendLvTo(@, sent)]

(* The loop over the new contexts at IN. *)
EnterCalleesAgain(d, b) ==
    LET f == Callee(CallOf(b))
        enter(w, e) == EnterCalleeAgain(w, CallOf(b), e)
    IN  FoldLeft(enter,
                 [rows |-> lcsmap[f], required |-> lcsmap_required[f],
                  out |-> d[OutOf(End(f))], pool |-> callstrings, add |-> FALSE],
                 NewLvMembers(d[InOf(b)]))

-----------------------------------------------------------------------------
(* The handlers, as those of the first liveness pass. *)

AgainIntraBlock(b) ==
    /\ b # Start(Cnode) /\ ~CallBlock(b) /\ ~ReturnBlock(b)
    /\ b = End(Cnode) => Cnode = main
    /\ \E copied \in {IF SharedList(b) THEN info ELSE CopyLvOutToIn(info, b)} :
           AgainPropagate(IF HasConstraints(b) THEN FindLiveVarsAgain(copied, b) ELSE copied,
                          b, {}, {})
    /\ UNCHANGED <<lcsmap, lcsmap_required, callstrings, fn_worklist, lv_node, pcsmap>>

AgainEndBlock(b) ==
    LET f == Cnode
    IN  /\ b = End(f) /\ b # Start(f) /\ f # main
        /\ \E mapped \in {MappedIn(RegeneratePinfo(info, f), f)} :
               AgainPropagate(IF HasConstraints(b) THEN FindLiveVarsAgain(mapped, b) ELSE mapped,
                              b, IF lcsmap_required[f] THEN {Start(f)} ELSE {}, {})
        /\ lcsmap' = PresentAtEnd(f)
        /\ pcsmap' = PresentInPcsmap(f)
        /\ UNCHANGED <<lcsmap_required, callstrings, fn_worklist, lv_node>>

AgainStartBlock(b) ==
    LET f == Cnode
    IN  /\ b = Start(f) /\ ~CallBlock(b)
        /\ \E w \in {BackToCallers(FindLiveVarsAgain(CopyLvOutToIn(info, b), b), f)} :
              /\ info' = w.info
              /\ process_lv' = (process_lv \ {b}) \cup w.grown
              /\ process_pta' = process_pta \cup w.grown
              /\ IF LvCalleeNodesProcessed(w.wl, lv_node)
                 THEN /\ fn_worklist' = LeaveLvNode(w.wl, lv_node)
                      /\ lv_node' = PrevNodeFromLvWorklist(w.wl, lv_node)
                 ELSE fn_worklist' = w.wl /\ UNCHANGED lv_node
        /\ lcsmap_required' = NoLongerRequired(f)
        /\ UNCHANGED <<lcsmap, callstrings, pcsmap>>

AgainCallBlock(b) ==
    /\ CallBlock(b) /\ b # Start(Cnode)
    /\ \E d \in {CallStmtLivenessAgain(info, b)} : AgainPropagate(d, b, {}, {})
    /\ UNCHANGED <<lcsmap, lcsmap_required, callstrings, fn_worklist, lv_node, pcsmap>>

AgainStartCallBlock(b) ==
    LET f == Cnode
    IN  /\ CallBlock(b) /\ b = Start(f)
        /\ \E w \in {BackToCallers(CallStmtLivenessAgain(info, b), f)} :
              /\ info' = w.info
              /\ process_lv' = (process_lv \ {b}) \cup w.grown
              /\ process_pta' = process_pta \cup w.grown
              /\ fn_worklist' = w.wl
        /\ lcsmap_required' = NoLongerRequired(f)
        /\ UNCHANGED <<lcsmap, callstrings, lv_node, pcsmap>>

AgainReturnBlock(b) ==
    /\ ReturnBlock(b)
    /\ LET f == Callee(CallOf(b))
       IN  \E copied \in {CopyInAtReturnblockAgain(info, b)} :
           \E w \in {EnterCalleesAgain(copied, b)} :
              /\ AgainPropagate([copied EXCEPT ![OutOf(End(f))] = w.out], b,
                                IF w.add THEN {End(f)} ELSE {},
                                IF w.add /\ HasNodeFrom(fn_worklist, lv_node, f)
                                THEN {Start(f)} ELSE {})
              /\ lcsmap' = [lcsmap EXCEPT ![f] = w.rows]
              /\ lcsmap_required' = [lcsmap_required EXCEPT ![f] = w.required]
              /\ callstrings' = w.pool
              /\ fn_worklist' = IF w.add THEN AddToFnWorklist(fn_worklist, lv_node, f)
                                ELSE fn_worklist
    /\ UNCHANGED <<lv_node, pcsmap>>

ProcessBlockAgain(b) ==
    /\ phase = "again"
    /\ BlockForLvProcessing(b)
    /\ \/ AgainIntraBlock(b)
       \/ AgainEndBlock(b)
       \/ AgainStartBlock(b)
       \/ AgainCallBlock(b)
       \/ AgainStartCallBlock(b)
       \/ AgainReturnBlock(b)
    /\ UNCHANGED <<prog, df, phase, pcsmap_required, pta_node, execution>>

(* The steps from function to function are those of the first pass. *)
ChangeFunctionAgain ==
    /\ phase = "again"
    /\ NextFunction \/ PreviousFunction
    /\ UNCHANGED <<phase, pointsto, execution>>

(* compute_liveness returns, and compute_pointsto starts again. *)
AgainDone ==
    /\ phase = "again"
    /\ Done
    /\ phase' = "pta"
    /\ UNCHANGED <<vars, pointsto, execution>>

Again == (\E b \in process_lv : ProcessBlockAgain(b)) \/ ChangeFunctionAgain \/ AgainDone

-----------------------------------------------------------------------------
AnalyseAgain == Analyse \/ (Again /\ UNCHANGED pt)

ANext == XNext \/ (Again /\ UNCHANGED pt)

ASpec == XInit /\ [][ANext]_xvars

(* As XFairSpec. *)
AFairSpec == ASpec /\ ([]<>(phase = "run") \/ []<><<AnalyseAgain>>_xvars)

-----------------------------------------------------------------------------
(* The points-to pass only goes on when everything a dereference has made  *)
(* live has been propagated: a block that is flagged for liveness in a     *)
(* function that is not would be left behind.                              *)
NothingLeftForLiveness == phase \in {"pta", "run"} => process_lv = {}
=============================================================================

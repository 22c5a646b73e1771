---------------------------- MODULE InterPointsTo ----------------------------
(***************************************************************************)
(* The analysis of programs of several functions: compute_liveness and     *)
(* then compute_pointsto, over the same function worklist, which takes     *)
(* points-to information from call blocks into the callees and from end    *)
(* blocks back to the return blocks, context by context.  When something   *)
(* new arrives at a block that dereferences, liveness is computed again    *)
(* before it goes on: that is in module InterRecompute.  When the analysis *)
(* is over, an execution of the analysed program runs against its result.  *)
(*                                                                         *)
(* A program has three more fields for every function: deref, the blocks   *)
(* with bb_has_deref_stmts; returned, the set of the variable the function *)
(* returns; and ret, what of it map_return_value sees, which looks at the  *)
(* first statement of the end block only and finds none there if that is a *)
(* label.  No store goes to a local variable of another function.          *)
(***************************************************************************)
EXTENDS InterLiveness, PointsToMap, Execution

VARIABLES
    phase,            \* "lv", "pta" (or "again", for liveness) and then "run"
    info,             \* the lists of contexts, in the points-to pass
    pcsmap,           \* the rows of each function's map
    pcsmap_required,
    pta_node,         \* position of the function being processed, 0 for none
    stack,            \* the execution: frames, the innermost one first
    store             \* the execution: the pointee of every variable

pointsto  == <<info, pcsmap, pcsmap_required, pta_node>>
execution == <<stack, store>>
allvars   == <<vars, phase, pointsto, execution>>

PInit ==
    /\ Init
    /\ phase = "lv"
    /\ info = [l \in Lists |-> <<>>]
    /\ pcsmap = [f \in DOMAIN prog |-> <<>>]
    /\ pcsmap_required = [f \in DOMAIN prog |-> FALSE]
    /\ pta_node = 0
    /\ stack = <<>>
    /\ store = [v \in Var |-> Undefined]

(* compute_liveness *)
LivenessStep ==
    /\ phase = "lv"
    /\ Next
    /\ UNCHANGED <<phase, pointsto, execution>>

(* compute_liveness has returned.  No member has points-to information yet *)
(* and all still are new for that: the flag comes with the copies of the   *)
(* first one (initialize_out).                                             *)
ListOf(list) ==
    LET cs == SetToSortSeq(DOMAIN list, LAMBDA c1, c2 : c1 > c2)
    IN  [i \in DOMAIN cs |->
            [cs |-> cs[i], id |-> i, linfo |-> list[cs[i]].linfo,
             pinfo |-> NoInfo, new_lvdf |-> list[cs[i]].new_lvdf, new_ptadf |-> TRUE]]

LivenessDone ==
    /\ phase = "lv"
    /\ Done
    /\ phase' = "pta"
    /\ info' = [l \in Lists |-> ListOf(df[l])]
    /\ UNCHANGED <<vars, pcsmap, pcsmap_required, pta_node, execution>>

-----------------------------------------------------------------------------
(* Propagation within a function. *)

HasDeref(b) == b[2] \in prog[b[1]].deref

SinglePred(b) == Cardinality(Preds(b)) = IF b = Start(b[1]) THEN 0 ELSE 1

PtaBypass(b) ==
    /\ ~HasConstraints(b)
    /\ b # End(b[1])
    /\ ~CallBlock(b)
    /\ ~ReturnBlock(b)
    /\ SinglePred(b)

PtaSuccs(b) ==
    Through(Succs(b), [a \in BlocksOf(b[1]) |-> Succs(a)],
            {a \in BlocksOf(b[1]) : PtaBypass(a)})

CopyInToOut(d, b) ==
    [d EXCEPT ![OutOf(b)] = FoldLeft(CopyTo, @, NewMembers(d[InOf(b)])),
              ![InOf(b)] = ClearPta(@)]

(* copy_in_to_out_1 *)
CopyInToOut1(d, b) ==
    [d EXCEPT ![OutOf(b)] = FoldLeft(JoinTo, @, NewMembers(d[InOf(b)])),
              ![InOf(b)] = ClearPta(@)]

(* find_pointsto_pair, on the new members. *)
FindPointsToPair(d, b) ==
    [d EXCEPT ![OutOf(b)] =
        [i \in DOMAIN @ |->
            IF @[i].new_ptadf THEN [@[i] EXCEPT !.pinfo = BlockOut(Known(@), Code(b))]
            ELSE @[i]]]

(* propagate_pointsto_to_all_succs, after which OUT is no longer new. *)
PropagateToSuccs(d, b) ==
    LET new == NewMembers(d[OutOf(b)])
        to  == {InOf(a) : a \in PtaSuccs(b)}
        sent == [l \in Lists |-> IF l \in to THEN FoldLeft(SendTo, d[l], new) ELSE d[l]]
    IN  [sent EXCEPT ![OutOf(b)] = ClearPta(@)]

(* The successors whose IN it changes are to be processed. *)
ChangedSuccs(d, b) ==
    {a \in PtaSuccs(b) :
        FoldLeft(SendTo, d[InOf(a)], NewMembers(d[OutOf(b)])) # d[InOf(a)]}

-----------------------------------------------------------------------------
(* The start of a function. *)

MapOf(d, f) ==
    [rows |-> pcsmap[f], required |-> pcsmap_required[f], in |-> d[InOf(Start(f))]]

(* compute_mapped_out_at_startblock: the new lhs's go to OUT; the map and   *)
(* OUT after it.  If something is left for regeneration they stay new.     *)
MappedOut(d, f) ==
    LET m      == MapOf(d, f)
        new(i) == Member(m, m.rows[i].lhs).new_ptadf
        lhs    == SelectSeq([i \in DOMAIN m.rows |-> Member(m, m.rows[i].lhs)],
                            LAMBDA e : e.new_ptadf)
        ids    == {lhs[i].id : i \in DOMAIN lhs}
        quiet(e) == ~m.required /\ e.id \in ids
    IN  [rows |-> [i \in DOMAIN m.rows |-> [m.rows[i] EXCEPT !.present = @ \/ new(i)]],
         info |-> [d EXCEPT
            ![OutOf(Start(f))] = FoldLeft(CopyTo, @, lhs),
            ![InOf(Start(f))] = [i \in DOMAIN @ |->
                [@[i] EXCEPT !.new_ptadf = @ /\ ~quiet(d[InOf(Start(f))][i])]]]]

(* regenerate_lv_at_in and regenerate_lv_at_out: at one end of block b the *)
(* context of e gets the live set of context rep.  Where it would be the   *)
(* first of the list it becomes the first of the start block's instead.    *)
RegenerateLvAt(d, b, end, rep, e) ==
    LET list == IF end = "in" THEN InOf(b) ELSE OutOf(b)
        home == IF end = "in" THEN InOf(Start(b[1])) ELSE OutOf(Start(b[1]))
        i    == Place(d[list], e.cs)
        live == d[list][Place(d[list], rep)].linfo
        temp == [e EXCEPT !.pinfo = NoInfo, !.linfo = live,
                          !.new_lvdf = FALSE, !.new_ptadf = FALSE]
    IN  IF ~Holds(d[list], rep) THEN d
        ELSE IF Holds(d[list], e.cs) THEN [d EXCEPT ![list][i].linfo = live]
        ELSE IF i = 1 THEN [d EXCEPT ![home] = Insert(@, 1, temp)]
        ELSE [d EXCEPT ![list] = Insert(@, i, temp)]

(* ... at both ends of every block of the function, from the last one on.  *)
RegenerateLv(d, f, rep, e) ==
    LET at(b, x) ==
            IF LvBypass(b) THEN x
            ELSE LET in == IF b = Start(f) THEN x ELSE RegenerateLvAt(x, b, "in", rep, e)
                 IN  IF b = End(f) THEN in ELSE RegenerateLvAt(in, b, "out", rep, e)
    IN  FoldRight(at, [i \in Blocks(f) |-> <<f, i>>], d)

(* regenerate_linfo_for_pcsmap_lhs: for every lhs, the rows of lcsmap are  *)
(* gone through up to the one it is the lhs of.  Once the row it is in the *)
(* rhs of has been met, every further row has its live sets copied from    *)
(* the lhs of that row.  rep_cs is never reset: it outlives the lhs.       *)
RegenerateLinfo(d, f) ==
    LET m     == MapOf(d, f)
        rows  == lcsmap[f]
        latest == SetToSortSeq(DOMAIN rows, LAMBDA k, l : rows[k].nr > rows[l].nr)
        before(c) == SelectSeq(latest, LAMBDA l : c \in DOMAIN rows => rows[l].nr > rows[c].nr)
        lhs(i)    == Member(m, m.rows[i].lhs)
        visits(i) == [j \in DOMAIN before(lhs(i).cs) |-> <<lhs(i), before(lhs(i).cs)[j]>>]
        visit(w, v) ==
            LET rep == IF v[1].cs \in DOMAIN rows[v[2]].rhs THEN v[2] ELSE w.rep
            IN  [rep |-> rep,
                 info |-> IF rep = 0 THEN w.info ELSE RegenerateLv(w.info, f, rep, v[1])]
    IN  FoldLeft(visit, [rep |-> 0, info |-> d],
                 FlattenSeq([i \in DOMAIN m.rows |-> visits(i)])).info

(* ... and those contexts are present in lcsmap. *)
PresentInLcsmap(f) ==
    LET m  == MapOf(info, f)
        cs == {Member(m, m.rows[i].lhs).cs : i \in DOMAIN m.rows}
    IN  [lcsmap EXCEPT ![f] = [l \in DOMAIN @ |->
            [@[l] EXCEPT !.present = @ \/ l \in cs,
                         !.rhs = [c \in DOMAIN @ |-> @[c] \/ c \in cs]]]]

-----------------------------------------------------------------------------
(* The way into a function, at a call block. *)

(* find_rep_in_lcsmap, get_representative_csdfa: the context of the callee *)
(* whose live sets a context new to it gets: the one the lhs of the        *)
(* caller's context has there, or else the one with the longest string     *)
(* that ends the new one.                                                  *)
RepresentativeOf(w, b, c, string) ==
    LET in   == Contexts(w.info[InOf(Start(Callee(b)))]) \ {0}
        lhs  == {l \in DOMAIN w.lcsmap[b[1]] : c \in DOMAIN w.lcsmap[b[1]][l].rhs}
        ends == {k \in in : IsStrictSuffix(w.pool[k], string)}
    IN  IF lhs # {}
        THEN {k \in in : \E l \in lhs : w.pool[k] = <<b>> \o w.pool[l]}
        ELSE {k \in ends : \A j \in ends : Len(w.pool[j]) <= Len(w.pool[k])}

(* add_to_lcsmap_and_out: the context of e joins the row rep is in.        *)
AddToLcsmapAndOut(w, f, e, rep) ==
    LET l    == LhsOf(w.lcsmap[f], rep)
        out  == OutOf(End(f))
        live == w.info[out][Place(w.info[out], l)].linfo
    IN  [w EXCEPT !.lcsmap[f][l].rhs = With(@, e.cs, FALSE),
                  !.info[out] = Insert(@, Place(@, e.cs),
                                       [e EXCEPT !.pinfo = NoInfo, !.linfo = live])]

(* The map of the callee as modify_pcsmap_at_startblock works on it.       *)
CalleeMap(w, b) ==
    LET f == Callee(b)
    IN  [rows |-> w.rows, required |-> w.required,
         in |-> w.info[InOf(Start(f))], out |-> w.info[OutOf(End(f))],
         caller |-> w.info[OutOf(b)]]

(* Puts the member e at IN of the callee's start block and in the map.     *)
SendToCallee(w, b, e) ==
    LET f    == Callee(b)
        in   == w.info[InOf(Start(f))]
        map(sent) ==
            ModifyPcsmapAtStartblock(
                CalleeMap([w EXCEPT !.info[InOf(Start(f))] = sent], b),
                sent[Place(sent, e.cs)].id, ~Holds(in, e.cs), e.cs \in DOMAIN w.lcsmap[f])
        put(m) == [w EXCEPT !.rows = m.rows, !.required = m.required, !.add = TRUE,
                            !.info = [@ EXCEPT ![InOf(Start(f))] = m.in,
                                               ![OutOf(End(f))] = m.out,
                                               ![OutOf(b)] = m.caller]]
        send(sent) == IF sent = in THEN w ELSE Once(put, map(sent))
    IN  Once(send, SendTo(in, e))

(* propagate_pointsto_to_calledblock and append_bb_to_callstring_1 for the *)
(* member e of OUT of call block b: the arguments are passed; a context    *)
(* liveness has not seen in the callee takes the live sets of another one; *)
(* without one nothing is propagated.                                      *)
CallWith(w, b, e) ==
    LET f      == Callee(b)
        in     == w.info[InOf(Start(f))]
        string == <<b>> \o String(w.pool, e.cs)
        known  == {k \in Contexts(in) \ {0} : w.pool[k] = string}
        c      == Len(w.pool) + 1
        rep    == RepresentativeOf(w, b, e.cs, string)
        passed == [e EXCEPT !.pinfo = BlockOut(Known(@), Code(b))]
        pushed == [w EXCEPT !.pool = Append(@, string)]
        enter(k) == SendToCallee(w, b, [passed EXCEPT !.cs = k])
        new      == [passed EXCEPT !.cs = c]
        add(r)   == SendToCallee(AddToLcsmapAndOut(pushed, f, new, r), b,
                                 [new EXCEPT !.linfo = in[Place(in, r)].linfo])
    IN  IF known # {} THEN enter(CHOOSE k \in known : TRUE)
        ELSE IF rep = {} THEN pushed
        ELSE add(CHOOSE r \in rep : TRUE)

(* process_call_stmt *)
ProcessCall(d, b) ==
    LET f == Callee(b)
        call(w, e) == CallWith(w, b, e)
    IN  FoldLeft(call, [info |-> d, lcsmap |-> lcsmap, pool |-> callstrings,
                        rows |-> pcsmap[f], required |-> pcsmap_required[f], add |-> FALSE],
                 NewMembers(d[OutOf(b)]))

-----------------------------------------------------------------------------
(* The way back, at an end block. *)

(* perform_regeneration_at_endblock for one lhs and one of its rhs: the    *)
(* context of r gets, at OUT of the end block, what that of lhs has there. *)
HandOver(out, lhs, r) ==
    LET rep == out[Place(out, lhs.cs)]
        i   == Place(out, r.cs)
    IN  IF ~Holds(out, lhs.cs) \/ ~(rep.new_ptadf \/ r.new_ptadf) THEN out
        ELSE IF ~Holds(out, r.cs)
             THEN Insert(out, i, [rep EXCEPT !.cs = r.cs, !.new_ptadf = TRUE])
        ELSE IF out[i].new_ptadf \/ out[i].pinfo = rep.pinfo THEN out
        ELSE [out EXCEPT ![i].pinfo = rep.pinfo, ![i].new_ptadf = TRUE]

RegenerateAtEndblock(d, f) ==
    LET m    == MapOf(d, f)
        lhs(i) == Member(m, m.rows[i].lhs)
        pairs == FlattenSeq([i \in DOMAIN m.rows |->
                    [j \in DOMAIN m.rows[i].rhs |->
                        <<lhs(i), Member(m, m.rows[i].rhs[j].el)>>]])
        hand(out, pair) == HandOver(out, pair[1], pair[2])
    IN  [d EXCEPT ![OutOf(End(f))] = FoldLeft(hand, @, pairs),
                  ![InOf(Start(f))] = ClearPta(@)]

(* map_return_value: only what the result points to is left of the value,  *)
(* but all of it if the call has no result or no returned variable is      *)
(* found.                                                                  *)
MapReturnValue(pinfo, b, f) ==
    LET result == Result(b)
        assign(v, u) == GenLhsScalar(Known(pinfo), [type |-> SCALAR, var |-> v],
                                     [type |-> SCALAR, var |-> u, off |-> FALSE])
    IN  IF result = {} \/ prog[f].ret = {} THEN Known(pinfo)
        ELSE assign(CHOOSE v \in result : TRUE, CHOOSE u \in prog[f].ret : TRUE)

(* The context of the caller, -1 (0 here) when there is none. *)
CallerOf(d, c) ==
    LET rest == Tail(callstrings[c])
        out  == Contexts(d[OutOf(CallerBlock(c))]) \ {0}
        same == {p \in out : callstrings[p] = rest}
    IN  IF rest = <<>> \/ same = {} THEN 0 ELSE CHOOSE p \in same : TRUE

ReturnBlockOf(b) == CHOOSE a \in Succs(b) : TRUE

(* propagate_pointsto_to_returnblock: each new context goes to IN and to   *)
(* OUT of the return block of its caller; no block is flagged.             *)
PropagateToReturnblocks(d, f) ==
    LET return(x, e) ==
            LET b == CallerBlock(e.cs)
                r == ReturnBlockOf(b)
                back == [e EXCEPT !.cs = CallerOf(x, e.cs)]
            IN  [x EXCEPT
                    ![InOf(r)]  = ReturnToIn(@, back),
                    ![OutOf(r)] = ReturnToOut(@,
                        [back EXCEPT !.pinfo = MapReturnValue(@, b, f)])]
        sent == FoldLeft(return, d, NewMembers(d[OutOf(End(f))]))
    IN  [sent EXCEPT ![OutOf(End(f))] = ClearPta(@)]

-----------------------------------------------------------------------------
(* The block of the current function to be processed. *)

PtaCnode == fn_worklist[pta_node].called_fn

PtaFlaggedBlocks == {b \in process_pta : b[1] = PtaCnode}

(* While callees are pending, joins, return and end blocks have to wait.   *)
PtaReadyBlocks ==
    IF PtaCalleeNodesProcessed(fn_worklist, pta_node) THEN PtaFlaggedBlocks
    ELSE {b \in PtaFlaggedBlocks : SinglePred(b) /\ ~ReturnBlock(b) /\ b # End(PtaCnode)}

(* get_bb_for_pta_processing: the first one in reverse postorder.          *)
BlockForPtaProcessing(b) ==
    /\ phase = "pta"
    /\ pta_node # 0
    /\ b \in PtaReadyBlocks
    /\ \A a \in PtaReadyBlocks : b[2] <= a[2]

-----------------------------------------------------------------------------
(* The handlers. *)

(* What all blocks but end blocks finish with; wl is the function worklist. *)
(* If a successor that dereferences is changed it is flagged for liveness,  *)
(* too, or its return block if it is a call; liveness is then computed      *)
(* again, and the points-to pass restarted.                                 *)
PropagatePta(d, b, flagged, wl) ==
    \E changed \in {ChangedSuccs(d, b)} :
        /\ info' = PropagateToSuccs(d, b)
        /\ process_pta' = (process_pta \ {b}) \cup flagged \cup changed
        /\ process_lv' = process_lv \cup
              {IF CallBlock(a) THEN ReturnBlockOf(a) ELSE a : a \in {c \in changed : HasDeref(c)}}
        /\ IF \E a \in changed : HasDeref(a)
           THEN /\ phase' = "again"
                /\ fn_worklist' = SetInLvWorklist(wl, b[1])
                /\ lv_node' = FirstNodeFromLvWorklist(fn_worklist')
                /\ pta_node' = 0
           ELSE fn_worklist' = wl /\ UNCHANGED <<phase, lv_node, pta_node>>
        /\ UNCHANGED <<prog, df, lcsmap_required, execution>>

EndIfRequired(f) == IF pcsmap_required[f] THEN {End(f)} ELSE {}

(* perform_csipdfa_on_intrablock, but at the start of a callee. *)
PtaIntraBlock(b) ==
    /\ BlockForPtaProcessing(b)
    /\ ~CallBlock(b) /\ ~ReturnBlock(b) /\ b # End(b[1])
    /\ b = Start(b[1]) => b[1] = main
    /\ LET copied == IF SharedList(b) THEN info ELSE CopyInToOut(info, b)
       IN  PropagatePta(IF HasConstraints(b) THEN FindPointsToPair(copied, b) ELSE copied,
                        b, {}, fn_worklist)
    /\ UNCHANGED <<lcsmap, callstrings, pcsmap, pcsmap_required>>

(* The same for the start block of a callee, where the contexts of the map *)
(* get live sets and go to OUT.                                            *)
PtaStartBlock(b) ==
    LET f == b[1]
    IN  /\ BlockForPtaProcessing(b)
        /\ b = Start(f) /\ f # main /\ ~CallBlock(b) /\ b # End(f)
        /\ \E mapped \in {MappedOut(RegenerateLinfo(info, f), f)} :
              /\ PropagatePta(IF HasConstraints(b) THEN FindPointsToPair(mapped.info, b)
                              ELSE mapped.info, b, EndIfRequired(f), fn_worklist)
              /\ pcsmap' = [pcsmap EXCEPT ![f] = mapped.rows]
        /\ lcsmap' = PresentInLcsmap(f)
        /\ UNCHANGED <<callstrings, pcsmap_required>>

(* perform_csipdfa_on_callblock; at the start of a callee the contexts of  *)
(* the map go to OUT, but get no live sets.                                *)
PtaCallBlock(b) ==
    LET f == Callee(b)
        at_start == b = Start(b[1]) /\ b[1] # main
        mapped == IF at_start THEN MappedOut(info, b[1])
                  ELSE [rows |-> pcsmap[b[1]], info |-> CopyInToOut(info, b)]
    IN  /\ BlockForPtaProcessing(b)
        /\ CallBlock(b)
        /\ \E w \in {ProcessCall(mapped.info, b)} :
              /\ PropagatePta(w.info, b,
                     (IF at_start THEN EndIfRequired(b[1]) ELSE {})
                        \cup (IF w.add THEN {Start(f)} ELSE {}),
                     IF w.add THEN SetInPtaWorklist(fn_worklist, pta_node, f)
                     ELSE fn_worklist)
              /\ pcsmap' = [pcsmap EXCEPT ![b[1]] = mapped.rows, ![f] = w.rows]
              /\ pcsmap_required' = [pcsmap_required EXCEPT ![f] = w.required]
              /\ lcsmap' = w.lcsmap
              /\ callstrings' = w.pool

(* perform_csipdfa_on_returnblock *)
PtaReturnBlock(b) ==
    /\ BlockForPtaProcessing(b)
    /\ ReturnBlock(b)
    /\ PropagatePta(CopyInToOut1(info, b), b, {}, fn_worklist)
    /\ UNCHANGED <<lcsmap, callstrings, pcsmap, pcsmap_required>>

(* perform_csipdfa_on_endblock, and the step to a function before this one. *)
PtaEndBlock(b) ==
    LET f      == b[1]
        copied == CopyInToOut(info, b)
        regenerated == IF pcsmap_required[f] THEN RegenerateAtEndblock(copied, f) ELSE copied
    IN  /\ BlockForPtaProcessing(b)
        /\ b = End(f)
        /\ info' = IF f = main THEN copied ELSE PropagateToReturnblocks(regenerated, f)
        /\ pcsmap_required' = [pcsmap_required EXCEPT ![f] = @ /\ f = main]
        /\ process_pta' = process_pta \ {b}
        /\ fn_worklist' = LeavePtaNode(fn_worklist, pta_node)
        /\ pta_node' = PrevNodeFromPtaWorklist(fn_worklist, pta_node)
        /\ UNCHANGED <<phase, prog, df, lcsmap, lcsmap_required, callstrings, lv_node,
                       process_lv, pcsmap, execution>>

(* Flagged blocks have to wait for callees: on to the next function.       *)
PtaNextFunction ==
    /\ phase = "pta"
    /\ pta_node # 0
    /\ PtaReadyBlocks = {} /\ PtaFlaggedBlocks # {}
    /\ pta_node' = NextNodeFromPtaWorklist(fn_worklist, pta_node)
    /\ UNCHANGED <<vars, phase, info, pcsmap, pcsmap_required, execution>>

(* Nothing is flagged in the function: back to one before it, callees      *)
(* pending or not.                                                         *)
PtaPreviousFunction ==
    /\ phase = "pta"
    /\ pta_node # 0
    /\ PtaFlaggedBlocks = {}
    /\ fn_worklist' = LeavePtaNode(fn_worklist, pta_node)
    /\ pta_node' = PrevNodeFromPtaWorklist(fn_worklist, pta_node)
    /\ UNCHANGED <<phase, prog, df, lcsmap, lcsmap_required, callstrings, lv_node,
                   process_lv, process_pta, info, pcsmap, pcsmap_required, execution>>

(* compute_pointsto starts, or starts again, with the first function that  *)
(* is flagged, or returns.                                                 *)
PtaFirstFunction ==
    /\ phase = "pta"
    /\ pta_node = 0
    /\ FirstNodeFromPtaWorklist(fn_worklist) # 0
    /\ pta_node' = FirstNodeFromPtaWorklist(fn_worklist)
    /\ UNCHANGED <<vars, phase, info, pcsmap, pcsmap_required, execution>>

PtaDone ==
    /\ phase = "pta"
    /\ pta_node = 0
    /\ FirstNodeFromPtaWorklist(fn_worklist) = 0
    /\ phase' = "run"
    /\ stack' = <<[block |-> Start(main), left |-> Code(Start(main))]>>
    /\ UNCHANGED <<vars, pointsto, store>>

ProcessPta(b) ==
    \/ PtaIntraBlock(b)
    \/ PtaStartBlock(b)
    \/ PtaCallBlock(b)
    \/ PtaReturnBlock(b)
    \/ PtaEndBlock(b)

-----------------------------------------------------------------------------
(* The analysed program, executed after the analysis. *)

Frame(b) == [block |-> b, left |-> Code(b)]

Running == phase = "run" /\ stack # <<>>

RunItem ==
    /\ Running
    /\ Head(stack).left # <<>>
    /\ LET item == Head(Head(stack).left)
       IN  IF IsAlias(item)
           THEN \E i \in DOMAIN item.chain :
                   /\ Executable(store, item.chain[i])
                   /\ \E value \in Values(store, item.chain[i].rhs) :
                         store' = Execute(store, item.chain[i], value)
           ELSE UNCHANGED store
    /\ stack' = [stack EXCEPT ![1].left = Tail(@)]
    /\ UNCHANGED <<vars, phase, pointsto>>

RunEdge ==
    /\ Running
    /\ Head(stack).left = <<>>
    /\ ~CallBlock(Head(stack).block)
    /\ \E c \in Succs(Head(stack).block) : stack' = [stack EXCEPT ![1] = Frame(c)]
    /\ UNCHANGED <<vars, phase, pointsto, store>>

RunCall ==
    /\ Running
    /\ Head(stack).left = <<>>
    /\ CallBlock(Head(stack).block)
    /\ stack' = <<Frame(Start(Callee(Head(stack).block)))>> \o stack
    /\ UNCHANGED <<vars, phase, pointsto, store>>

(* Back to the return block, with the value of the returned variable.      *)
RunReturn ==
    /\ Running
    /\ Head(stack).left = <<>>
    /\ Len(stack) > 1
    /\ LET f == Head(stack).block[1]
           call == stack[2].block
       IN  /\ Head(stack).block = End(f)
           /\ stack' = <<Frame(ReturnBlockOf(call))>> \o SubSeq(stack, 3, Len(stack))
           /\ \E u \in IF Result(call) = {} THEN {0} ELSE prog[f].returned :
                 store' = [v \in Var |-> IF v \in Result(call) THEN store[u] ELSE store[v]]
    /\ UNCHANGED <<vars, phase, pointsto>>

(* The execution is over. *)
RunEnd ==
    /\ Running
    /\ Head(stack).left = <<>>
    /\ Head(stack).block = End(main)
    /\ UNCHANGED allvars

-----------------------------------------------------------------------------
(* compute_liveness and compute_pointsto, until they return. *)
Passes ==
    \/ LivenessStep \/ LivenessDone
    \/ \E b \in process_pta : ProcessPta(b)
    \/ PtaNextFunction \/ PtaPreviousFunction \/ PtaFirstFunction

Run == RunItem \/ RunEdge \/ RunCall \/ RunReturn \/ RunEnd

PNext == Passes \/ PtaDone \/ Run

PSpec == PInit /\ [][PNext]_allvars

-----------------------------------------------------------------------------
(* The value of a context for the place where the execution is. *)
ValueAtPc(e) ==
    LET code == Code(Head(stack).block)
    IN  BlockOut(Known(e.pinfo), SubSeq(code, 1, Len(code) - Len(Head(stack).left)))

InHere == info[InOf(Head(stack).block)]

(* The pointers an item reads or dereferences. *)
Used(item) ==
    IF ~IsAlias(item) THEN item.uses
    ELSE LET t == item.chain[1]
         IN  (IF t.lhs.type = DEREF THEN {t.lhs.var} ELSE {})
                \cup (IF t.rhs.type = DEREF THEN {t.rhs.var} ELSE {})

(* Wherever the program uses or dereferences a pointer, the value of some  *)
(* context has what it points to: the information of all contexts is what  *)
(* is handed on (insert_lipta_on_use).                                     *)
UsesSound ==
    Running /\ Head(stack).left # <<>> =>
        \A v \in Used(Head(Head(stack).left)) :
            store[v] # Undefined =>
                \E i \in DOMAIN InHere : store[v] \in Pointees(ValueAtPc(InHere[i]), v)

(* Every piece of the state of the points-to pass is what its name says;   *)
(* in particular no pointer is without pointees, undef is beside no two    *)
(* others, and a row of a map only refers to members of the list at IN.    *)
(* (A pointer with the only pointee undef is left by map_return_value.)    *)
PtaTypeOK ==
    /\ phase \in {"lv", "pta", "again", "run"}
    /\ pta_node \in 0..Len(fn_worklist)
    /\ pcsmap_required \in [DOMAIN prog -> BOOLEAN]
    /\ DOMAIN info = Lists
    /\ \A l \in Lists : \A i \in DOMAIN info[l] :
          /\ info[l][i].cs \in 0..Len(callstrings)
          /\ info[l][i].linfo \subseteq Var
          /\ IsPointsToVal(Known(info[l][i].pinfo))
          /\ \A v \in DOMAIN Known(info[l][i].pinfo) :
                LET S == info[l][i].pinfo[v]
                IN  S # {} /\ (undef_id \in S => Cardinality(S) <= 2)
    /\ \A f \in DOMAIN prog :
          MappedIds(pcsmap[f]) \subseteq
              {info[InOf(Start(f))][i].id : i \in DOMAIN info[InOf(Start(f))]}

(* Every search of a list for a context (copy_in_to_out, calculate_actual_ *)
(* out and the propagations) stops at the first one that is not above it:  *)
(* the contexts of every list have to descend, though members are put in   *)
(* at many places, and renamed at the return blocks.                       *)
ContextsDescend ==
    \A l \in Lists : \A i, j \in DOMAIN info[l] :
        i < j => info[l][i].cs >= info[l][j].cs

(* compute_pointsto goes from function to function by the flags of the     *)
(* function worklist alone: a block that is flagged in a function that is  *)
(* not would be left behind.  When it returns no block is flagged, since no *)
(* function is.                                                            *)
PtaNoStrandedBlock ==
    phase \in {"pta", "run"} => \A b \in process_pta :
        \E i \in PtaFlagged(fn_worklist) : fn_worklist[i].called_fn = b[1]

(* The contexts of the map of f, row by row.                               *)
MappedContexts(f) ==
    LET m     == MapOf(info, f)
        cs(i) == <<Member(m, m.rows[i].lhs).cs>>
                    \o [j \in DOMAIN m.rows[i].rhs |-> Member(m, m.rows[i].rhs[j].el).cs]
    IN  FlattenSeq([i \in DOMAIN m.rows |-> cs(i)])

(* The map of a function (modify_pcsmap_at_startblock) has every context   *)
(* that was sent to its start block in exactly one row, and no two rows    *)
(* for one value, whatever was sent before and from where.                 *)
PcsmapPartitions ==
    \A f \in DOMAIN prog \ {main} :
        LET m    == MapOf(info, f)
            sent == {i \in DOMAIN m.in : m.in[i].pinfo # NoInfo}
        IN  phase # "lv" =>
                /\ IsInjective(MappedContexts(f))
                /\ ToSet(MappedContexts(f)) = {m.in[i].cs : i \in sent}
                /\ \A i, j \in DOMAIN m.rows :
                      i # j => Member(m, m.rows[i].lhs).pinfo # Member(m, m.rows[j].lhs).pinfo

(* Only the lhs of a row is taken through the function: it has to have     *)
(* every pointee the contexts of its rhs come with.                        *)
PcsmapLhsCovers ==
    \A f \in DOMAIN prog :
        LET m == MapOf(info, f)
            value(id) == Known(Member(m, id).pinfo)
        IN  \A i \in DOMAIN m.rows : \A id \in RhsIds(m.rows[i]) : \A v \in Var :
                Pointees(value(id), v) \subseteq Pointees(value(m.rows[i].lhs), v)

(* "Then the final regenerated value at the out of the end block will be   *)
(* {(ci, val1), (di, val1), ...": when the pass is over every context of   *)
(* an rhs has what its lhs has at the end of the function.                 *)
HandedOver ==
    phase = "run" => \A f \in DOMAIN prog \ {main} :
        LET m      == MapOf(info, f)
            out    == info[OutOf(End(f))]
            cs(id) == Member(m, id).cs
        IN  \A i \in DOMAIN m.rows : \A id \in RhsIds(m.rows[i]) :
                Holds(out, cs(m.rows[i].lhs)) =>
                    /\ Holds(out, cs(id))
                    /\ out[Place(out, cs(id))].pinfo
                          = out[Place(out, cs(m.rows[i].lhs))].pinfo

(* Both passes end.                                                        *)
PtaEnds == <>(phase = "run")
=============================================================================

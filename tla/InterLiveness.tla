---------------------------- MODULE InterLiveness ----------------------------
(***************************************************************************)
(* The liveness pass over all functions: compute_liveness as execute_ipacs *)
(* calls it first, before anything is known of points-to.  It works on the *)
(* function worklist and on each function's block worklist, goes through   *)
(* call, return, start, end and intra blocks and tells calling contexts    *)
(* apart by call strings.                                                  *)
(***************************************************************************)
EXTENDS Liveness, FnWorklist, CallstringMap

CONSTANTS
    Fn,        \* the functions
    main,      \* the one the analysis starts from
    Programs   \* the programs analysed

ASSUME MainAssumption == main \in Fn

(***************************************************************************)
(* A program: fns are the functions that have a body; for each, succ[b]    *)
(* are the successors of block b, code[b] its items, in reverse postorder  *)
(* with the start block first and the end block, which is left for the     *)
(* exit block only, last; callee[b] is the function a call block b calls,  *)
(* never the last block (preprocess_cfg splits it behind the call), and    *)
(* result[b] the variables that receive its value; local is the set of     *)
(* variables of its scope.  The code of a call block assigns the arguments *)
(* to the callee's parameters.                                             *)
(***************************************************************************)
IsBody(body, fns) ==
    LET n == Len(body.code)
    IN  /\ body.code \in Seq(Seq(Item)) \ {<<>>}
        /\ body.succ \in [1..n -> SUBSET (1..n)]
        /\ DOMAIN body.callee \subseteq 1..n
        /\ \A b \in DOMAIN body.callee : body.callee[b] \in fns
        /\ body.succ[n] = {}
        /\ \A b \in DOMAIN body.callee : body.succ[b] # {}

IsProgram(p) ==
    /\ main \in DOMAIN p /\ DOMAIN p \subseteq Fn
    /\ \A f \in DOMAIN p : IsBody(p[f], DOMAIN p)

ASSUME ProgramsAssumption == \A p \in Programs : IsProgram(p)

VARIABLES
    prog,         \* the program under analysis
    df,           \* data flow information: by list, by context
    lcsmap,       \* the callstring map of each function
    lcsmap_required,
    callstrings,  \* the pool of call strings; a context is an index into it
    fn_worklist,  \* the function worklist
    lv_node,      \* position of the function being processed, 0 for none
    process_lv,   \* blocks whose process_lv flag is set
    process_pta   \* blocks whose process_pta flag is set

vars == <<prog, df, lcsmap, lcsmap_required, callstrings,
          fn_worklist, lv_node, process_lv, process_pta>>

-----------------------------------------------------------------------------
(* The program. *)

Blocks(f) == DOMAIN prog[f].code
BlocksOf(f) == {f} \X Blocks(f)
Start(f)  == <<f, 1>>
End(f)    == <<f, Len(prog[f].code)>>
Nodes     == UNION {BlocksOf(f) : f \in DOMAIN prog}

Code(b)  == prog[b[1]].code[b[2]]
Succs(b) == {b[1]} \X prog[b[1]].succ[b[2]]
Preds(b) == {a \in BlocksOf(b[1]) : b \in Succs(a)}

HasConstraints(b) == Code(b) # <<>>

CallBlock(b)   == b[2] \in DOMAIN prog[b[1]].callee
ReturnBlock(b) == \E a \in Preds(b) : CallBlock(a)
Callee(b)      == prog[b[1]].callee[b[2]]
Result(b)      == prog[b[1]].result[b[2]]

(* The call block of a return block. *)
CallOf(b) == CHOOSE a \in Preds(b) : CallBlock(a)

(* The exit block is the successor of an end block. *)
SingleSucc(b) == Cardinality(Succs(b)) = IF b = End(b[1]) THEN 0 ELSE 1

LvBypass(b) ==
    /\ ~HasConstraints(b)
    /\ b # Start(b[1])
    /\ ~CallBlock(b)
    /\ ~ReturnBlock(b)
    /\ SingleSucc(b)

(* The blocks propagate_liveness_to_all_preds hands the live set to: the    *)
(* predecessors, looked through those that are bypassed.                    *)
LvPreds(b) ==
    Through(Preds(b), [a \in BlocksOf(b[1]) |-> Preds(a)],
            {a \in BlocksOf(b[1]) : LvBypass(a)})

(* No function calls itself; two may call each other. *)
NoSelfCalls == \A b \in Nodes : CallBlock(b) => Callee(b) # b[1]

IsLocal(v, f) == v \in prog[f].local
IsGlobal(v)   == \A f \in DOMAIN prog : ~IsLocal(v, f)

RemoveLocalVars(live)       == {v \in live : IsGlobal(v)}
RemoveNonLocalVars(live, f) == {v \in live : IsGlobal(v) \/ IsLocal(v, f)}

-----------------------------------------------------------------------------
(* Contexts.  -1, the context of main, is 0 here.                           *)

String(pool, c) == IF c = 0 THEN <<>> ELSE pool[c]

(* check_callstring_existance: the context of the list with that string.    *)
ExistingContext(pool, list, string) ==
    {c \in DOMAIN list : c # 0 /\ pool[c] = string}

(* The caller's context, at OUT of the call block the string begins with;   *)
(* none when there is no such context in that list.                         *)
CallerBlock(c) == Head(callstrings[c])

CallerContext(d, c) ==
    LET rest == Tail(callstrings[c])
    IN  IF rest = <<>> THEN {0}
        ELSE ExistingContext(callstrings, d[<<CallerBlock(c), "out">>], rest)

-----------------------------------------------------------------------------
(* Lists.  The handlers of a block between start and end that has no        *)
(* constraints, and neither calls nor returns, make IN and OUT one list.    *)

SharedList(b) ==
    /\ ~HasConstraints(b)
    /\ b \notin {Start(b[1]), End(b[1])}
    /\ ~CallBlock(b)
    /\ ~ReturnBlock(b)

InOf(b)  == <<b, "in">>
OutOf(b) == IF SharedList(b) THEN InOf(b) ELSE <<b, "out">>

Lists == Nodes \X {"in", "out"}

NoContexts == << >>

(* A new context. *)
OneContext(c, live) == [k \in {c} |-> [linfo |-> live, new_lvdf |-> TRUE]]

New(list) == {c \in DOMAIN list : list[c].new_lvdf}

ClearNew(list) == [c \in DOMAIN list |-> [list[c] EXCEPT !.new_lvdf = FALSE]]

(* Forgets to mark what has grown. *)
UniteFault(list, from) ==
    [c \in DOMAIN list \cup DOMAIN from |->
        IF c \notin DOMAIN from THEN list[c]
        ELSE IF c \notin DOMAIN list THEN from[c]
        ELSE [list[c] EXCEPT !.linfo = @ \cup from[c].linfo]]

(* The list united with the contexts of another one: marked as new where    *)
(* it grows.                                                                *)
Unite(list, from) ==
    [c \in DOMAIN list \cup DOMAIN from |->
        IF c \notin DOMAIN from THEN list[c]
        ELSE IF c \notin DOMAIN list THEN from[c]
        ELSE [linfo    |-> list[c].linfo \cup from[c].linfo,
              new_lvdf |-> list[c].new_lvdf \/ ~(from[c].linfo \subseteq list[c].linfo)]]

(* What of a list is new. *)
NewPart(list) == [c \in New(list) |-> list[c]]

(* initialize_out, init_ipacs *)
Init ==
    /\ prog \in Programs
    /\ df = [l \in Lists |->
                IF l = <<End(main), "out">>
                THEN OneContext(0, {}) ELSE NoContexts]
    /\ lcsmap = [f \in DOMAIN prog |-> NoRows]
    /\ lcsmap_required = [f \in DOMAIN prog |-> FALSE]
    /\ callstrings = <<>>
    /\ fn_worklist = <<NewWorklistNode(main)>>
    /\ lv_node = FirstNodeFromLvWorklist(fn_worklist)
    /\ process_lv = {End(main)}
    /\ process_pta = {Start(main), End(main)}

-----------------------------------------------------------------------------
(* Transfers within a block. *)

(* copy_out_to_in *)
CopyOutToIn(d, b) ==
    LET new == NewPart(d[OutOf(b)])
    IN  [d EXCEPT ![InOf(b)] = Over(new, @), ![OutOf(b)] = ClearNew(@)]

(* find_live_vars, on the new contexts; nothing is known of points-to.      *)
FindLiveVars(d, b) ==
    LET in == d[InOf(b)]
    IN  [d EXCEPT ![InOf(b)] =
            [c \in DOMAIN in |->
                IF in[c].new_lvdf THEN [in[c] EXCEPT !.linfo = LiveIn(@, EmptyVal, Code(b))]
                ELSE in[c]]]

(* Takes every predecessor something is sent to for one that has grown. *)
GrownPredsFault(d, b) == {a \in LvPreds(b) : New(d[InOf(b)]) # {}}

(* propagate_liveness_to_all_preds: the lists, and the blocks to process.   *)
GrownPreds(d, b) ==
    {a \in LvPreds(b) :
        \E c \in New(d[InOf(b)]) :
            \/ c \notin DOMAIN d[OutOf(a)]
            \/ ~(d[InOf(b)][c].linfo \subseteq d[OutOf(a)][c].linfo)}

PropagateToPreds(d, b) ==
    LET to   == {OutOf(a) : a \in LvPreds(b)}
        sent == [l \in Lists |->
                    IF l \in to THEN Unite(d[l], NewPart(d[InOf(b)])) ELSE d[l]]
    IN  [sent EXCEPT ![InOf(b)] = ClearNew(@)]

-----------------------------------------------------------------------------
(* The start of a function. *)

(* Only looks whether the lhs is new. *)
RegenerateFault(d, f) ==
    LET rows == lcsmap[f]
        in   == d[InOf(Start(f))]
        regenerated ==
            {c \in Mapped(rows) \ DOMAIN rows :
                LhsOf(rows, c) \in DOMAIN in /\ in[LhsOf(rows, c)].new_lvdf}
    IN  [d EXCEPT
            ![InOf(Start(f))] =
                Over([c \in regenerated |->
                         [linfo |-> in[LhsOf(rows, c)].linfo, new_lvdf |-> TRUE]], @),
            ![OutOf(End(f))] = ClearNew(@)]

(* perform_regeneration_at_startblock: the contexts of each rhs get, at IN  *)
(* of the start block, what their lhs has got there.                        *)
Regenerate(d, f) ==
    LET rows == lcsmap[f]
        in   == d[InOf(Start(f))]
        out  == d[OutOf(End(f))]
        lhs(c) == LhsOf(rows, c)
        regenerated ==
            {c \in Mapped(rows) \ DOMAIN rows :
                /\ lhs(c) \in DOMAIN in
                /\ out[c].new_lvdf \/ in[lhs(c)].new_lvdf
                /\ c \in DOMAIN in =>
                      ~in[c].new_lvdf /\ in[c].linfo # in[lhs(c)].linfo}
    IN  [d EXCEPT
            ![InOf(Start(f))] =
                Over([c \in regenerated |->
                         [linfo |-> in[lhs(c)].linfo, new_lvdf |-> TRUE]], @),
            ![OutOf(End(f))] = ClearNew(@)]

(* The call blocks, with the caller's context, that the new contexts at IN  *)
(* of the start block go back to.                                           *)
CallersOf(d, f) ==
    UNION {{<<CallerBlock(c), p, c>> : p \in CallerContext(d, c)
                                        \cap DOMAIN d[<<CallerBlock(c), "out">>]} :
           c \in New(d[InOf(Start(f))])}

(* propagate_liveness_to_callblock: the contexts of f whose call block is to *)
(* be processed, the blocks, the lists.                                      *)
GrownContexts(d, f) ==
    LET live == d[InOf(Start(f))]
    IN  {e[3] : e \in {g \in CallersOf(d, f) :
                    ~(live[g[3]].linfo \subseteq d[<<g[1], "out">>][g[2]].linfo)}}

GrownCallBlocks(grown) == {CallerBlock(c) : c \in grown}

PropagateToCallBlocks(d, f) ==
    LET live    == d[InOf(Start(f))]
        callers == CallersOf(d, f)
        sent(b) == [p \in {e[2] : e \in {g \in callers : g[1] = b}} |->
                        live[(CHOOSE e \in callers : e[1] = b /\ e[2] = p)[3]]]
        back == [l \in Lists |->
                    IF l \in {<<e[1], "out">> : e \in callers}
                    THEN Unite(d[l], sent(l[1])) ELSE d[l]]
    IN  [back EXCEPT ![InOf(Start(f))] = ClearNew(@)]

(* The worklist with the functions of those blocks flagged again, in the    *)
(* order of the list: the latest call string first.                         *)
AddCallers(grown) ==
    LET n == Len(callstrings)
        wl[i \in 0..n] ==
            IF i = 0 THEN fn_worklist
            ELSE IF n + 1 - i \in grown
            THEN AddToFnWorklist1(wl[i-1], lv_node, CallerBlock(n + 1 - i)[1])
            ELSE wl[i-1]
    IN  wl[n]

(* The way back from f: regeneration if the map asks for it, and the live   *)
(* sets to the callers.  There is none from main.                           *)
Regenerated(d, f) == IF f # main /\ lcsmap_required[f] THEN Regenerate(d, f) ELSE d
GrownCallers(d, f) == IF f = main THEN {} ELSE GrownContexts(d, f)
Returned(d, f) == IF f = main THEN d ELSE PropagateToCallBlocks(d, f)

NoLongerRequired(f) ==
    IF f = main THEN lcsmap_required ELSE [lcsmap_required EXCEPT ![f] = FALSE]

-----------------------------------------------------------------------------
(* The way into a function, at a return block. *)

(* copy_in_at_returnblock: the variables that receive the value are killed. *)
CopyInAtReturnblock(d, b) ==
    LET sent == [c \in New(d[OutOf(b)]) |->
                    [d[OutOf(b)][c] EXCEPT !.linfo = @ \ Result(CallOf(b))]]
    IN  [d EXCEPT ![InOf(b)] = Unite(@, sent), ![OutOf(b)] = ClearNew(@)]

(* Numbers a new context one too high. *)
EnterCalleeFault(w, string, live) ==
    LET known == ExistingContext(w.pool, w.out, string)
        c     == IF known = {} THEN Len(w.pool) + 2 ELSE CHOOSE k \in known : TRUE
        put   == [w EXCEPT
                    !.pool = IF known = {} THEN Append(@, string) ELSE @,
                    !.out  = Unite(@, OneContext(c, RemoveLocalVars(live))),
                    !.add  = TRUE]
    IN  ModifyLcsmapAtEndblock(put, c, known = {})

(* propagate_liveness_to_endblock for one context with the live set live,   *)
(* and the call string string in the callee: the locals stay behind.  w     *)
(* holds the callee's map and list so far, the pool, and whether the end    *)
(* block has to be processed.                                               *)
EnterCallee(w, string, live) ==
    LET known  == ExistingContext(w.pool, w.out, string)
        is_new == known = {}
        c      == IF is_new THEN Len(w.pool) + 1 ELSE CHOOSE k \in known : TRUE
        sent   == RemoveLocalVars(live)
        grown  == is_new \/ ~(sent \subseteq w.out[c].linfo)
        put    == [w EXCEPT
                    !.pool = IF is_new THEN Append(@, string) ELSE @,
                    !.out  = Unite(@, OneContext(c, sent)),
                    !.add  = @ \/ grown]
    IN  IF grown THEN ModifyLcsmapAtEndblock(put, c, is_new) ELSE put

(* The loop over the new contexts at IN, the latest call string first.      *)
EnterCallees(d, b) ==
    LET f == Callee(CallOf(b))
        n == Len(callstrings)
        w[i \in 0..(n + 1)] ==
            IF i = 0
            THEN [rows |-> lcsmap[f], required |-> lcsmap_required[f],
                  out |-> d[OutOf(End(f))], pool |-> callstrings, add |-> FALSE]
            ELSE IF n + 1 - i \in New(d[InOf(b)])
            THEN EnterCallee(w[i-1], <<CallOf(b)>> \o String(callstrings, n + 1 - i),
                             d[InOf(b)][n + 1 - i].linfo)
            ELSE w[i-1]
    IN  w[n + 1]

-----------------------------------------------------------------------------
(* The block of the current function to be processed. *)

Cnode == fn_worklist[lv_node].called_fn

CalleesProcessed == LvCalleeNodesProcessed(fn_worklist, lv_node)

FlaggedBlocks == {b \in process_lv : b[1] = Cnode}

(* While callees are pending, blocks at a branch, call and start blocks     *)
(* have to wait.                                                            *)
ReadyBlocks ==
    IF CalleesProcessed THEN FlaggedBlocks
    ELSE {b \in FlaggedBlocks : SingleSucc(b) /\ ~CallBlock(b) /\ b # Start(Cnode)}

(* get_bb_for_lv_processing: the last one in reverse postorder.             *)
BlockForLvProcessing(b) ==
    /\ lv_node # 0
    /\ b \in ReadyBlocks
    /\ \A a \in ReadyBlocks : a[2] <= b[2]

-----------------------------------------------------------------------------
(* The handlers. *)

(* What all blocks but those at a start end with: the new live sets at IN   *)
(* go to the predecessors; set_bb_to_process_lv on those that grow and on   *)
(* the blocks in flagged, set_bb_to_process_pta on those in pta.            *)
Propagate(d, b, flagged, pta) ==
    \E grown \in {GrownPreds(d, b) \cup flagged} :
        /\ df' = PropagateToPreds(d, b)
        /\ process_lv' = (process_lv \ {b}) \cup grown
        /\ process_pta' = process_pta \cup grown \cup pta

(* perform_lvipdfa_on_intrablock; the end block of main included.           *)
LvIntraBlock(b) ==
    /\ BlockForLvProcessing(b)
    /\ b # Start(Cnode) /\ ~CallBlock(b) /\ ~ReturnBlock(b)
    /\ b = End(Cnode) => Cnode = main
    /\ \E copied \in {IF SharedList(b) THEN df ELSE CopyOutToIn(df, b)} :
           Propagate(IF HasConstraints(b) THEN FindLiveVars(copied, b) ELSE copied, b, {}, {})
    /\ UNCHANGED <<prog, lcsmap, lcsmap_required, callstrings, fn_worklist, lv_node>>

(* The same for the end block of another function: compute_mapped_in_at_    *)
(* endblock takes the new lhs's to IN.  If something is left for            *)
(* regeneration they stay new until then, and the start block is flagged.   *)
LvEndBlock(b) ==
    LET f        == Cnode
        required == lcsmap_required[f]
        out      == df[OutOf(b)]
        lhs      == New(out) \cap DOMAIN lcsmap[f]
        mapped   == [df EXCEPT
                        ![InOf(b)] = Over([c \in lhs |-> out[c]], @),
                        ![OutOf(b)] = [c \in DOMAIN out |->
                            [out[c] EXCEPT !.new_lvdf = @ /\ (required \/ c \notin lhs)]]]
    IN  /\ b = End(f) /\ b # Start(f) /\ f # main
        /\ lcsmap' = [lcsmap EXCEPT ![f] =
                         [c \in DOMAIN lcsmap[f] |->
                             [lcsmap[f][c] EXCEPT !.present = @ \/ c \in lhs]]]
        /\ Propagate(IF HasConstraints(b) THEN FindLiveVars(mapped, b) ELSE mapped, b,
                     IF required THEN {Start(f)} ELSE {}, {})
        /\ UNCHANGED <<prog, lcsmap_required, callstrings, fn_worklist, lv_node>>

(* perform_lvipdfa_on_startblock, and the step to a function before this    *)
(* one if no function after it is left.                                     *)
LvStartBlock(b) ==
    LET f == Cnode
    IN  /\ b = Start(f) /\ ~CallBlock(b)
        /\ \E regen \in {Regenerated(FindLiveVars(CopyOutToIn(df, b), b), f)} :
           \E grown \in {GrownCallers(regen, f)} :
           \E wl \in {AddCallers(grown)} :
              /\ df' = Returned(regen, f)
              /\ process_lv' = (process_lv \ {b}) \cup GrownCallBlocks(grown)
              /\ process_pta' = process_pta \cup GrownCallBlocks(grown)
              /\ IF LvCalleeNodesProcessed(wl, lv_node)
                 THEN /\ fn_worklist' = LeaveLvNode(wl, lv_node)
                      /\ lv_node' = PrevNodeFromLvWorklist(wl, lv_node)
                 ELSE fn_worklist' = wl /\ UNCHANGED lv_node
        /\ lcsmap_required' = NoLongerRequired(f)
        /\ UNCHANGED <<prog, lcsmap, callstrings>>

(* compute_live_parms: the arguments, whether the parameter is live or not. *)
LiveParms(b) ==
    LET item(i) == Code(b)[i]
        args(i) == IF ~IsAlias(item(i)) THEN item(i).uses
                   ELSE IF item(i).chain[1].rhs.type = ADDRESSOF THEN {}
                   ELSE {item(i).chain[1].rhs.var}
    IN  ProperVars(UNION {args(i) : i \in DOMAIN Code(b)})

(* compute_call_stmt_liveness: what is live after the call is live before   *)
(* it, whatever the callee assigns.                                         *)
CallStmtLiveness(d, b) ==
    LET out(c)  == d[OutOf(b)][c].linfo \cup LiveParms(b)
        sent    == [c \in New(d[OutOf(b)]) |->
                       [linfo |-> RemoveNonLocalVars(out(c), b[1]), new_lvdf |-> TRUE]]
    IN  [d EXCEPT
            ![InOf(b)] = Unite(@, sent),
            ![OutOf(b)] = [c \in DOMAIN @ |->
                IF @[c].new_lvdf THEN [linfo |-> out(c), new_lvdf |-> FALSE] ELSE @[c]]]

(* perform_lvipdfa_on_callblock, inside a function. *)
LvCallBlock(b) ==
    /\ BlockForLvProcessing(b)
    /\ CallBlock(b) /\ b # Start(Cnode)
    /\ Propagate(CallStmtLiveness(df, b), b, {}, {})
    /\ UNCHANGED <<prog, lcsmap, lcsmap_required, callstrings, fn_worklist, lv_node>>

(* The same for a call at the start of a function: the way back, but no     *)
(* step to another function.                                                *)
LvStartCallBlock(b) ==
    LET f == Cnode
    IN  /\ CallBlock(b) /\ b = Start(f)
        /\ \E regen \in {Regenerated(CallStmtLiveness(df, b), f)} :
           \E grown \in {GrownCallers(regen, f)} :
              /\ df' = Returned(regen, f)
              /\ fn_worklist' = AddCallers(grown)
              /\ process_lv' = (process_lv \ {b}) \cup GrownCallBlocks(grown)
              /\ process_pta' = process_pta \cup GrownCallBlocks(grown)
        /\ lcsmap_required' = NoLongerRequired(f)
        /\ UNCHANGED <<prog, lcsmap, callstrings, lv_node>>

(* perform_lvipdfa_on_returnblock: into the callee, whose function is       *)
(* flagged or added after the current one, and on to the call block.        *)
LvReturnBlock(b) ==
    /\ BlockForLvProcessing(b)
    /\ ReturnBlock(b)
    /\ LET f == Callee(CallOf(b))
       IN  \E copied \in {CopyInAtReturnblock(df, b)} :
           \E w \in {EnterCallees(copied, b)} :
              /\ Propagate([copied EXCEPT ![OutOf(End(f))] = w.out], b,
                           IF w.add THEN {End(f)} ELSE {},
                           IF w.add /\ HasNodeFrom(fn_worklist, lv_node, f)
                           THEN {Start(f)} ELSE {})
              /\ lcsmap' = [lcsmap EXCEPT ![f] = w.rows]
              /\ lcsmap_required' = [lcsmap_required EXCEPT ![f] = w.required]
              /\ callstrings' = w.pool
              /\ fn_worklist' = IF w.add THEN AddToFnWorklist(fn_worklist, lv_node, f)
                                ELSE fn_worklist
    /\ UNCHANGED <<prog, lv_node>>

(* Flagged blocks have to wait for callees: on to the next function.  If    *)
(* there were none the pass would be over.                                  *)
NextFunction ==
    /\ lv_node # 0
    /\ ReadyBlocks = {}
    /\ FlaggedBlocks # {} \/ ~CalleesProcessed
    /\ lv_node' = NextNodeFromLvWorklist(fn_worklist, lv_node)
    /\ UNCHANGED <<prog, df, lcsmap, lcsmap_required, callstrings, fn_worklist,
                   process_lv, process_pta>>

(* Nothing is flagged in the function, nor in those after it. *)
PreviousFunction ==
    /\ lv_node # 0
    /\ FlaggedBlocks = {}
    /\ CalleesProcessed
    /\ lv_node' = PrevNodeFromLvWorklist(fn_worklist, lv_node)
    /\ fn_worklist' = LeaveLvNode(fn_worklist, lv_node)
    /\ UNCHANGED <<prog, df, lcsmap, lcsmap_required, callstrings, process_lv, process_pta>>

-----------------------------------------------------------------------------
ProcessBlock(b) ==
    \/ LvIntraBlock(b)
    \/ BlockForLvProcessing(b) /\ LvEndBlock(b)
    \/ BlockForLvProcessing(b) /\ LvStartBlock(b)
    \/ LvCallBlock(b)
    \/ BlockForLvProcessing(b) /\ LvStartCallBlock(b)
    \/ LvReturnBlock(b)

Next == (\E b \in process_lv : ProcessBlock(b)) \/ NextFunction \/ PreviousFunction

Spec == Init /\ [][Next]_vars

(* compute_liveness is one call: it goes on until no function is left. *)
FairSpec == Spec /\ WF_vars(Next)

-----------------------------------------------------------------------------
(* The pass is over. *)
Done == lv_node = 0

IsContextList(list, S) ==
    /\ DOMAIN list \subseteq S
    /\ list \in [DOMAIN list -> [linfo : SUBSET Var, new_lvdf : BOOLEAN]]

(* Every piece of the state is what its name says. *)
TypeOK ==
    /\ callstrings \in Seq(Seq(Nodes))
    /\ DOMAIN df = Lists
    /\ \A l \in Lists : IsContextList(df[l], 0..Len(callstrings))
    /\ \A f \in DOMAIN prog : Mapped(lcsmap[f]) \subseteq DOMAIN callstrings
    /\ lcsmap_required \in [DOMAIN prog -> BOOLEAN]
    /\ IsWorklist(fn_worklist, DOMAIN prog)
    /\ lv_node \in 0..Len(fn_worklist)
    /\ process_lv \subseteq Nodes /\ process_pta \subseteq Nodes

(* compute_liveness goes from function to function by the flags of the     *)
(* function worklist alone (prev_node_from_lv_worklist, first_node_...): a *)
(* block that is flagged in a function that is not would be left behind.   *)
NoStrandedBlock ==
    \A b \in process_lv :
        \E i \in LvFlagged(fn_worklist) : fn_worklist[i].called_fn = b[1]

(* "If cnode is NULL, we are done with liveness computation."              *)
DoneMeansDone == Done => process_lv = {}

(* The callstring map of a function (modify_lcsmap_at_endblock) has every  *)
(* context at OUT of its end block in exactly one row, and no two rows for *)
(* one value.                                                              *)
MapPartitionsContexts ==
    \A f \in DOMAIN prog \ {main} :
        LET rows == lcsmap[f]
            out  == df[OutOf(End(f))]
        IN  /\ Mapped(rows) = DOMAIN out
            /\ \A l \in DOMAIN rows : DOMAIN rows[l].rhs \cap DOMAIN rows = {}
            /\ \A k, l \in DOMAIN rows :
                  k # l => /\ DOMAIN rows[k].rhs \cap DOMAIN rows[l].rhs = {}
                           /\ out[k].linfo # out[l].linfo

(* The lhs stands for the contexts of its rhs: what is live for one of     *)
(* them at the end of the function is live for the lhs.                    *)
LhsCoversRhs ==
    \A f \in DOMAIN prog \ {main} : \A l \in DOMAIN lcsmap[f] :
        \A c \in DOMAIN lcsmap[f][l].rhs :
            df[OutOf(End(f))][c].linfo \subseteq df[OutOf(End(f))][l].linfo

(* The contexts a function is processed in. *)
Representatives(f) == IF f = main THEN {0} ELSE DOMAIN lcsmap[f]

LiveAt(l, c) == IF c \in DOMAIN df[l] THEN df[l][c].linfo ELSE {}

(* What a block makes of a set of live variables. *)
LiveBefore(b, live) ==
    IF CallBlock(b) THEN RemoveNonLocalVars(live \cup LiveParms(b), b[1])
    ELSE IF ReturnBlock(b) THEN live \ Result(CallOf(b))
    ELSE LiveIn(live, EmptyVal, Code(b))

(* Within a function the result is a solution for every context the        *)
(* function is processed in: what is live before a block is live after     *)
(* those before it, and what is live after it has gone through the block.  *)
BlocksSolved ==
    Done => \A b \in Nodes : \A c \in Representatives(b[1]) :
        /\ \A a \in LvPreds(b) : LiveAt(InOf(b), c) \subseteq LiveAt(OutOf(a), c)
        /\ c \in DOMAIN df[OutOf(b)] =>
              LiveBefore(b, LiveAt(OutOf(b), c)) \subseteq LiveAt(InOf(b), c)

(* And between functions: every call has a context in the callee, the row  *)
(* of that context covers what is live after the call, and what its lhs    *)
(* has live at the start of the callee is live before the call.            *)
CallsSolved ==
    Done => \A b \in Nodes : \A c \in Representatives(b[1]) :
        ReturnBlock(b) /\ c \in DOMAIN df[InOf(b)] =>
            LET f == Callee(CallOf(b))
                entered == ExistingContext(callstrings, df[OutOf(End(f))],
                                           <<CallOf(b)>> \o String(callstrings, c))
            IN  /\ entered # {}
                /\ \A e \in entered :
                      LET l == LhsOf(lcsmap[f], e)
                      IN  /\ RemoveLocalVars(LiveAt(InOf(b), c))
                                \subseteq LiveAt(OutOf(End(f)), l)
                          /\ LiveAt(InOf(Start(f)), l)
                                \subseteq LiveAt(OutOf(CallOf(b)), c)

(* The pass ends. *)
Ends == <>Done

(* Seen from the worklists the pass is a Scheduler: the handlers flag only *)
(* blocks of functions that they flag, too, and a function is left only    *)
(* when nothing is flagged in it.                                          *)
Worklists == INSTANCE Scheduler WITH
    Fn <- Fn, fn_worklist <- fn_worklist, lv_node <- lv_node, process_lv <- process_lv

Scheduled == Worklists!Spec

(* The contexts at a place, and what is live there for each.               *)
Live(l) == [c \in DOMAIN df[l] |-> df[l][c].linfo]

(* Why the pass comes to an end: what is live only grows, and only a step  *)
(* that has found something new flags a block or asks for a regeneration,  *)
(* but for the start blocks that regenerations wait for.                   *)
FlaggedByGrowth ==
    [][/\ \A l \in Lists : \A c \in DOMAIN df[l] :
             c \in DOMAIN df'[l] /\ Live(l)[c] \subseteq Live(l)'[c]
       /\ \/ \E l \in Lists : Live(l)' # Live(l)
          \/ /\ \A f \in DOMAIN prog : lcsmap_required'[f] => lcsmap_required[f]
             /\ \A b \in process_lv' \ process_lv :
                   b = Start(b[1]) /\ lcsmap_required[b[1]]]_vars
=============================================================================

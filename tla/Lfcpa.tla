------------------------------- MODULE Lfcpa --------------------------------
(***************************************************************************)
(* The liveness-based flow-sensitive points-to analysis of one procedure,  *)
(* main, in its single context: compute_liveness, compute_pointsto, their  *)
(* block worklists and the handlers of start, end and intra blocks.  The   *)
(* two passes exchange their results: liveness restricts what points-to    *)
(* information is propagated, and new points-to information at a block     *)
(* that dereferences has liveness computed again.                          *)
(*                                                                         *)
(* When the analysis is over, an execution of the analysed program runs    *)
(* against its result.                                                     *)
(***************************************************************************)
EXTENDS Liveness, Execution, FiniteSets

CONSTANT Programs

(* What preprocess_cfg makes: blocks of items, edges between blocks.  The   *)
(* end block is left for the exit block only.                               *)
IsProgram(p) ==
    /\ p.code \in Seq(Seq(Item)) \ {<<>>}
    /\ p.succ \in [DOMAIN p.code -> SUBSET DOMAIN p.code]
    /\ p.succ[Len(p.code)] = {}
    /\ p.deref \subseteq DOMAIN p.code

ASSUME ProgramsAssumption == \A p \in Programs : IsProgram(p)

(***************************************************************************)
(* A program, as preprocess_cfg leaves it: succ[b] are the successors of   *)
(* block b, code[b] its items, and deref the blocks whose flag             *)
(* bb_has_deref_stmts is set.  Blocks are numbered in reverse postorder,   *)
(* the start block first and the end block last, as                        *)
(* initialize_cgraphaux_info numbers them.                                 *)
(***************************************************************************)
VARIABLES
    prog,         \* the program under analysis
    df,           \* the context's data flow information, by list
    process_lv,   \* blocks whose process_lv flag is set
    process_pta,  \* blocks whose process_pta flag is set
    phase,        \* "lv" and "pta" while the passes run, then "run"
    recompute,    \* the argument of compute_liveness
    pc,           \* the execution: its block and the items left of it
    store         \* the execution: the pointee of every variable

analysis == <<df, process_lv, process_pta, phase, recompute>>
execution == <<pc, store>>
vars == <<prog, analysis, execution>>

-----------------------------------------------------------------------------
(* The control flow graph. *)

Blocks == DOMAIN prog.code
Start  == 1
End    == Len(prog.code)

Succs(b) == prog.succ[b]
Preds(b) == {a \in Blocks : b \in Succs(a)}
PredsFn  == [b \in Blocks |-> Preds(b)]

HasConstraints(b) == prog.code[b] # <<>>

HasDeref(b) == b \in prog.deref

(* Blocks without constraints that the passes look through.  The entry     *)
(* block counts as a predecessor of the start block, the exit block as a   *)
(* successor of the end block.                                             *)
PtaBypass(b) ==
    /\ ~HasConstraints(b)
    /\ b # End
    /\ Cardinality(Preds(b)) = IF b = Start THEN 0 ELSE 1

LvBypass(b) ==
    /\ ~HasConstraints(b)
    /\ b # Start
    /\ Cardinality(Succs(b)) = IF b = End THEN 0 ELSE 1

PtaSuccs(b) == Through(Succs(b), prog.succ, {c \in Blocks : PtaBypass(c)})
LvPreds(b)  == Through(Preds(b), PredsFn, {c \in Blocks : LvBypass(c)})

-----------------------------------------------------------------------------
(* The data flow information.  The handlers of a block between start and   *)
(* end that has no constraints make its IN and OUT lists one list.         *)

SharedList(b) == ~HasConstraints(b) /\ b \notin {Start, End}

InOf(b)  == <<b, "in">>
OutOf(b) == IF SharedList(b) THEN InOf(b) ELSE <<b, "out">>

Lists == Blocks \X {"in", "out"}

(* A list of one procedure holds at most the one context.  seen says that  *)
(* its points-to index is no longer the initial -2: the first value that   *)
(* arrives counts as a change, be it empty.                                *)
NoContext ==
    [on |-> FALSE, linfo |-> {}, pinfo |-> EmptyVal, seen |-> FALSE,
     new_lvdf |-> FALSE, new_ptadf |-> FALSE]

(* initialize_out: what the end block of main starts from. *)
InitialContext ==
    [NoContext EXCEPT !.on = TRUE, !.new_lvdf = TRUE, !.new_ptadf = TRUE]

Init ==
    /\ prog \in Programs
    /\ df = [l \in Lists |-> IF l = OutOf(End) THEN InitialContext ELSE NoContext]
    /\ process_lv = {End}
    /\ process_pta = {Start, End}
    /\ phase = "lv"
    /\ recompute = FALSE
    /\ pc = [block |-> Start, left |-> <<>>]
    /\ store = [v \in Var |-> Undefined]

-----------------------------------------------------------------------------
(* Points-to pass. *)

(* Copies the value to an OUT that exists, but does not mark it as new. *)
CopyInToOutFault(d, b) ==
    LET in == d[InOf(b)]
        out == d[OutOf(b)]
    IN  IF ~(in.on /\ in.new_ptadf) THEN d
        ELSE [d EXCEPT
                ![OutOf(b)] = IF out.on
                              THEN [out EXCEPT !.pinfo = in.pinfo, !.seen = in.seen]
                              ELSE in,
                ![InOf(b)].new_ptadf = FALSE]

(* copy_in_to_out, for a block whose lists are two. *)
CopyInToOut(d, b) ==
    LET in == d[InOf(b)]
        out == d[OutOf(b)]
    IN  IF ~(in.on /\ in.new_ptadf) THEN d
        ELSE [d EXCEPT
                ![OutOf(b)] = IF out.on
                              THEN [out EXCEPT !.pinfo = in.pinfo, !.seen = in.seen,
                                               !.new_ptadf = TRUE]
                              ELSE in,
                ![InOf(b)].new_ptadf = FALSE]

(* find_pointsto_pair on every context of OUT that is new. *)
FindPointsToPair(d, b) ==
    LET out == d[OutOf(b)]
    IN  IF ~(HasConstraints(b) /\ out.on /\ out.new_ptadf) THEN d
        ELSE [d EXCEPT ![OutOf(b)].pinfo = BlockOut(out.pinfo, prog.code[b]),
                       ![OutOf(b)].seen = TRUE]

(* Forgets the liveness at the other end of the edge. *)
CalculateActualOutFault(out, in) == RestrictTo(out.pinfo, out.linfo)

(* calculate_actual_out: what is live at both ends of the edge. *)
CalculateActualOut(out, in) ==
    RestrictTo(out.pinfo, IF in.on THEN out.linfo \cap in.linfo ELSE out.linfo)

(* Every arrival counts as a change. *)
ArriveEndless(out, in) ==
    LET new == CalculateActualOut(out, in)
    IN  IF ~in.on THEN [out EXCEPT !.pinfo = new, !.seen = TRUE]
        ELSE [in EXCEPT !.pinfo = MergePointsTo(@, new), !.seen = TRUE, !.new_ptadf = TRUE]

(* The context at IN of a successor after propagate_pointsto_to_all_succs. *)
Arrive(out, in) ==
    LET new  == CalculateActualOut(out, in)
        conf == MergePointsTo(in.pinfo, new)
    IN  IF ~in.on THEN [out EXCEPT !.pinfo = new, !.seen = TRUE]
        ELSE IF in.seen /\ conf = in.pinfo THEN in
        ELSE [in EXCEPT !.pinfo = conf, !.seen = TRUE, !.new_ptadf = TRUE]

(* The successors whose IN changes. *)
ChangedSuccs(d, b) ==
    IF d[OutOf(b)].on /\ d[OutOf(b)].new_ptadf
    THEN {c \in PtaSuccs(b) : Arrive(d[OutOf(b)], d[InOf(c)]) # d[InOf(c)]}
    ELSE {}

PropagatePointsTo(d, b, changed) ==
    [l \in Lists |->
        IF \E c \in changed : l = InOf(c) THEN Arrive(d[OutOf(b)], d[l]) ELSE d[l]]

(* perform_csipdfa_on_intrablock. *)
PtaIntraBlock(b) ==
    \E found \in {FindPointsToPair(IF SharedList(b) THEN df ELSE CopyInToOut(df, b), b)} :
    \E changed \in {ChangedSuccs(found, b)} :
        /\ df' = [PropagatePointsTo(found, b, changed) EXCEPT ![OutOf(b)].new_ptadf = FALSE]
        /\ process_pta' = (process_pta \ {b}) \cup changed
        /\ process_lv' = process_lv \cup {c \in changed : HasDeref(c)}
        /\ IF \E c \in changed : HasDeref(c)
           THEN phase' = "lv" /\ recompute' = TRUE
           ELSE UNCHANGED <<phase, recompute>>

(* perform_csipdfa_on_endblock, for main. *)
PtaEndBlock ==
    /\ df' = CopyInToOut(df, End)
    /\ process_pta' = process_pta \ {End}
    /\ UNCHANGED <<process_lv, phase, recompute>>

(* get_bb_for_pta_processing: the first flagged block in reverse postorder. *)
PtaStep ==
    /\ phase = "pta"
    /\ process_pta # {}
    /\ LET b == CHOOSE c \in process_pta : \A e \in process_pta : c <= e
       IN  IF b = End THEN PtaEndBlock ELSE PtaIntraBlock(b)
    /\ UNCHANGED <<prog, execution>>

(* No flagged block is left: compute_pointsto returns. *)
PtaDone ==
    /\ phase = "pta"
    /\ process_pta = {}
    /\ phase' = "run"
    /\ pc' = [block |-> Start, left |-> prog.code[Start]]
    /\ UNCHANGED <<prog, df, process_lv, process_pta, recompute, store>>

-----------------------------------------------------------------------------
(* Liveness pass. *)

(* copy_out_to_in, and copy_out_to_in_1 when every context is to be copied. *)
CopyOutToIn(d, b, all) ==
    LET in == d[InOf(b)]
        out == d[OutOf(b)]
    IN  IF ~(out.on /\ (all \/ out.new_lvdf)) THEN d
        ELSE [d EXCEPT
                ![InOf(b)] = IF in.on
                             THEN [in EXCEPT !.linfo = out.linfo, !.new_lvdf = TRUE]
                             ELSE out,
                ![OutOf(b)].new_lvdf = FALSE]

(* find_live_vars *)
FindLiveVars(d, b) ==
    LET copied == IF recompute THEN CopyOutToIn(d, b, TRUE) ELSE d
        in     == copied[InOf(b)]
    IN  IF in.on /\ (in.new_lvdf \/ recompute)
        THEN [copied EXCEPT ![InOf(b)].linfo = LiveIn(in.linfo, in.pinfo, prog.code[b])]
        ELSE copied

(* Forgets that OUT has to be propagated again. *)
ArriveLiveFault(in, out) ==
    IF ~out.on THEN in
    ELSE [out EXCEPT !.linfo = @ \cup in.linfo,
                     !.new_lvdf = @ \/ ~(in.linfo \subseteq out.linfo)]

(* The context at OUT of a predecessor after propagate_liveness_to_all_preds: *)
(* a recomputation has its points-to value propagated again.                  *)
ArriveLive(in, out) ==
    IF ~out.on THEN in
    ELSE [out EXCEPT !.linfo = @ \cup in.linfo,
                     !.new_lvdf = @ \/ ~(in.linfo \subseteq out.linfo),
                     !.new_ptadf = @ \/ recompute]

(* propagate_liveness_to_all_preds, once IN of the block has been found.   *)
PropagateLiveness(found, b, preds) ==
    LET in    == found[InOf(b)]
        new   == {a \in preds : ~found[OutOf(a)].on}
        more  == {a \in preds : ~(in.linfo \subseteq found[OutOf(a)].linfo)}
        again == IF recompute THEN preds \ new ELSE {}
        sent  == [l \in Lists |->
                     IF \E a \in preds : l = OutOf(a)
                     THEN ArriveLive(in, found[l]) ELSE found[l]]
    IN  /\ df' = [sent EXCEPT ![InOf(b)].new_lvdf = FALSE]
        /\ process_lv' = (process_lv \ {b}) \cup new \cup more
        /\ process_pta' = process_pta \cup new \cup more \cup again

(* perform_lvipdfa_on_intrablock; the end block of main included.          *)
LvIntraBlock(b) ==
    \E copied \in {IF SharedList(b) THEN df ELSE CopyOutToIn(df, b, FALSE)} :
    \E found \in {IF HasConstraints(b) THEN FindLiveVars(copied, b) ELSE copied} :
    \E preds \in {IF found[InOf(b)].on /\ found[InOf(b)].new_lvdf THEN LvPreds(b) ELSE {}} :
        PropagateLiveness(found, b, preds)

(* perform_lvipdfa_on_startblock, for main. *)
LvStartBlock ==
    /\ df' = FindLiveVars(CopyOutToIn(df, Start, FALSE), Start)
    /\ process_lv' = process_lv \ {Start}
    /\ UNCHANGED process_pta

(* get_bb_for_lv_processing: the last flagged block in reverse postorder. *)
LvStep ==
    /\ phase = "lv"
    /\ process_lv # {}
    /\ LET b == CHOOSE c \in process_lv : \A e \in process_lv : c >= e
       IN  IF b = Start THEN LvStartBlock ELSE LvIntraBlock(b)
    /\ UNCHANGED <<prog, phase, recompute, execution>>

(* No flagged block is left: compute_liveness returns to compute_pointsto. *)
LvDone ==
    /\ phase = "lv"
    /\ process_lv = {}
    /\ phase' = "pta"
    /\ UNCHANGED <<prog, df, process_lv, process_pta, recompute, execution>>

-----------------------------------------------------------------------------
(* The analysed program, executed after the analysis. *)

(* The next item; the execution comes to a PHI with one of its arguments.  *)
RunItem ==
    /\ phase = "run"
    /\ pc.left # <<>>
    /\ LET item == Head(pc.left)
       IN  IF IsAlias(item)
           THEN \E i \in DOMAIN item.chain :
                   /\ Executable(store, item.chain[i])
                   /\ \E value \in Values(store, item.chain[i].rhs) :
                         store' = Execute(store, item.chain[i], value)
           ELSE UNCHANGED store
    /\ pc' = [pc EXCEPT !.left = Tail(@)]
    /\ UNCHANGED <<prog, analysis>>

(* The block is over: the execution goes to one of its successors. *)
RunEdge ==
    /\ phase = "run"
    /\ pc.left = <<>>
    /\ \E c \in Succs(pc.block) : pc' = [block |-> c, left |-> prog.code[c]]
    /\ UNCHANGED <<prog, analysis, store>>

-----------------------------------------------------------------------------
(* What single results need of a program (LfcpaProofs).                    *)

(* The start block is no loop header. *)
NoEntryLoop == Preds(Start) = {}

(* From the end block liveness comes to every block it does not look       *)
(* through: there is no infinite loop.  (The start block's handler does    *)
(* not propagate.)                                                         *)
EndReached ==
    \A S \in SUBSET Blocks :
        End \in S /\ (\A b \in S \ {Start} : LvPreds(b) \subseteq S)
            => \A b \in Blocks \ S : LvBypass(b)

(* Both passes look through the same blocks between start and end.         *)
BypassAgree == \A b \in Blocks \ {Start, End} : LvBypass(b) <=> PtaBypass(b)

(* Loads and stores have set bb_has_deref_stmts of their block.            *)
DerefsMarked ==
    \A b \in Blocks \ prog.deref : \A i \in DOMAIN prog.code[b] :
        LET item == prog.code[b][i]
        IN  IsAlias(item) => DEREF \notin {item.chain[1].lhs.type, item.chain[1].rhs.type}

-----------------------------------------------------------------------------
Analyse == LvStep \/ LvDone \/ PtaStep \/ PtaDone

Next == Analyse \/ RunItem \/ RunEdge

Spec == Init /\ [][Next]_vars

(* The pass is one call: it goes on as long as it can. *)
FairSpec == Spec /\ WF_vars(Analyse)

-----------------------------------------------------------------------------
(* A context with that points-to value. *)
Context(value) ==
    [on : BOOLEAN, linfo : SUBSET Var, pinfo : {value}, seen : BOOLEAN,
     new_lvdf : BOOLEAN, new_ptadf : BOOLEAN]

TypeOK ==
    /\ \A l \in Lists :
          /\ df[l] \in Context(df[l].pinfo)
          /\ IsPointsToVal(df[l].pinfo)
          /\ NormalVal(df[l].pinfo)
          /\ ~df[l].on => df[l] = NoContext
    /\ process_lv \subseteq Blocks
    /\ process_pta \subseteq Blocks
    /\ phase \in {"lv", "pta", "run"}
    /\ recompute \in BOOLEAN
    /\ pc.block \in Blocks
    /\ store \in [Var -> Id]

(* The value the analysis has for the place where the execution is. *)
ValueAtPc ==
    LET code == prog.code[pc.block]
    IN  BlockOut(df[InOf(pc.block)].pinfo, SubSeq(code, 1, Len(code) - Len(pc.left)))

(* Wherever the program uses a pointer, the analysis knows where it points: *)
(* the result of both passes together is sound for the uses, which is what  *)
(* liveness is there to preserve while it drops everything else.            *)
UsesSound ==
    phase = "run" /\ pc.left # <<>> =>
        \A v \in Uses(Head(pc.left)) :
            store[v] # Undefined => store[v] \in Pointees(ValueAtPc, v)

(* The liveness of a load or store is computed from what its pointer       *)
(* points to at IN of the block, so nothing before it in the block may     *)
(* change that: preprocess_cfg has to split blocks so ("Split in case of   *)
(* possible deref statement.").                                            *)
DerefsAtIn ==
    phase = "run" =>
        \A b \in Blocks : \A i \in DOMAIN prog.code[b] :
            LET item   == prog.code[b][i]
                in     == df[InOf(b)].pinfo
                before == BlockOut(in, SubSeq(prog.code[b], 1, i - 1))
            IN  IsAlias(item) => \A v \in Uses(item) : Pointees(before, v) = Pointees(in, v)

(* When the analysis returns, every edge is covered: what OUT knows of the *)
(* pointers live at both of its ends has arrived at IN of the successor,   *)
(* through bypass blocks too (propagate_pointsto_to_all_succs).            *)
EdgesCovered ==
    phase = "run" =>
        \A b \in Blocks \ {End} : \A c \in PtaSuccs(b) :
            LET out == df[OutOf(b)]
                in  == df[InOf(c)]
            IN  out.on /\ out.seen =>
                    /\ in.on /\ in.seen
                    /\ AtLeast(CalculateActualOut(out, in), in.pinfo)

(* When the analysis returns, the liveness is that of the final points-to  *)
(* values, although points-to information kept arriving after it was       *)
(* computed: IN is what find_live_vars would make of OUT now, and OUT      *)
(* holds what is live at the successors.                                   *)
LivenessUpToDate ==
    phase = "run" =>
        \A b \in Blocks :
            LET in  == df[InOf(b)]
                out == df[OutOf(b)]
            IN  /\ in.on /\ HasConstraints(b) =>
                      in.linfo = LiveIn(out.linfo, in.pinfo, prog.code[b])
                /\ in.on /\ ~LvBypass(b) =>
                      \A a \in LvPreds(b) : in.linfo \subseteq df[OutOf(a)].linfo

(* When the analysis returns, OUT is the transfer of IN.                   *)
(* (compute_pointsto_out: out = (in - KILL) U GEN.)                        *)
TransferApplied ==
    phase = "run" =>
        \A b \in Blocks \ {End} :
            HasConstraints(b) /\ df[InOf(b)].on =>
                df[OutOf(b)].pinfo = BlockOut(df[InOf(b)].pinfo, prog.code[b])

(* Points-to information is kept for live pointers only (LFCPA's promise). *)
LiveOnly ==
    \A b \in Blocks \ {Start} :
        df[InOf(b)].on => DOMAIN df[InOf(b)].pinfo \subseteq df[InOf(b)].linfo

-----------------------------------------------------------------------------
(* What the soundness of the uses needs of a program (LfcpaProofs).        *)

(* The alias items, by block and place.                                    *)
ChainAt(b, i) == prog.code[b][i].chain

Aliases(b) == {i \in DOMAIN prog.code[b] : IsAlias(prog.code[b][i])}

TypedCode(may) ==
    Typing(may) /\ \A b \in Blocks : \A i \in Aliases(b) : TypedChain(may, ChainAt(b, i))

(* The first constraint of a chain makes live what it reads, the others do *)
(* not, nor does a store: what those assign is an address.                 *)
OthersAreAddresses ==
    \A b \in Blocks : \A i \in Aliases(b) : \A j \in DOMAIN ChainAt(b, i) :
        \/ j = 1 /\ ChainAt(b, i)[j].lhs.type = SCALAR
        \/ ChainAt(b, i)[j].rhs.type = ADDRESSOF

(* Before a block dereferences a pointer it has not assigned it, and has   *)
(* stored nothing.                                                         *)
DerefsUndisturbed == \A b \in Blocks : Undisturbed(prog.code[b])

(* A block that is done twice does no more than when it is done once.      *)
Repeatable(may) ==
    \A b \in Blocks \ {End} : \A D \in SUBSET Var : \A P \in [D -> SUBSET Id] :
        NormalVal(P) /\ TypedVal(may, P) =>
            BlockOut(BlockOut(P, prog.code[b]), prog.code[b]) = BlockOut(P, prog.code[b])

(* The pointer of a load is live: what it assigns is used, or the pointer  *)
(* is used again.  (The compiler has removed loads of no use.)             *)
LoadsLive ==
    phase = "run" =>
        \A b \in Blocks : \A i \in Aliases(b) :
            ChainAt(b, i)[1].rhs.type = DEREF =>
                ChainAt(b, i)[1].rhs.var \in
                    LiveIn(df[OutOf(b)].linfo, df[InOf(b)].pinfo,
                           SubSeq(prog.code[b], i, Len(prog.code[b])))

-----------------------------------------------------------------------------
(* The two passes come to an end, whatever the program. *)
Terminates == <>(phase = "run")
=============================================================================

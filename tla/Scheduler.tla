------------------------------ MODULE Scheduler ------------------------------
(***************************************************************************)
(* What compute_liveness relies on its two worklists for: a flagged block  *)
(* is processed by and by, because the function it is in is flagged, and   *)
(* the pass is over when no function is.  The handlers are abstracted to   *)
(* the blocks they may flag: a return block flags the callee's, whose      *)
(* function is added after the current one; a start block flags those of   *)
(* callers, which are on the list already, and not its own function's.     *)
(* Blocks are pairs of a function and a position.                          *)
(***************************************************************************)
EXTENDS FnWorklist

CONSTANT Fn
VARIABLES fn_worklist, lv_node, process_lv

vars == <<fn_worklist, lv_node, process_lv>>

Cnode == fn_worklist[lv_node].called_fn

FlaggedBlocks == {b \in process_lv : b[1] = Cnode}

(* Block b is no longer flagged, and others only if in these functions.    *)
Flags(b, fns) ==
    /\ process_lv \ {b} \subseteq process_lv'
    /\ \A c \in process_lv' \ (process_lv \ {b}) : c[1] \in fns

Listed(fns) == \A fn \in fns : HasNodeFrom(fn_worklist, 1, fn)

-----------------------------------------------------------------------------
Init ==
    /\ \E fn \in Fn :
          /\ fn_worklist = <<NewWorklistNode(fn)>>
          /\ \A b \in process_lv : b[1] = fn
    /\ lv_node = 1

ProcessBlock(b) ==
    /\ lv_node # 0
    /\ b \in FlaggedBlocks
    /\ Flags(b, {Cnode})
    /\ UNCHANGED <<fn_worklist, lv_node>>

EnterCallee(b, fn) ==
    /\ lv_node # 0
    /\ b \in FlaggedBlocks
    /\ Flags(b, {Cnode, fn})
    /\ fn_worklist' = AddToFnWorklist(fn_worklist, lv_node, fn)
    /\ UNCHANGED lv_node

(* At the start of a function, while functions after it are pending. *)
FlagCallers(b, fns) ==
    /\ lv_node # 0
    /\ b \in FlaggedBlocks
    /\ Listed(fns)
    /\ Flags(b, fns)
    /\ fn_worklist' = FlagFirst(fn_worklist, fns)
    /\ UNCHANGED lv_node

(* At the start of a function that has nothing else to do. *)
ReturnToCallers(b, fns) ==
    LET wl == FlagFirst(fn_worklist, fns)
    IN  /\ lv_node # 0
        /\ FlaggedBlocks = {b}
        /\ Listed(fns) /\ Cnode \notin fns
        /\ Flags(b, fns)
        /\ LvCalleeNodesProcessed(wl, lv_node)
        /\ fn_worklist' = LeaveLvNode(wl, lv_node)
        /\ lv_node' = PrevNodeFromLvWorklist(wl, lv_node)

NextFunction ==
    /\ lv_node # 0
    /\ ~LvCalleeNodesProcessed(fn_worklist, lv_node)
    /\ lv_node' = NextNodeFromLvWorklist(fn_worklist, lv_node)
    /\ UNCHANGED <<fn_worklist, process_lv>>

PreviousFunction ==
    /\ lv_node # 0
    /\ FlaggedBlocks = {}
    /\ LvCalleeNodesProcessed(fn_worklist, lv_node)
    /\ fn_worklist' = LeaveLvNode(fn_worklist, lv_node)
    /\ lv_node' = PrevNodeFromLvWorklist(fn_worklist, lv_node)
    /\ UNCHANGED process_lv

Next ==
    \/ \E b \in process_lv :
          \/ ProcessBlock(b)
          \/ \E fn \in Fn : EnterCallee(b, fn)
          \/ \E fns \in SUBSET Fn : FlagCallers(b, fns) \/ ReturnToCallers(b, fns)
    \/ NextFunction
    \/ PreviousFunction

Spec == Init /\ [][Next]_vars

-----------------------------------------------------------------------------
(* A block that is flagged is in a function that is flagged. *)
NoStrandedBlock ==
    \A b \in process_lv :
        \E i \in LvFlagged(fn_worklist) : fn_worklist[i].called_fn = b[1]

(* When no function is left, no block is. *)
DoneMeansDone == lv_node = 0 => process_lv = {}
=============================================================================

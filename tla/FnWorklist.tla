----------------------------- MODULE FnWorklist -----------------------------
(***************************************************************************)
(* The list of functions the two passes work on: struct worklist_queue and *)
(* the functions over start, lv_node and pta_node.  The list wl is a       *)
(* sequence of nodes, its first the function main; a pointer into it is a  *)
(* position, 0 for NULL.  A function may have several nodes.               *)
(***************************************************************************)
EXTENDS SequencesExt

NewWorklistNode(fn) ==
    [called_fn |-> fn, process_lv |-> TRUE, process_pta |-> TRUE]

IsWorklist(wl, Fn) ==
    wl \in Seq([called_fn : Fn, process_lv : BOOLEAN, process_pta : BOOLEAN])

FirstOf(S) == IF S = {} THEN 0 ELSE Min(S)
LastOf(S)  == IF S = {} THEN 0 ELSE Max(S)

LvFlagged(wl) == {i \in DOMAIN wl : wl[i].process_lv}

(* No function after lv_node is left to be processed. *)
LvCalleeNodesProcessed(wl, lv_node) == \A i \in LvFlagged(wl) : i <= lv_node

FirstNodeFromLvWorklist(wl) == FirstOf(LvFlagged(wl))

NextNodeFromLvWorklist(wl, lv_node) == FirstOf({i \in LvFlagged(wl) : i > lv_node})

(* Leaves the flag set. *)
LeaveLvNodeFault(wl, lv_node) == wl

(* prev_node_from_lv_worklist clears the flag of the node it leaves. *)
LeaveLvNode(wl, lv_node) == [wl EXCEPT ![lv_node].process_lv = FALSE]

(* Never comes to the first node. *)
PrevNodeFromLvWorklistFault(wl, lv_node) ==
    LastOf({i \in LvFlagged(wl) : 1 < i /\ i < lv_node})

PrevNodeFromLvWorklist(wl, lv_node) == LastOf({i \in LvFlagged(wl) : i < lv_node})

HasNodeFrom(wl, from, fn) == \E j \in DOMAIN wl : j >= from /\ wl[j].called_fn = fn

(* Flags the first node of fn from position from on, or inserts a new node  *)
(* after lv_node.                                                           *)
AddFrom(wl, from, lv_node, fn) ==
    LET i == FirstOf({j \in DOMAIN wl : j >= from /\ wl[j].called_fn = fn})
    IN  IF ~HasNodeFrom(wl, from, fn) THEN InsertAt(wl, lv_node + 1, NewWorklistNode(fn))
        ELSE [wl EXCEPT ![i] = NewWorklistNode(fn)]

(* A callee is looked for from lv_node on, a caller in the whole list. *)
AddToFnWorklist(wl, lv_node, fn) == AddFrom(wl, lv_node, lv_node, fn)

(* Flags a caller that is in the list for the points-to pass only. *)
AddToFnWorklist1Fault(wl, lv_node, fn) ==
    LET i == FirstOf({j \in DOMAIN wl : wl[j].called_fn = fn})
    IN  IF HasNodeFrom(wl, 1, fn) THEN [wl EXCEPT ![i].process_pta = TRUE]
        ELSE AddFrom(wl, 1, lv_node, fn)

AddToFnWorklist1(wl, lv_node, fn) == AddFrom(wl, 1, lv_node, fn)

(* The first node of every one of these functions is flagged.              *)
FlagFirst(wl, fns) ==
    [i \in DOMAIN wl |->
        IF wl[i].called_fn \in fns /\ \A j \in 1..(i - 1) : wl[j].called_fn # wl[i].called_fn
        THEN NewWorklistNode(wl[i].called_fn) ELSE wl[i]]

(* Flags it for the points-to pass only. *)
SetInLvWorklistFault(wl, fn) ==
    [i \in DOMAIN wl |->
        IF i = FirstOf({j \in DOMAIN wl : wl[j].called_fn = fn})
        THEN [wl[i] EXCEPT !.process_pta = TRUE] ELSE wl[i]]

(* set_in_lv_worklist flags the first node of fn, if there is one.          *)
SetInLvWorklist(wl, fn) ==
    [i \in DOMAIN wl |->
        IF i = FirstOf({j \in DOMAIN wl : wl[j].called_fn = fn})
        THEN NewWorklistNode(fn) ELSE wl[i]]

-----------------------------------------------------------------------------
(* The same for the points-to pass. *)

PtaFlagged(wl) == {i \in DOMAIN wl : wl[i].process_pta}

PtaCalleeNodesProcessed(wl, pta_node) == \A i \in PtaFlagged(wl) : i <= pta_node

FirstNodeFromPtaWorklist(wl) == FirstOf(PtaFlagged(wl))

NextNodeFromPtaWorklist(wl, pta_node) == FirstOf({i \in PtaFlagged(wl) : i > pta_node})

(* Leaves the flag set. *)
LeavePtaNodeFault(wl, pta_node) == wl

LeavePtaNode(wl, pta_node) == [wl EXCEPT ![pta_node].process_pta = FALSE]

PrevNodeFromPtaWorklist(wl, pta_node) == LastOf({i \in PtaFlagged(wl) : i < pta_node})

(* Does not flag a function that is in the list. *)
SetInPtaWorklistFault(wl, pta_node, fn) ==
    IF HasNodeFrom(wl, pta_node, fn) THEN wl
    ELSE InsertAt(wl, pta_node + 1, NewWorklistNode(fn))

(* set_in_pta_worklist: flags the first node of fn from pta_node on, or     *)
(* inserts a new one after it, with both flags set.                         *)
SetInPtaWorklist(wl, pta_node, fn) ==
    LET i == FirstOf({j \in DOMAIN wl : j >= pta_node /\ wl[j].called_fn = fn})
    IN  IF HasNodeFrom(wl, pta_node, fn) THEN [wl EXCEPT ![i].process_pta = TRUE]
        ELSE InsertAt(wl, pta_node + 1, NewWorklistNode(fn))

=============================================================================

--------------------------- MODULE SchedulerProofs ---------------------------
(***************************************************************************)
(* The function worklist, however long and with however many nodes of one  *)
(* function, loses no flagged block: as long as a block is flagged a node  *)
(* of its function is, and when there is no current node nothing is.       *)
(***************************************************************************)
EXTENDS Scheduler, FnWorklistProofs

-----------------------------------------------------------------------------
(* The invariant is inductive with the current node: it is flagged, and    *)
(* there is always one as long as a node is.                               *)
IInv ==
    /\ IsWorklist(fn_worklist, Fn)
    /\ lv_node \in 0..Len(fn_worklist)
    /\ lv_node # 0 => lv_node \in LvFlagged(fn_worklist)
    /\ lv_node = 0 => LvFlagged(fn_worklist) = {}
    /\ NoStrandedBlock

LEMMA InitInv == Init => IInv
<1> SUFFICES ASSUME NEW fn \in Fn,
                    fn_worklist = <<NewWorklistNode(fn)>>,
                    \A b \in process_lv : b[1] = fn,
                    lv_node = 1
             PROVE  IInv
  BY DEF Init
<1>1. /\ NewWorklistNode(fn) \in WorklistNodes(Fn)
      /\ NewWorklistNode(fn).called_fn = fn
      /\ NewWorklistNode(fn).process_lv = TRUE
  BY NodeType
<1>2. fn_worklist \in Seq(WorklistNodes(Fn)) /\ Len(fn_worklist) = 1 /\ DOMAIN fn_worklist = {1}
  BY <1>1
<1>3. 1 \in LvFlagged(fn_worklist) /\ fn_worklist[1].called_fn = fn
  BY <1>1, <1>2 DEF LvFlagged
<1>4. IsWorklist(fn_worklist, Fn)
  BY <1>2, WorklistType
<1>5. NoStrandedBlock
  BY <1>3 DEF NoStrandedBlock
<1> QED
  BY <1>2, <1>3, <1>4, <1>5 DEF IInv

LEMMA NextInv == IInv /\ [Next]_vars => IInv'
<1> SUFFICES ASSUME IInv, [Next]_vars PROVE IInv'
  OBVIOUS
<1> DEFINE wl == fn_worklist
<1>1. /\ IsWorklist(wl, Fn)
      /\ lv_node \in 0..Len(wl)
      /\ lv_node # 0 => lv_node \in LvFlagged(wl)
      /\ lv_node = 0 => LvFlagged(wl) = {}
      /\ \A b \in process_lv : \E i \in LvFlagged(wl) : wl[i].called_fn = b[1]
  BY DEF IInv, NoStrandedBlock
<1>2. DOMAIN wl = 1..Len(wl) /\ Len(wl) \in Nat
  <2>1. wl \in Seq(WorklistNodes(Fn))
    BY <1>1, WorklistType
  <2> QED
    BY <2>1
<1>3. ASSUME NEW b \in process_lv, ProcessBlock(b)
      PROVE  IInv'
  <2>1. lv_node \in LvFlagged(wl) /\ wl[lv_node].called_fn = Cnode
    BY <1>1, <1>3 DEF ProcessBlock, Cnode
  <2>2. \A c \in process_lv' : c \in process_lv \/ c[1] = Cnode
    BY <1>3 DEF ProcessBlock, Flags
  <2>3. wl' = wl /\ lv_node' = lv_node
    BY <1>3 DEF ProcessBlock
  <2>4. NoStrandedBlock'
    BY <1>1, <2>1, <2>2, <2>3 DEF NoStrandedBlock
  <2> QED
    BY <1>1, <2>3, <2>4 DEF IInv
<1>4. ASSUME NEW b \in process_lv, NEW fn \in Fn, EnterCallee(b, fn)
      PROVE  IInv'
  <2>1. lv_node # 0 /\ lv_node' = lv_node
    BY <1>4 DEF EnterCallee
  <2>2. lv_node \in LvFlagged(wl) /\ lv_node \in DOMAIN wl
    BY <1>1, <2>1 DEF LvFlagged
  <2>3. Keeps(Fn, wl, wl', lv_node) /\ \E j \in LvFlagged(wl') : wl'[j].called_fn = fn
    <3>1. wl' = AddToFnWorklist(wl, lv_node, fn)
      BY <1>4 DEF EnterCallee
    <3> QED
      BY <1>1, <2>2, <3>1, AddToFnWorklistKeeps
  <2>4. /\ IsWorklist(wl', Fn)
        /\ lv_node \in LvFlagged(wl')
        /\ lv_node \in 0..Len(wl')
    <3>1. DOMAIN wl' = 1..Len(wl') /\ lv_node \in DOMAIN wl'
      <4>1. wl' \in Seq(WorklistNodes(Fn))
        BY <2>3, WorklistType DEF Keeps
      <4> QED
        BY <2>3, <4>1 DEF Keeps
    <3> QED
      BY <1>2, <2>2, <2>3, <3>1 DEF Keeps, LvFlagged
  <2>5. \A c \in process_lv' : c \in process_lv \/ c[1] \in {Cnode, fn}
    BY <1>4 DEF EnterCallee, Flags
  <2>6. \A c \in process_lv' : \E j \in LvFlagged(wl') : wl'[j].called_fn = c[1]
    <3> TAKE c \in process_lv'
    <3>1. CASE c \in process_lv
      BY <1>1, <2>3, <3>1 DEF Keeps
    <3>2. CASE c[1] = Cnode
      BY <2>2, <2>3, <3>2 DEF Keeps, Cnode
    <3>3. CASE c[1] = fn
      BY <2>3, <3>3
    <3> QED
      BY <2>5, <3>1, <3>2, <3>3
  <2> QED
    BY <2>1, <2>4, <2>6 DEF IInv, NoStrandedBlock
<1>5. ASSUME NEW b \in process_lv, NEW fns \in SUBSET Fn, FlagCallers(b, fns)
      PROVE  IInv'
  <2>1. /\ IsWorklist(wl', Fn)
        /\ DOMAIN wl' = DOMAIN wl
        /\ \A i \in DOMAIN wl : wl'[i].called_fn = wl[i].called_fn
        /\ LvFlagged(wl) \subseteq LvFlagged(wl')
        /\ \A fn \in fns : HasNodeFrom(wl, 1, fn) =>
              \E j \in LvFlagged(wl') : wl'[j].called_fn = fn
    <3>1. wl' = FlagFirst(wl, fns)
      BY <1>5 DEF FlagCallers
    <3> QED
      BY <1>1, <3>1, FlagFirstKeeps
  <2>2. lv_node # 0 /\ lv_node' = lv_node /\ \A fn \in fns : HasNodeFrom(wl, 1, fn)
    BY <1>5 DEF FlagCallers, Listed
  <2>3. lv_node \in LvFlagged(wl') /\ lv_node \in 0..Len(wl')
    <3>1. wl' \in Seq(WorklistNodes(Fn))
      BY <2>1, WorklistType
    <3>2. Len(wl') = Len(wl)
      BY <1>2, <2>1, <3>1
    <3> QED
      BY <1>1, <2>1, <2>2, <3>2
  <2>4. \A c \in process_lv' : c \in process_lv \/ c[1] \in fns
    BY <1>5 DEF FlagCallers, Flags
  <2>5. \A c \in process_lv' : \E j \in LvFlagged(wl') : wl'[j].called_fn = c[1]
    BY <1>1, <2>1, <2>2, <2>4 DEF LvFlagged
  <2> QED
    BY <2>1, <2>2, <2>3, <2>5 DEF IInv, NoStrandedBlock
<1>6. ASSUME NEW b \in process_lv, NEW fns \in SUBSET Fn, ReturnToCallers(b, fns)
      PROVE  IInv'
  <2>0. PICK wl1 : wl1 = FlagFirst(wl, fns)
    OBVIOUS
  <2>1. /\ IsWorklist(wl1, Fn)
        /\ DOMAIN wl1 = DOMAIN wl
        /\ \A i \in DOMAIN wl : wl1[i].called_fn = wl[i].called_fn
        /\ LvFlagged(wl) \subseteq LvFlagged(wl1)
        /\ \A fn \in fns : HasNodeFrom(wl, 1, fn) =>
              \E j \in LvFlagged(wl1) : wl1[j].called_fn = fn
    BY <1>1, <2>0, FlagFirstKeeps
  <2>2. /\ lv_node # 0
        /\ FlaggedBlocks = {b}
        /\ \A fn \in fns : HasNodeFrom(wl, 1, fn)
        /\ Cnode \notin fns
        /\ \A c \in process_lv' : (c \in process_lv /\ c # b) \/ c[1] \in fns
        /\ LvCalleeNodesProcessed(wl1, lv_node)
        /\ wl' = LeaveLvNode(wl1, lv_node)
        /\ lv_node' = PrevNodeFromLvWorklist(wl1, lv_node)
    BY <1>6, <2>0 DEF ReturnToCallers, Listed, Flags
  <2>3. /\ IsWorklist(wl', Fn)
        /\ LvFlagged(wl') = LvFlagged(wl1) \ {lv_node}
        /\ \A i \in DOMAIN wl1 : wl'[i].called_fn = wl1[i].called_fn
        /\ lv_node' \in 0..Len(wl')
        /\ lv_node' # 0 => lv_node' \in LvFlagged(wl')
        /\ lv_node' = 0 => LvFlagged(wl') = {}
    BY <1>1, <2>1, <2>2, LeavingKeeps
  <2>4. \A c \in process_lv' :
           c[1] # Cnode /\ \E j \in LvFlagged(wl1) : wl1[j].called_fn = c[1]
    <3> TAKE c \in process_lv'
    <3>1. CASE c \in process_lv /\ c # b
      BY <1>1, <2>1, <2>2, <3>1 DEF FlaggedBlocks, LvFlagged
    <3>2. CASE c[1] \in fns
      BY <2>1, <2>2, <3>2
    <3> QED
      BY <2>2, <3>1, <3>2
  <2>5. \A c \in process_lv' : \E j \in LvFlagged(wl') : wl'[j].called_fn = c[1]
    <3>1. lv_node \in DOMAIN wl1 /\ wl1[lv_node].called_fn = Cnode
      BY <1>1, <2>1, <2>2 DEF LvFlagged, Cnode
    <3> QED
      BY <2>3, <2>4, <3>1 DEF LvFlagged
  <2> QED
    BY <2>3, <2>5 DEF IInv, NoStrandedBlock
<1>7. CASE NextFunction
  <2> DEFINE P == {i \in LvFlagged(wl) : i > lv_node}
  <2>1. P # {} /\ P \in SUBSET (Nat \ {0})
    BY <1>1, <1>2, <1>7 DEF NextFunction, LvCalleeNodesProcessed, LvFlagged
  <2>2. FirstOf(P) \in P
    BY <2>1, FirstOfIsFirst
  <2>3. wl' = wl /\ process_lv' = process_lv /\ lv_node' = FirstOf(P)
    BY <1>7 DEF NextFunction, NextNodeFromLvWorklist
  <2>4. lv_node' \in LvFlagged(wl) /\ lv_node' \in 1..Len(wl)
    BY <1>2, <2>2, <2>3 DEF LvFlagged
  <2> QED
    BY <1>1, <1>2, <2>3, <2>4 DEF IInv, NoStrandedBlock
<1>8. CASE PreviousFunction
  <2>1. /\ lv_node # 0
        /\ FlaggedBlocks = {}
        /\ LvCalleeNodesProcessed(wl, lv_node)
        /\ wl' = LeaveLvNode(wl, lv_node)
        /\ lv_node' = PrevNodeFromLvWorklist(wl, lv_node)
        /\ process_lv' = process_lv
    BY <1>8 DEF PreviousFunction
  <2>2. /\ IsWorklist(wl', Fn)
        /\ LvFlagged(wl') = LvFlagged(wl) \ {lv_node}
        /\ \A i \in DOMAIN wl : wl'[i].called_fn = wl[i].called_fn
        /\ lv_node' \in 0..Len(wl')
        /\ lv_node' # 0 => lv_node' \in LvFlagged(wl')
        /\ lv_node' = 0 => LvFlagged(wl') = {}
    BY <1>1, <2>1, LeavingKeeps
  <2>3. \A c \in process_lv' : \E j \in LvFlagged(wl') : wl'[j].called_fn = c[1]
    <3>1. \A c \in process_lv : c[1] # Cnode
      BY <2>1 DEF FlaggedBlocks
    <3> QED
      BY <1>1, <2>1, <2>2, <3>1 DEF LvFlagged, Cnode
  <2> QED
    BY <2>2, <2>3 DEF IInv, NoStrandedBlock
<1>9. CASE UNCHANGED vars
  BY <1>1, <1>9 DEF vars, IInv, NoStrandedBlock
<1> QED
  BY <1>3, <1>4, <1>5, <1>6, <1>7, <1>8, <1>9 DEF Next

LEMMA Invariant == Spec => []IInv
BY InitInv, NextInv, PTL DEF Spec

(* However the handlers flag blocks and functions within their bounds, a   *)
(* flagged block stays in reach: its function is flagged.                  *)
THEOREM NothingStranded == Spec => []NoStrandedBlock
<1>1. IInv => NoStrandedBlock
  BY DEF IInv
<1> QED
  BY <1>1, Invariant, PTL

(* When compute_liveness runs out of functions it has run out of blocks.   *)
THEOREM EndsWithNothingFlagged == Spec => []DoneMeansDone
<1>1. IInv => DoneMeansDone
  BY DEF IInv, NoStrandedBlock, DoneMeansDone
<1> QED
  BY <1>1, Invariant, PTL
=============================================================================

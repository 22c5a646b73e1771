------------------------- MODULE InterLivenessProofs -------------------------
(***************************************************************************)
(* The liveness pass over all functions, for every program and with any    *)
(* number of functions, blocks and contexts: the types of its state, the   *)
(* callstring maps, and that seen from the worklists it is a Scheduler.    *)
(***************************************************************************)
EXTENDS InterLiveness, TransferProofs, FnWorklistProofs, FiniteSetTheorems

P == INSTANCE SchedulerProofs WITH
    Fn <- Fn, fn_worklist <- fn_worklist, lv_node <- lv_node, process_lv <- process_lv

-----------------------------------------------------------------------------
(* Lists of contexts. *)

Entry == [linfo : SUBSET Var, new_lvdf : BOOLEAN]

LEMMA ContextListParts ==
    ASSUME NEW S, NEW list
    PROVE  IsContextList(list, S) <=>
              /\ DOMAIN list \subseteq S
              /\ list = [c \in DOMAIN list |-> list[c]]
              /\ \A c \in DOMAIN list : list[c] \in Entry
BY DEF IsContextList, Entry

LEMMA ListOperations ==
    ASSUME NEW S, NEW list, IsContextList(list, S), NEW from, IsContextList(from, S)
    PROVE  /\ IsContextList(Unite(list, from), S)
           /\ IsContextList(Over(from, list), S)
           /\ IsContextList(ClearNew(list), S)
           /\ IsContextList(NewPart(list), S)
<1>1. /\ DOMAIN list \subseteq S /\ \A c \in DOMAIN list : list[c] \in Entry
      /\ DOMAIN from \subseteq S /\ \A c \in DOMAIN from : from[c] \in Entry
  BY ContextListParts
<1>2. IsContextList(Unite(list, from), S)
  <2>1. \A c \in DOMAIN list \cup DOMAIN from : Unite(list, from)[c] \in Entry
    BY <1>1 DEF Unite, Entry
  <2> QED
    BY <1>1, <2>1, ContextListParts DEF Unite
<1>3. IsContextList(Over(from, list), S)
  BY <1>1, ContextListParts DEF Over
<1>4. IsContextList(ClearNew(list), S)
  <2>1. \A c \in DOMAIN list : ClearNew(list)[c] \in Entry
    BY <1>1 DEF ClearNew, Entry
  <2> QED
    BY <1>1, <2>1, ContextListParts DEF ClearNew
<1>5. IsContextList(NewPart(list), S)
  BY <1>1, ContextListParts DEF NewPart, New
<1> QED
  BY <1>2, <1>3, <1>4, <1>5

LEMMA OneContextList ==
    ASSUME NEW S, NEW c \in S, NEW live \in SUBSET Var
    PROVE  IsContextList(OneContext(c, live), S)
<1>1. \A k \in {c} : OneContext(c, live)[k] \in Entry
  BY DEF OneContext, Entry
<1> QED
  BY <1>1, ContextListParts DEF OneContext

LEMMA MoreContexts ==
    ASSUME NEW S, NEW T, S \subseteq T, NEW list, IsContextList(list, S)
    PROVE  IsContextList(list, T)
BY DEF IsContextList

-----------------------------------------------------------------------------
(* Callstring maps.  Contexts in a row are contexts of the function, S.     *)

IsRow(row, S) ==
    /\ DOMAIN row = {"present", "rhs", "nr"}
    /\ DOMAIN row.rhs \subseteq S

IsMap(rows, S) ==
    /\ DOMAIN rows \subseteq S
    /\ \A l \in DOMAIN rows : IsRow(rows[l], S)

(* What EnterCallees hands from context to context, with the contexts S in  *)
(* the rows and T in the list at OUT of the end block.                      *)
IsMapState(m, S, T) ==
    /\ DOMAIN m = {"rows", "required", "out", "pool", "add"}
    /\ IsMap(m.rows, S)
    /\ m.required \in BOOLEAN
    /\ IsContextList(m.out, T)

SameRest(m, n) == n.pool = m.pool /\ n.add = m.add

LEMMA MappedContexts ==
    ASSUME NEW S, NEW rows, IsMap(rows, S)
    PROVE  Mapped(rows) \subseteq S
BY DEF IsMap, IsRow, Mapped

LEMMA RowOperations ==
    ASSUME NEW S, NEW rows, IsMap(rows, S), NEW c \in S, NEW l, NEW rhs,
           DOMAIN rhs \subseteq S, NEW present, NEW nr
    PROVE  /\ IsMap(Without(rows, c), S)
           /\ IsMap(With(rows, c, [present |-> present, rhs |-> rhs, nr |-> nr]), S)
           /\ IsMap([rows EXCEPT ![l].rhs = rhs], S)
<1>1. IsMap(Without(rows, c), S)
  BY DEF IsMap, Without
<1>2. IsRow([present |-> present, rhs |-> rhs, nr |-> nr], S)
  BY DEF IsRow
<1>3. IsMap(With(rows, c, [present |-> present, rhs |-> rhs, nr |-> nr]), S)
  BY <1>2 DEF IsMap, With
<1>4. IsMap([rows EXCEPT ![l].rhs = rhs], S)
  <2>1. \A k \in DOMAIN rows : IsRow([rows EXCEPT ![l].rhs = rhs][k], S)
    BY DEF IsMap, IsRow
  <2> QED
    BY <2>1 DEF IsMap
<1> QED
  BY <1>1, <1>3, <1>4

LEMMA PutIntoMapType ==
    ASSUME NEW S, NEW T, NEW m, IsMapState(m, S, T), NEW c \in S, NEW present
    PROVE  IsMapState(PutIntoMap(m, c, present), S, T)
           /\ SameRest(m, PutIntoMap(m, c, present))
<1>1. CASE SameValue(m, c) = {}
  <2> DEFINE rows == With(m.rows, c, [present |-> present, rhs |-> << >>,
                                      nr |-> NextNr(m.rows)])
  <2>1. IsMap(rows, S)
    <3>1. DOMAIN << >> \subseteq S
      OBVIOUS
    <3> QED
      BY <3>1, RowOperations DEF IsMapState
  <2> HIDE DEF rows
  <2>2. PutIntoMap(m, c, present) = [m EXCEPT !.rows = rows]
    BY <1>1 DEF PutIntoMap, rows
  <2> QED
    BY <2>1, <2>2 DEF IsMapState, SameRest
<1>2. CASE SameValue(m, c) # {}
  <2> DEFINE l   == CHOOSE d \in SameValue(m, c) : TRUE
             row == m.rows[l]
             joined ==
                IF m.out[l].new_lvdf /\ ~row.present /\ present
                THEN With(Without(m.rows, l), c,
                          [row EXCEPT !.present = TRUE, !.rhs = With(@, l, FALSE)])
                ELSE [m.rows EXCEPT ![l].rhs = With(@, c, present)]
  <2>1. l \in DOMAIN m.rows
    BY <1>2 DEF SameValue
  <2>2. PutIntoMap(m, c, present) = [m EXCEPT !.rows = joined, !.required = TRUE]
    BY <1>2 DEF PutIntoMap
  <2> HIDE DEF l
  <2>3. IsRow(row, S) /\ l \in S
    BY <2>1 DEF IsMapState, IsMap
  <2>4. IsMap([m.rows EXCEPT ![l].rhs = With(@, c, present)], S)
    <3>1. DOMAIN With(row.rhs, c, present) \subseteq S
      BY <2>3 DEF IsRow, With
    <3>2. IsMap([m.rows EXCEPT ![l].rhs = With(row.rhs, c, present)], S)
      BY <3>1, RowOperations DEF IsMapState
    <3> QED
      BY <3>2
  <2>5. IsMap(With(Without(m.rows, l), c,
                   [row EXCEPT !.present = TRUE, !.rhs = With(@, l, FALSE)]), S)
    <3>1. IsMap(Without(m.rows, l), S)
      BY DEF IsMapState, IsMap, Without
    <3>2. IsRow([row EXCEPT !.present = TRUE, !.rhs = With(@, l, FALSE)], S)
      <4>1. DOMAIN With(row.rhs, l, FALSE) \subseteq S
        BY <2>3 DEF IsRow, With
      <4> HIDE DEF row
      <4> QED
        BY <2>3, <4>1 DEF IsRow
    <3> QED
      BY <3>1, <3>2 DEF IsMap, With
  <2>6. IsMap(joined, S)
    BY <2>4, <2>5
  <2> HIDE DEF joined
  <2> QED
    BY <2>2, <2>6 DEF IsMapState, SameRest
<1> QED
  BY <1>1, <1>2

LEMMA ChangeLhsType ==
    ASSUME NEW S, NEW T, NEW m, IsMapState(m, S, T), NEW c \in DOMAIN m.rows
    PROVE  IsMapState(ChangeLhs(m, c), S, T) /\ SameRest(m, ChangeLhs(m, c))
<1> DEFINE moved == m.rows[c].rhs
<1>1. c \in S /\ DOMAIN moved \subseteq S
  BY DEF IsMapState, IsMap, IsRow
<1>2. CASE SameValue(m, c) = {}
  <2>1. ChangeLhs(m, c) = [m EXCEPT !.required = @ \/ moved # << >>]
    BY <1>2 DEF ChangeLhs
  <2>2. (m.required \/ moved # << >>) \in BOOLEAN
    OBVIOUS
  <2> QED
    BY <2>1, <2>2 DEF IsMapState, SameRest
<1>3. CASE SameValue(m, c) # {}
  <2> DEFINE l == CHOOSE d \in SameValue(m, c) : TRUE
             again == IF m.out[l].new_lvdf THEN {} ELSE DOMAIN moved
             rows == [Without(m.rows, c) EXCEPT ![l].rhs = Over(moved, @)]
             out == [d \in DOMAIN m.out |->
                        IF d \in again THEN [m.out[d] EXCEPT !.new_lvdf = TRUE] ELSE m.out[d]]
             merged == [m EXCEPT !.rows = rows, !.out = out]
  <2>1. l \in DOMAIN Without(m.rows, c)
    BY <1>3 DEF SameValue, Without
  <2>2. ChangeLhs(m, c) = PutIntoMap(merged, c, m.rows[c].present)
    BY <1>3 DEF ChangeLhs
  <2> HIDE DEF l
  <2>3. IsMap(rows, S)
    <3> DEFINE others == Without(m.rows, c)
    <3>1. IsMap(others, S)
      BY <1>1 DEF IsMapState, IsMap, Without
    <3>2. DOMAIN Over(moved, others[l].rhs) \subseteq S
      BY <1>1, <2>1, <3>1 DEF IsMap, IsRow, Over
    <3> HIDE DEF others
    <3>3. IsMap([others EXCEPT ![l].rhs = Over(moved, others[l].rhs)], S)
      BY <1>1, <3>1, <3>2, RowOperations
    <3> QED
      BY <3>3 DEF others
  <2>4. IsContextList(out, T)
    <3>1. DOMAIN m.out \subseteq T /\ \A d \in DOMAIN m.out : m.out[d] \in Entry
      BY ContextListParts DEF IsMapState
    <3>2. \A d \in DOMAIN m.out : out[d] \in Entry
      BY <3>1 DEF Entry
    <3> QED
      BY <3>1, <3>2, ContextListParts
  <2> HIDE DEF rows, out, moved
  <2>5. IsMapState(merged, S, T) /\ SameRest(m, merged)
    BY <2>3, <2>4 DEF IsMapState, SameRest
  <2> HIDE DEF merged
  <2>6. /\ IsMapState(PutIntoMap(merged, c, m.rows[c].present), S, T)
        /\ SameRest(merged, PutIntoMap(merged, c, m.rows[c].present))
    BY <1>1, <2>5, PutIntoMapType
  <2> QED
    BY <2>2, <2>5, <2>6 DEF SameRest
<1> QED
  BY <1>2, <1>3

LEMMA ChangeRhsType ==
    ASSUME NEW S, NEW T, NEW m, IsMapState(m, S, T), NEW c \in S
    PROVE  IsMapState(ChangeRhs(m, c), S, T) /\ SameRest(m, ChangeRhs(m, c))
<1> DEFINE l    == LhsOf(m.rows, c)
           rows == [m.rows EXCEPT ![l].rhs = Without(@, c)]
           less == [m EXCEPT !.rows = rows]
<1>1. IsMap(rows, S)
  <2>1. \A k \in DOMAIN m.rows : IsRow(rows[k], S)
    BY DEF IsMapState, IsMap, IsRow, Without
  <2> QED
    BY <2>1 DEF IsMapState, IsMap
<1>2. ChangeRhs(m, c) = PutIntoMap(less, c, m.rows[l].rhs[c])
  BY DEF ChangeRhs, IsMapState
<1> HIDE DEF rows, l
<1>3. IsMapState(less, S, T) /\ SameRest(m, less)
  BY <1>1 DEF IsMapState, SameRest
<1> HIDE DEF less
<1>4. /\ IsMapState(PutIntoMap(less, c, m.rows[l].rhs[c]), S, T)
      /\ SameRest(less, PutIntoMap(less, c, m.rows[l].rhs[c]))
  BY <1>3, PutIntoMapType
<1> QED
  BY <1>2, <1>3, <1>4 DEF SameRest

LEMMA ModifyType ==
    ASSUME NEW S, NEW T, NEW m, IsMapState(m, S, T), NEW c \in S, NEW is_new \in BOOLEAN
    PROVE  /\ IsMapState(ModifyLcsmapAtEndblock(m, c, is_new), S, T)
           /\ SameRest(m, ModifyLcsmapAtEndblock(m, c, is_new))
<1>1. CASE is_new
  BY <1>1, PutIntoMapType DEF ModifyLcsmapAtEndblock
<1>2. CASE ~is_new /\ c \in DOMAIN m.rows
  BY <1>2, ChangeLhsType DEF ModifyLcsmapAtEndblock
<1>3. CASE ~is_new /\ c \notin DOMAIN m.rows
  BY <1>3, ChangeRhsType DEF ModifyLcsmapAtEndblock
<1> QED
  BY <1>1, <1>2, <1>3

-----------------------------------------------------------------------------
(* Programs.                                                                *)

LEMMA ProgramFacts ==
    ASSUME prog \in Programs
    PROVE  /\ main \in DOMAIN prog /\ DOMAIN prog \subseteq Fn
           /\ \A f \in DOMAIN prog :
                 /\ Len(prog[f].code) \in Nat \ {0}
                 /\ Blocks(f) = 1..Len(prog[f].code)
                 /\ \A i \in Blocks(f) : /\ prog[f].code[i] \in Seq(Item)
                                         /\ prog[f].succ[i] \subseteq Blocks(f)
                 /\ DOMAIN prog[f].callee \subseteq Blocks(f)
                 /\ \A i \in DOMAIN prog[f].callee : prog[f].callee[i] \in DOMAIN prog
<1>1. IsProgram(prog)
  BY ProgramsAssumption
<1>2. ASSUME NEW f \in DOMAIN prog
      PROVE  /\ Len(prog[f].code) \in Nat \ {0}
             /\ Blocks(f) = 1..Len(prog[f].code)
             /\ \A i \in Blocks(f) : /\ prog[f].code[i] \in Seq(Item)
                                     /\ prog[f].succ[i] \subseteq Blocks(f)
             /\ DOMAIN prog[f].callee \subseteq Blocks(f)
             /\ \A i \in DOMAIN prog[f].callee : prog[f].callee[i] \in DOMAIN prog
  <2> DEFINE body == prog[f]
  <2>1. IsBody(body, DOMAIN prog)
    BY <1>1 DEF IsProgram
  <2>2. body.code \in Seq(Seq(Item)) /\ body.code # <<>>
    BY <2>1 DEF IsBody
  <2>3. Len(body.code) \in Nat \ {0} /\ DOMAIN body.code = 1..Len(body.code)
    BY <2>2
  <2>4. \A i \in DOMAIN body.code : body.code[i] \in Seq(Item)
    BY <2>2
  <2> QED
    BY <2>1, <2>3, <2>4 DEF IsBody, Blocks
<1> QED
  BY <1>1, <1>2 DEF IsProgram

LEMMA NodeFacts ==
    ASSUME prog \in Programs
    PROVE  /\ \A f \in DOMAIN prog :
                 /\ Start(f) \in BlocksOf(f) /\ End(f) \in BlocksOf(f)
                 /\ BlocksOf(f) \subseteq Nodes
           /\ \A b \in Nodes :
                 /\ b[1] \in DOMAIN prog /\ b \in BlocksOf(b[1]) /\ b = <<b[1], b[2]>>
                 /\ b[2] \in 1..Len(prog[b[1]].code)
                 /\ Code(b) \in Seq(Item)
                 /\ CallBlock(b) => Callee(b) \in DOMAIN prog
                 /\ ReturnBlock(b) => /\ CallOf(b) \in BlocksOf(b[1])
                                      /\ CallBlock(CallOf(b))
                                      /\ Callee(CallOf(b)) \in DOMAIN prog
<1>1. ASSUME NEW f \in DOMAIN prog
      PROVE  Start(f) \in BlocksOf(f) /\ End(f) \in BlocksOf(f) /\ BlocksOf(f) \subseteq Nodes
  BY <1>1, ProgramFacts DEF Start, End, BlocksOf, Nodes
<1>2. ASSUME NEW b \in Nodes
      PROVE  /\ b[1] \in DOMAIN prog /\ b \in BlocksOf(b[1]) /\ b = <<b[1], b[2]>>
             /\ b[2] \in 1..Len(prog[b[1]].code)
             /\ Code(b) \in Seq(Item)
             /\ CallBlock(b) => Callee(b) \in DOMAIN prog
  BY ProgramFacts DEF Nodes, BlocksOf, Code, CallBlock, Callee
<1>3. ASSUME NEW b \in Nodes, ReturnBlock(b)
      PROVE  /\ CallOf(b) \in BlocksOf(b[1]) /\ CallBlock(CallOf(b))
             /\ Callee(CallOf(b)) \in DOMAIN prog
  <2>1. CallOf(b) \in Preds(b) /\ CallBlock(CallOf(b))
    BY <1>3 DEF ReturnBlock, CallOf
  <2>2. CallOf(b) \in BlocksOf(b[1])
    BY <2>1 DEF Preds
  <2>3. CallOf(b) \in Nodes
    BY <1>1, <1>2, <2>2
  <2> QED
    BY <1>2, <2>1, <2>2, <2>3
<1> QED
  BY <1>1, <1>2, <1>3

(* Whatever a pass looks through, it stays within the function.             *)
LEMMA LvPredsInFunction ==
    ASSUME prog \in Programs, NEW b \in Nodes
    PROVE  LvPreds(b) \subseteq BlocksOf(b[1])
<1> DEFINE B == BlocksOf(b[1])
           next == [a \in B |-> Preds(a)]
           bypass == {a \in B : LvBypass(a)}
<1>1. b[1] \in DOMAIN prog
  BY NodeFacts
<1>2. IsFiniteSet(B) /\ Cardinality(B) \in Nat
  <2>1. Blocks(b[1]) = 1..Len(prog[b[1]].code) /\ Len(prog[b[1]].code) \in Int
    BY <1>1, ProgramFacts
  <2>2. PICK n \in Int : Blocks(b[1]) = 1..n
    BY <2>1
  <2>3. IsFiniteSet(1..n)
    BY FS_Interval
  <2>4. IsFiniteSet({b[1]})
    BY FS_Singleton
  <2> QED
    BY <2>2, <2>3, <2>4, FS_Product, FS_CardinalityType DEF BlocksOf
<1>3. Preds(b) \in SUBSET B
  BY DEF Preds
<1>4. next \in [B -> SUBSET B]
  <2>1. \A a \in B : Preds(a) \in SUBSET B
    BY DEF BlocksOf, Preds
  <2> QED
    BY <2>1
<1> HIDE DEF B, next, bypass
<1>5. HasReach(B, Preds(b), next, bypass)
  BY <1>2, <1>3, <1>4, ThroughRun
<1>6. PICK f : Reaches(f, B, Preds(b), next, bypass)
  BY <1>5 DEF HasReach
<1>7. Through(Preds(b), next, bypass) \subseteq B
  <2>1. Cardinality(B) \in 0..Cardinality(B)
    BY <1>2
  <2> QED
    BY <1>6, <2>1 DEF Reaches
<1>8. LvPreds(b) = Through(Preds(b), next, bypass)
  BY DEF LvPreds, B, next, bypass
<1> QED
  BY <1>7, <1>8 DEF B

-----------------------------------------------------------------------------
(* Contexts and the lists over them.                                        *)

(* Every call string begins with the call it was made for, in a function   *)
(* that is on the list wl.                                                  *)
IsPool(pool, wl) ==
    /\ pool \in Seq(Seq(Nodes))
    /\ \A c \in DOMAIN pool :
          /\ pool[c] # <<>>
          /\ CallBlock(Head(pool[c]))
          /\ HasNodeFrom(wl, 1, Head(pool[c])[1])

(* The contexts f is called in, and with that of main those f can have.    *)
CallsTo(pool, f)  == {c \in DOMAIN pool : Callee(Head(pool[c])) = f}
Contexts(pool, f) == CallsTo(pool, f) \cup (IF f = main THEN {0} ELSE {})

(* The contexts of a list are contexts of its function.                     *)
ListsOf(d, pool) ==
    /\ DOMAIN d = Lists
    /\ \A l \in Lists : IsContextList(d[l], Contexts(pool, l[1][1]))

LEMMA PlacesOf ==
    ASSUME NEW b \in Nodes
    PROVE  /\ InOf(b) \in Lists /\ OutOf(b) \in Lists /\ <<b, "out">> \in Lists
           /\ InOf(b)[1][1] = b[1] /\ OutOf(b)[1][1] = b[1]
BY DEF InOf, OutOf, Lists

LEMMA PutList ==
    ASSUME NEW d, NEW pool, ListsOf(d, pool), NEW l \in Lists,
           NEW list, IsContextList(list, Contexts(pool, l[1][1]))
    PROVE  ListsOf([d EXCEPT ![l] = list], pool)
BY DEF ListsOf

LEMMA CopyOutToInType ==
    ASSUME NEW d, NEW pool, ListsOf(d, pool), NEW b \in Nodes, ~SharedList(b)
    PROVE  ListsOf(CopyOutToIn(d, b), pool)
<1> DEFINE S   == Contexts(pool, b[1])
           new == NewPart(d[OutOf(b)])
           d1  == [d EXCEPT ![InOf(b)] = Over(new, @)]
<1>1. /\ InOf(b) \in Lists /\ OutOf(b) \in Lists
      /\ InOf(b)[1][1] = b[1] /\ OutOf(b)[1][1] = b[1]
  BY PlacesOf
<1>2. IsContextList(d[InOf(b)], S) /\ IsContextList(d[OutOf(b)], S)
  BY <1>1 DEF ListsOf
<1>3. IsContextList(Over(new, d[InOf(b)]), S)
  BY <1>2, ListOperations
<1>4. ListsOf(d1, pool)
  BY <1>1, <1>3, PutList
<1>5. InOf(b) # OutOf(b) /\ DOMAIN d = Lists
  BY DEF InOf, OutOf, ListsOf
<1>6. IsContextList(ClearNew(d[OutOf(b)]), S)
  BY <1>2, ListOperations
<1>7. ListsOf([d1 EXCEPT ![OutOf(b)] = ClearNew(d[OutOf(b)])], pool)
  BY <1>1, <1>4, <1>6, PutList
<1>8. CopyOutToIn(d, b) = [d1 EXCEPT ![OutOf(b)] = ClearNew(d[OutOf(b)])]
  BY <1>1, <1>5 DEF CopyOutToIn
<1> QED
  BY <1>7, <1>8

LEMMA FindLiveVarsType ==
    ASSUME prog \in Programs, NEW d, NEW pool, ListsOf(d, pool), NEW b \in Nodes
    PROVE  ListsOf(FindLiveVars(d, b), pool)
<1> DEFINE S   == Contexts(pool, b[1])
           in  == d[InOf(b)]
           new == [c \in DOMAIN in |->
                     IF in[c].new_lvdf THEN [in[c] EXCEPT !.linfo = LiveIn(@, EmptyVal, Code(b))]
                     ELSE in[c]]
<1>1. InOf(b) \in Lists /\ InOf(b)[1][1] = b[1]
  BY PlacesOf
<1>2. DOMAIN in \subseteq S /\ \A c \in DOMAIN in : in[c] \in Entry
  BY <1>1, ContextListParts DEF ListsOf
<1>3. Code(b) \in Seq(Item) /\ IsPointsToVal(EmptyVal)
  BY NodeFacts DEF IsPointsToVal, EmptyVal
<1>4. \A live \in SUBSET Var : LiveIn(live, EmptyVal, Code(b)) \in SUBSET Var
  BY <1>3, LiveInType
<1>5. \A c \in DOMAIN in : new[c] \in Entry
  <2> TAKE c \in DOMAIN in
  <2> HIDE DEF in
  <2>1. in[c] \in Entry /\ LiveIn(in[c].linfo, EmptyVal, Code(b)) \in SUBSET Var
    BY <1>2, <1>4 DEF Entry
  <2> QED
    BY <2>1 DEF Entry
<1>6. IsContextList(new, S)
  <2>1. new = [c \in DOMAIN new |-> new[c]] /\ DOMAIN new = DOMAIN in
    OBVIOUS
  <2> HIDE DEF new, in, S
  <2> QED
    BY <1>2, <1>5, <2>1, ContextListParts
<1>7. FindLiveVars(d, b) = [d EXCEPT ![InOf(b)] = new]
  BY DEF FindLiveVars
<1> HIDE DEF new
<1>8. IsContextList(new, Contexts(pool, InOf(b)[1][1]))
  BY <1>1, <1>6
<1> HIDE DEF in, S
<1>9. ListsOf([d EXCEPT ![InOf(b)] = new], pool)
  BY <1>1, <1>8, PutList
<1> QED
  BY <1>7, <1>9

LEMMA PropagateToPredsType ==
    ASSUME prog \in Programs, NEW d, NEW pool, ListsOf(d, pool), NEW b \in Nodes
    PROVE  ListsOf(PropagateToPreds(d, b), pool)
<1> DEFINE S    == Contexts(pool, b[1])
           to   == {OutOf(a) : a \in LvPreds(b)}
           sent == [l \in Lists |->
                      IF l \in to THEN Unite(d[l], NewPart(d[InOf(b)])) ELSE d[l]]
<1>1. InOf(b) \in Lists /\ InOf(b)[1][1] = b[1]
  BY PlacesOf
<1>2. \A l \in to : l \in Lists /\ l[1][1] = b[1]
  <2>1. ASSUME NEW a \in LvPreds(b)
        PROVE  OutOf(a) \in Lists /\ OutOf(a)[1][1] = b[1]
    <3>1. a \in BlocksOf(b[1]) /\ b[1] \in DOMAIN prog
      BY LvPredsInFunction, NodeFacts
    <3>2. a \in Nodes /\ a[1] = b[1]
      BY <3>1, NodeFacts DEF BlocksOf
    <3> QED
      BY <3>2, PlacesOf
  <2> QED
    BY <2>1
<1>3. IsContextList(NewPart(d[InOf(b)]), S)
  BY <1>1, ListOperations DEF ListsOf
<1>4. ListsOf(sent, pool)
  <2>1. ASSUME NEW l \in Lists
        PROVE  IsContextList(sent[l], Contexts(pool, l[1][1]))
    <3>1. IsContextList(d[l], Contexts(pool, l[1][1]))
      BY DEF ListsOf
    <3>2. CASE l \in to
      <4>1. IsContextList(Unite(d[l], NewPart(d[InOf(b)])), S)
        BY <1>2, <1>3, <3>1, <3>2, ListOperations
      <4> QED
        BY <1>2, <3>2, <4>1
    <3> QED
      BY <3>1, <3>2
  <2> QED
    BY <2>1 DEF ListsOf
<1>5. PropagateToPreds(d, b) = [sent EXCEPT ![InOf(b)] = ClearNew(sent[InOf(b)])]
  BY DEF PropagateToPreds
<1> HIDE DEF sent
<1>6. IsContextList(ClearNew(sent[InOf(b)]), S)
  BY <1>1, <1>4, ListOperations DEF ListsOf
<1>7. IsContextList(ClearNew(sent[InOf(b)]), Contexts(pool, InOf(b)[1][1]))
  BY <1>1, <1>6
<1> HIDE DEF S, to
<1> DEFINE list == ClearNew(sent[InOf(b)])
<1> HIDE DEF list
<1>8. IsContextList(list, Contexts(pool, InOf(b)[1][1]))
  BY <1>7 DEF list
<1>9. ListsOf([sent EXCEPT ![InOf(b)] = list], pool)
  BY <1>1, <1>4, <1>8, PutList
<1> QED
  BY <1>5, <1>9 DEF list

LEMMA PutTwoLists ==
    ASSUME NEW d, NEW pool, ListsOf(d, pool), NEW k \in Lists, NEW l \in Lists, k # l,
           NEW first, IsContextList(first, Contexts(pool, k[1][1])),
           NEW second, IsContextList(second, Contexts(pool, l[1][1]))
    PROVE  ListsOf([d EXCEPT ![k] = first, ![l] = second], pool)
BY DEF ListsOf

LEMMA CopyInAtReturnblockType ==
    ASSUME NEW d, NEW pool, ListsOf(d, pool), NEW b \in Nodes, ReturnBlock(b)
    PROVE  ListsOf(CopyInAtReturnblock(d, b), pool)
<1> DEFINE S    == Contexts(pool, b[1])
           out  == d[OutOf(b)]
           sent == [c \in New(out) |-> [out[c] EXCEPT !.linfo = @ \ Result(CallOf(b))]]
           x    == Unite(d[InOf(b)], sent)
           y    == ClearNew(out)
<1>1. /\ InOf(b) \in Lists /\ OutOf(b) \in Lists /\ InOf(b) # OutOf(b)
      /\ InOf(b)[1][1] = b[1] /\ OutOf(b)[1][1] = b[1]
  BY PlacesOf DEF InOf, OutOf, SharedList
<1>2. IsContextList(d[InOf(b)], S) /\ IsContextList(out, S)
  BY <1>1 DEF ListsOf
<1>3. IsContextList(sent, S)
  <2>1. DOMAIN out \subseteq S /\ \A c \in DOMAIN out : out[c] \in Entry
    BY <1>2, ContextListParts
  <2> HIDE DEF out, S
  <2>2. \A c \in New(out) : sent[c] \in Entry
    BY <2>1 DEF New, Entry
  <2> QED
    BY <2>1, <2>2, ContextListParts DEF New
<1>4. IsContextList(x, S) /\ IsContextList(y, S)
  <2> HIDE DEF out, sent
  <2> QED
    BY <1>2, <1>3, ListOperations
<1>5. CopyInAtReturnblock(d, b) = [d EXCEPT ![InOf(b)] = x, ![OutOf(b)] = y]
  BY DEF CopyInAtReturnblock
<1> HIDE DEF x, y
<1>6. /\ IsContextList(x, Contexts(pool, InOf(b)[1][1]))
      /\ IsContextList(y, Contexts(pool, OutOf(b)[1][1]))
  BY <1>1, <1>4
<1> HIDE DEF S
<1>7. ListsOf([d EXCEPT ![InOf(b)] = x, ![OutOf(b)] = y], pool)
  BY <1>1, <1>6, PutTwoLists
<1> QED
  BY <1>5, <1>7

LEMMA LiveParmsType ==
    ASSUME prog \in Programs, NEW b \in Nodes
    PROVE  LiveParms(b) \in SUBSET Var
<1> DEFINE code == Code(b)
           args(i) == IF ~IsAlias(code[i]) THEN code[i].uses
                      ELSE IF code[i].chain[1].rhs.type = ADDRESSOF THEN {}
                      ELSE {code[i].chain[1].rhs.var}
<1>1. code \in Seq(Item)
  BY NodeFacts
<1>2. ASSUME NEW i \in DOMAIN code
      PROVE  args(i) \subseteq Id
  <2>1. code[i] \in Item
    BY <1>1
  <2> HIDE DEF code
  <2>2. CASE ~IsAlias(code[i])
    BY <2>1, <2>2, ItemParts DEF Id
  <2>3. CASE IsAlias(code[i])
    BY <2>1, <2>3, ItemParts DEF Constraint
  <2> QED
    BY <2>2, <2>3
<1>3. LiveParms(b) = ProperVars(UNION {args(i) : i \in DOMAIN code})
  BY DEF LiveParms
<1>4. \A v \in Id : IsProperVar(v) => v \in Var
  BY DEF Id, IsProperVar, undef_id, nothing_id, integer_id
<1> HIDE DEF args, code
<1>5. \A v \in UNION {args(i) : i \in DOMAIN code} : v \in Id
  BY <1>2
<1> QED
  BY <1>3, <1>4, <1>5 DEF ProperVars

LEMMA CallStmtLivenessType ==
    ASSUME prog \in Programs, NEW d, NEW pool, ListsOf(d, pool), NEW b \in Nodes, CallBlock(b)
    PROVE  ListsOf(CallStmtLiveness(d, b), pool)
<1> DEFINE S     == Contexts(pool, b[1])
           out   == d[OutOf(b)]
           after(c) == out[c].linfo \cup LiveParms(b)
           sent  == [c \in New(out) |-> [linfo |-> RemoveNonLocalVars(after(c), b[1]),
                                         new_lvdf |-> TRUE]]
           x     == Unite(d[InOf(b)], sent)
           y     == [c \in DOMAIN out |->
                       IF out[c].new_lvdf THEN [linfo |-> after(c), new_lvdf |-> FALSE]
                       ELSE out[c]]
<1>1. /\ InOf(b) \in Lists /\ OutOf(b) \in Lists /\ InOf(b) # OutOf(b)
      /\ InOf(b)[1][1] = b[1] /\ OutOf(b)[1][1] = b[1]
  BY PlacesOf DEF InOf, OutOf, SharedList
<1>2. IsContextList(d[InOf(b)], S) /\ IsContextList(out, S)
  BY <1>1 DEF ListsOf
<1>3. DOMAIN out \subseteq S /\ \A c \in DOMAIN out : out[c] \in Entry
  BY <1>2, ContextListParts
<1>4. \A c \in DOMAIN out : after(c) \in SUBSET Var
  BY <1>3, LiveParmsType DEF Entry
<1>5. IsContextList(sent, S)
  <2>1. \A c \in New(out) : sent[c] \in Entry
    BY <1>4 DEF New, Entry, RemoveNonLocalVars
  <2> HIDE DEF out, S
  <2> QED
    BY <1>3, <2>1, ContextListParts DEF New
<1>6. IsContextList(y, S)
  <2>1. \A c \in DOMAIN out : y[c] \in Entry
    BY <1>3, <1>4 DEF Entry
  <2>2. y = [c \in DOMAIN y |-> y[c]] /\ DOMAIN y = DOMAIN out
    OBVIOUS
  <2> HIDE DEF out, S, y
  <2> QED
    BY <1>3, <2>1, <2>2, ContextListParts
<1>7. IsContextList(x, S)
  <2> HIDE DEF out, sent, S
  <2> QED
    BY <1>2, <1>5, ListOperations
<1>8. CallStmtLiveness(d, b) = [d EXCEPT ![InOf(b)] = x, ![OutOf(b)] = y]
  BY DEF CallStmtLiveness
<1> HIDE DEF x, y
<1>9. /\ IsContextList(x, Contexts(pool, InOf(b)[1][1]))
      /\ IsContextList(y, Contexts(pool, OutOf(b)[1][1]))
  BY <1>1, <1>6, <1>7
<1> HIDE DEF S
<1>10. ListsOf([d EXCEPT ![InOf(b)] = x, ![OutOf(b)] = y], pool)
  BY <1>1, <1>9, PutTwoLists
<1> QED
  BY <1>8, <1>10

-----------------------------------------------------------------------------
(* The way back from a function.                                            *)

LEMMA EndsOf ==
    ASSUME prog \in Programs, NEW f \in DOMAIN prog
    PROVE  /\ Start(f) \in Nodes /\ End(f) \in Nodes
           /\ InOf(Start(f)) \in Lists /\ OutOf(End(f)) \in Lists
           /\ InOf(Start(f)) # OutOf(End(f))
           /\ InOf(Start(f))[1][1] = f /\ OutOf(End(f))[1][1] = f
           /\ ~SharedList(Start(f)) /\ ~SharedList(End(f))
<1>1. Start(f) \in Nodes /\ End(f) \in Nodes
  BY NodeFacts
<1>2. Start(f)[1] = f /\ End(f)[1] = f
  BY DEF Start, End
<1>3. ~SharedList(Start(f)) /\ ~SharedList(End(f))
  BY <1>2 DEF SharedList
<1> QED
  BY <1>1, <1>2, <1>3, PlacesOf DEF InOf, OutOf

LEMMA RegenerateType ==
    ASSUME prog \in Programs, NEW d, NEW pool, ListsOf(d, pool), NEW f \in DOMAIN prog,
           IsMap(lcsmap[f], CallsTo(pool, f))
    PROVE  ListsOf(Regenerate(d, f), pool)
<1> DEFINE S    == Contexts(pool, f)
           rows == lcsmap[f]
           in   == d[InOf(Start(f))]
           out  == d[OutOf(End(f))]
           lhs(c) == LhsOf(rows, c)
           regenerated ==
               {c \in Mapped(rows) \ DOMAIN rows :
                   /\ lhs(c) \in DOMAIN in
                   /\ out[c].new_lvdf \/ in[lhs(c)].new_lvdf
                   /\ c \in DOMAIN in =>
                         ~in[c].new_lvdf /\ in[c].linfo # in[lhs(c)].linfo}
           new  == [c \in regenerated |-> [linfo |-> in[lhs(c)].linfo, new_lvdf |-> TRUE]]
           x    == Over(new, in)
           y    == ClearNew(out)
<1>1. /\ InOf(Start(f)) \in Lists /\ OutOf(End(f)) \in Lists
      /\ InOf(Start(f)) # OutOf(End(f))
      /\ InOf(Start(f))[1][1] = f /\ OutOf(End(f))[1][1] = f
  BY EndsOf
<1>2. IsContextList(in, S) /\ IsContextList(out, S)
  BY <1>1 DEF ListsOf
<1>3. regenerated \subseteq S
  <2>1. Mapped(rows) \subseteq CallsTo(pool, f)
    BY MappedContexts
  <2> QED
    BY <2>1 DEF Contexts
<1>4. IsContextList(new, S)
  <2>1. DOMAIN in \subseteq S /\ \A c \in DOMAIN in : in[c] \in Entry
    BY <1>2, ContextListParts
  <2>2. \A c \in regenerated : lhs(c) \in DOMAIN in
    OBVIOUS
  <2> HIDE DEF in, regenerated, lhs
  <2>3. \A c \in regenerated : new[c] \in Entry
    BY <2>1, <2>2 DEF Entry
  <2> HIDE DEF S
  <2> QED
    BY <1>3, <2>3, ContextListParts
<1>5. IsContextList(x, S) /\ IsContextList(y, S)
  <2> HIDE DEF in, out, new, S
  <2> QED
    BY <1>2, <1>4, ListOperations
<1>6. Regenerate(d, f) = [d EXCEPT ![InOf(Start(f))] = x, ![OutOf(End(f))] = y]
  BY DEF Regenerate
<1> HIDE DEF x, y
<1>7. /\ IsContextList(x, Contexts(pool, InOf(Start(f))[1][1]))
      /\ IsContextList(y, Contexts(pool, OutOf(End(f))[1][1]))
  BY <1>1, <1>5
<1> HIDE DEF S
<1>8. ListsOf([d EXCEPT ![InOf(Start(f))] = x, ![OutOf(End(f))] = y], pool)
  BY <1>1, <1>7, PutTwoLists
<1> QED
  BY <1>6, <1>8

(* The string of a context begins with a call of its function. *)
LEMMA CallerFacts ==
    ASSUME prog \in Programs, NEW wl, IsPool(callstrings, wl), NEW f,
           NEW c \in CallsTo(callstrings, f)
    PROVE  /\ CallerBlock(c) \in Nodes /\ CallBlock(CallerBlock(c))
           /\ Callee(CallerBlock(c)) = f
           /\ HasNodeFrom(wl, 1, CallerBlock(c)[1])
<1>1. callstrings[c] \in Seq(Nodes) /\ callstrings[c] # <<>>
  BY DEF IsPool, CallsTo
<1>2. Head(callstrings[c]) \in Nodes
  BY <1>1
<1> QED
  BY <1>2 DEF CallerBlock, IsPool, CallsTo

LEMMA CallersFacts ==
    ASSUME prog \in Programs, NEW wl, IsPool(callstrings, wl), NEW d, ListsOf(d, callstrings),
           NEW f \in DOMAIN prog \ {main}, NEW e \in CallersOf(d, f)
    PROVE  /\ e[3] \in DOMAIN d[InOf(Start(f))]
           /\ e[3] \in CallsTo(callstrings, f)
           /\ e[1] \in Nodes /\ e[1] = CallerBlock(e[3])
           /\ e[2] \in DOMAIN d[<<e[1], "out">>]
<1>1. PICK c \in New(d[InOf(Start(f))]) :
         e \in {<<CallerBlock(c), p, c>> :
                   p \in CallerContext(d, c) \cap DOMAIN d[<<CallerBlock(c), "out">>]}
  BY DEF CallersOf
<1>2. /\ e[1] = CallerBlock(c) /\ e[3] = c
      /\ e[2] \in DOMAIN d[<<CallerBlock(c), "out">>]
  BY <1>1
<1>3. c \in DOMAIN d[InOf(Start(f))]
  BY <1>1 DEF New
<1>4. c \in CallsTo(callstrings, f)
  <2>1. InOf(Start(f)) \in Lists /\ InOf(Start(f))[1][1] = f
    BY EndsOf
  <2>2. DOMAIN d[InOf(Start(f))] \subseteq Contexts(callstrings, f)
    BY <2>1 DEF ListsOf, IsContextList
  <2> QED
    BY <1>3, <2>2 DEF Contexts
<1>5. CallerBlock(c) \in Nodes
  BY <1>4, CallerFacts
<1> QED
  BY <1>2, <1>3, <1>4, <1>5

LEMMA PropagateToCallBlocksType ==
    ASSUME prog \in Programs, NEW wl, IsPool(callstrings, wl), NEW d, ListsOf(d, callstrings),
           NEW f \in DOMAIN prog \ {main}
    PROVE  ListsOf(PropagateToCallBlocks(d, f), callstrings)
<1> DEFINE S(b)    == Contexts(callstrings, b[1])
           live    == d[InOf(Start(f))]
           callers == CallersOf(d, f)
           to(b)   == {e[2] : e \in {g \in callers : g[1] = b}}
           from(b, p) == CHOOSE e \in callers : e[1] = b /\ e[2] = p
           sent(b) == [p \in to(b) |-> live[from(b, p)[3]]]
           back    == [l \in Lists |->
                          IF l \in {<<e[1], "out">> : e \in callers}
                          THEN Unite(d[l], sent(l[1])) ELSE d[l]]
           x       == ClearNew(back[InOf(Start(f))])
<1>1. InOf(Start(f)) \in Lists /\ InOf(Start(f))[1][1] = f
  BY EndsOf
<1>2. \A c \in DOMAIN live : live[c] \in Entry
  BY <1>1, ContextListParts DEF ListsOf
<1>3. ASSUME NEW b \in Nodes
      PROVE  IsContextList(sent(b), S(b))
  <2>1. ASSUME NEW p \in to(b)
        PROVE  p \in S(b) /\ sent(b)[p] \in Entry
    <3>1. \E e \in callers : e[1] = b /\ e[2] = p
      OBVIOUS
    <3>2. from(b, p) \in callers /\ from(b, p)[1] = b /\ from(b, p)[2] = p
      BY <3>1
    <3> DEFINE e == from(b, p)
    <3> HIDE DEF from
    <3>3. e[3] \in DOMAIN live /\ e[2] \in DOMAIN d[<<b, "out">>]
      BY <3>2, CallersFacts
    <3>4. <<b, "out">> \in Lists
      BY PlacesOf
    <3>5. DOMAIN d[<<b, "out">>] \subseteq S(b)
      BY <3>4 DEF ListsOf, IsContextList
    <3> QED
      BY <1>2, <3>2, <3>3, <3>5
  <2>2. sent(b) = [p \in to(b) |-> sent(b)[p]] /\ DOMAIN sent(b) = to(b)
    OBVIOUS
  <2> HIDE DEF sent, to, S
  <2> QED
    BY <2>1, <2>2, ContextListParts
<1>4. ListsOf(back, callstrings)
  <2>1. ASSUME NEW l \in Lists
        PROVE  IsContextList(back[l], Contexts(callstrings, l[1][1]))
    <3>1. IsContextList(d[l], Contexts(callstrings, l[1][1]))
      BY DEF ListsOf
    <3>2. CASE l \in {<<e[1], "out">> : e \in callers}
      <4>1. l[1] \in Nodes
        BY DEF Lists
      <4>2. IsContextList(sent(l[1]), Contexts(callstrings, l[1][1]))
        BY <1>3, <4>1
      <4>3. back[l] = Unite(d[l], sent(l[1]))
        BY <3>2
      <4> HIDE DEF sent, back
      <4> QED
        BY <3>1, <4>2, <4>3, ListOperations
    <3>3. CASE l \notin {<<e[1], "out">> : e \in callers}
      BY <3>1, <3>3
    <3> QED
      BY <3>2, <3>3
  <2>2. DOMAIN back = Lists
    OBVIOUS
  <2> HIDE DEF back
  <2> QED
    BY <2>1, <2>2 DEF ListsOf
<1>5. PropagateToCallBlocks(d, f) = [back EXCEPT ![InOf(Start(f))] = x]
  BY DEF PropagateToCallBlocks
<1>6. IsContextList(x, Contexts(callstrings, InOf(Start(f))[1][1]))
  <2> HIDE DEF back
  <2> QED
    BY <1>1, <1>4, ListOperations DEF ListsOf
<1> HIDE DEF back, x
<1>7. ListsOf([back EXCEPT ![InOf(Start(f))] = x], callstrings)
  BY <1>1, <1>4, <1>6, PutList
<1> QED
  BY <1>5, <1>7

LEMMA GrownContextsFacts ==
    ASSUME prog \in Programs, NEW wl, IsPool(callstrings, wl), NEW d, ListsOf(d, callstrings),
           NEW f \in DOMAIN prog
    PROVE  GrownCallers(d, f) \subseteq CallsTo(callstrings, f)
BY CallersFacts DEF GrownCallers, GrownContexts

-----------------------------------------------------------------------------
(* The functions of the callers, one after the other: what AddCallers does  *)
(* to the list is to flag the first node of each.                           *)

AddStep(grown, i, wl) ==
    LET c == Len(callstrings) + 1 - i
    IN  IF c \in grown THEN AddToFnWorklist1(wl, lv_node, CallerBlock(c)[1]) ELSE wl

AddRun(g, grown, n) ==
    /\ DOMAIN g = 0..n
    /\ g[0] = fn_worklist
    /\ \A i \in 1..n : g[i] = AddStep(grown, i, g[i - 1])

HasAddRun(grown, n) == \E g : AddRun(g, grown, n)

LEMMA AddCallersRun ==
    ASSUME NEW grown, Len(callstrings) \in Nat
    PROVE  \E g : /\ AddRun(g, grown, Len(callstrings))
                  /\ AddCallers(grown) = g[Len(callstrings)]
<1> DEFINE n == Len(callstrings)
           T == {i \in 0..n : HasAddRun(grown, i)}
           Is(g) == g = [i \in 0..n |-> IF i = 0 THEN fn_worklist ELSE AddStep(grown, i, g[i - 1])]
           wl == CHOOSE g : Is(g)
<1>1. 0 \in T
  <2>1. AddRun([i \in 0..0 |-> fn_worklist], grown, 0)
    BY DEF AddRun
  <2> QED
    BY <2>1 DEF HasAddRun
<1>2. ASSUME NEW i \in 1..n, i - 1 \in T
      PROVE  i \in T
  <2>1. PICK g : AddRun(g, grown, i - 1)
    BY <1>2 DEF HasAddRun
  <2> DEFINE h == [j \in 0..i |-> IF j = i THEN AddStep(grown, i, g[i - 1]) ELSE g[j]]
  <2>2. h[0] = fn_worklist /\ DOMAIN h = 0..i
    BY <2>1 DEF AddRun
  <2>3. \A j \in 1..i : h[j] = AddStep(grown, j, h[j - 1])
    <3> TAKE j \in 1..i
    <3>1. h[j - 1] = g[j - 1]
      BY <2>1 DEF AddRun
    <3>2. CASE j = i
      BY <3>1, <3>2
    <3>3. CASE j # i
      <4>1. j \in 1..(i - 1)
        BY <3>3
      <4>2. h[j] = g[j] /\ g[j] = AddStep(grown, j, g[j - 1])
        BY <2>1, <3>3, <4>1 DEF AddRun
      <4> QED
        BY <3>1, <4>2
    <3> QED
      BY <3>2, <3>3
  <2> HIDE DEF h
  <2>4. AddRun(h, grown, i)
    BY <2>2, <2>3 DEF AddRun
  <2>5. i \in 0..n
    OBVIOUS
  <2> QED
    BY <2>4, <2>5 DEF HasAddRun
<1> HIDE DEF T
<1>3. 0..n \subseteq T
  BY <1>1, <1>2, UpTo
<1>4. PICK g : AddRun(g, grown, n)
  <2>1. n \in T
    BY <1>3
  <2> QED
    BY <2>1 DEF T, HasAddRun
<1>5. \E f : Is(f)
  <2> DEFINE h == [i \in 0..n |-> g[i]]
  <2>1. \A i \in 0..n : h[i] = IF i = 0 THEN fn_worklist ELSE AddStep(grown, i, h[i - 1])
    <3> TAKE i \in 0..n
    <3>1. CASE i = 0
      BY <1>4, <3>1 DEF AddRun
    <3>2. CASE i # 0
      <4>1. i \in 1..n /\ i - 1 \in 0..n
        BY <3>2
      <4> QED
        BY <1>4, <3>2, <4>1 DEF AddRun
    <3> QED
      BY <3>1, <3>2
  <2>2. Is(h)
    BY <2>1
  <2> QED
    BY <2>2
<1>6. Is(wl)
  <2> HIDE DEF Is
  <2> QED
    BY <1>5
<1>7. AddCallers(grown) = wl[n]
  BY DEF AddCallers, AddStep
<1> HIDE DEF wl
<1>8. AddRun(wl, grown, n)
  <2>1. DOMAIN wl = 0..n
    BY <1>6
  <2>2. wl[0] = fn_worklist
    BY <1>6
  <2>3. \A i \in 1..n : wl[i] = AddStep(grown, i, wl[i - 1])
    <3> TAKE i \in 1..n
    <3>1. i \in 0..n /\ i # 0
      OBVIOUS
    <3> QED
      BY <1>6, <3>1
  <2> QED
    BY <2>1, <2>2, <2>3 DEF AddRun
<1> QED
  BY <1>7, <1>8

CallerFns(grown) == {CallerBlock(c)[1] : c \in grown}

(* The contexts of the first i rounds. *)
Late(grown, n, i) == {c \in grown : c > n - i}

LEMMA LateContexts ==
    ASSUME NEW n \in Nat, NEW grown \in SUBSET (1..n)
    PROVE  /\ Late(grown, n, 0) = {}
           /\ Late(grown, n, n) = grown
           /\ \A i \in 1..n :
                 /\ n + 1 - i \in grown =>
                       Late(grown, n, i) = Late(grown, n, i - 1) \cup {n + 1 - i}
                 /\ n + 1 - i \notin grown => Late(grown, n, i) = Late(grown, n, i - 1)
<1>1. \A c \in grown : c \in Int /\ 1 <= c /\ c <= n
  OBVIOUS
<1>2. Late(grown, n, 0) = {}
  <2>1. \A c \in grown : ~(c > n - 0)
    BY <1>1
  <2> QED
    BY <2>1 DEF Late
<1>3. Late(grown, n, n) = grown
  <2>1. \A c \in grown : c > n - n
    BY <1>1
  <2> QED
    BY <2>1 DEF Late
<1>4. ASSUME NEW i \in 1..n
      PROVE  /\ n + 1 - i \in grown =>
                   Late(grown, n, i) = Late(grown, n, i - 1) \cup {n + 1 - i}
             /\ n + 1 - i \notin grown => Late(grown, n, i) = Late(grown, n, i - 1)
  <2>1. \A c \in grown : c > n - i <=> c > n - (i - 1) \/ c = n + 1 - i
    BY <1>1
  <2>2. \A c : c \in Late(grown, n, i) <=> c \in grown /\ c > n - i
    BY DEF Late
  <2>3. \A c : c \in Late(grown, n, i - 1) <=> c \in grown /\ c > n - (i - 1)
    BY DEF Late
  <2>4. \A c : c \in Late(grown, n, i) <=>
           c \in Late(grown, n, i - 1) \/ (c \in grown /\ c = n + 1 - i)
    <3>1. \A c \in grown : c \in Late(grown, n, i) <=>
             c \in Late(grown, n, i - 1) \/ c = n + 1 - i
      <4> TAKE c \in grown
      <4>1. c > n - i <=> c > n - (i - 1) \/ c = n + 1 - i
        BY <2>1
      <4> QED
        BY <2>2, <2>3, <4>1
    <3> QED
      BY <2>2, <2>3, <3>1
  <2> QED
    BY <2>4
<1> QED
  BY <1>2, <1>3, <1>4

LEMMA AddCallersFlags ==
    ASSUME NEW F, IsWorklist(fn_worklist, F), Len(callstrings) \in Nat,
           NEW grown \in SUBSET (1..Len(callstrings)), CallerFns(grown) \subseteq F,
           \A fn \in CallerFns(grown) : HasNodeFrom(fn_worklist, 1, fn)
    PROVE  AddCallers(grown) = FlagFirst(fn_worklist, CallerFns(grown))
<1> DEFINE n == Len(callstrings)
           late(i) == Late(grown, n, i)
<1>1. PICK g : AddRun(g, grown, n) /\ AddCallers(grown) = g[n]
  BY AddCallersRun
<1>2. g[0] = FlagFirst(fn_worklist, CallerFns(late(0)))
  <2>1. late(0) = {}
    BY LateContexts
  <2>2. CallerFns(late(0)) = {}
    BY <2>1 DEF CallerFns
  <2> QED
    BY <1>1, <2>2, FlagNone DEF AddRun
<1>3. ASSUME NEW i \in 1..n, g[i - 1] = FlagFirst(fn_worklist, CallerFns(late(i - 1)))
      PROVE  g[i] = FlagFirst(fn_worklist, CallerFns(late(i)))
  <2> DEFINE c == n + 1 - i
  <2>1. g[i] = AddStep(grown, i, g[i - 1])
    BY <1>1 DEF AddRun
  <2>0. /\ c \in grown => late(i) = late(i - 1) \cup {c}
        /\ c \notin grown => late(i) = late(i - 1)
    BY LateContexts
  <2> HIDE DEF late
  <2>2. CASE c \in grown
    <3>1. late(i) = late(i - 1) \cup {c}
      BY <2>0, <2>2
    <3>2. CallerFns(late(i)) = CallerFns(late(i - 1)) \cup {CallerBlock(c)[1]}
      BY <3>1 DEF CallerFns
    <3>3. CallerFns(late(i - 1)) \in SUBSET F
      BY DEF CallerFns, Late, late
    <3>4. CallerBlock(c)[1] \in F /\ HasNodeFrom(fn_worklist, 1, CallerBlock(c)[1])
      BY <2>2 DEF CallerFns
    <3>5. g[i] = AddToFnWorklist1(g[i - 1], lv_node, CallerBlock(c)[1])
      BY <2>1, <2>2 DEF AddStep
    <3> HIDE DEF c
    <3> QED
      BY <1>3, <3>2, <3>3, <3>4, <3>5, FlagOneMore
  <2>3. CASE c \notin grown
    <3>1. late(i) = late(i - 1)
      BY <2>0, <2>3
    <3>2. g[i] = g[i - 1]
      BY <2>1, <2>3 DEF AddStep
    <3> QED
      BY <1>3, <3>1, <3>2
  <2> QED
    BY <2>2, <2>3
<1> DEFINE Q == {i \in 0..n : g[i] = FlagFirst(fn_worklist, CallerFns(late(i)))}
<1>4. 0 \in Q
  BY <1>2
<1>5. \A i \in 1..n : i - 1 \in Q => i \in Q
  BY <1>3
<1>6. 0..n \subseteq Q
  <2> HIDE DEF Q
  <2> QED
    BY <1>4, <1>5, UpTo
<1>7. g[n] = FlagFirst(fn_worklist, CallerFns(late(n)))
  BY <1>6
<1>8. late(n) = grown
  BY LateContexts
<1> QED
  BY <1>1, <1>7, <1>8

-----------------------------------------------------------------------------
(* The way into a function, f, called from the block b: call strings are    *)
(* added to the pool, never changed.                                        *)

Longer(pool, more) ==
    DOMAIN pool \subseteq DOMAIN more /\ \A c \in DOMAIN pool : more[c] = pool[c]

LEMMA LongerContexts ==
    ASSUME NEW pool, NEW more, Longer(pool, more)
    PROVE  /\ \A f : CallsTo(pool, f) \subseteq CallsTo(more, f)
           /\ \A f : Contexts(pool, f) \subseteq Contexts(more, f)
           /\ \A d : ListsOf(d, pool) => ListsOf(d, more)
           /\ \A rows, f : IsMap(rows, CallsTo(pool, f)) => IsMap(rows, CallsTo(more, f))
<1>1. \A f : CallsTo(pool, f) \subseteq CallsTo(more, f)
  BY DEF CallsTo, Longer
<1>2. \A f : Contexts(pool, f) \subseteq Contexts(more, f)
  BY <1>1 DEF Contexts
<1>3. \A d : ListsOf(d, pool) => ListsOf(d, more)
  BY <1>2 DEF ListsOf, IsContextList
<1>4. \A rows, f : IsMap(rows, CallsTo(pool, f)) => IsMap(rows, CallsTo(more, f))
  BY <1>1 DEF IsMap, IsRow
<1> QED
  BY <1>1, <1>2, <1>3, <1>4

LEMMA LongerByOne ==
    ASSUME NEW wl, NEW pool, IsPool(pool, wl), NEW string \in Seq(Nodes), string # <<>>,
           CallBlock(Head(string)), HasNodeFrom(wl, 1, Head(string)[1])
    PROVE  /\ IsPool(Append(pool, string), wl)
           /\ Longer(pool, Append(pool, string))
           /\ Len(pool) + 1 \in CallsTo(Append(pool, string), Callee(Head(string)))
<1> DEFINE more == Append(pool, string)
<1>1. pool \in Seq(Seq(Nodes))
  BY DEF IsPool
<1>2. /\ more \in Seq(Seq(Nodes))
      /\ DOMAIN more = DOMAIN pool \cup {Len(pool) + 1}
      /\ Len(pool) + 1 \notin DOMAIN pool
      /\ more[Len(pool) + 1] = string
      /\ \A c \in DOMAIN pool : more[c] = pool[c]
  BY <1>1
<1> HIDE DEF more
<1>3. IsPool(more, wl)
  BY <1>2 DEF IsPool
<1>4. Longer(pool, more) /\ Len(pool) + 1 \in CallsTo(more, Callee(Head(string)))
  BY <1>2 DEF Longer, CallsTo
<1> QED
  BY <1>3, <1>4 DEF more

IsEntering(w, pool, f, wl) ==
    /\ IsMapState(w, CallsTo(w.pool, f), Contexts(w.pool, f))
    /\ IsPool(w.pool, wl) /\ Longer(pool, w.pool)
    /\ w.add \in BOOLEAN

LEMMA EnterCalleeType ==
    ASSUME NEW wl, NEW pool, NEW f, NEW w, IsEntering(w, pool, f, wl),
           NEW string \in Seq(Nodes), string # <<>>, CallBlock(Head(string)),
           Callee(Head(string)) = f, HasNodeFrom(wl, 1, Head(string)[1]),
           NEW live \in SUBSET Var
    PROVE  IsEntering(EnterCallee(w, string, live), pool, f, wl)
<1> DEFINE known  == ExistingContext(w.pool, w.out, string)
           is_new == known = {}
           c      == IF is_new THEN Len(w.pool) + 1 ELSE CHOOSE k \in known : TRUE
           sent   == RemoveLocalVars(live)
           grown  == is_new \/ ~(sent \subseteq w.out[c].linfo)
           more   == IF is_new THEN Append(w.pool, string) ELSE w.pool
           out    == Unite(w.out, OneContext(c, sent))
           put    == [w EXCEPT !.pool = more, !.out = out, !.add = @ \/ grown]
           S      == CallsTo(more, f)
           T      == Contexts(more, f)
<1>1. IsPool(more, wl) /\ Longer(w.pool, more) /\ c \in S
  <2>1. CASE is_new
    BY <2>1, LongerByOne DEF IsEntering
  <2>2. CASE ~is_new
    <3>1. c \in known
      BY <2>2
    <3>2. c \in DOMAIN w.out /\ c # 0
      BY <3>1 DEF ExistingContext
    <3>3. DOMAIN w.out \subseteq Contexts(w.pool, f)
      BY DEF IsEntering, IsMapState, IsContextList
    <3>4. c \in CallsTo(w.pool, f)
      BY <3>2, <3>3 DEF Contexts
    <3> QED
      BY <2>2, <3>4 DEF IsEntering, Longer
  <2> QED
    BY <2>1, <2>2
<1>2. is_new \in BOOLEAN /\ grown \in BOOLEAN /\ sent \in SUBSET Var
  BY DEF RemoveLocalVars
<1> HIDE DEF is_new, c, sent, grown, more
<1>3. IsContextList(out, T)
  <2>1. IsContextList(w.out, T)
    BY <1>1, LongerContexts, MoreContexts DEF IsEntering, IsMapState
  <2>2. IsContextList(OneContext(c, sent), T)
    BY <1>1, <1>2, OneContextList DEF Contexts
  <2> QED
    BY <2>1, <2>2, ListOperations
<1>4. IsMap(w.rows, S)
  BY <1>1, LongerContexts DEF IsEntering, IsMapState
<1>5. (w.add \/ grown) \in BOOLEAN
  BY <1>2
<1> HIDE DEF out, S, T
<1>6. /\ IsMapState(put, S, T)
      /\ put.pool = more /\ put.add \in BOOLEAN
  BY <1>3, <1>4, <1>5 DEF IsEntering, IsMapState
<1>7. Longer(pool, more)
  BY <1>1 DEF IsEntering, Longer
<1>8. EnterCallee(w, string, live) =
         IF grown THEN ModifyLcsmapAtEndblock(put, c, is_new) ELSE put
  BY DEF EnterCallee, is_new, c, sent, grown, more, out
<1> HIDE DEF put
<1>9. /\ IsMapState(EnterCallee(w, string, live), S, T)
      /\ EnterCallee(w, string, live).pool = more
      /\ EnterCallee(w, string, live).add \in BOOLEAN
  <2>1. CASE grown
    <3>1. /\ IsMapState(ModifyLcsmapAtEndblock(put, c, is_new), S, T)
          /\ SameRest(put, ModifyLcsmapAtEndblock(put, c, is_new))
      BY <1>1, <1>2, <1>6, ModifyType
    <3> QED
      BY <1>6, <1>8, <2>1, <3>1 DEF SameRest
  <2>2. CASE ~grown
    BY <1>6, <1>8, <2>2
  <2> QED
    BY <2>1, <2>2
<1> QED
  BY <1>1, <1>7, <1>9 DEF IsEntering, S, T

(* The loop over the contexts. *)
Entering(d, b) ==
    [rows |-> lcsmap[Callee(CallOf(b))], required |-> lcsmap_required[Callee(CallOf(b))],
     out |-> d[OutOf(End(Callee(CallOf(b))))], pool |-> callstrings, add |-> FALSE]

EnterStep(d, b, i, w) ==
    LET c == Len(callstrings) + 1 - i
    IN  IF c \in New(d[InOf(b)])
        THEN EnterCallee(w, <<CallOf(b)>> \o String(callstrings, c), d[InOf(b)][c].linfo)
        ELSE w

EnterRun(g, d, b, n) ==
    /\ DOMAIN g = 0..n
    /\ g[0] = Entering(d, b)
    /\ \A i \in 1..n : g[i] = EnterStep(d, b, i, g[i - 1])

HasEnterRun(d, b, n) == \E g : EnterRun(g, d, b, n)

LEMMA EnterCalleesRun ==
    ASSUME NEW d, NEW b, Len(callstrings) \in Nat
    PROVE  \E g : /\ EnterRun(g, d, b, Len(callstrings) + 1)
                  /\ EnterCallees(d, b) = g[Len(callstrings) + 1]
<1> DEFINE n == Len(callstrings) + 1
           T == {i \in 0..n : HasEnterRun(d, b, i)}
           Is(g) == g = [i \in 0..n |-> IF i = 0 THEN Entering(d, b) ELSE EnterStep(d, b, i, g[i - 1])]
           w == CHOOSE g : Is(g)
<1>1. 0 \in T
  <2>1. EnterRun([i \in 0..0 |-> Entering(d, b)], d, b, 0)
    BY DEF EnterRun
  <2> QED
    BY <2>1 DEF HasEnterRun
<1>2. ASSUME NEW i \in 1..n, i - 1 \in T
      PROVE  i \in T
  <2>1. PICK g : EnterRun(g, d, b, i - 1)
    BY <1>2 DEF HasEnterRun
  <2> DEFINE h == [j \in 0..i |-> IF j = i THEN EnterStep(d, b, i, g[i - 1]) ELSE g[j]]
  <2>2. h[0] = Entering(d, b) /\ DOMAIN h = 0..i
    BY <2>1 DEF EnterRun
  <2>3. \A j \in 1..i : h[j] = EnterStep(d, b, j, h[j - 1])
    <3> TAKE j \in 1..i
    <3>1. h[j - 1] = g[j - 1]
      BY <2>1 DEF EnterRun
    <3>2. CASE j = i
      BY <3>1, <3>2
    <3>3. CASE j # i
      <4>1. j \in 1..(i - 1)
        BY <3>3
      <4>2. h[j] = g[j] /\ g[j] = EnterStep(d, b, j, g[j - 1])
        BY <2>1, <3>3, <4>1 DEF EnterRun
      <4> QED
        BY <3>1, <4>2
    <3> QED
      BY <3>2, <3>3
  <2> HIDE DEF h
  <2>4. EnterRun(h, d, b, i)
    BY <2>2, <2>3 DEF EnterRun
  <2>5. i \in 0..n
    OBVIOUS
  <2> QED
    BY <2>4, <2>5 DEF HasEnterRun
<1> HIDE DEF T
<1>3. 0..n \subseteq T
  <2>1. n \in Nat
    OBVIOUS
  <2> HIDE DEF n
  <2> QED
    BY <1>1, <1>2, <2>1, UpTo
<1>4. PICK g : EnterRun(g, d, b, n)
  <2>1. n \in T
    BY <1>3
  <2> QED
    BY <2>1 DEF T, HasEnterRun
<1>5. \E f : Is(f)
  <2> DEFINE h == [i \in 0..n |-> g[i]]
  <2>1. \A i \in 0..n : h[i] = IF i = 0 THEN Entering(d, b) ELSE EnterStep(d, b, i, h[i - 1])
    <3> TAKE i \in 0..n
    <3>1. CASE i = 0
      BY <1>4, <3>1 DEF EnterRun
    <3>2. CASE i # 0
      <4>1. i \in 1..n /\ i - 1 \in 0..n
        BY <3>2
      <4> QED
        BY <1>4, <3>2, <4>1 DEF EnterRun
    <3> QED
      BY <3>1, <3>2
  <2>2. Is(h)
    BY <2>1
  <2> QED
    BY <2>2
<1>6. Is(w)
  <2> HIDE DEF Is
  <2> QED
    BY <1>5
<1>7. EnterCallees(d, b) = w[n]
  BY DEF EnterCallees, EnterStep, Entering
<1> HIDE DEF w
<1>8. EnterRun(w, d, b, n)
  <2>1. DOMAIN w = 0..n
    BY <1>6
  <2>2. w[0] = Entering(d, b)
    BY <1>6
  <2>3. \A i \in 1..n : w[i] = EnterStep(d, b, i, w[i - 1])
    <3> TAKE i \in 1..n
    <3>1. i \in 0..n /\ i # 0
      OBVIOUS
    <3> QED
      BY <1>6, <3>1
  <2> QED
    BY <2>1, <2>2, <2>3 DEF EnterRun
<1> QED
  BY <1>7, <1>8

LEMMA CalledString ==
    ASSUME prog \in Programs, NEW wl, IsPool(callstrings, wl), NEW f,
           NEW c \in Contexts(callstrings, f), NEW a \in Nodes
    PROVE  /\ <<a>> \o String(callstrings, c) \in Seq(Nodes)
           /\ <<a>> \o String(callstrings, c) # <<>>
           /\ Head(<<a>> \o String(callstrings, c)) = a
<1>1. String(callstrings, c) \in Seq(Nodes)
  <2>1. CASE c = 0
    BY <2>1 DEF String
  <2>2. CASE c # 0
    BY <2>2 DEF String, Contexts, CallsTo, IsPool
  <2> QED
    BY <2>1, <2>2
<1> DEFINE s == String(callstrings, c)
<1> HIDE DEF s
<1>2. <<a>> \in Seq(Nodes) /\ s \in Seq(Nodes)
  BY <1>1 DEF s
<1>3. <<a>> \o s \in Seq(Nodes) /\ Len(<<a>> \o s) = 1 + Len(s) /\ (<<a>> \o s)[1] = a
  BY <1>2
<1>4. <<a>> \o s # <<>> /\ Head(<<a>> \o s) = a
  BY <1>2, <1>3
<1> QED
  BY <1>3, <1>4 DEF s

LEMMA EnterCalleesType ==
    ASSUME prog \in Programs, NEW wl, IsPool(callstrings, wl),
           NEW d, ListsOf(d, callstrings), NEW b \in Nodes, ReturnBlock(b),
           NEW f, f = Callee(CallOf(b)), IsMap(lcsmap[f], CallsTo(callstrings, f)),
           lcsmap_required[f] \in BOOLEAN, HasNodeFrom(wl, 1, b[1])
    PROVE  IsEntering(EnterCallees(d, b), callstrings, f, wl)
<1> DEFINE n == Len(callstrings) + 1
           in == d[InOf(b)]
<1>1. n \in Nat /\ Len(callstrings) \in Nat
  BY DEF IsPool
<1>2. PICK g : EnterRun(g, d, b, n) /\ EnterCallees(d, b) = g[n]
  BY <1>1, EnterCalleesRun
<1>3. CallOf(b) \in Nodes /\ CallOf(b)[1] = b[1] /\ CallBlock(CallOf(b)) /\ f \in DOMAIN prog
  <2>1. CallOf(b) \in BlocksOf(b[1]) /\ b[1] \in DOMAIN prog
    BY NodeFacts
  <2> QED
    BY <2>1, NodeFacts DEF BlocksOf
<1>4. IsEntering(Entering(d, b), callstrings, f, wl)
  <2>1. OutOf(End(f)) \in Lists /\ OutOf(End(f))[1][1] = f
    BY <1>3, EndsOf
  <2>2. IsContextList(d[OutOf(End(f))], Contexts(callstrings, f))
    BY <2>1 DEF ListsOf
  <2> DEFINE w == Entering(d, b)
  <2>3. /\ DOMAIN w = {"rows", "required", "out", "pool", "add"}
        /\ w.rows = lcsmap[f] /\ w.required = lcsmap_required[f]
        /\ w.out = d[OutOf(End(f))] /\ w.pool = callstrings /\ w.add = FALSE
    BY DEF Entering
  <2> HIDE DEF w
  <2>4. Longer(callstrings, callstrings)
    BY DEF Longer
  <2> QED
    BY <2>2, <2>3, <2>4 DEF IsEntering, IsMapState, w
<1>5. ASSUME NEW i \in 1..n, IsEntering(g[i - 1], callstrings, f, wl)
      PROVE  IsEntering(g[i], callstrings, f, wl)
  <2> DEFINE c == Len(callstrings) + 1 - i
             string == <<CallOf(b)>> \o String(callstrings, c)
  <2>1. g[i] = EnterStep(d, b, i, g[i - 1])
    BY <1>2 DEF EnterRun
  <2>2. CASE c \in New(in)
    <3>1. g[i] = EnterCallee(g[i - 1], string, in[c].linfo)
      BY <2>1, <2>2 DEF EnterStep
    <3>2. InOf(b) \in Lists /\ InOf(b)[1][1] = b[1]
      BY PlacesOf
    <3>3. c \in Contexts(callstrings, b[1]) /\ in[c] \in Entry
      BY <2>2, <3>2, ContextListParts DEF ListsOf, New
    <3>4. in[c].linfo \in SUBSET Var
      BY <3>3 DEF Entry
    <3>5. string \in Seq(Nodes) /\ string # <<>> /\ Head(string) = CallOf(b)
      BY <1>3, <3>3, CalledString
    <3> HIDE DEF string, c, in
    <3> QED
      BY <1>3, <1>5, <3>1, <3>4, <3>5, EnterCalleeType
  <2>3. CASE c \notin New(in)
    BY <1>5, <2>1, <2>3 DEF EnterStep
  <2> QED
    BY <2>2, <2>3
<1> DEFINE T == {i \in 0..n : IsEntering(g[i], callstrings, f, wl)}
<1>6. 0 \in T
  BY <1>1, <1>2, <1>4 DEF EnterRun
<1>7. \A i \in 1..n : i - 1 \in T => i \in T
  BY <1>5
<1>8. 0..n \subseteq T
  <2> HIDE DEF T, n
  <2> QED
    BY <1>1, <1>6, <1>7, UpTo
<1>9. n \in 0..n
  BY <1>1
<1> QED
  BY <1>2, <1>8, <1>9

-----------------------------------------------------------------------------
(* The invariant.  TypeOK is not inductive: what a step does to the caller  *)
(* of a context is to its first call's block, so the call strings have to   *)
(* be those of calls in functions on the list, and the contexts of a list   *)
(* and of a map have to be calls of their function.                         *)
IInv ==
    /\ prog \in Programs
    /\ IsPool(callstrings, fn_worklist)
    /\ ListsOf(df, callstrings)
    /\ DOMAIN lcsmap = DOMAIN prog
    /\ \A f \in DOMAIN prog : IsMap(lcsmap[f], CallsTo(callstrings, f))
    /\ lcsmap_required \in [DOMAIN prog -> BOOLEAN]
    /\ IsWorklist(fn_worklist, DOMAIN prog)
    /\ lv_node \in 0..Len(fn_worklist)
    /\ process_lv \subseteq Nodes /\ process_pta \subseteq Nodes

LEMMA TypesFollow == IInv => TypeOK
<1> SUFFICES ASSUME IInv PROVE TypeOK
  OBVIOUS
<1>1. callstrings \in Seq(Seq(Nodes)) /\ DOMAIN callstrings = 1..Len(callstrings)
  BY DEF IInv, IsPool
<1>2. \A f : CallsTo(callstrings, f) \subseteq DOMAIN callstrings
  BY DEF CallsTo
<1>3. \A f : Contexts(callstrings, f) \subseteq 0..Len(callstrings)
  <2>1. Len(callstrings) \in Nat
    BY <1>1
  <2> QED
    BY <1>1, <1>2, <2>1 DEF Contexts
<1>4. \A l \in Lists : IsContextList(df[l], 0..Len(callstrings))
  BY <1>3, MoreContexts DEF IInv, ListsOf
<1>5. \A f \in DOMAIN prog : Mapped(lcsmap[f]) \subseteq DOMAIN callstrings
  BY <1>2, MappedContexts DEF IInv
<1> QED
  BY <1>1, <1>4, <1>5 DEF IInv, ListsOf, TypeOK

LEMMA InvAgain ==
    ASSUME prog \in Programs, prog' = prog,
           IsPool(callstrings', fn_worklist'),
           ListsOf(df', callstrings'),
           DOMAIN lcsmap' = DOMAIN prog,
           \A f \in DOMAIN prog : IsMap(lcsmap'[f], CallsTo(callstrings', f)),
           lcsmap_required' \in [DOMAIN prog -> BOOLEAN],
           IsWorklist(fn_worklist', DOMAIN prog),
           lv_node' \in 0..Len(fn_worklist'),
           process_lv' \subseteq Nodes, process_pta' \subseteq Nodes
    PROVE  IInv'
<1>1. Nodes' = Nodes
  BY DEF Nodes, BlocksOf, Blocks
<1>2. Lists' = Lists
  BY <1>1 DEF Lists
<1>3. \A b : (CallBlock(b)' <=> CallBlock(b)) /\ Callee(b)' = Callee(b)
  BY DEF CallBlock, Callee
<1>4. IsPool(callstrings, fn_worklist)'
  BY <1>1, <1>3 DEF IsPool
<1>5. \A f : CallsTo(callstrings, f)' = CallsTo(callstrings', f)
  BY <1>3 DEF CallsTo
<1>6. \A f : Contexts(callstrings, f)' = Contexts(callstrings', f)
  BY <1>5 DEF Contexts
<1>7. ListsOf(df, callstrings)'
  BY <1>2, <1>6 DEF ListsOf
<1> QED
  BY <1>1, <1>4, <1>5, <1>7 DEF IInv

LEMMA InitInv == Init => IInv
<1> SUFFICES ASSUME Init PROVE IInv
  OBVIOUS
<1>1. prog \in Programs /\ callstrings = <<>> /\ fn_worklist = <<NewWorklistNode(main)>>
  BY DEF Init
<1>2. main \in DOMAIN prog /\ Start(main) \in Nodes /\ End(main) \in Nodes
  BY <1>1, ProgramFacts, EndsOf
<1>3. IsPool(callstrings, fn_worklist)
  BY <1>1 DEF IsPool
<1>4. ListsOf(df, callstrings)
  <2> DEFINE l0 == <<End(main), "out">>
  <2>1. DOMAIN df = Lists /\ \A l \in Lists : df[l] = IF l = l0 THEN OneContext(0, {}) ELSE NoContexts
    BY DEF Init
  <2>2. \A S : IsContextList(NoContexts, S)
    BY DEF IsContextList, NoContexts
  <2>3. IsContextList(OneContext(0, {}), Contexts(callstrings, main))
    BY OneContextList DEF Contexts
  <2>4. l0[1][1] = main
    BY DEF End
  <2> HIDE DEF l0
  <2> QED
    BY <2>1, <2>2, <2>3, <2>4 DEF ListsOf
<1>5. \A f \in DOMAIN prog : IsMap(lcsmap[f], CallsTo(callstrings, f))
  BY DEF Init, NoRows, IsMap
<1>6. IsWorklist(fn_worklist, DOMAIN prog) /\ Len(fn_worklist) = 1
  BY <1>1, <1>2 DEF IsWorklist, NewWorklistNode
<1>7. lv_node \in 0..1
  <2>1. LvFlagged(fn_worklist) \in SUBSET (Nat \ {0}) /\ LvFlagged(fn_worklist) \subseteq {1}
    BY <1>1, <1>6 DEF LvFlagged
  <2>2. FirstOf(LvFlagged(fn_worklist)) \in {0, 1}
    BY <2>1, FirstOfIsFirst
  <2> QED
    BY <2>2 DEF Init, FirstNodeFromLvWorklist
<1>8. process_lv \subseteq Nodes /\ process_pta \subseteq Nodes
  BY <1>2 DEF Init
<1>9. DOMAIN lcsmap = DOMAIN prog /\ lcsmap_required \in [DOMAIN prog -> BOOLEAN]
  BY DEF Init
<1> QED
  BY <1>1, <1>3, <1>4, <1>5, <1>6, <1>7, <1>8, <1>9 DEF IInv

-----------------------------------------------------------------------------
(* The handlers keep it.                                                    *)

(* The block a handler is given is a flagged one of the current function.   *)
LEMMA BlockFacts ==
    ASSUME IInv, NEW b, BlockForLvProcessing(b)
    PROVE  /\ b \in Nodes /\ b \in process_lv /\ b[1] = Cnode
           /\ Cnode \in DOMAIN prog
           /\ lv_node # 0 /\ lv_node \in DOMAIN fn_worklist
           /\ HasNodeFrom(fn_worklist, 1, Cnode)
<1>1. lv_node # 0 /\ b \in process_lv /\ b[1] = Cnode
  BY DEF BlockForLvProcessing, ReadyBlocks, FlaggedBlocks
<1>2. b \in Nodes
  BY <1>1 DEF IInv
<1>3. lv_node \in DOMAIN fn_worklist /\ lv_node >= 1
  <2>1. /\ DOMAIN fn_worklist = 1..Len(fn_worklist)
        /\ lv_node \in 0..Len(fn_worklist) /\ Len(fn_worklist) \in Nat
    <3>1. fn_worklist \in Seq(WorklistNodes(DOMAIN prog))
      BY WorklistType DEF IInv
    <3> QED
      BY <3>1 DEF IInv
  <2> QED
    BY <1>1, <2>1
<1>4. Cnode \in DOMAIN prog
  BY <1>3, WorklistType DEF IInv, Cnode
<1> QED
  BY <1>1, <1>2, <1>3, <1>4 DEF HasNodeFrom, Cnode

LEMMA PropagateType ==
    ASSUME prog \in Programs, NEW pool, NEW d, ListsOf(d, pool), NEW b \in Nodes,
           NEW flagged \in SUBSET Nodes, NEW pta \in SUBSET Nodes,
           process_lv \subseteq Nodes, process_pta \subseteq Nodes,
           Propagate(d, b, flagged, pta)
    PROVE  /\ ListsOf(df', pool)
           /\ process_lv' \subseteq Nodes /\ process_pta' \subseteq Nodes
           /\ process_lv \ {b} \subseteq process_lv'
           /\ \A c \in process_lv' \ (process_lv \ {b}) : c[1] = b[1] \/ c \in flagged
<1>1. PICK grown : /\ grown = GrownPreds(d, b) \cup flagged
                   /\ df' = PropagateToPreds(d, b)
                   /\ process_lv' = (process_lv \ {b}) \cup grown
                   /\ process_pta' = process_pta \cup grown \cup pta
  BY DEF Propagate
<1>2. ListsOf(df', pool)
  BY <1>1, PropagateToPredsType
<1>3. \A c \in GrownPreds(d, b) : c \in Nodes /\ c[1] = b[1]
  <2>1. GrownPreds(d, b) \subseteq BlocksOf(b[1])
    BY LvPredsInFunction DEF GrownPreds
  <2>2. BlocksOf(b[1]) \subseteq Nodes
    BY NodeFacts
  <2> QED
    BY <2>1, <2>2 DEF BlocksOf
<1> QED
  BY <1>1, <1>2, <1>3

(* What a handler leaves alone but for its lists and its blocks. *)
LEMMA SameListInv ==
    ASSUME IInv, UNCHANGED <<prog, lcsmap_required, callstrings, fn_worklist, lv_node>>,
           ListsOf(df', callstrings),
           DOMAIN lcsmap' = DOMAIN prog,
           \A f \in DOMAIN prog : IsMap(lcsmap'[f], CallsTo(callstrings, f)),
           process_lv' \subseteq Nodes, process_pta' \subseteq Nodes
    PROVE  IInv'
BY InvAgain DEF IInv

(* The list at IN of an intra block. *)
IntraIn(b) ==
    LET copied == IF SharedList(b) THEN df ELSE CopyOutToIn(df, b)
    IN  IF HasConstraints(b) THEN FindLiveVars(copied, b) ELSE copied

LEMMA IntraBlockInv ==
    ASSUME IInv, NEW b, LvIntraBlock(b)
    PROVE  /\ IInv'
           /\ process_lv \ {b} \subseteq process_lv'
           /\ \A c \in process_lv' \ (process_lv \ {b}) : c[1] = Cnode
<1>1. BlockForLvProcessing(b) /\ Propagate(IntraIn(b), b, {}, {})
  BY DEF LvIntraBlock, IntraIn
<1>2. b \in Nodes /\ b[1] = Cnode
  BY <1>1, BlockFacts
<1> DEFINE copied == IF SharedList(b) THEN df ELSE CopyOutToIn(df, b)
<1>3. prog \in Programs /\ ListsOf(df, callstrings)
  BY DEF IInv
<1>4. ListsOf(copied, callstrings)
  BY <1>2, <1>3, CopyOutToInType
<1>5. ListsOf(IntraIn(b), callstrings)
  <2> HIDE DEF copied
  <2>1. ListsOf(FindLiveVars(copied, b), callstrings)
    BY <1>2, <1>3, <1>4, FindLiveVarsType
  <2> QED
    BY <1>4, <2>1 DEF IntraIn, copied
<1> DEFINE d == IntraIn(b)
<1> HIDE DEF d, copied
<1>6. /\ ListsOf(df', callstrings)
      /\ process_lv' \subseteq Nodes /\ process_pta' \subseteq Nodes
      /\ process_lv \ {b} \subseteq process_lv'
      /\ \A c \in process_lv' \ (process_lv \ {b}) : c[1] = b[1]
  <2>1. ListsOf(d, callstrings) /\ Propagate(d, b, {}, {})
    BY <1>1, <1>5 DEF d
  <2>2. process_lv \subseteq Nodes /\ process_pta \subseteq Nodes /\ {} \in SUBSET Nodes
    BY DEF IInv
  <2> QED
    BY <1>2, <1>3, <2>1, <2>2, PropagateType
<1>7. IInv'
  BY <1>6, SameListInv DEF LvIntraBlock, IInv
<1> QED
  BY <1>2, <1>6, <1>7

LEMMA CallBlockInv ==
    ASSUME IInv, NEW b, LvCallBlock(b)
    PROVE  /\ IInv'
           /\ process_lv \ {b} \subseteq process_lv'
           /\ \A c \in process_lv' \ (process_lv \ {b}) : c[1] = Cnode
<1> DEFINE d == CallStmtLiveness(df, b)
<1>1. BlockForLvProcessing(b) /\ CallBlock(b) /\ Propagate(d, b, {}, {})
  BY DEF LvCallBlock
<1>2. b \in Nodes /\ b[1] = Cnode
  BY <1>1, BlockFacts
<1>3. /\ prog \in Programs /\ ListsOf(df, callstrings)
      /\ process_lv \subseteq Nodes /\ process_pta \subseteq Nodes
  BY DEF IInv
<1>4. ListsOf(d, callstrings)
  BY <1>1, <1>2, <1>3, CallStmtLivenessType
<1> HIDE DEF d
<1>5. /\ ListsOf(df', callstrings)
      /\ process_lv' \subseteq Nodes /\ process_pta' \subseteq Nodes
      /\ process_lv \ {b} \subseteq process_lv'
      /\ \A c \in process_lv' \ (process_lv \ {b}) : c[1] = b[1]
  BY <1>1, <1>2, <1>3, <1>4, PropagateType
<1>6. IInv'
  BY <1>5, SameListInv DEF LvCallBlock, IInv
<1> QED
  BY <1>2, <1>5, <1>6

(* The list at IN of an end block, and what it does to the map. *)
EndLhs(b) == New(df[OutOf(b)]) \cap DOMAIN lcsmap[Cnode]

EndIn(b) ==
    LET out    == df[OutOf(b)]
        mapped == [df EXCEPT
                     ![InOf(b)] = Over([c \in EndLhs(b) |-> out[c]], @),
                     ![OutOf(b)] = [c \in DOMAIN out |->
                         [out[c] EXCEPT
                            !.new_lvdf = @ /\ (lcsmap_required[Cnode] \/ c \notin EndLhs(b))]]]
    IN  IF HasConstraints(b) THEN FindLiveVars(mapped, b) ELSE mapped

LEMMA EndInType ==
    ASSUME IInv, NEW b \in Nodes, b = End(b[1])
    PROVE  ListsOf(EndIn(b), callstrings)
<1> DEFINE S   == Contexts(callstrings, b[1])
           out == df[OutOf(b)]
           lhs == EndLhs(b)
           required == lcsmap_required[Cnode]
           x   == Over([c \in lhs |-> out[c]], df[InOf(b)])
           y   == [c \in DOMAIN out |->
                     [out[c] EXCEPT !.new_lvdf = @ /\ (required \/ c \notin lhs)]]
           mapped == [df EXCEPT ![InOf(b)] = x, ![OutOf(b)] = y]
<1>1. prog \in Programs /\ ListsOf(df, callstrings)
  BY DEF IInv
<1>2. /\ InOf(b) \in Lists /\ OutOf(b) \in Lists /\ InOf(b) # OutOf(b)
      /\ InOf(b)[1][1] = b[1] /\ OutOf(b)[1][1] = b[1]
  BY PlacesOf DEF InOf, OutOf, SharedList
<1>3. IsContextList(out, S) /\ IsContextList(df[InOf(b)], S)
  BY <1>1, <1>2 DEF ListsOf
<1>4. DOMAIN out \subseteq S /\ \A c \in DOMAIN out : out[c] \in Entry
  BY <1>3, ContextListParts
<1>5. IsContextList(x, S)
  <2>1. lhs \subseteq DOMAIN out
    BY DEF EndLhs, New
  <2> HIDE DEF lhs, out, S
  <2>2. IsContextList([c \in lhs |-> out[c]], S)
    BY <1>4, <2>1, ContextListParts
  <2> DEFINE new == [c \in lhs |-> out[c]]
  <2> HIDE DEF new
  <2>3. IsContextList(new, S)
    BY <2>2 DEF new
  <2> QED
    BY <1>3, <2>3, ListOperations DEF new
<1>6. IsContextList(y, S)
  <2> HIDE DEF lhs, out, S, required
  <2>1. \A c \in DOMAIN out : y[c] \in Entry
    <3> TAKE c \in DOMAIN out
    <3>1. out[c] \in Entry /\ (out[c].new_lvdf /\ (required \/ c \notin lhs)) \in BOOLEAN
      BY <1>4
    <3> QED
      BY <3>1 DEF Entry
  <2>2. y = [c \in DOMAIN y |-> y[c]] /\ DOMAIN y = DOMAIN out
    OBVIOUS
  <2> HIDE DEF y
  <2> QED
    BY <1>4, <2>1, <2>2, ContextListParts
<1>7. EndIn(b) = IF HasConstraints(b) THEN FindLiveVars(mapped, b) ELSE mapped
  BY DEF EndIn
<1> HIDE DEF x, y
<1>8. /\ IsContextList(x, Contexts(callstrings, InOf(b)[1][1]))
      /\ IsContextList(y, Contexts(callstrings, OutOf(b)[1][1]))
  BY <1>2, <1>5, <1>6
<1> HIDE DEF S, out
<1>9. ListsOf(mapped, callstrings)
  BY <1>1, <1>2, <1>8, PutTwoLists
<1> HIDE DEF mapped
<1>10. ListsOf(FindLiveVars(mapped, b), callstrings)
  BY <1>1, <1>9, FindLiveVarsType
<1> QED
  BY <1>7, <1>9, <1>10

LEMMA EndBlockInv ==
    ASSUME IInv, NEW b, BlockForLvProcessing(b), LvEndBlock(b)
    PROVE  /\ IInv'
           /\ process_lv \ {b} \subseteq process_lv'
           /\ \A c \in process_lv' \ (process_lv \ {b}) : c[1] = Cnode
<1> DEFINE d       == EndIn(b)
           flagged == IF lcsmap_required[Cnode] THEN {Start(Cnode)} ELSE {}
           rows    == lcsmap[Cnode]
           new     == [c \in DOMAIN rows |->
                         [rows[c] EXCEPT !.present = @ \/ c \in EndLhs(b)]]
<1>1. b \in Nodes /\ b[1] = Cnode /\ Cnode \in DOMAIN prog
  BY BlockFacts
<1>2. /\ b = End(Cnode)
      /\ Propagate(d, b, flagged, {})
      /\ lcsmap' = [lcsmap EXCEPT ![Cnode] = new]
  BY DEF LvEndBlock, EndIn, EndLhs
<1>3. /\ prog \in Programs
      /\ process_lv \subseteq Nodes /\ process_pta \subseteq Nodes
      /\ DOMAIN lcsmap = DOMAIN prog
      /\ \A f \in DOMAIN prog : IsMap(lcsmap[f], CallsTo(callstrings, f))
  BY DEF IInv
<1>4. ListsOf(d, callstrings)
  BY <1>1, <1>2, EndInType
<1>5. flagged \in SUBSET Nodes /\ \A c \in flagged : c[1] = Cnode
  BY <1>1, <1>3, EndsOf DEF Start
<1>6. IsMap(new, CallsTo(callstrings, Cnode))
  <2>1. IsMap(rows, CallsTo(callstrings, Cnode))
    BY <1>1, <1>3
  <2> HIDE DEF rows
  <2>2. \A l \in DOMAIN rows : IsRow(new[l], CallsTo(callstrings, Cnode))
    BY <2>1 DEF IsMap, IsRow
  <2> QED
    BY <2>1, <2>2 DEF IsMap
<1> HIDE DEF d, flagged, new
<1>7. /\ ListsOf(df', callstrings)
      /\ process_lv' \subseteq Nodes /\ process_pta' \subseteq Nodes
      /\ process_lv \ {b} \subseteq process_lv'
      /\ \A c \in process_lv' \ (process_lv \ {b}) : c[1] = b[1] \/ c \in flagged
  <2>1. {} \in SUBSET Nodes
    OBVIOUS
  <2> QED
    BY <1>1, <1>2, <1>3, <1>4, <1>5, <2>1, PropagateType
<1>8. /\ DOMAIN lcsmap' = DOMAIN prog
      /\ \A f \in DOMAIN prog : IsMap(lcsmap'[f], CallsTo(callstrings, f))
  BY <1>1, <1>2, <1>3, <1>6
<1>9. IInv'
  <2>1. UNCHANGED <<prog, lcsmap_required, callstrings, fn_worklist, lv_node>>
    BY DEF LvEndBlock
  <2> QED
    BY <1>7, <1>8, <2>1, SameListInv
<1> QED
  BY <1>1, <1>5, <1>7, <1>9

(* What the start of a function does to the list and to its callers. *)
Back(wl, grown, f) ==
    /\ wl = FlagFirst(fn_worklist, CallerFns(grown))
    /\ CallerFns(grown) \subseteq DOMAIN prog
    /\ \A fn \in CallerFns(grown) : HasNodeFrom(fn_worklist, 1, fn)
    /\ GrownCallBlocks(grown) \subseteq Nodes
    /\ \A c \in GrownCallBlocks(grown) :
          c[1] \in CallerFns(grown) /\ CallBlock(c) /\ Callee(c) = f
    /\ \A fn \in CallerFns(grown) : \E c \in GrownCallBlocks(grown) : c[1] = fn
    /\ IsWorklist(wl, DOMAIN prog)
    /\ DOMAIN wl = DOMAIN fn_worklist /\ Len(wl) = Len(fn_worklist)
    /\ \A i \in DOMAIN wl : wl[i].called_fn = fn_worklist[i].called_fn
    /\ LvFlagged(fn_worklist) \subseteq LvFlagged(wl)
    /\ IsPool(callstrings, wl)

LEMMA BackFacts ==
    ASSUME IInv, NEW d, ListsOf(d, callstrings), NEW f \in DOMAIN prog
    PROVE  /\ Back(AddCallers(GrownCallers(d, f)), GrownCallers(d, f), f)
           /\ ListsOf(Returned(d, f), callstrings)
<1> DEFINE grown == GrownCallers(d, f)
           wl    == AddCallers(grown)
           fns   == CallerFns(grown)
<1>1. /\ prog \in Programs /\ IsPool(callstrings, fn_worklist)
      /\ IsWorklist(fn_worklist, DOMAIN prog)
  BY DEF IInv
<1>2. grown \subseteq CallsTo(callstrings, f)
  BY <1>1, GrownContextsFacts
<1>3. /\ grown \in SUBSET (1..Len(callstrings)) /\ Len(callstrings) \in Nat
  <2>1. DOMAIN callstrings = 1..Len(callstrings) /\ Len(callstrings) \in Nat
    BY <1>1 DEF IsPool
  <2> HIDE DEF grown
  <2> QED
    BY <1>2, <2>1 DEF CallsTo
<1> HIDE DEF grown
<1>4. \A c \in grown :
         /\ CallerBlock(c) \in Nodes /\ CallBlock(CallerBlock(c)) /\ Callee(CallerBlock(c)) = f
         /\ HasNodeFrom(fn_worklist, 1, CallerBlock(c)[1])
         /\ CallerBlock(c)[1] \in DOMAIN prog
  <2> TAKE c \in grown
  <2>1. /\ CallerBlock(c) \in Nodes /\ CallBlock(CallerBlock(c)) /\ Callee(CallerBlock(c)) = f
        /\ HasNodeFrom(fn_worklist, 1, CallerBlock(c)[1])
    BY <1>1, <1>2, CallerFacts
  <2> QED
    BY <1>1, <2>1, NodeFacts
<1>5. fns \subseteq DOMAIN prog /\ \A fn \in fns : HasNodeFrom(fn_worklist, 1, fn)
  BY <1>4 DEF CallerFns
<1>6. wl = FlagFirst(fn_worklist, fns)
  BY <1>1, <1>3, <1>5, AddCallersFlags
<1> HIDE DEF wl, fns
<1>7. /\ IsWorklist(wl, DOMAIN prog)
      /\ DOMAIN wl = DOMAIN fn_worklist
      /\ \A i \in DOMAIN wl : wl[i].called_fn = fn_worklist[i].called_fn
      /\ LvFlagged(fn_worklist) \subseteq LvFlagged(wl)
  BY <1>1, <1>5, <1>6, FlagFirstKeeps
<1>8. Len(wl) = Len(fn_worklist)
  <2>1. fn_worklist \in Seq(WorklistNodes(DOMAIN prog)) /\ wl \in Seq(WorklistNodes(DOMAIN prog))
    BY <1>1, <1>7, WorklistType
  <2> QED
    BY <1>7, <2>1
<1>9. \A fn : HasNodeFrom(fn_worklist, 1, fn) => HasNodeFrom(wl, 1, fn)
  BY <1>7 DEF HasNodeFrom
<1>10. IsPool(callstrings, wl)
  BY <1>1, <1>9 DEF IsPool
<1>11. /\ GrownCallBlocks(grown) \subseteq Nodes
       /\ \A c \in GrownCallBlocks(grown) : c[1] \in fns /\ CallBlock(c) /\ Callee(c) = f
       /\ \A fn \in fns : \E c \in GrownCallBlocks(grown) : c[1] = fn
  BY <1>4 DEF GrownCallBlocks, CallerFns, fns
<1>12. Back(wl, grown, f)
  BY <1>5, <1>6, <1>7, <1>8, <1>10, <1>11 DEF Back, fns
<1>13. ListsOf(Returned(d, f), callstrings)
  BY <1>1, PropagateToCallBlocksType DEF Returned
<1> QED
  BY <1>12, <1>13 DEF wl, grown

LEMMA RegeneratedType ==
    ASSUME IInv, NEW d, ListsOf(d, callstrings), NEW f \in DOMAIN prog
    PROVE  /\ ListsOf(Regenerated(d, f), callstrings)
           /\ NoLongerRequired(f) \in [DOMAIN prog -> BOOLEAN]
<1>1. ListsOf(Regenerated(d, f), callstrings)
  BY RegenerateType DEF IInv, Regenerated
<1>2. NoLongerRequired(f) \in [DOMAIN prog -> BOOLEAN]
  BY DEF IInv, NoLongerRequired
<1> QED
  BY <1>1, <1>2

(* Where the start block leaves the list. *)
LEMMA StartBlockInv ==
    ASSUME IInv, NEW b, BlockForLvProcessing(b), LvStartBlock(b)
    PROVE  /\ IInv'
           /\ b = Start(Cnode)
           /\ \E grown, wl :
                 /\ Back(wl, grown, Cnode)
                 /\ process_lv' = (process_lv \ {b}) \cup GrownCallBlocks(grown)
                 /\ IF LvCalleeNodesProcessed(wl, lv_node)
                    THEN /\ fn_worklist' = LeaveLvNode(wl, lv_node)
                         /\ lv_node' = PrevNodeFromLvWorklist(wl, lv_node)
                    ELSE fn_worklist' = wl /\ UNCHANGED lv_node
<1> DEFINE f     == Cnode
           d     == FindLiveVars(CopyOutToIn(df, b), b)
           regen == Regenerated(d, f)
           grown == GrownCallers(regen, f)
           wl    == AddCallers(grown)
<1>1. /\ b \in Nodes /\ b[1] = f /\ f \in DOMAIN prog
      /\ lv_node \in DOMAIN fn_worklist
  BY BlockFacts
<1>2. /\ b = Start(f)
      /\ df' = Returned(regen, f)
      /\ process_lv' = (process_lv \ {b}) \cup GrownCallBlocks(grown)
      /\ process_pta' = process_pta \cup GrownCallBlocks(grown)
      /\ IF LvCalleeNodesProcessed(wl, lv_node)
         THEN /\ fn_worklist' = LeaveLvNode(wl, lv_node)
              /\ lv_node' = PrevNodeFromLvWorklist(wl, lv_node)
         ELSE fn_worklist' = wl /\ UNCHANGED lv_node
      /\ lcsmap_required' = NoLongerRequired(f)
      /\ UNCHANGED <<prog, lcsmap, callstrings>>
  BY DEF LvStartBlock
<1>3. /\ prog \in Programs /\ ListsOf(df, callstrings)
      /\ process_lv \subseteq Nodes /\ process_pta \subseteq Nodes
      /\ lv_node \in 0..Len(fn_worklist)
      /\ DOMAIN lcsmap = DOMAIN prog
      /\ \A g \in DOMAIN prog : IsMap(lcsmap[g], CallsTo(callstrings, g))
  BY DEF IInv
<1>4. ListsOf(CopyOutToIn(df, b), callstrings)
  BY <1>1, <1>2, <1>3, EndsOf, CopyOutToInType
<1>5. ListsOf(d, callstrings)
  BY <1>1, <1>3, <1>4, FindLiveVarsType
<1> HIDE DEF d
<1>6. ListsOf(regen, callstrings) /\ NoLongerRequired(f) \in [DOMAIN prog -> BOOLEAN]
  BY <1>1, <1>5, RegeneratedType
<1> HIDE DEF regen
<1>7. Back(wl, grown, f) /\ ListsOf(Returned(regen, f), callstrings)
  BY <1>1, <1>6, BackFacts
<1> HIDE DEF grown, wl
<1>8. /\ IsWorklist(fn_worklist', DOMAIN prog)
      /\ lv_node' \in 0..Len(fn_worklist')
      /\ IsPool(callstrings, fn_worklist')
  <2>1. CASE LvCalleeNodesProcessed(wl, lv_node)
    <3>1. fn_worklist' = LeaveLvNode(wl, lv_node) /\ lv_node' = PrevNodeFromLvWorklist(wl, lv_node)
      BY <1>2, <2>1
    <3>2. /\ IsWorklist(fn_worklist', DOMAIN prog)
          /\ DOMAIN fn_worklist' = DOMAIN wl
          /\ Len(fn_worklist') = Len(wl)
          /\ \A i \in DOMAIN wl : fn_worklist'[i].called_fn = wl[i].called_fn
          /\ lv_node' \in 0..Len(wl)
      <4>1. /\ IsWorklist(wl, DOMAIN prog) /\ lv_node \in DOMAIN wl
        BY <1>1, <1>7 DEF Back
      <4>2. /\ IsWorklist(LeaveLvNode(wl, lv_node), DOMAIN prog)
            /\ DOMAIN LeaveLvNode(wl, lv_node) = DOMAIN wl
            /\ Len(LeaveLvNode(wl, lv_node)) = Len(wl)
            /\ \A i \in DOMAIN wl : LeaveLvNode(wl, lv_node)[i].called_fn = wl[i].called_fn
            /\ PrevNodeFromLvWorklist(wl, lv_node) \in 0..Len(wl)
        BY <4>1, LeavingType
      <4> QED
        BY <3>1, <4>2
    <3>3. \A fn : HasNodeFrom(wl, 1, fn) => HasNodeFrom(fn_worklist', 1, fn)
      BY <3>2 DEF HasNodeFrom
    <3> QED
      BY <1>7, <3>2, <3>3 DEF Back, IsPool
  <2>2. CASE ~LvCalleeNodesProcessed(wl, lv_node)
    <3>1. fn_worklist' = wl /\ lv_node' = lv_node
      BY <1>2, <2>2
    <3> QED
      BY <1>3, <1>7, <3>1 DEF Back
  <2> QED
    BY <2>1, <2>2
<1>9. GrownCallBlocks(grown) \subseteq Nodes
  BY <1>7 DEF Back
<1>10. IInv'
  <2>1. /\ prog' = prog /\ callstrings' = callstrings /\ lcsmap' = lcsmap
        /\ lcsmap_required' \in [DOMAIN prog -> BOOLEAN]
        /\ process_lv' \subseteq Nodes /\ process_pta' \subseteq Nodes
        /\ ListsOf(df', callstrings)
    BY <1>2, <1>3, <1>6, <1>7, <1>9
  <2> QED
    BY <1>3, <1>8, <2>1, InvAgain
<1> QED
  BY <1>2, <1>7, <1>10

LEMMA StartCallBlockInv ==
    ASSUME IInv, NEW b, BlockForLvProcessing(b), LvStartCallBlock(b)
    PROVE  /\ IInv'
           /\ \E grown, wl :
                 /\ Back(wl, grown, Cnode)
                 /\ process_lv' = (process_lv \ {b}) \cup GrownCallBlocks(grown)
                 /\ fn_worklist' = wl /\ UNCHANGED lv_node
<1> DEFINE f     == Cnode
           d     == CallStmtLiveness(df, b)
           regen == Regenerated(d, f)
           grown == GrownCallers(regen, f)
           wl    == AddCallers(grown)
<1>1. /\ b \in Nodes /\ b[1] = f /\ f \in DOMAIN prog
      /\ lv_node \in DOMAIN fn_worklist
  BY BlockFacts
<1>2. /\ CallBlock(b)
      /\ df' = Returned(regen, f)
      /\ process_lv' = (process_lv \ {b}) \cup GrownCallBlocks(grown)
      /\ process_pta' = process_pta \cup GrownCallBlocks(grown)
      /\ fn_worklist' = wl
      /\ lcsmap_required' = NoLongerRequired(f)
      /\ UNCHANGED <<prog, lcsmap, callstrings, lv_node>>
  BY DEF LvStartCallBlock
<1>3. /\ prog \in Programs /\ ListsOf(df, callstrings)
      /\ process_lv \subseteq Nodes /\ process_pta \subseteq Nodes
      /\ lv_node \in 0..Len(fn_worklist)
      /\ DOMAIN lcsmap = DOMAIN prog
      /\ \A g \in DOMAIN prog : IsMap(lcsmap[g], CallsTo(callstrings, g))
  BY DEF IInv
<1>4. ListsOf(d, callstrings)
  BY <1>1, <1>2, <1>3, CallStmtLivenessType
<1> HIDE DEF d
<1>5. ListsOf(regen, callstrings) /\ NoLongerRequired(f) \in [DOMAIN prog -> BOOLEAN]
  BY <1>1, <1>4, RegeneratedType
<1> HIDE DEF regen
<1>6. Back(wl, grown, f) /\ ListsOf(Returned(regen, f), callstrings)
  BY <1>1, <1>5, BackFacts
<1> HIDE DEF grown, wl
<1>7. IInv'
  <2>1. /\ prog' = prog /\ callstrings' = callstrings /\ lcsmap' = lcsmap
        /\ lcsmap_required' \in [DOMAIN prog -> BOOLEAN]
        /\ process_lv' \subseteq Nodes /\ process_pta' \subseteq Nodes
        /\ ListsOf(df', callstrings)
    BY <1>2, <1>3, <1>5, <1>6 DEF Back
  <2>2. /\ IsWorklist(fn_worklist', DOMAIN prog)
        /\ lv_node' \in 0..Len(fn_worklist')
        /\ IsPool(callstrings, fn_worklist')
    BY <1>2, <1>3, <1>6 DEF Back
  <2> QED
    BY <1>3, <2>1, <2>2, InvAgain
<1> QED
  BY <1>2, <1>6, <1>7

LEMMA ReturnBlockInv ==
    ASSUME IInv, NEW b, LvReturnBlock(b)
    PROVE  /\ IInv'
           /\ process_lv \ {b} \subseteq process_lv' /\ UNCHANGED lv_node
           /\ \E f \in DOMAIN prog, add \in BOOLEAN :
                 /\ fn_worklist' = IF add THEN AddToFnWorklist(fn_worklist, lv_node, f)
                                   ELSE fn_worklist
                 /\ \A c \in process_lv' \ (process_lv \ {b}) :
                       c[1] = Cnode \/ (add /\ c[1] = f)
<1> DEFINE f       == Callee(CallOf(b))
           copied  == CopyInAtReturnblock(df, b)
           w       == EnterCallees(copied, b)
           d       == [copied EXCEPT ![OutOf(End(f))] = w.out]
           flagged == IF w.add THEN {End(f)} ELSE {}
           pta     == IF w.add /\ HasNodeFrom(fn_worklist, lv_node, f) THEN {Start(f)} ELSE {}
<1>1. /\ BlockForLvProcessing(b) /\ ReturnBlock(b)
      /\ Propagate(d, b, flagged, pta)
      /\ lcsmap' = [lcsmap EXCEPT ![f] = w.rows]
      /\ lcsmap_required' = [lcsmap_required EXCEPT ![f] = w.required]
      /\ callstrings' = w.pool
      /\ fn_worklist' = IF w.add THEN AddToFnWorklist(fn_worklist, lv_node, f)
                        ELSE fn_worklist
      /\ prog' = prog /\ lv_node' = lv_node
  BY DEF LvReturnBlock
<1>2. /\ b \in Nodes /\ b[1] = Cnode /\ lv_node \in DOMAIN fn_worklist
      /\ HasNodeFrom(fn_worklist, 1, b[1])
  BY <1>1, BlockFacts
<1>3. /\ prog \in Programs /\ IsPool(callstrings, fn_worklist)
      /\ ListsOf(df, callstrings)
      /\ process_lv \subseteq Nodes /\ process_pta \subseteq Nodes
      /\ DOMAIN lcsmap = DOMAIN prog
      /\ \A g \in DOMAIN prog : IsMap(lcsmap[g], CallsTo(callstrings, g))
      /\ lcsmap_required \in [DOMAIN prog -> BOOLEAN]
      /\ IsWorklist(fn_worklist, DOMAIN prog)
      /\ lv_node \in 0..Len(fn_worklist)
  BY DEF IInv
<1>4. f \in DOMAIN prog
  BY <1>1, <1>2, <1>3, NodeFacts
<1>5. ListsOf(copied, callstrings)
  BY <1>1, <1>2, <1>3, CopyInAtReturnblockType
<1> HIDE DEF f, copied
<1>6. IsEntering(w, callstrings, f, fn_worklist)
  <2>1. IsMap(lcsmap[f], CallsTo(callstrings, f)) /\ lcsmap_required[f] \in BOOLEAN
    BY <1>3, <1>4
  <2>2. f = Callee(CallOf(b))
    BY DEF f
  <2> QED
    BY <1>1, <1>2, <1>3, <1>5, <2>1, <2>2, EnterCalleesType
<1> HIDE DEF w
<1>7. /\ IsMap(w.rows, CallsTo(w.pool, f)) /\ w.required \in BOOLEAN
      /\ IsContextList(w.out, Contexts(w.pool, f))
      /\ IsPool(w.pool, fn_worklist) /\ Longer(callstrings, w.pool)
      /\ w.add \in BOOLEAN
  BY <1>6 DEF IsEntering, IsMapState
<1>8. ListsOf(d, w.pool)
  <2>1. ListsOf(copied, w.pool)
    BY <1>5, <1>7, LongerContexts
  <2>2. OutOf(End(f)) \in Lists /\ OutOf(End(f))[1][1] = f
    BY <1>3, <1>4, EndsOf
  <2>3. IsContextList(w.out, Contexts(w.pool, OutOf(End(f))[1][1]))
    BY <1>7, <2>2
  <2> QED
    BY <2>1, <2>2, <2>3, PutList
<1> HIDE DEF d
<1>9. flagged \in SUBSET Nodes /\ pta \in SUBSET Nodes /\ \A c \in flagged : w.add /\ c[1] = f
  BY <1>3, <1>4, EndsOf DEF End
<1> HIDE DEF flagged, pta
<1>10. /\ ListsOf(df', w.pool)
       /\ process_lv' \subseteq Nodes /\ process_pta' \subseteq Nodes
       /\ process_lv \ {b} \subseteq process_lv'
       /\ \A c \in process_lv' \ (process_lv \ {b}) : c[1] = b[1] \/ c \in flagged
  <2> DEFINE pool == w.pool
  <2>1. ListsOf(d, pool) /\ Propagate(d, b, flagged, pta)
    BY <1>1, <1>8
  <2> HIDE DEF pool
  <2>2. /\ ListsOf(df', pool)
        /\ process_lv' \subseteq Nodes /\ process_pta' \subseteq Nodes
        /\ process_lv \ {b} \subseteq process_lv'
        /\ \A c \in process_lv' \ (process_lv \ {b}) : c[1] = b[1] \/ c \in flagged
    BY <1>2, <1>3, <1>9, <2>1, PropagateType
  <2> QED
    BY <2>2 DEF pool
<1>11. /\ DOMAIN lcsmap' = DOMAIN prog
       /\ \A g \in DOMAIN prog : IsMap(lcsmap'[g], CallsTo(w.pool, g))
       /\ lcsmap_required' \in [DOMAIN prog -> BOOLEAN]
  <2>1. \A g \in DOMAIN prog : IsMap(lcsmap[g], CallsTo(w.pool, g))
    BY <1>3, <1>7, LongerContexts
  <2> QED
    BY <1>1, <1>3, <1>4, <1>7, <2>1
<1>12. /\ IsWorklist(fn_worklist', DOMAIN prog)
       /\ lv_node' \in 0..Len(fn_worklist')
       /\ IsPool(w.pool, fn_worklist')
  <2>1. CASE w.add
    <3>1. fn_worklist' = AddToFnWorklist(fn_worklist, lv_node, f)
      BY <1>1, <2>1
    <3>2. Keeps(DOMAIN prog, fn_worklist, fn_worklist', lv_node)
      BY <1>2, <1>3, <1>4, <3>1, AddToFnWorklistKeeps
    <3>3. DOMAIN fn_worklist' = 1..Len(fn_worklist')
      BY <3>2, WorklistType DEF Keeps
    <3>4. lv_node' \in 0..Len(fn_worklist')
      BY <1>1, <3>2, <3>3 DEF Keeps
    <3>5. \A fn : HasNodeFrom(fn_worklist, 1, fn) => HasNodeFrom(fn_worklist', 1, fn)
      BY <3>2, <3>3 DEF Keeps, HasNodeFrom
    <3> QED
      BY <1>7, <3>2, <3>4, <3>5 DEF Keeps, IsPool
  <2>2. CASE ~w.add
    BY <1>1, <1>3, <1>7, <2>2
  <2> QED
    BY <2>1, <2>2
<1>13. IInv'
  BY <1>1, <1>3, <1>10, <1>11, <1>12, InvAgain
<1>14. \A c \in process_lv' \ (process_lv \ {b}) : c[1] = Cnode \/ (w.add /\ c[1] = f)
  BY <1>2, <1>9, <1>10
<1> QED
  BY <1>1, <1>4, <1>7, <1>10, <1>13, <1>14

LEMMA NextFunctionInv == IInv /\ NextFunction => IInv'
<1> SUFFICES ASSUME IInv, NextFunction PROVE IInv'
  OBVIOUS
<1> DEFINE T == {i \in LvFlagged(fn_worklist) : i > lv_node}
<1>1. lv_node' = FirstOf(T) /\ UNCHANGED <<prog, df, lcsmap, lcsmap_required, callstrings,
                                           fn_worklist, process_lv, process_pta>>
  BY DEF NextFunction, NextNodeFromLvWorklist
<1>2. DOMAIN fn_worklist = 1..Len(fn_worklist) /\ Len(fn_worklist) \in Nat
  <2>1. fn_worklist \in Seq(WorklistNodes(DOMAIN prog))
    BY WorklistType DEF IInv
  <2> QED
    BY <2>1
<1>3. T \in SUBSET (Nat \ {0}) /\ T \subseteq 1..Len(fn_worklist)
  BY <1>2 DEF LvFlagged
<1>4. FirstOf(T) \in 0..Len(fn_worklist)
  <2>1. (T = {} <=> FirstOf(T) = 0) /\ (T # {} => FirstOf(T) \in T)
    BY <1>3, FirstOfIsFirst
  <2>2. FirstOf(T) = 0 \/ FirstOf(T) \in 1..Len(fn_worklist)
    BY <1>3, <2>1
  <2> QED
    BY <1>2, <2>2
<1> QED
  BY <1>1, <1>4, InvAgain DEF IInv

LEMMA PreviousFunctionInv == IInv /\ PreviousFunction => IInv'
<1> SUFFICES ASSUME IInv, PreviousFunction PROVE IInv'
  OBVIOUS
<1>1. /\ lv_node # 0
      /\ lv_node' = PrevNodeFromLvWorklist(fn_worklist, lv_node)
      /\ fn_worklist' = LeaveLvNode(fn_worklist, lv_node)
      /\ UNCHANGED <<prog, df, lcsmap, lcsmap_required, callstrings, process_lv, process_pta>>
  BY DEF PreviousFunction
<1>2. lv_node \in DOMAIN fn_worklist /\ IsWorklist(fn_worklist, DOMAIN prog)
  <2>1. /\ DOMAIN fn_worklist = 1..Len(fn_worklist) /\ Len(fn_worklist) \in Nat
    <3>1. fn_worklist \in Seq(WorklistNodes(DOMAIN prog))
      BY WorklistType DEF IInv
    <3> QED
      BY <3>1
  <2> QED
    BY <1>1, <2>1 DEF IInv
<1>3. /\ IsWorklist(fn_worklist', DOMAIN prog)
      /\ DOMAIN fn_worklist' = DOMAIN fn_worklist
      /\ Len(fn_worklist') = Len(fn_worklist)
      /\ \A i \in DOMAIN fn_worklist :
            fn_worklist'[i].called_fn = fn_worklist[i].called_fn
      /\ lv_node' \in 0..Len(fn_worklist)
  <2>1. /\ IsWorklist(LeaveLvNode(fn_worklist, lv_node), DOMAIN prog)
        /\ DOMAIN LeaveLvNode(fn_worklist, lv_node) = DOMAIN fn_worklist
        /\ Len(LeaveLvNode(fn_worklist, lv_node)) = Len(fn_worklist)
        /\ \A i \in DOMAIN fn_worklist :
              LeaveLvNode(fn_worklist, lv_node)[i].called_fn = fn_worklist[i].called_fn
        /\ PrevNodeFromLvWorklist(fn_worklist, lv_node) \in 0..Len(fn_worklist)
    BY <1>2, LeavingType
  <2> QED
    BY <1>1, <2>1
<1>4. IsPool(callstrings, fn_worklist')
  <2>1. \A fn : HasNodeFrom(fn_worklist, 1, fn) => HasNodeFrom(fn_worklist', 1, fn)
    BY <1>3 DEF HasNodeFrom
  <2> QED
    BY <2>1 DEF IInv, IsPool
<1> QED
  BY <1>1, <1>3, <1>4, InvAgain DEF IInv

LEMMA NextInv == IInv /\ [Next]_vars => IInv'
<1> SUFFICES ASSUME IInv, [Next]_vars PROVE IInv'
  OBVIOUS
<1>1. ASSUME NEW b \in process_lv, ProcessBlock(b)
      PROVE  IInv'
  <2>1. CASE LvIntraBlock(b)
    BY <2>1, IntraBlockInv
  <2>2. CASE BlockForLvProcessing(b) /\ LvEndBlock(b)
    BY <2>2, EndBlockInv
  <2>3. CASE BlockForLvProcessing(b) /\ LvStartBlock(b)
    BY <2>3, StartBlockInv
  <2>4. CASE LvCallBlock(b)
    BY <2>4, CallBlockInv
  <2>5. CASE BlockForLvProcessing(b) /\ LvStartCallBlock(b)
    BY <2>5, StartCallBlockInv
  <2>6. CASE LvReturnBlock(b)
    BY <2>6, ReturnBlockInv
  <2> QED
    BY <1>1, <2>1, <2>2, <2>3, <2>4, <2>5, <2>6 DEF ProcessBlock
<1>2. CASE NextFunction
  BY <1>2, NextFunctionInv
<1>3. CASE PreviousFunction
  BY <1>3, PreviousFunctionInv
<1>4. CASE UNCHANGED vars
  <2>1. UNCHANGED <<prog, df, lcsmap, lcsmap_required, callstrings, fn_worklist, lv_node,
                    process_lv, process_pta>>
    BY <1>4 DEF vars
  <2> QED
    BY <2>1, InvAgain DEF IInv
<1> QED
  BY <1>1, <1>2, <1>3, <1>4 DEF Next

LEMMA Invariant == Spec => []IInv
BY InitInv, NextInv, PTL DEF Spec

(* The state of the liveness pass over all functions is always what the    *)
(* names of its parts say: every index into the pool of call strings that  *)
(* a list or a map holds has a string, and the position in the function    *)
(* worklist is one of its.                                                  *)
THEOREM Types == Spec => []TypeOK
BY Invariant, TypesFollow, PTL

-----------------------------------------------------------------------------
(* The callstring map of a function: what the rows are, whichever contexts  *)
(* the list at OUT of the end block has.                                    *)

(* Nobody is in two rows. *)
RowsApart(rows) ==
    /\ \A l \in DOMAIN rows : DOMAIN rows[l].rhs \cap DOMAIN rows = {}
    /\ \A k, l \in DOMAIN rows :
          k # l => DOMAIN rows[k].rhs \cap DOMAIN rows[l].rhs = {}

(* No two rows have one value. *)
ValuesApart(rows, out, L) ==
    \A k, l \in L \cap DOMAIN rows : k # l => out[k].linfo # out[l].linfo

(* The lhs of a row covers its rhs, but for the contexts in C.              *)
LhsCovers(rows, out, C) ==
    \A l \in DOMAIN rows : \A d \in DOMAIN rows[l].rhs \ C :
        out[d].linfo \subseteq out[l].linfo

IsPartition(m) ==
    /\ RowsApart(m.rows)
    /\ ValuesApart(m.rows, m.out, DOMAIN m.rows)
    /\ LhsCovers(m.rows, m.out, {})

(* Lists that differ in their flags only.                                   *)
SameLive(out, new) ==
    /\ DOMAIN new = DOMAIN out
    /\ \A c \in DOMAIN out : new[c].linfo = out[c].linfo

(* A context that is in no row is put into one.                             *)
LEMMA PutIntoMapPartition ==
    ASSUME NEW S, NEW T, NEW m, IsMapState(m, S, T), IsPartition(m),
           NEW c, c \notin Mapped(m.rows), NEW present
    PROVE  /\ IsPartition(PutIntoMap(m, c, present))
           /\ Mapped(PutIntoMap(m, c, present).rows) = Mapped(m.rows) \cup {c}
           /\ PutIntoMap(m, c, present).out = m.out
<1>1. /\ c \notin DOMAIN m.rows
      /\ \A l \in DOMAIN m.rows : c \notin DOMAIN m.rows[l].rhs
  BY DEF Mapped
<1>0. \A l \in DOMAIN m.rows : DOMAIN m.rows[l] = {"present", "rhs", "nr"}
  BY DEF IsMapState, IsMap, IsRow
<1>2. CASE SameValue(m, c) = {}
  <2> DEFINE row  == [present |-> present, rhs |-> << >>, nr |-> NextNr(m.rows)]
             rows == With(m.rows, c, row)
  <2>1. PutIntoMap(m, c, present) = [m EXCEPT !.rows = rows]
    BY <1>2 DEF PutIntoMap
  <2>2. DOMAIN row.rhs = {}
    OBVIOUS
  <2> HIDE DEF row
  <2>3. /\ DOMAIN rows = DOMAIN m.rows \cup {c} /\ rows[c] = row
        /\ \A l \in DOMAIN m.rows : rows[l] = m.rows[l]
    BY <1>1 DEF With
  <2> HIDE DEF rows
  <2>4. \A l \in DOMAIN m.rows : m.out[l].linfo # m.out[c].linfo
    BY <1>1, <1>2 DEF SameValue
  <2>5. RowsApart(rows)
    BY <1>1, <2>2, <2>3 DEF IsPartition, RowsApart
  <2>6. ValuesApart(rows, m.out, DOMAIN rows)
    BY <1>1, <2>3, <2>4 DEF IsPartition, ValuesApart
  <2>7. LhsCovers(rows, m.out, {})
    BY <1>1, <2>2, <2>3 DEF IsPartition, LhsCovers
  <2>8. Mapped(rows) = Mapped(m.rows) \cup {c}
    <3>1. \A x : x \in Mapped(rows) <=> x \in Mapped(m.rows) \/ x = c
      BY <1>1, <2>2, <2>3 DEF Mapped
    <3> QED
      BY <3>1
  <2> QED
    BY <2>1, <2>5, <2>6, <2>7, <2>8 DEF IsMapState, IsPartition
<1>3. CASE SameValue(m, c) # {}
  <2> DEFINE l      == CHOOSE d \in SameValue(m, c) : TRUE
             swap   == m.out[l].new_lvdf /\ ~m.rows[l].present /\ present
             row    == m.rows[l]
             fresh  == [row EXCEPT !.present = TRUE, !.rhs = With(@, l, FALSE)]
             first  == With(Without(m.rows, l), c, fresh)
             second == [m.rows EXCEPT ![l].rhs = With(@, c, present)]
             joined == IF swap THEN first ELSE second
  <2>1. PutIntoMap(m, c, present) = [m EXCEPT !.rows = joined, !.required = TRUE]
    BY <1>3 DEF PutIntoMap
  <2>2. l \in DOMAIN m.rows /\ l # c /\ m.out[l].linfo = m.out[c].linfo
    BY <1>3 DEF SameValue
  <2> HIDE DEF l
  <2>3. CASE swap
    <3>1. DOMAIN fresh.rhs = DOMAIN m.rows[l].rhs \cup {l}
      <4>1. DOMAIN With(row.rhs, l, FALSE) = DOMAIN row.rhs \cup {l}
        BY DEF With
      <4>2. fresh.rhs = With(row.rhs, l, FALSE)
        BY <1>0, <2>2
      <4> QED
        BY <4>1, <4>2
    <3> HIDE DEF fresh
    <3>2. /\ DOMAIN first = (DOMAIN m.rows \ {l}) \cup {c} /\ first[c] = fresh
          /\ \A k \in DOMAIN m.rows \ {l} : first[k] = m.rows[k]
      BY <1>1 DEF With, Without
    <3>3. joined = first
      BY <2>3
    <3> HIDE DEF first, joined, swap
    <3>4. RowsApart(first)
      BY <1>1, <2>2, <3>1, <3>2 DEF IsPartition, RowsApart
    <3>5. ValuesApart(first, m.out, DOMAIN first)
      BY <1>1, <2>2, <3>2 DEF IsPartition, ValuesApart
    <3>6. LhsCovers(first, m.out, {})
      BY <1>1, <2>2, <3>1, <3>2 DEF IsPartition, LhsCovers
    <3>7. Mapped(first) = Mapped(m.rows) \cup {c}
      <4>1. ASSUME NEW x
            PROVE  x \in Mapped(first) <=> x \in Mapped(m.rows) \/ x = c
        <5>1. x \in Mapped(first) <=> \/ x \in DOMAIN first
                                      \/ \E k \in DOMAIN first : x \in DOMAIN first[k].rhs
          BY DEF Mapped
        <5>2. x \in Mapped(m.rows) <=> \/ x \in DOMAIN m.rows
                                       \/ \E k \in DOMAIN m.rows : x \in DOMAIN m.rows[k].rhs
          BY DEF Mapped
        <5> QED
          BY <2>2, <3>1, <3>2, <5>1, <5>2
      <4> QED
        BY <4>1
    <3> QED
      BY <2>1, <3>3, <3>4, <3>5, <3>6, <3>7 DEF IsMapState, IsPartition
  <2>4. CASE ~swap
    <3>1. /\ DOMAIN second = DOMAIN m.rows
          /\ DOMAIN second[l].rhs = DOMAIN m.rows[l].rhs \cup {c}
          /\ \A k \in DOMAIN m.rows \ {l} : second[k] = m.rows[k]
      <4>1. \A rhs : DOMAIN With(rhs, c, present) = DOMAIN rhs \cup {c}
        BY DEF With
      <4>2. second[l].rhs = With(m.rows[l].rhs, c, present)
        BY <2>2, <1>0
      <4> QED
        BY <2>2, <4>1, <4>2
    <3>2. joined = second
      BY <2>4
    <3> HIDE DEF second, joined, swap
    <3>3. RowsApart(second)
      BY <1>1, <2>2, <3>1 DEF IsPartition, RowsApart
    <3>4. ValuesApart(second, m.out, DOMAIN second)
      BY <1>1, <2>2, <3>1 DEF IsPartition, ValuesApart
    <3>5. LhsCovers(second, m.out, {})
      BY <1>1, <2>2, <3>1 DEF IsPartition, LhsCovers
    <3>6. Mapped(second) = Mapped(m.rows) \cup {c}
      <4>1. ASSUME NEW x
            PROVE  x \in Mapped(second) <=> x \in Mapped(m.rows) \/ x = c
        <5>1. x \in Mapped(second) <=> \/ x \in DOMAIN second
                                       \/ \E k \in DOMAIN second : x \in DOMAIN second[k].rhs
          BY DEF Mapped
        <5>2. x \in Mapped(m.rows) <=> \/ x \in DOMAIN m.rows
                                       \/ \E k \in DOMAIN m.rows : x \in DOMAIN m.rows[k].rhs
          BY DEF Mapped
        <5> QED
          BY <2>2, <3>1, <5>1, <5>2
      <4> QED
        BY <4>1
    <3> QED
      BY <2>1, <3>2, <3>3, <3>4, <3>5, <3>6 DEF IsMapState, IsPartition
  <2> QED
    BY <2>3, <2>4
<1> QED
  BY <1>2, <1>3

(* The lhs c of a row has got a larger value, with which its row covers its *)
(* rhs all the more, but which another row may have, too.                   *)
LEMMA ChangeLhsPartition ==
    ASSUME NEW S, NEW T, NEW m, IsMapState(m, S, T),
           RowsApart(m.rows), NEW c \in DOMAIN m.rows, Mapped(m.rows) \subseteq DOMAIN m.out,
           ValuesApart(m.rows, m.out, DOMAIN m.rows \ {c}), LhsCovers(m.rows, m.out, {})
    PROVE  /\ IsPartition(ChangeLhs(m, c))
           /\ Mapped(ChangeLhs(m, c).rows) = Mapped(m.rows)
           /\ SameLive(m.out, ChangeLhs(m, c).out)
<1> DEFINE moved == m.rows[c].rhs
<1>0. \A l \in DOMAIN m.rows : DOMAIN m.rows[l] = {"present", "rhs", "nr"} /\ l \in S
  BY DEF IsMapState, IsMap, IsRow
<1>1. CASE SameValue(m, c) = {}
  <2>1. ChangeLhs(m, c) = [m EXCEPT !.required = @ \/ moved # << >>]
    BY <1>1 DEF ChangeLhs
  <2>2. ValuesApart(m.rows, m.out, DOMAIN m.rows)
    BY <1>1 DEF ValuesApart, SameValue
  <2> QED
    BY <2>1, <2>2 DEF IsMapState, IsPartition, SameLive
<1>2. CASE SameValue(m, c) # {}
  <2> DEFINE l == CHOOSE d \in SameValue(m, c) : TRUE
             again == IF m.out[l].new_lvdf THEN {} ELSE DOMAIN moved
             less == Without(m.rows, c)
             rows == [less EXCEPT ![l].rhs = Over(moved, @)]
             out == [d \in DOMAIN m.out |->
                        IF d \in again THEN [m.out[d] EXCEPT !.new_lvdf = TRUE] ELSE m.out[d]]
             merged == [m EXCEPT !.rows = rows, !.out = out]
  <2>1. l \in DOMAIN m.rows /\ l # c /\ m.out[l].linfo = m.out[c].linfo
    BY <1>2 DEF SameValue
  <2>2. ChangeLhs(m, c) = PutIntoMap(merged, c, m.rows[c].present)
    BY <1>2 DEF ChangeLhs
  <2> HIDE DEF l
  <2>3. /\ DOMAIN rows = DOMAIN m.rows \ {c}
        /\ DOMAIN rows[l].rhs = DOMAIN m.rows[l].rhs \cup DOMAIN moved
        /\ \A k \in DOMAIN m.rows \ {c, l} : rows[k] = m.rows[k]
    <3>1. DOMAIN less = DOMAIN m.rows \ {c} /\ \A k \in DOMAIN less : less[k] = m.rows[k]
      BY DEF Without
    <3> HIDE DEF less
    <3>2. rows[l].rhs = Over(moved, less[l].rhs) /\ less[l] = m.rows[l]
      BY <1>0, <2>1, <3>1
    <3>3. DOMAIN Over(moved, less[l].rhs) = DOMAIN moved \cup DOMAIN less[l].rhs
      BY DEF Over
    <3> QED
      BY <3>1, <3>2, <3>3
  <2>4. IsMap(rows, S)
    <3>1. \A k \in DOMAIN rows : IsRow(rows[k], S)
      <4> TAKE k \in DOMAIN rows
      <4>1. DOMAIN rows[k] = {"present", "rhs", "nr"}
        <5>1. rows[k] = m.rows[k] \/ rows[k] = [m.rows[l] EXCEPT !.rhs = Over(moved, @)]
          BY <2>1 DEF Without
        <5> QED
          BY <1>0, <2>1, <2>3, <5>1
      <4> HIDE DEF rows
      <4>2. DOMAIN rows[k].rhs \subseteq S
        BY <2>1, <2>3 DEF IsMapState, IsMap, IsRow
      <4> QED
        BY <4>1, <4>2 DEF IsRow
    <3> HIDE DEF rows
    <3> QED
      BY <1>0, <2>3, <3>1 DEF IsMap
  <2> HIDE DEF rows
  <2>5. SameLive(m.out, out) /\ IsContextList(out, T)
    <3>1. DOMAIN m.out \subseteq T /\ \A d \in DOMAIN m.out : m.out[d] \in Entry
      BY ContextListParts DEF IsMapState
    <3>2. \A d \in DOMAIN m.out : out[d] \in Entry /\ out[d].linfo = m.out[d].linfo
      BY <3>1 DEF Entry
    <3> HIDE DEF again
    <3>3. out = [d \in DOMAIN out |-> out[d]] /\ DOMAIN out = DOMAIN m.out
      OBVIOUS
    <3> HIDE DEF out
    <3> QED
      BY <3>1, <3>2, <3>3, ContextListParts DEF SameLive
  <2> HIDE DEF out
  <2>6. IsMapState(merged, S, T) /\ merged.rows = rows /\ merged.out = out
    BY <2>4, <2>5 DEF IsMapState
  <2> HIDE DEF merged
  <2>7. RowsApart(rows)
    BY <2>1, <2>3 DEF RowsApart
  <2>8. \A k \in Mapped(m.rows) : out[k].linfo = m.out[k].linfo
    BY <2>5 DEF SameLive
  <2>9. /\ \A k \in DOMAIN m.rows : out[k].linfo = m.out[k].linfo
        /\ \A k \in DOMAIN m.rows : \A d \in DOMAIN m.rows[k].rhs : out[d].linfo = m.out[d].linfo
    BY <2>8 DEF Mapped
  <2>10. ValuesApart(rows, out, DOMAIN rows)
    BY <2>3, <2>9 DEF ValuesApart
  <2>11. LhsCovers(rows, out, {})
    <3>1. ASSUME NEW k \in DOMAIN rows, NEW d \in DOMAIN rows[k].rhs
          PROVE  out[d].linfo \subseteq out[k].linfo
      <4>1. CASE k = l /\ d \in DOMAIN moved
        <5>1. m.out[d].linfo \subseteq m.out[c].linfo
          BY <4>1 DEF LhsCovers
        <5> QED
          BY <2>1, <2>9, <4>1, <5>1
      <4>2. CASE k # l \/ d \notin DOMAIN moved
        <5>1. k \in DOMAIN m.rows /\ d \in DOMAIN m.rows[k].rhs
          BY <2>1, <2>3, <4>2
        <5>2. m.out[d].linfo \subseteq m.out[k].linfo
          BY <5>1 DEF LhsCovers
        <5> QED
          BY <2>9, <5>1, <5>2
      <4> QED
        BY <4>1, <4>2
    <3> QED
      BY <3>1 DEF LhsCovers
  <2>12. c \notin Mapped(rows) /\ Mapped(rows) \cup {c} = Mapped(m.rows)
    <3>1. ASSUME NEW x
          PROVE  x \in Mapped(m.rows) <=> x \in Mapped(rows) \/ x = c
      <4>1. x \in Mapped(rows) <=> \/ x \in DOMAIN rows
                                   \/ \E k \in DOMAIN rows : x \in DOMAIN rows[k].rhs
        BY DEF Mapped
      <4>2. x \in Mapped(m.rows) <=> \/ x \in DOMAIN m.rows
                                     \/ \E k \in DOMAIN m.rows : x \in DOMAIN m.rows[k].rhs
        BY DEF Mapped
      <4> QED
        BY <2>1, <2>3, <4>1, <4>2
    <3>2. c \notin Mapped(rows)
      <4>1. \A k \in DOMAIN m.rows : c \notin DOMAIN m.rows[k].rhs
        BY DEF RowsApart
      <4> QED
        BY <2>1, <2>3, <4>1 DEF Mapped
    <3> QED
      BY <3>1, <3>2
  <2>13. IsPartition(merged)
    BY <2>6, <2>7, <2>10, <2>11 DEF IsPartition
  <2> DEFINE n == PutIntoMap(merged, c, m.rows[c].present)
  <2>14. /\ IsPartition(n)
         /\ Mapped(n.rows) = Mapped(merged.rows) \cup {c}
         /\ n.out = merged.out
    BY <2>6, <2>12, <2>13, PutIntoMapPartition
  <2> HIDE DEF n
  <2>15. ChangeLhs(m, c) = n
    BY <2>2 DEF n
  <2> QED
    BY <2>5, <2>6, <2>12, <2>14, <2>15
<1> QED
  BY <1>1, <1>2

(* The context c of some rhs has got a larger value, which its lhs need not *)
(* cover.                                                                   *)
LEMMA ChangeRhsPartition ==
    ASSUME NEW S, NEW T, NEW m, IsMapState(m, S, T),
           RowsApart(m.rows), NEW c \in Mapped(m.rows) \ DOMAIN m.rows,
           ValuesApart(m.rows, m.out, DOMAIN m.rows), LhsCovers(m.rows, m.out, {c})
    PROVE  /\ IsPartition(ChangeRhs(m, c))
           /\ Mapped(ChangeRhs(m, c).rows) = Mapped(m.rows)
           /\ ChangeRhs(m, c).out = m.out
<1> DEFINE l    == LhsOf(m.rows, c)
           rows == [m.rows EXCEPT ![l].rhs = Without(@, c)]
           less == [m EXCEPT !.rows = rows]
<1>0. \A k \in DOMAIN m.rows : DOMAIN m.rows[k] = {"present", "rhs", "nr"} /\ k \in S
  BY DEF IsMapState, IsMap, IsRow
<1>1. l \in DOMAIN m.rows /\ c \in DOMAIN m.rows[l].rhs
  BY DEF Mapped, LhsOf
<1>2. \A k \in DOMAIN m.rows \ {l} : c \notin DOMAIN m.rows[k].rhs
  BY <1>1 DEF RowsApart
<1>3. ChangeRhs(m, c) = PutIntoMap(less, c, m.rows[l].rhs[c])
  BY DEF ChangeRhs, IsMapState
<1> HIDE DEF l
<1>4. /\ DOMAIN rows = DOMAIN m.rows
      /\ DOMAIN rows[l].rhs = DOMAIN m.rows[l].rhs \ {c}
      /\ \A k \in DOMAIN m.rows \ {l} : rows[k] = m.rows[k]
  <2>1. rows[l].rhs = Without(m.rows[l].rhs, c)
    BY <1>0, <1>1
  <2>2. DOMAIN Without(m.rows[l].rhs, c) = DOMAIN m.rows[l].rhs \ {c}
    BY DEF Without
  <2> QED
    BY <1>1, <2>1, <2>2
<1>5. IsMap(rows, S)
  <2>1. \A k \in DOMAIN m.rows : IsRow(rows[k], S)
    BY DEF IsMapState, IsMap, IsRow, Without
  <2> QED
    BY <2>1 DEF IsMapState, IsMap
<1> HIDE DEF rows
<1>6. IsMapState(less, S, T) /\ less.rows = rows /\ less.out = m.out
  BY <1>5 DEF IsMapState
<1> HIDE DEF less
<1>7. RowsApart(rows) /\ ValuesApart(rows, m.out, DOMAIN rows)
  <2>1. \A k \in DOMAIN m.rows : DOMAIN rows[k].rhs \subseteq DOMAIN m.rows[k].rhs
    BY <1>1, <1>4
  <2> QED
    BY <1>4, <2>1 DEF RowsApart, ValuesApart
<1>8. LhsCovers(rows, m.out, {})
  <2>1. \A k \in DOMAIN m.rows : DOMAIN rows[k].rhs \subseteq DOMAIN m.rows[k].rhs \ {c}
    BY <1>1, <1>2, <1>4
  <2> QED
    BY <1>4, <2>1 DEF LhsCovers
<1>9. c \notin Mapped(rows) /\ Mapped(rows) \cup {c} = Mapped(m.rows)
  <2>1. ASSUME NEW x
        PROVE  x \in Mapped(m.rows) <=> x \in Mapped(rows) \/ x = c
    <3>1. x \in Mapped(rows) <=> \/ x \in DOMAIN rows
                                 \/ \E k \in DOMAIN rows : x \in DOMAIN rows[k].rhs
      BY DEF Mapped
    <3>2. x \in Mapped(m.rows) <=> \/ x \in DOMAIN m.rows
                                   \/ \E k \in DOMAIN m.rows : x \in DOMAIN m.rows[k].rhs
      BY DEF Mapped
    <3> QED
      BY <1>1, <1>4, <3>1, <3>2
  <2>2. c \notin Mapped(rows)
    BY <1>1, <1>2, <1>4 DEF Mapped
  <2> QED
    BY <2>1, <2>2
<1>10. IsPartition(less)
  BY <1>6, <1>7, <1>8 DEF IsPartition
<1> DEFINE n == PutIntoMap(less, c, m.rows[l].rhs[c])
<1>11. /\ IsPartition(n)
       /\ Mapped(n.rows) = Mapped(less.rows) \cup {c}
       /\ n.out = less.out
  BY <1>6, <1>9, <1>10, PutIntoMapPartition
<1> HIDE DEF n
<1>12. ChangeRhs(m, c) = n
  BY <1>3 DEF n
<1> QED
  BY <1>6, <1>9, <1>11, <1>12

-----------------------------------------------------------------------------
(* The map and the list of a function fit each other.                       *)

Fits(rows, out) ==
    /\ RowsApart(rows)
    /\ ValuesApart(rows, out, DOMAIN rows)
    /\ LhsCovers(rows, out, {})
    /\ Mapped(rows) = DOMAIN out

LEMMA FitsPartition ==
    ASSUME NEW m
    PROVE  Fits(m.rows, m.out) <=> IsPartition(m) /\ Mapped(m.rows) = DOMAIN m.out
BY DEF Fits, IsPartition

(* Flags do not matter, neither those of the list nor those of the rows.    *)
SameRows(rows, new) ==
    /\ DOMAIN new = DOMAIN rows
    /\ \A l \in DOMAIN rows : DOMAIN new[l].rhs = DOMAIN rows[l].rhs

LEMMA FitsAgain ==
    ASSUME NEW rows, NEW out, Fits(rows, out),
           NEW rows2, SameRows(rows, rows2), NEW out2, SameLive(out, out2)
    PROVE  Fits(rows2, out2)
<1>1. Mapped(rows2) = Mapped(rows)
  <2>1. ASSUME NEW x
        PROVE  x \in Mapped(rows2) <=> x \in Mapped(rows)
    <3>1. x \in Mapped(rows) <=> x \in DOMAIN rows \/ \E k \in DOMAIN rows : x \in DOMAIN rows[k].rhs
      BY DEF Mapped
    <3>2. x \in Mapped(rows2) <=> x \in DOMAIN rows2 \/ \E k \in DOMAIN rows2 : x \in DOMAIN rows2[k].rhs
      BY DEF Mapped
    <3> QED
      BY <3>1, <3>2 DEF SameRows
  <2> QED
    BY <2>1
<1>2. \A x \in Mapped(rows) : out2[x].linfo = out[x].linfo
  BY DEF Fits, SameLive
<1>3. /\ \A k \in DOMAIN rows : out2[k].linfo = out[k].linfo
      /\ \A k \in DOMAIN rows : \A d \in DOMAIN rows[k].rhs : out2[d].linfo = out[d].linfo
  BY <1>2 DEF Mapped
<1>4. RowsApart(rows2)
  BY DEF Fits, RowsApart, SameRows
<1>5. ValuesApart(rows2, out2, DOMAIN rows2)
  BY <1>3 DEF Fits, ValuesApart, SameRows
<1>6. LhsCovers(rows2, out2, {})
  BY <1>3 DEF Fits, LhsCovers, SameRows
<1>7. Mapped(rows2) = DOMAIN out2
  BY <1>1 DEF Fits, SameLive
<1> QED
  BY <1>4, <1>5, <1>6, <1>7 DEF Fits

(* modify_lcsmap_at_endblock for the context c, whose value alone has       *)
(* changed, and has grown, in the list.                                     *)
LEMMA ModifyFits ==
    ASSUME NEW S, NEW T, NEW m, IsMapState(m, S, T), NEW c, NEW out,
           Fits(m.rows, out), DOMAIN m.out = DOMAIN out \cup {c},
           \A d \in DOMAIN out \ {c} : m.out[d].linfo = out[d].linfo,
           c \in DOMAIN out => out[c].linfo \subseteq m.out[c].linfo,
           NEW is_new, is_new <=> c \notin DOMAIN out
    PROVE  Fits(ModifyLcsmapAtEndblock(m, c, is_new).rows,
                ModifyLcsmapAtEndblock(m, c, is_new).out)
<1> DEFINE n == ModifyLcsmapAtEndblock(m, c, is_new)
<1>1. /\ RowsApart(m.rows)
      /\ Mapped(m.rows) = DOMAIN out
      /\ \A k \in DOMAIN m.rows : k \in DOMAIN out
      /\ \A k \in DOMAIN m.rows : \A d \in DOMAIN m.rows[k].rhs : d \in DOMAIN out
  BY DEF Fits, Mapped
<1>2. ValuesApart(m.rows, m.out, DOMAIN m.rows \ {c})
  BY <1>1 DEF Fits, ValuesApart
<1>3. CASE is_new
  <2>1. n = PutIntoMap(m, c, FALSE)
    BY <1>3 DEF ModifyLcsmapAtEndblock
  <2>2. c \notin Mapped(m.rows)
    BY <1>1, <1>3
  <2>3. ValuesApart(m.rows, m.out, DOMAIN m.rows)
    BY <1>1, <1>2, <1>3 DEF ValuesApart
  <2>4. LhsCovers(m.rows, m.out, {})
    BY <1>1, <1>3 DEF Fits, LhsCovers
  <2>5. IsPartition(m)
    BY <1>1, <2>3, <2>4 DEF IsPartition
  <2> DEFINE present == FALSE
             p == PutIntoMap(m, c, present)
  <2> HIDE DEF present
  <2>6. IsPartition(p) /\ Mapped(p.rows) = Mapped(m.rows) \cup {c} /\ p.out = m.out
    BY <2>2, <2>5, PutIntoMapPartition
  <2> HIDE DEF p, n
  <2>7. n = p
    BY <2>1 DEF p, present
  <2>8. Fits(n.rows, n.out)
    BY <1>1, <2>6, <2>7, FitsPartition
  <2> QED
    BY <2>8 DEF n
<1>4. CASE ~is_new /\ c \in DOMAIN m.rows
  <2>1. n = ChangeLhs(m, c)
    BY <1>4 DEF ModifyLcsmapAtEndblock
  <2>2. LhsCovers(m.rows, m.out, {})
    <3>1. ASSUME NEW k \in DOMAIN m.rows, NEW d \in DOMAIN m.rows[k].rhs
          PROVE  m.out[d].linfo \subseteq m.out[k].linfo
      <4>1. out[d].linfo \subseteq out[k].linfo
        BY DEF Fits, LhsCovers
      <4>2. d # c
        BY <1>1, <1>4 DEF RowsApart
      <4>3. m.out[d].linfo = out[d].linfo
        BY <1>1, <4>2
      <4>4. out[k].linfo \subseteq m.out[k].linfo
        BY <1>1
      <4> QED
        BY <4>1, <4>3, <4>4
    <3> QED
      BY <3>1 DEF LhsCovers
  <2> DEFINE p == ChangeLhs(m, c)
  <2>3. Mapped(m.rows) \subseteq DOMAIN m.out
    BY <1>1
  <2>4. IsPartition(p) /\ Mapped(p.rows) = Mapped(m.rows) /\ SameLive(m.out, p.out)
    BY <1>1, <1>2, <1>4, <2>2, <2>3, ChangeLhsPartition
  <2> HIDE DEF p, n
  <2>5. n = p
    BY <2>1 DEF p
  <2>6. Mapped(p.rows) = DOMAIN p.out
    BY <1>1, <1>4, <2>4 DEF SameLive
  <2>7. Fits(n.rows, n.out)
    BY <2>4, <2>5, <2>6, FitsPartition
  <2> QED
    BY <2>7 DEF n
<1>5. CASE ~is_new /\ c \notin DOMAIN m.rows
  <2>1. n = ChangeRhs(m, c)
    BY <1>5 DEF ModifyLcsmapAtEndblock
  <2>2. LhsCovers(m.rows, m.out, {c})
    BY <1>1, <1>5 DEF Fits, LhsCovers
  <2>3. ValuesApart(m.rows, m.out, DOMAIN m.rows)
    BY <1>2, <1>5 DEF ValuesApart
  <2>4. c \in Mapped(m.rows) \ DOMAIN m.rows
    BY <1>1, <1>5
  <2> DEFINE p == ChangeRhs(m, c)
  <2>5. IsPartition(p) /\ Mapped(p.rows) = Mapped(m.rows) /\ p.out = m.out
    BY <1>1, <2>2, <2>3, <2>4, ChangeRhsPartition
  <2> HIDE DEF p, n
  <2>6. n = p
    BY <2>1 DEF p
  <2>7. Mapped(p.rows) = DOMAIN p.out
    BY <1>1, <1>5, <2>5
  <2>8. Fits(n.rows, n.out)
    BY <2>5, <2>6, <2>7, FitsPartition
  <2> QED
    BY <2>8 DEF n
<1> QED
  BY <1>3, <1>4, <1>5

(* propagate_liveness_to_endblock, in a function that cannot have the       *)
(* context of main.                                                         *)
LEMMA EnterCalleeFits ==
    ASSUME NEW wl, NEW pool, NEW f, f # main, NEW w, IsEntering(w, pool, f, wl),
           NEW string \in Seq(Nodes), NEW live \in SUBSET Var,
           IsEntering(EnterCallee(w, string, live), pool, f, wl),
           string # <<>>, CallBlock(Head(string)),
           Callee(Head(string)) = f, HasNodeFrom(wl, 1, Head(string)[1]),
           Fits(w.rows, w.out)
    PROVE  Fits(EnterCallee(w, string, live).rows, EnterCallee(w, string, live).out)
<1> DEFINE known  == ExistingContext(w.pool, w.out, string)
           is_new == known = {}
           c      == IF is_new THEN Len(w.pool) + 1 ELSE CHOOSE k \in known : TRUE
           sent   == RemoveLocalVars(live)
           grown  == is_new \/ ~(sent \subseteq w.out[c].linfo)
           more   == IF is_new THEN Append(w.pool, string) ELSE w.pool
           out    == Unite(w.out, OneContext(c, sent))
           put    == [w EXCEPT !.pool = more, !.out = out, !.add = @ \/ grown]
           S      == CallsTo(more, f)
           T      == Contexts(more, f)
<1>1. w.pool \in Seq(Seq(Nodes)) /\ DOMAIN w.out \subseteq CallsTo(w.pool, f)
  BY DEF IsEntering, IsPool, IsMapState, IsContextList, Contexts
<1>2. /\ is_new <=> c \notin DOMAIN w.out
      /\ c \in S
  <2>1. CASE is_new
    <3>1. Len(w.pool) + 1 \notin DOMAIN w.pool
      BY <1>1
    <3>2. Len(w.pool) + 1 \in S
      BY <2>1, LongerByOne DEF IsEntering
    <3> QED
      BY <1>1, <2>1, <3>1, <3>2 DEF CallsTo
  <2>2. CASE ~is_new
    <3>1. c \in known
      BY <2>2
    <3>2. c \in DOMAIN w.out
      BY <3>1 DEF ExistingContext
    <3> QED
      BY <1>1, <2>2, <3>2
  <2> QED
    BY <2>1, <2>2
<1>3. Longer(w.pool, more)
  <2>1. CASE is_new
    BY <2>1, LongerByOne DEF IsEntering
  <2>2. CASE ~is_new
    BY <2>2 DEF Longer
  <2> QED
    BY <2>1, <2>2
<1>4. is_new \in BOOLEAN /\ grown \in BOOLEAN /\ sent \in SUBSET Var
  BY DEF RemoveLocalVars
<1>5. EnterCallee(w, string, live) =
         IF grown THEN ModifyLcsmapAtEndblock(put, c, is_new) ELSE put
  BY DEF EnterCallee
<1>6. grown <=> (is_new \/ ~(sent \subseteq w.out[c].linfo))
  OBVIOUS
<1> HIDE DEF is_new, c, sent, grown, more
<1>7. /\ DOMAIN out = DOMAIN w.out \cup {c}
      /\ \A d \in DOMAIN w.out \ {c} : out[d] = w.out[d]
      /\ c \in DOMAIN w.out => out[c].linfo = w.out[c].linfo \cup sent
  <2>1. DOMAIN OneContext(c, sent) = {c} /\ OneContext(c, sent)[c].linfo = sent
    BY DEF OneContext
  <2> DEFINE from == OneContext(c, sent)
  <2> HIDE DEF from
  <2>2. DOMAIN from = {c} /\ from[c].linfo = sent
    BY <2>1 DEF from
  <2> QED
    BY <2>2 DEF Unite, from
<1>8. IsContextList(out, T)
  <2>1. IsContextList(w.out, T)
    BY <1>3, LongerContexts, MoreContexts DEF IsEntering, IsMapState
  <2>2. IsContextList(OneContext(c, sent), T)
    BY <1>2, <1>4, OneContextList DEF Contexts
  <2> QED
    BY <2>1, <2>2, ListOperations
<1>9. IsMap(w.rows, S)
  BY <1>3, LongerContexts DEF IsEntering, IsMapState
<1> HIDE DEF out, S, T
<1>10. /\ IsMapState(put, S, T)
       /\ put.rows = w.rows /\ put.out = out
  BY <1>8, <1>9 DEF IsEntering, IsMapState
<1> HIDE DEF put
<1>11. CASE grown
  <2>1. /\ DOMAIN put.out = DOMAIN w.out \cup {c}
        /\ \A d \in DOMAIN w.out \ {c} : put.out[d].linfo = w.out[d].linfo
        /\ c \in DOMAIN w.out => w.out[c].linfo \subseteq put.out[c].linfo
    BY <1>7, <1>10
  <2>2. Fits(put.rows, w.out)
    BY <1>10
  <2>3. Fits(ModifyLcsmapAtEndblock(put, c, is_new).rows,
             ModifyLcsmapAtEndblock(put, c, is_new).out)
    BY <1>2, <1>10, <2>1, <2>2, ModifyFits
  <2> QED
    BY <1>5, <1>11, <2>3
<1>12. CASE ~grown
  <2>1. c \in DOMAIN w.out /\ sent \subseteq w.out[c].linfo
    BY <1>2, <1>6, <1>12
  <2>2. SameLive(w.out, out)
    BY <1>7, <2>1 DEF SameLive
  <2>3. SameRows(w.rows, w.rows)
    BY DEF SameRows
  <2>4. Fits(w.rows, out)
    BY <2>2, <2>3, FitsAgain
  <2> QED
    BY <1>5, <1>10, <1>12, <2>4
<1> QED
  BY <1>4, <1>11, <1>12

(* The loop over the contexts at the return block b.                        *)
LEMMA EnterCalleesFits ==
    ASSUME prog \in Programs, NEW wl, IsPool(callstrings, wl),
           NEW d, ListsOf(d, callstrings), NEW b \in Nodes, ReturnBlock(b),
           NEW f, f = Callee(CallOf(b)), f # main, IsMap(lcsmap[f], CallsTo(callstrings, f)),
           lcsmap_required[f] \in BOOLEAN, HasNodeFrom(wl, 1, b[1]),
           Fits(lcsmap[f], d[OutOf(End(f))])
    PROVE  Fits(EnterCallees(d, b).rows, EnterCallees(d, b).out)
<1> DEFINE n == Len(callstrings) + 1
           in == d[InOf(b)]
           Ok(w) == IsEntering(w, callstrings, f, wl) /\ Fits(w.rows, w.out)
<1>1. n \in Nat /\ Len(callstrings) \in Nat
  BY DEF IsPool
<1>2. PICK g : EnterRun(g, d, b, n) /\ EnterCallees(d, b) = g[n]
  BY <1>1, EnterCalleesRun
<1>3. CallOf(b) \in Nodes /\ CallOf(b)[1] = b[1] /\ CallBlock(CallOf(b)) /\ f \in DOMAIN prog
  <2>1. CallOf(b) \in BlocksOf(b[1]) /\ b[1] \in DOMAIN prog
    BY NodeFacts
  <2> QED
    BY <2>1, NodeFacts DEF BlocksOf
<1>4. Ok(Entering(d, b))
  <2>1. OutOf(End(f)) \in Lists /\ OutOf(End(f))[1][1] = f
    BY <1>3, EndsOf
  <2>2. IsContextList(d[OutOf(End(f))], Contexts(callstrings, f))
    BY <2>1 DEF ListsOf
  <2> DEFINE w == Entering(d, b)
  <2>3. /\ DOMAIN w = {"rows", "required", "out", "pool", "add"}
        /\ w.rows = lcsmap[f] /\ w.required = lcsmap_required[f]
        /\ w.out = d[OutOf(End(f))] /\ w.pool = callstrings /\ w.add = FALSE
    BY DEF Entering
  <2> HIDE DEF w
  <2>4. Longer(callstrings, callstrings)
    BY DEF Longer
  <2>5. IsEntering(w, callstrings, f, wl)
    BY <2>2, <2>3, <2>4 DEF IsEntering, IsMapState
  <2>6. Fits(w.rows, w.out)
    BY <2>3
  <2> QED
    BY <2>5, <2>6 DEF w
<1>5. ASSUME NEW i \in 1..n, Ok(g[i - 1])
      PROVE  Ok(g[i])
  <2> DEFINE c == Len(callstrings) + 1 - i
             string == <<CallOf(b)>> \o String(callstrings, c)
  <2>1. g[i] = EnterStep(d, b, i, g[i - 1])
    BY <1>2 DEF EnterRun
  <2>2. CASE c \in New(in)
    <3>1. g[i] = EnterCallee(g[i - 1], string, in[c].linfo)
      BY <2>1, <2>2 DEF EnterStep
    <3>2. InOf(b) \in Lists /\ InOf(b)[1][1] = b[1]
      BY PlacesOf
    <3>3. c \in Contexts(callstrings, b[1]) /\ in[c] \in Entry
      BY <2>2, <3>2, ContextListParts DEF ListsOf, New
    <3>4. in[c].linfo \in SUBSET Var
      BY <3>3 DEF Entry
    <3>5. string \in Seq(Nodes) /\ string # <<>> /\ Head(string) = CallOf(b)
      BY <1>3, <3>3, CalledString
    <3> HIDE DEF string, c, in
    <3>6. IsEntering(EnterCallee(g[i - 1], string, in[c].linfo), callstrings, f, wl)
      BY <1>3, <1>5, <3>4, <3>5, EnterCalleeType
    <3>7. Fits(EnterCallee(g[i - 1], string, in[c].linfo).rows,
               EnterCallee(g[i - 1], string, in[c].linfo).out)
      BY <1>3, <1>5, <3>4, <3>5, <3>6, EnterCalleeFits
    <3> QED
      BY <3>1, <3>6, <3>7
  <2>3. CASE c \notin New(in)
    BY <1>5, <2>1, <2>3 DEF EnterStep
  <2> QED
    BY <2>2, <2>3
<1> DEFINE T == {i \in 0..n : Ok(g[i])}
<1>6. 0 \in T
  BY <1>1, <1>2, <1>4 DEF EnterRun
<1>7. \A i \in 1..n : i - 1 \in T => i \in T
  BY <1>5
<1>8. 0..n \subseteq T
  <2> HIDE DEF T, n
  <2> QED
    BY <1>1, <1>6, <1>7, UpTo
<1>9. n \in 0..n
  BY <1>1
<1> QED
  BY <1>2, <1>8, <1>9

-----------------------------------------------------------------------------
(* Nobody but a return block changes what is live at the end of a function. *)

LEMMA NothingBehindTheEnd ==
    ASSUME prog \in Programs
    PROVE  /\ \A f \in DOMAIN prog : Succs(End(f)) = {}
           /\ \A b \in Nodes : CallBlock(b) => b # End(b[1])
           /\ \A b \in Nodes, f \in DOMAIN prog : End(f) \notin LvPreds(b)
<1>1. ASSUME NEW f \in DOMAIN prog
      PROVE  /\ prog[f].succ[Len(prog[f].code)] = {}
             /\ \A i \in DOMAIN prog[f].callee : prog[f].succ[i] # {}
  <2>1. IsProgram(prog)
    BY ProgramsAssumption
  <2> DEFINE body == prog[f]
  <2>2. IsBody(body, DOMAIN prog)
    BY <2>1 DEF IsProgram
  <2> QED
    BY <2>2 DEF IsBody
<1>2. ASSUME NEW f \in DOMAIN prog
      PROVE  Succs(End(f)) = {}
  BY <1>1 DEF Succs, End
<1>3. ASSUME NEW b \in Nodes, CallBlock(b)
      PROVE  b # End(b[1])
  <2>1. b[1] \in DOMAIN prog
    BY NodeFacts
  <2>2. b[2] \in DOMAIN prog[b[1]].callee
    BY <1>3 DEF CallBlock
  <2>3. prog[b[1]].succ[b[2]] # {}
    BY <1>1, <2>1, <2>2
  <2>4. b = End(b[1]) => b[2] = Len(prog[b[1]].code)
    BY DEF End
  <2> QED
    BY <1>1, <2>1, <2>3, <2>4
<1>4. ASSUME NEW b \in Nodes, NEW f \in DOMAIN prog
      PROVE  End(f) \notin LvPreds(b)
  <2> DEFINE B == BlocksOf(b[1])
             next == [a \in B |-> Preds(a)]
             bypass == {a \in B : LvBypass(a)}
  <2>1. b[1] \in DOMAIN prog
    BY NodeFacts
  <2>2. IsFiniteSet(B) /\ Cardinality(B) \in Nat
    <3>1. Blocks(b[1]) = 1..Len(prog[b[1]].code) /\ Len(prog[b[1]].code) \in Int
      BY <2>1, ProgramFacts
    <3>2. PICK n \in Int : Blocks(b[1]) = 1..n
      BY <3>1
    <3>3. IsFiniteSet(1..n)
      BY FS_Interval
    <3>4. IsFiniteSet({b[1]})
      BY FS_Singleton
    <3> QED
      BY <3>2, <3>3, <3>4, FS_Product, FS_CardinalityType DEF BlocksOf
  <2>3. \A a : End(f) \notin Preds(a)
    BY <1>2 DEF Preds
  <2>4. Preds(b) \in SUBSET B
    BY DEF Preds
  <2>5. next \in [B -> SUBSET B]
    <3>1. \A a \in B : Preds(a) \in SUBSET B
      BY DEF BlocksOf, Preds
    <3> QED
      BY <3>1
  <2>6. \A a \in B : End(f) \notin next[a]
    BY <2>3
  <2>7. LvPreds(b) = Through(Preds(b), next, bypass)
    BY DEF LvPreds
  <2> HIDE DEF B, next, bypass
  <2>8. HasReach(B, Preds(b), next, bypass)
    BY <2>2, <2>4, <2>5, ThroughRun
  <2>9. PICK g : Reaches(g, B, Preds(b), next, bypass)
    BY <2>8 DEF HasReach
  <2> DEFINE n == Cardinality(B)
             T == {i \in 0..n : End(f) \notin g[i]}
  <2>10. 0 \in T
    BY <2>2, <2>3, <2>9 DEF Reaches
  <2>11. \A i \in 1..n : i - 1 \in T => i \in T
    <3>1. ASSUME NEW i \in 1..n, i - 1 \in T
          PROVE  i \in T
      <4>1. g[i] = Expand(g[i - 1], next, bypass) /\ g[i - 1] \subseteq B
        BY <2>2, <2>9 DEF Reaches
      <4>2. End(f) \notin g[i]
        BY <2>6, <3>1, <4>1 DEF Expand
      <4> QED
        BY <4>2
    <3> QED
      BY <3>1
  <2>12. 0..n \subseteq T
    <3>1. n \in Nat
      BY <2>2
    <3> HIDE DEF T, n
    <3> QED
      BY <2>10, <2>11, <3>1, UpTo
  <2>13. n \in 0..n
    BY <2>2
  <2> QED
    BY <2>7, <2>9, <2>12, <2>13 DEF Reaches
<1> QED
  BY <1>2, <1>3, <1>4

(* Lists that have the same contexts and live sets at the end of every      *)
(* function.                                                                *)
EndsKept(d, e) == \A f \in DOMAIN prog : SameLive(d[OutOf(End(f))], e[OutOf(End(f))])

LEMMA ClearedLive ==
    ASSUME NEW S, NEW list, IsContextList(list, S)
    PROVE  SameLive(list, ClearNew(list))
<1>1. \A c \in DOMAIN list : list[c] \in Entry
  BY ContextListParts
<1> QED
  BY <1>1 DEF SameLive, ClearNew, Entry

LEMMA EndLists ==
    ASSUME prog \in Programs, NEW d, NEW pool, ListsOf(d, pool), NEW f \in DOMAIN prog
    PROVE  /\ OutOf(End(f)) = <<End(f), "out">> /\ OutOf(End(f)) \in Lists
           /\ SameLive(d[OutOf(End(f))], d[OutOf(End(f))])
           /\ SameLive(d[OutOf(End(f))], ClearNew(d[OutOf(End(f))]))
           /\ \A b : InOf(b) # OutOf(End(f))
<1>1. OutOf(End(f)) = <<End(f), "out">> /\ OutOf(End(f)) \in Lists
  BY EndsOf DEF OutOf
<1>2. SameLive(d[OutOf(End(f))], d[OutOf(End(f))])
  BY DEF SameLive
<1>3. SameLive(d[OutOf(End(f))], ClearNew(d[OutOf(End(f))]))
  BY <1>1, ClearedLive DEF ListsOf
<1>4. \A b : InOf(b) # OutOf(End(f))
  BY <1>1 DEF InOf
<1> QED
  BY <1>1, <1>2, <1>3, <1>4

(* A list is replaced that is at no end, or by one with the same live sets. *)
LEMMA PutKeepsEnds ==
    ASSUME prog \in Programs, NEW d, NEW pool, ListsOf(d, pool), NEW l, NEW list,
           \A f \in DOMAIN prog : l # OutOf(End(f)) \/ SameLive(d[l], list)
    PROVE  EndsKept(d, [d EXCEPT ![l] = list])
<1>1. ASSUME NEW f \in DOMAIN prog
      PROVE  SameLive(d[OutOf(End(f))], [d EXCEPT ![l] = list][OutOf(End(f))])
  <2>1. OutOf(End(f)) \in Lists /\ SameLive(d[OutOf(End(f))], d[OutOf(End(f))])
    BY EndLists
  <2>2. OutOf(End(f)) \in DOMAIN d
    BY <2>1 DEF ListsOf
  <2> DEFINE e == OutOf(End(f))
  <2> HIDE DEF e
  <2>3. SameLive(d[e], [d EXCEPT ![l] = list][e])
    <3>1. CASE l = e
      BY <2>2, <3>1 DEF e
    <3>2. CASE l # e
      BY <2>1, <3>2 DEF e
    <3> QED
      BY <3>1, <3>2
  <2> QED
    BY <2>3 DEF e
<1> QED
  BY <1>1 DEF EndsKept

LEMMA EndsKeptAgain ==
    ASSUME NEW d, NEW e, NEW g, EndsKept(d, e), EndsKept(e, g)
    PROVE  EndsKept(d, g)
BY DEF EndsKept, SameLive

(* So do two: one at IN of a block, and one that is at no end or has the    *)
(* same live sets.                                                          *)
LEMMA PutTwoKeepsEnds ==
    ASSUME prog \in Programs, NEW d, NEW pool, ListsOf(d, pool), NEW b, NEW first,
           NEW l, NEW second,
           \A f \in DOMAIN prog : l # OutOf(End(f)) \/ SameLive(d[l], second)
    PROVE  EndsKept(d, [d EXCEPT ![InOf(b)] = first, ![l] = second])
<1> DEFINE k == InOf(b)
           new == [d EXCEPT ![k] = first, ![l] = second]
<1>1. ASSUME NEW f \in DOMAIN prog
      PROVE  SameLive(d[OutOf(End(f))], new[OutOf(End(f))])
  <2> DEFINE e == OutOf(End(f))
  <2>1. e \in Lists /\ SameLive(d[e], d[e]) /\ k # e
    BY EndLists
  <2>2. e \in DOMAIN d /\ (l # e \/ SameLive(d[l], second))
    BY <2>1 DEF ListsOf
  <2> HIDE DEF e, k
  <2>3. new[e] = d[e] \/ (l = e /\ new[e] = second)
    BY <2>1, <2>2
  <2> HIDE DEF new
  <2>4. SameLive(d[e], new[e])
    BY <2>1, <2>2, <2>3
  <2> QED
    BY <2>4 DEF e
<1> HIDE DEF new
<1>2. EndsKept(d, new)
  BY <1>1 DEF EndsKept
<1> QED
  BY <1>2 DEF new, k

LEMMA CopyOutToInEnds ==
    ASSUME prog \in Programs, NEW d, NEW pool, ListsOf(d, pool), NEW b \in Nodes, ~SharedList(b)
    PROVE  EndsKept(d, CopyOutToIn(d, b))
<1> DEFINE x == Over(NewPart(d[OutOf(b)]), d[InOf(b)])
           y == ClearNew(d[OutOf(b)])
<1>1. CopyOutToIn(d, b) = [d EXCEPT ![InOf(b)] = x, ![OutOf(b)] = y]
  <2>1. InOf(b) # OutOf(b)
    BY DEF InOf, OutOf
  <2> QED
    BY <2>1 DEF CopyOutToIn
<1>2. \A f \in DOMAIN prog : OutOf(b) # OutOf(End(f)) \/ SameLive(d[OutOf(b)], y)
  BY EndLists
<1> HIDE DEF x, y
<1>3. EndsKept(d, [d EXCEPT ![InOf(b)] = x, ![OutOf(b)] = y])
  BY <1>2, PutTwoKeepsEnds
<1> QED
  BY <1>1, <1>3

LEMMA FindLiveVarsEnds ==
    ASSUME prog \in Programs, NEW d, NEW pool, ListsOf(d, pool), NEW b \in Nodes
    PROVE  EndsKept(d, FindLiveVars(d, b))
<1> DEFINE new == FindLiveVars(d, b)[InOf(b)]
           in  == d[InOf(b)]
           x   == [c \in DOMAIN in |->
                     IF in[c].new_lvdf THEN [in[c] EXCEPT !.linfo = LiveIn(@, EmptyVal, Code(b))]
                     ELSE in[c]]
<1>1. FindLiveVars(d, b) = [d EXCEPT ![InOf(b)] = x]
  BY DEF FindLiveVars
<1> HIDE DEF x
<1>2. \A f \in DOMAIN prog : InOf(b) # OutOf(End(f))
  BY EndLists
<1>3. EndsKept(d, [d EXCEPT ![InOf(b)] = x])
  BY <1>2, PutKeepsEnds
<1> QED
  BY <1>1, <1>3

LEMMA CopyInAtReturnblockEnds ==
    ASSUME prog \in Programs, NEW d, NEW pool, ListsOf(d, pool), NEW b \in Nodes, ReturnBlock(b)
    PROVE  EndsKept(d, CopyInAtReturnblock(d, b))
<1> DEFINE sent == [c \in New(d[OutOf(b)]) |->
                       [d[OutOf(b)][c] EXCEPT !.linfo = @ \ Result(CallOf(b))]]
           x == Unite(d[InOf(b)], sent)
           y == ClearNew(d[OutOf(b)])
<1>1. CopyInAtReturnblock(d, b) = [d EXCEPT ![InOf(b)] = x, ![OutOf(b)] = y]
  BY DEF CopyInAtReturnblock
<1>2. \A f \in DOMAIN prog : OutOf(b) # OutOf(End(f)) \/ SameLive(d[OutOf(b)], y)
  BY EndLists
<1> HIDE DEF x, y
<1>3. EndsKept(d, [d EXCEPT ![InOf(b)] = x, ![OutOf(b)] = y])
  BY <1>2, PutTwoKeepsEnds
<1> QED
  BY <1>1, <1>3

LEMMA CallStmtLivenessEnds ==
    ASSUME prog \in Programs, NEW d, NEW pool, ListsOf(d, pool), NEW b \in Nodes, CallBlock(b)
    PROVE  EndsKept(d, CallStmtLiveness(d, b))
<1> DEFINE after(c) == d[OutOf(b)][c].linfo \cup LiveParms(b)
           sent == [c \in New(d[OutOf(b)]) |->
                      [linfo |-> RemoveNonLocalVars(after(c), b[1]), new_lvdf |-> TRUE]]
           x == Unite(d[InOf(b)], sent)
           y == [c \in DOMAIN d[OutOf(b)] |->
                   IF d[OutOf(b)][c].new_lvdf THEN [linfo |-> after(c), new_lvdf |-> FALSE]
                   ELSE d[OutOf(b)][c]]
<1>1. CallStmtLiveness(d, b) = [d EXCEPT ![InOf(b)] = x, ![OutOf(b)] = y]
  BY DEF CallStmtLiveness
<1>2. ASSUME NEW f \in DOMAIN prog PROVE OutOf(b) # OutOf(End(f))
  <2>1. b # End(f)
    <3>1. b # End(b[1])
      BY NothingBehindTheEnd
    <3>2. End(f)[1] = f
      BY DEF End
    <3> QED
      BY <3>1, <3>2
  <2>2. OutOf(End(f)) = <<End(f), "out">>
    BY EndLists
  <2> QED
    BY <2>1, <2>2 DEF OutOf, InOf
<1> HIDE DEF x, y
<1>3. EndsKept(d, [d EXCEPT ![InOf(b)] = x, ![OutOf(b)] = y])
  BY <1>2, PutTwoKeepsEnds
<1> QED
  BY <1>1, <1>3

LEMMA PropagateToPredsEnds ==
    ASSUME prog \in Programs, NEW d, NEW pool, ListsOf(d, pool), NEW b \in Nodes
    PROVE  EndsKept(d, PropagateToPreds(d, b))
<1> DEFINE to   == {OutOf(a) : a \in LvPreds(b)}
           sent == [l \in Lists |->
                      IF l \in to THEN Unite(d[l], NewPart(d[InOf(b)])) ELSE d[l]]
           x    == ClearNew(sent[InOf(b)])
<1>1. PropagateToPreds(d, b) = [sent EXCEPT ![InOf(b)] = x]
  BY DEF PropagateToPreds
<1> HIDE DEF x
<1>2. ASSUME NEW f \in DOMAIN prog
      PROVE  PropagateToPreds(d, b)[OutOf(End(f))] = d[OutOf(End(f))]
  <2> DEFINE e == OutOf(End(f))
  <2>1. e = <<End(f), "out">> /\ e \in Lists /\ InOf(b) # e
    BY EndLists
  <2>2. e \notin to
    <3>1. End(f) \notin LvPreds(b)
      BY NothingBehindTheEnd
    <3>2. \A a : OutOf(a) = e => a = End(f)
      BY <2>1 DEF OutOf, InOf
    <3> QED
      BY <3>1, <3>2
  <2> HIDE DEF e, to
  <2>3. sent[e] = d[e]
    BY <2>1, <2>2
  <2> HIDE DEF sent
  <2>4. [sent EXCEPT ![InOf(b)] = x][e] = sent[e]
    <3> DEFINE l == InOf(b)
    <3> HIDE DEF l
    <3>1. DOMAIN sent = Lists
      BY DEF sent
    <3> QED
      BY <2>1, <3>1 DEF l
  <2> QED
    BY <1>1, <2>3, <2>4 DEF e
<1> QED
  BY <1>2, EndLists DEF EndsKept

LEMMA PropagateToCallBlocksEnds ==
    ASSUME prog \in Programs, NEW wl, IsPool(callstrings, wl), NEW d, ListsOf(d, callstrings),
           NEW f \in DOMAIN prog \ {main}
    PROVE  EndsKept(d, PropagateToCallBlocks(d, f))
<1> DEFINE live    == d[InOf(Start(f))]
           callers == CallersOf(d, f)
           to(b)   == {e[2] : e \in {g \in callers : g[1] = b}}
           from(b, p) == CHOOSE e \in callers : e[1] = b /\ e[2] = p
           sent(b) == [p \in to(b) |-> live[from(b, p)[3]]]
           places  == {<<e[1], "out">> : e \in callers}
           back    == [l \in Lists |-> IF l \in places THEN Unite(d[l], sent(l[1])) ELSE d[l]]
           x       == ClearNew(back[InOf(Start(f))])
<1>1. PropagateToCallBlocks(d, f) = [back EXCEPT ![InOf(Start(f))] = x]
  BY DEF PropagateToCallBlocks
<1> HIDE DEF x, sent
<1>2. ASSUME NEW g \in DOMAIN prog
      PROVE  PropagateToCallBlocks(d, f)[OutOf(End(g))] = d[OutOf(End(g))]
  <2> DEFINE e == OutOf(End(g))
  <2>1. e = <<End(g), "out">> /\ e \in Lists /\ InOf(Start(f)) # e
    BY EndLists
  <2>2. e \notin places
    <3>1. ASSUME NEW c \in callers PROVE c[1] # End(g)
      <4>1. c[1] \in Nodes /\ c[1] = CallerBlock(c[3]) /\ c[3] \in CallsTo(callstrings, f)
        BY CallersFacts
      <4>2. CallBlock(c[1])
        BY <4>1, CallerFacts
      <4>3. c[1] # End(c[1][1])
        BY <4>1, <4>2, NothingBehindTheEnd
      <4>4. End(g)[1] = g
        BY DEF End
      <4> QED
        BY <4>3, <4>4
    <3> QED
      BY <2>1, <3>1
  <2> HIDE DEF e, places
  <2>3. back[e] = d[e]
    BY <2>1, <2>2
  <2>4. DOMAIN back = Lists
    OBVIOUS
  <2> HIDE DEF back
  <2>5. [back EXCEPT ![InOf(Start(f))] = x][e] = back[e]
    <3> DEFINE l == InOf(Start(f))
    <3> HIDE DEF l
    <3> QED
      BY <2>1, <2>4 DEF l
  <2> QED
    BY <1>1, <2>3, <2>5 DEF e
<1> QED
  BY <1>2, EndLists DEF EndsKept

LEMMA RegenerateEnds ==
    ASSUME prog \in Programs, NEW d, NEW pool, ListsOf(d, pool), NEW f \in DOMAIN prog
    PROVE  EndsKept(d, Regenerate(d, f))
<1> DEFINE rows == lcsmap[f]
           in   == d[InOf(Start(f))]
           out  == d[OutOf(End(f))]
           lhs(c) == LhsOf(rows, c)
           regenerated ==
               {c \in Mapped(rows) \ DOMAIN rows :
                   /\ lhs(c) \in DOMAIN in
                   /\ out[c].new_lvdf \/ in[lhs(c)].new_lvdf
                   /\ c \in DOMAIN in =>
                         ~in[c].new_lvdf /\ in[c].linfo # in[lhs(c)].linfo}
           x    == Over([c \in regenerated |-> [linfo |-> in[lhs(c)].linfo, new_lvdf |-> TRUE]], in)
           y    == ClearNew(out)
<1>1. Regenerate(d, f) = [d EXCEPT ![InOf(Start(f))] = x, ![OutOf(End(f))] = y]
  BY DEF Regenerate
<1>2. \A g \in DOMAIN prog : OutOf(End(f)) # OutOf(End(g)) \/ SameLive(d[OutOf(End(f))], y)
  BY EndLists
<1> HIDE DEF x, y
<1>3. EndsKept(d, [d EXCEPT ![InOf(Start(f))] = x, ![OutOf(End(f))] = y])
  BY <1>2, PutTwoKeepsEnds
<1> QED
  BY <1>1, <1>3

-----------------------------------------------------------------------------
(* The maps of all functions but main: nobody enters main with a call       *)
(* string and then maps its own context, 0.                                 *)
MapInv == \A f \in DOMAIN prog \ {main} : Fits(lcsmap[f], df[OutOf(End(f))])

LEMMA MapInvParts == MapInv => MapPartitionsContexts /\ LhsCoversRhs
<1> SUFFICES ASSUME MapInv PROVE MapPartitionsContexts /\ LhsCoversRhs
  OBVIOUS
<1>1. ASSUME NEW f \in DOMAIN prog \ {main}, NEW rows, rows = lcsmap[f],
             NEW out, out = df[OutOf(End(f))]
      PROVE  /\ Mapped(rows) = DOMAIN out
             /\ \A l \in DOMAIN rows : DOMAIN rows[l].rhs \cap DOMAIN rows = {}
             /\ \A k, l \in DOMAIN rows :
                   k # l => /\ DOMAIN rows[k].rhs \cap DOMAIN rows[l].rhs = {}
                            /\ out[k].linfo # out[l].linfo
             /\ \A l \in DOMAIN rows : \A c \in DOMAIN rows[l].rhs :
                   out[c].linfo \subseteq out[l].linfo
  <2>1. Fits(rows, out)
    BY <1>1 DEF MapInv
  <2> QED
    BY <2>1 DEF Fits, RowsApart, ValuesApart, LhsCovers
<1> QED
  BY <1>1 DEF MapPartitionsContexts, LhsCoversRhs

LEMMA MapInvInit == Init => MapInv
<1> SUFFICES ASSUME Init, NEW f \in DOMAIN prog \ {main}
             PROVE  Fits(lcsmap[f], df[OutOf(End(f))])
  BY DEF MapInv
<1>1. prog \in Programs /\ main \in DOMAIN prog
  BY ProgramFacts DEF Init
<1>2. OutOf(End(f)) = <<End(f), "out">> /\ OutOf(End(f)) \in Lists
  BY <1>1, EndsOf DEF OutOf
<1>3. OutOf(End(f)) # <<End(main), "out">>
  BY <1>2 DEF End
<1>4. df[OutOf(End(f))] = NoContexts /\ lcsmap[f] = NoRows
  BY <1>2, <1>3 DEF Init
<1>5. DOMAIN NoContexts = {} /\ DOMAIN NoRows = {}
  BY DEF NoContexts, NoRows
<1>6. Fits(NoRows, NoContexts)
  BY <1>5 DEF Fits, RowsApart, ValuesApart, LhsCovers, Mapped
<1> QED
  BY <1>4, <1>6

(* Where maps and ends are those of before up to flags. *)
LEMMA MapsKept ==
    ASSUME MapInv, prog' = prog, EndsKept(df, df'),
           \A f \in DOMAIN prog : SameRows(lcsmap[f], lcsmap'[f])
    PROVE  MapInv'
<1>1. \A f : OutOf(End(f))' = OutOf(End(f))
  BY DEF OutOf, InOf, SharedList, End, Start, HasConstraints, Code, CallBlock, ReturnBlock,
         Preds, BlocksOf, Blocks, Succs
<1>2. ASSUME NEW f \in DOMAIN prog \ {main}
      PROVE  Fits(lcsmap'[f], df'[OutOf(End(f))])
  <2>1. Fits(lcsmap[f], df[OutOf(End(f))])
    BY DEF MapInv
  <2>2. SameLive(df[OutOf(End(f))], df'[OutOf(End(f))])
    BY DEF EndsKept
  <2> QED
    BY <2>1, <2>2, FitsAgain
<1> QED
  BY <1>1, <1>2 DEF MapInv

LEMMA SameMaps ==
    ASSUME lcsmap' = lcsmap
    PROVE  \A f \in DOMAIN prog : SameRows(lcsmap[f], lcsmap'[f])
BY DEF SameRows

(* What the handlers within a function end with.                            *)
LEMMA PropagateEnds ==
    ASSUME prog \in Programs, NEW pool, NEW d, ListsOf(d, pool), NEW b \in Nodes,
           NEW flagged, NEW pta, Propagate(d, b, flagged, pta)
    PROVE  EndsKept(d, df')
<1>1. df' = PropagateToPreds(d, b)
  BY DEF Propagate
<1>2. EndsKept(d, PropagateToPreds(d, b))
  BY PropagateToPredsEnds
<1> QED
  BY <1>1, <1>2

LEMMA IntraBlockMaps ==
    ASSUME IInv, MapInv, NEW b, LvIntraBlock(b)
    PROVE  MapInv'
<1>1. /\ BlockForLvProcessing(b) /\ Propagate(IntraIn(b), b, {}, {})
      /\ prog' = prog /\ lcsmap' = lcsmap
  BY DEF LvIntraBlock, IntraIn
<1>2. b \in Nodes
  BY <1>1, BlockFacts
<1> DEFINE copied == IF SharedList(b) THEN df ELSE CopyOutToIn(df, b)
<1>3. prog \in Programs /\ ListsOf(df, callstrings)
  BY DEF IInv
<1>4. ListsOf(copied, callstrings) /\ EndsKept(df, copied)
  <2>1. CASE SharedList(b)
    <3>1. EndsKept(df, df)
      BY <1>3, EndLists DEF EndsKept
    <3> QED
      BY <1>3, <2>1, <3>1
  <2>2. CASE ~SharedList(b)
    BY <1>2, <1>3, <2>2, CopyOutToInType, CopyOutToInEnds
  <2> QED
    BY <2>1, <2>2
<1>5. IntraIn(b) = IF HasConstraints(b) THEN FindLiveVars(copied, b) ELSE copied
  BY DEF IntraIn
<1> HIDE DEF copied
<1>6. ListsOf(FindLiveVars(copied, b), callstrings) /\ EndsKept(copied, FindLiveVars(copied, b))
  BY <1>2, <1>3, <1>4, FindLiveVarsType, FindLiveVarsEnds
<1>7. EndsKept(df, FindLiveVars(copied, b))
  BY <1>4, <1>6, EndsKeptAgain
<1>8. ListsOf(IntraIn(b), callstrings) /\ EndsKept(df, IntraIn(b))
  BY <1>4, <1>5, <1>6, <1>7
<1> DEFINE d == IntraIn(b)
<1> HIDE DEF d
<1>9. EndsKept(d, df')
  <2>1. ListsOf(d, callstrings) /\ Propagate(d, b, {}, {})
    BY <1>1, <1>8 DEF d
  <2> DEFINE none == {}
  <2> HIDE DEF none
  <2>2. Propagate(d, b, none, none)
    BY <2>1 DEF none
  <2> QED
    BY <1>2, <1>3, <2>1, <2>2, PropagateEnds
<1>10. EndsKept(df, df')
  BY <1>8, <1>9, EndsKeptAgain DEF d
<1> QED
  BY <1>1, <1>10, SameMaps, MapsKept

LEMMA CallBlockMaps ==
    ASSUME IInv, MapInv, NEW b, LvCallBlock(b)
    PROVE  MapInv'
<1> DEFINE d == CallStmtLiveness(df, b)
           none == {}
<1>1. /\ BlockForLvProcessing(b) /\ CallBlock(b) /\ Propagate(d, b, none, none)
      /\ prog' = prog /\ lcsmap' = lcsmap
  BY DEF LvCallBlock
<1> HIDE DEF none
<1>2. b \in Nodes
  BY <1>1, BlockFacts
<1>3. prog \in Programs /\ ListsOf(df, callstrings)
  BY DEF IInv
<1>4. ListsOf(d, callstrings) /\ EndsKept(df, d)
  BY <1>1, <1>2, <1>3, CallStmtLivenessType, CallStmtLivenessEnds
<1> HIDE DEF d
<1>5. EndsKept(d, df')
  BY <1>1, <1>2, <1>3, <1>4, PropagateEnds
<1>6. EndsKept(df, df')
  BY <1>4, <1>5, EndsKeptAgain
<1> QED
  BY <1>1, <1>6, SameMaps, MapsKept

LEMMA EndInEnds ==
    ASSUME IInv, NEW b \in Nodes, b = End(b[1])
    PROVE  EndsKept(df, EndIn(b))
<1> DEFINE out == df[OutOf(b)]
           lhs == EndLhs(b)
           required == lcsmap_required[Cnode]
           x   == Over([c \in lhs |-> out[c]], df[InOf(b)])
           y   == [c \in DOMAIN out |->
                     [out[c] EXCEPT !.new_lvdf = @ /\ (required \/ c \notin lhs)]]
           mapped == [df EXCEPT ![InOf(b)] = x, ![OutOf(b)] = y]
<1>1. prog \in Programs /\ ListsOf(df, callstrings)
  BY DEF IInv
<1>2. b[1] \in DOMAIN prog
  BY <1>1, NodeFacts
<1>3. \A c \in DOMAIN out : out[c] \in Entry
  <2>1. OutOf(b) \in Lists
    BY PlacesOf
  <2> QED
    BY <1>1, <2>1, ContextListParts DEF ListsOf
<1>4. SameLive(out, y)
  <2> HIDE DEF out, lhs, required
  <2> QED
    BY <1>3 DEF SameLive, Entry
<1>5. EndIn(b) = IF HasConstraints(b) THEN FindLiveVars(mapped, b) ELSE mapped
  BY DEF EndIn
<1> HIDE DEF x, y, lhs, required
<1>6. EndsKept(df, mapped)
  BY <1>1, <1>4, PutTwoKeepsEnds
<1>7. ASSUME HasConstraints(b) PROVE EndsKept(df, EndIn(b))
  <2>1. EndIn(b) = FindLiveVars(mapped, b)
    BY <1>5, <1>7
  <2>2. \A f \in DOMAIN prog : FindLiveVars(mapped, b)[OutOf(End(f))] = mapped[OutOf(End(f))]
    <3>1. \A f \in DOMAIN prog : InOf(b) # OutOf(End(f))
      BY <1>1, EndLists
    <3> HIDE DEF mapped
    <3> QED
      BY <3>1 DEF FindLiveVars
  <2> QED
    BY <1>6, <2>1, <2>2 DEF EndsKept
<1> QED
  BY <1>5, <1>6, <1>7

LEMMA EndBlockMaps ==
    ASSUME IInv, MapInv, NEW b, BlockForLvProcessing(b), LvEndBlock(b)
    PROVE  MapInv'
<1> DEFINE d       == EndIn(b)
           flagged == IF lcsmap_required[Cnode] THEN {Start(Cnode)} ELSE {}
           none    == {}
           rows    == lcsmap[Cnode]
           new     == [c \in DOMAIN rows |->
                         [rows[c] EXCEPT !.present = @ \/ c \in EndLhs(b)]]
<1>1. b \in Nodes /\ b[1] = Cnode /\ Cnode \in DOMAIN prog
  BY BlockFacts
<1>2. /\ b = End(Cnode)
      /\ Propagate(d, b, flagged, none)
      /\ lcsmap' = [lcsmap EXCEPT ![Cnode] = new]
      /\ prog' = prog
  BY DEF LvEndBlock, EndIn, EndLhs
<1>3. /\ prog \in Programs /\ DOMAIN lcsmap = DOMAIN prog
      /\ \A f \in DOMAIN prog : IsMap(lcsmap[f], CallsTo(callstrings, f))
  BY DEF IInv
<1>4. ListsOf(d, callstrings) /\ EndsKept(df, d)
  BY <1>1, <1>2, EndInType, EndInEnds
<1>5. SameRows(rows, new)
  <2>1. IsMap(rows, CallsTo(callstrings, Cnode))
    BY <1>1, <1>3
  <2> HIDE DEF rows
  <2> QED
    BY <2>1 DEF IsMap, IsRow, SameRows
<1> HIDE DEF d, flagged, none, new
<1>6. EndsKept(d, df')
  BY <1>1, <1>2, <1>3, <1>4, PropagateEnds
<1>7. EndsKept(df, df')
  BY <1>4, <1>6, EndsKeptAgain
<1>8. \A f \in DOMAIN prog : SameRows(lcsmap[f], lcsmap'[f])
  BY <1>1, <1>2, <1>3, <1>5 DEF SameRows
<1> QED
  BY <1>2, <1>7, <1>8, MapsKept

(* The way back from a function, at its start. *)
LEMMA BackEnds ==
    ASSUME IInv, NEW d, ListsOf(d, callstrings), NEW f \in DOMAIN prog
    PROVE  EndsKept(d, Returned(Regenerated(d, f), f))
<1> DEFINE r == Regenerated(d, f)
<1>1. prog \in Programs /\ IsPool(callstrings, fn_worklist)
  BY DEF IInv
<1>2. ListsOf(r, callstrings)
  BY RegeneratedType
<1>3. EndsKept(d, d)
  BY <1>1, EndLists DEF EndsKept
<1>4. EndsKept(d, r)
  BY <1>1, <1>3, RegenerateEnds DEF Regenerated
<1> HIDE DEF r
<1>5. EndsKept(r, Returned(r, f))
  <2>1. EndsKept(r, r)
    BY <1>1, <1>2, EndLists DEF EndsKept
  <2>2. f # main => EndsKept(r, PropagateToCallBlocks(r, f))
    BY <1>1, <1>2, PropagateToCallBlocksEnds
  <2> QED
    BY <2>1, <2>2 DEF Returned
<1>6. EndsKept(d, Returned(r, f))
  BY <1>4, <1>5, EndsKeptAgain
<1> QED
  BY <1>6 DEF r

LEMMA StartBlockMaps ==
    ASSUME IInv, MapInv, NEW b, BlockForLvProcessing(b), LvStartBlock(b)
    PROVE  MapInv'
<1> DEFINE c == CopyOutToIn(df, b)
           d == FindLiveVars(c, b)
<1>1. b \in Nodes /\ b[1] = Cnode /\ Cnode \in DOMAIN prog
  BY BlockFacts
<1>2. /\ b = Start(Cnode) /\ df' = Returned(Regenerated(d, Cnode), Cnode)
      /\ prog' = prog /\ lcsmap' = lcsmap
  BY DEF LvStartBlock
<1>3. prog \in Programs /\ ListsOf(df, callstrings)
  BY DEF IInv
<1>4. ListsOf(c, callstrings) /\ EndsKept(df, c)
  BY <1>1, <1>2, <1>3, EndsOf, CopyOutToInType, CopyOutToInEnds
<1> HIDE DEF c
<1>5. ListsOf(d, callstrings) /\ EndsKept(c, d)
  BY <1>1, <1>3, <1>4, FindLiveVarsType, FindLiveVarsEnds
<1> HIDE DEF d
<1>6. EndsKept(d, df')
  BY <1>1, <1>2, <1>5, BackEnds
<1>7. EndsKept(df, df')
  <2>1. EndsKept(df, d)
    BY <1>4, <1>5, EndsKeptAgain
  <2> QED
    BY <1>6, <2>1, EndsKeptAgain
<1> QED
  BY <1>2, <1>7, SameMaps, MapsKept

LEMMA StartCallBlockMaps ==
    ASSUME IInv, MapInv, NEW b, BlockForLvProcessing(b), LvStartCallBlock(b)
    PROVE  MapInv'
<1> DEFINE d == CallStmtLiveness(df, b)
<1>1. b \in Nodes /\ b[1] = Cnode /\ Cnode \in DOMAIN prog
  BY BlockFacts
<1>2. /\ CallBlock(b) /\ df' = Returned(Regenerated(d, Cnode), Cnode)
      /\ prog' = prog /\ lcsmap' = lcsmap
  BY DEF LvStartCallBlock
<1>3. prog \in Programs /\ ListsOf(df, callstrings)
  BY DEF IInv
<1>4. ListsOf(d, callstrings) /\ EndsKept(df, d)
  BY <1>1, <1>2, <1>3, CallStmtLivenessType, CallStmtLivenessEnds
<1> HIDE DEF d
<1>5. EndsKept(d, df')
  BY <1>1, <1>2, <1>4, BackEnds
<1>6. EndsKept(df, df')
  BY <1>4, <1>5, EndsKeptAgain
<1> QED
  BY <1>2, <1>6, SameMaps, MapsKept

(* The one handler that changes a map and the contexts it is about.         *)
LEMMA ReturnBlockMaps ==
    ASSUME IInv, MapInv, NEW b, LvReturnBlock(b)
    PROVE  MapInv'
<1> DEFINE f       == Callee(CallOf(b))
           copied  == CopyInAtReturnblock(df, b)
           w       == EnterCallees(copied, b)
           d       == [copied EXCEPT ![OutOf(End(f))] = w.out]
           flagged == IF w.add THEN {End(f)} ELSE {}
           pta     == IF w.add /\ HasNodeFrom(fn_worklist, lv_node, f) THEN {Start(f)} ELSE {}
<1>1. /\ BlockForLvProcessing(b) /\ ReturnBlock(b)
      /\ Propagate(d, b, flagged, pta)
      /\ lcsmap' = [lcsmap EXCEPT ![f] = w.rows]
      /\ prog' = prog
  BY DEF LvReturnBlock
<1>2. /\ b \in Nodes /\ b[1] = Cnode
      /\ HasNodeFrom(fn_worklist, 1, b[1])
  BY <1>1, BlockFacts
<1>3. /\ prog \in Programs /\ IsPool(callstrings, fn_worklist)
      /\ ListsOf(df, callstrings) /\ DOMAIN lcsmap = DOMAIN prog
      /\ \A g \in DOMAIN prog : IsMap(lcsmap[g], CallsTo(callstrings, g))
      /\ lcsmap_required \in [DOMAIN prog -> BOOLEAN]
  BY DEF IInv
<1>4. f \in DOMAIN prog
  BY <1>1, <1>2, <1>3, NodeFacts
<1>5. ListsOf(copied, callstrings) /\ EndsKept(df, copied)
  BY <1>1, <1>2, <1>3, CopyInAtReturnblockType, CopyInAtReturnblockEnds
<1>6. f = Callee(CallOf(b))
  OBVIOUS
<1> HIDE DEF f, copied
<1>7. IsEntering(w, callstrings, f, fn_worklist)
  <2>1. IsMap(lcsmap[f], CallsTo(callstrings, f)) /\ lcsmap_required[f] \in BOOLEAN
    BY <1>3, <1>4
  <2> QED
    BY <1>1, <1>2, <1>3, <1>5, <1>6, <2>1, EnterCalleesType
<1>8. f # main => Fits(w.rows, w.out)
  <2> SUFFICES ASSUME f # main PROVE Fits(w.rows, w.out)
    OBVIOUS
  <2>1. IsMap(lcsmap[f], CallsTo(callstrings, f)) /\ lcsmap_required[f] \in BOOLEAN
    BY <1>3, <1>4
  <2>2. Fits(lcsmap[f], df[OutOf(End(f))])
    BY <1>4 DEF MapInv
  <2>3. SameLive(df[OutOf(End(f))], copied[OutOf(End(f))])
    BY <1>4, <1>5 DEF EndsKept
  <2>4. SameRows(lcsmap[f], lcsmap[f])
    BY DEF SameRows
  <2>5. Fits(lcsmap[f], copied[OutOf(End(f))])
    BY <2>2, <2>3, <2>4, FitsAgain
  <2> QED
    BY <1>1, <1>2, <1>3, <1>5, <1>6, <2>1, <2>5, EnterCalleesFits
<1> HIDE DEF w
<1>9. ListsOf(d, w.pool)
  <2>1. ListsOf(copied, w.pool)
    BY <1>5, <1>7, LongerContexts DEF IsEntering
  <2>2. OutOf(End(f)) \in Lists /\ OutOf(End(f))[1][1] = f
    BY <1>3, <1>4, EndsOf
  <2>3. IsContextList(w.out, Contexts(w.pool, OutOf(End(f))[1][1]))
    BY <1>7, <2>2 DEF IsEntering, IsMapState
  <2> QED
    BY <2>1, <2>2, <2>3, PutList
<1>10. ASSUME NEW g \in DOMAIN prog
       PROVE  d[OutOf(End(g))] = IF g = f THEN w.out ELSE copied[OutOf(End(g))]
  <2>1. /\ OutOf(End(g)) = <<End(g), "out">> /\ OutOf(End(g)) \in Lists
        /\ OutOf(End(f)) = <<End(f), "out">> /\ OutOf(End(f)) \in Lists
    BY <1>3, <1>4, <1>5, EndLists
  <2>2. g # f => OutOf(End(g)) # OutOf(End(f))
    BY <2>1 DEF End
  <2>3. DOMAIN copied = Lists
    BY <1>5 DEF ListsOf
  <2> DEFINE k == OutOf(End(g))
             l == OutOf(End(f))
  <2> HIDE DEF k, l
  <2>4. k \in Lists /\ l \in Lists /\ (g # f => k # l) /\ (g = f => k = l)
    BY <2>1, <2>2 DEF k, l
  <2>5. [copied EXCEPT ![l] = w.out][k] = IF g = f THEN w.out ELSE copied[k]
    BY <2>3, <2>4
  <2> QED
    BY <2>5 DEF k, l
<1> HIDE DEF d, flagged, pta
<1>11. EndsKept(d, df')
  <2> DEFINE pool == w.pool
  <2> HIDE DEF pool
  <2>1. ListsOf(d, pool)
    BY <1>9 DEF pool
  <2> QED
    BY <1>1, <1>2, <1>3, <2>1, PropagateEnds
<1>12. ASSUME NEW g \in DOMAIN prog \ {main}
       PROVE  Fits(lcsmap'[g], df'[OutOf(End(g))])
  <2>1. SameLive(d[OutOf(End(g))], df'[OutOf(End(g))])
    BY <1>11 DEF EndsKept
  <2>2. CASE g = f
    <3>1. Fits(w.rows, d[OutOf(End(g))])
      BY <1>8, <1>10, <2>2
    <3>2. lcsmap'[g] = w.rows
      BY <1>1, <1>3, <2>2
    <3>3. SameRows(w.rows, lcsmap'[g])
      BY <3>2 DEF SameRows
    <3> QED
      BY <2>1, <3>1, <3>3, FitsAgain
  <2>3. CASE g # f
    <3>1. Fits(lcsmap[g], df[OutOf(End(g))])
      BY DEF MapInv
    <3>2. d[OutOf(End(g))] = copied[OutOf(End(g))]
      BY <1>10, <2>3
    <3>3. SameLive(df[OutOf(End(g))], copied[OutOf(End(g))])
      BY <1>5 DEF EndsKept
    <3>4. SameLive(df[OutOf(End(g))], df'[OutOf(End(g))])
      BY <2>1, <3>2, <3>3 DEF SameLive
    <3>5. lcsmap'[g] = lcsmap[g]
      BY <1>1, <1>3, <2>3
    <3>6. SameRows(lcsmap[g], lcsmap'[g])
      BY <3>5 DEF SameRows
    <3> QED
      BY <3>1, <3>4, <3>6, FitsAgain
  <2> QED
    BY <2>2, <2>3
<1>13. \A g : OutOf(End(g))' = OutOf(End(g))
  BY <1>1 DEF OutOf, InOf, SharedList, End, Start, HasConstraints, Code, CallBlock, ReturnBlock,
         Preds, BlocksOf, Blocks, Succs
<1> QED
  BY <1>1, <1>12, <1>13 DEF MapInv

LEMMA MapInvNext == IInv /\ MapInv /\ [Next]_vars => MapInv'
<1> SUFFICES ASSUME IInv, MapInv, [Next]_vars PROVE MapInv'
  OBVIOUS
<1>1. ASSUME NEW b \in process_lv, ProcessBlock(b)
      PROVE  MapInv'
  <2>1. CASE LvIntraBlock(b)
    BY <2>1, IntraBlockMaps
  <2>2. CASE BlockForLvProcessing(b) /\ LvEndBlock(b)
    BY <2>2, EndBlockMaps
  <2>3. CASE BlockForLvProcessing(b) /\ LvStartBlock(b)
    BY <2>3, StartBlockMaps
  <2>4. CASE LvCallBlock(b)
    BY <2>4, CallBlockMaps
  <2>5. CASE BlockForLvProcessing(b) /\ LvStartCallBlock(b)
    BY <2>5, StartCallBlockMaps
  <2>6. CASE LvReturnBlock(b)
    BY <2>6, ReturnBlockMaps
  <2> QED
    BY <1>1, <2>1, <2>2, <2>3, <2>4, <2>5, <2>6 DEF ProcessBlock
<1>2. ASSUME prog' = prog, df' = df, lcsmap' = lcsmap
      PROVE  MapInv'
  <2>1. EndsKept(df, df)
    BY EndLists DEF EndsKept, IInv
  <2>2. EndsKept(df, df')
    BY <1>2, <2>1
  <2> QED
    BY <1>2, <2>2, SameMaps, MapsKept
<1>3. CASE NextFunction
  BY <1>2, <1>3 DEF NextFunction
<1>4. CASE PreviousFunction
  BY <1>2, <1>4 DEF PreviousFunction
<1>5. CASE UNCHANGED vars
  BY <1>2, <1>5 DEF vars
<1> QED
  BY <1>1, <1>3, <1>4, <1>5 DEF Next

LEMMA MapInvariant == Spec => []MapInv
BY InitInv, MapInvInit, NextInv, MapInvNext, PTL DEF Spec

(* At every moment of the liveness pass the callstring map of each function *)
(* but main (modify_lcsmap_at_endblock, modify_lcsmap_1, find_rep_in_lcsmap)*)
(* has every context that has come to the end of the function in exactly    *)
(* one row, and no two rows for one set of live variables, recursive        *)
(* programs included.                                                       *)
THEOREM MapsPartition == Spec => []MapPartitionsContexts
BY MapInvariant, MapInvParts, PTL

(* So the lhs of a row may stand for the contexts of its rhs: whatever      *)
(* sequence of calls has brought them there, what is live for one of them   *)
(* at the end of the function is live for the lhs.                          *)
THEOREM RowsCover == Spec => []LhsCoversRhs
BY MapInvariant, MapInvParts, PTL

-----------------------------------------------------------------------------
(* Seen from the worklists the pass is a Scheduler, provided that no        *)
(* function calls itself: for one that does, the way back flags a block of  *)
(* the function that is being left.                                         *)

LEMMA SameOperators ==
    /\ Worklists!Cnode = Cnode /\ Worklists!FlaggedBlocks = FlaggedBlocks
    /\ \A fn : Worklists!NewWorklistNode(fn) = NewWorklistNode(fn)
    /\ \A wl : Worklists!LvFlagged(wl) = LvFlagged(wl)
    /\ \A wl, fn : Worklists!HasNodeFrom(wl, 1, fn) = HasNodeFrom(wl, 1, fn)
    /\ \A wl, k : /\ Worklists!LvCalleeNodesProcessed(wl, k) = LvCalleeNodesProcessed(wl, k)
                  /\ Worklists!LeaveLvNode(wl, k) = LeaveLvNode(wl, k)
                  /\ Worklists!PrevNodeFromLvWorklist(wl, k) = PrevNodeFromLvWorklist(wl, k)
                  /\ Worklists!NextNodeFromLvWorklist(wl, k) = NextNodeFromLvWorklist(wl, k)
    /\ \A wl, k, fn : Worklists!AddToFnWorklist(wl, k, fn) = AddToFnWorklist(wl, k, fn)
    /\ \A wl, fns : Worklists!FlagFirst(wl, fns) = FlagFirst(wl, fns)
<1>1. Worklists!Cnode = Cnode /\ Worklists!FlaggedBlocks = FlaggedBlocks
  BY DEF Worklists!Cnode, Worklists!FlaggedBlocks, Cnode, FlaggedBlocks
<1>2. \A fn : Worklists!NewWorklistNode(fn) = NewWorklistNode(fn)
  BY DEF Worklists!NewWorklistNode, NewWorklistNode
<1>3. \A wl : Worklists!LvFlagged(wl) = LvFlagged(wl)
  BY DEF Worklists!LvFlagged, LvFlagged
<1>4. \A wl, k, fn : Worklists!HasNodeFrom(wl, k, fn) = HasNodeFrom(wl, k, fn)
  BY DEF Worklists!HasNodeFrom, HasNodeFrom
<1>5. \A S : Worklists!FirstOf(S) = FirstOf(S) /\ Worklists!LastOf(S) = LastOf(S)
  BY DEF Worklists!FirstOf, Worklists!LastOf, Worklists!Min, Worklists!Max,
         FirstOf, LastOf, Min, Max
<1>6. \A wl, k : /\ Worklists!LvCalleeNodesProcessed(wl, k) = LvCalleeNodesProcessed(wl, k)
                 /\ Worklists!LeaveLvNode(wl, k) = LeaveLvNode(wl, k)
                 /\ Worklists!PrevNodeFromLvWorklist(wl, k) = PrevNodeFromLvWorklist(wl, k)
                 /\ Worklists!NextNodeFromLvWorklist(wl, k) = NextNodeFromLvWorklist(wl, k)
  BY <1>3, <1>5 DEF Worklists!LvCalleeNodesProcessed, LvCalleeNodesProcessed,
         Worklists!LeaveLvNode, LeaveLvNode,
         Worklists!PrevNodeFromLvWorklist, PrevNodeFromLvWorklist,
         Worklists!NextNodeFromLvWorklist, NextNodeFromLvWorklist
<1>7. \A wl, k, fn : Worklists!AddToFnWorklist(wl, k, fn) = AddToFnWorklist(wl, k, fn)
  BY <1>2, <1>4, <1>5 DEF Worklists!AddToFnWorklist, AddToFnWorklist, Worklists!AddFrom,
         AddFrom, Worklists!InsertAt, InsertAt
<1>8. \A wl, fns : Worklists!FlagFirst(wl, fns) = FlagFirst(wl, fns)
  BY <1>2 DEF Worklists!FlagFirst, FlagFirst
<1> QED
  BY <1>1, <1>2, <1>3, <1>4, <1>6, <1>7, <1>8

LEMMA ScheduledInit == Init => Worklists!Init
<1> SUFFICES ASSUME Init PROVE Worklists!Init
  OBVIOUS
<1> DEFINE wl == <<NewWorklistNode(main)>>
<1>1. fn_worklist = wl /\ process_lv = {End(main)} /\ lv_node = FirstOf(LvFlagged(wl))
  BY DEF Init, FirstNodeFromLvWorklist
<1>2. LvFlagged(wl) = {1}
  BY DEF LvFlagged, NewWorklistNode
<1>3. FirstOf({1}) = 1
  <2>1. {1} \in SUBSET (Nat \ {0})
    OBVIOUS
  <2>2. FirstOf({1}) \in {1}
    BY <2>1, FirstOfIsFirst
  <2> QED
    BY <2>2
<1>4. main \in Fn /\ \A b \in process_lv : b[1] = main
  BY <1>1, MainAssumption DEF End
<1>5. fn_worklist = <<Worklists!NewWorklistNode(main)>>
  BY <1>1, SameOperators
<1> QED
  BY <1>1, <1>2, <1>3, <1>4, <1>5 DEF Worklists!Init

(* A block at the start of its function is processed only when it is the    *)
(* last one flagged there and no callee is pending.                         *)
LEMMA StartIsLast ==
    ASSUME IInv, NEW b, BlockForLvProcessing(b), b = Start(Cnode)
    PROVE  FlaggedBlocks = {b} /\ CalleesProcessed
<1>1. b \in ReadyBlocks /\ \A a \in ReadyBlocks : a[2] <= b[2]
  BY DEF BlockForLvProcessing
<1>2. CalleesProcessed /\ ReadyBlocks = FlaggedBlocks
  BY <1>1 DEF ReadyBlocks
<1>3. b[2] = 1 /\ b = <<Cnode, 1>>
  BY DEF Start
<1>4. ASSUME NEW a \in FlaggedBlocks PROVE a = b
  <2>1. a \in Nodes /\ a[1] = Cnode
    BY DEF FlaggedBlocks, IInv
  <2>2. a = <<a[1], a[2]>> /\ a[2] \in 1..Len(prog[a[1]].code) /\ a[1] \in DOMAIN prog
    BY <2>1, NodeFacts DEF IInv
  <2>3. a[2] <= 1
    BY <1>1, <1>2, <1>3
  <2>4. Len(prog[a[1]].code) \in Nat
    BY <2>2, ProgramFacts DEF IInv
  <2>5. a[2] = 1
    BY <2>2, <2>3, <2>4
  <2> QED
    BY <1>3, <2>1, <2>2, <2>5
<1> QED
  BY <1>1, <1>2, <1>4

(* The way back is one to callers that are on the list.                     *)
LEMMA BackFlags ==
    ASSUME IInv, NEW wl, NEW grown, NEW f, Back(wl, grown, f), NEW b,
           process_lv' = (process_lv \ {b}) \cup GrownCallBlocks(grown)
    PROVE  /\ CallerFns(grown) \in SUBSET Fn
           /\ wl = Worklists!FlagFirst(fn_worklist, CallerFns(grown))
           /\ Worklists!Listed(CallerFns(grown))
           /\ Worklists!Flags(b, CallerFns(grown))
<1>1. CallerFns(grown) \in SUBSET Fn
  BY ProgramFacts DEF Back, IInv
<1>2. wl = Worklists!FlagFirst(fn_worklist, CallerFns(grown))
  BY SameOperators DEF Back
<1>3. Worklists!Listed(CallerFns(grown))
  BY SameOperators DEF Back, Worklists!Listed
<1>4. Worklists!Flags(b, CallerFns(grown))
  BY DEF Back, Worklists!Flags
<1> QED
  BY <1>1, <1>2, <1>3, <1>4

LEMMA CallersAreOthers ==
    ASSUME NoSelfCalls, NEW wl, NEW grown, NEW f, Back(wl, grown, f)
    PROVE  f \notin CallerFns(grown)
<1> SUFFICES ASSUME f \in CallerFns(grown) PROVE FALSE
  OBVIOUS
<1>1. PICK c \in GrownCallBlocks(grown) : c[1] = f
  BY DEF Back
<1>2. c \in Nodes /\ CallBlock(c) /\ Callee(c) = f
  BY DEF Back
<1> QED
  BY <1>1, <1>2 DEF NoSelfCalls

LEMMA ScheduledBlock ==
    ASSUME IInv, NoSelfCalls, NEW b \in process_lv, ProcessBlock(b)
    PROVE  Worklists!Next
<1>1. BlockForLvProcessing(b)
  BY DEF ProcessBlock, LvIntraBlock, LvCallBlock, LvReturnBlock
<1>2. /\ lv_node # 0 /\ Cnode \in DOMAIN prog
      /\ b \in Worklists!FlaggedBlocks /\ Worklists!Cnode = Cnode
  BY <1>1, BlockFacts, SameOperators DEF FlaggedBlocks
<1>3. ASSUME process_lv \ {b} \subseteq process_lv',
             \A c \in process_lv' \ (process_lv \ {b}) : c[1] = Cnode,
             UNCHANGED <<fn_worklist, lv_node>>
      PROVE  Worklists!Next
  <2>1. Worklists!ProcessBlock(b)
    BY <1>2, <1>3 DEF Worklists!ProcessBlock, Worklists!Flags
  <2> QED
    BY <2>1 DEF Worklists!Next
<1>4. CASE LvIntraBlock(b)
  <2>1. UNCHANGED <<fn_worklist, lv_node>>
    BY <1>4 DEF LvIntraBlock
  <2>2. /\ process_lv \ {b} \subseteq process_lv'
        /\ \A c \in process_lv' \ (process_lv \ {b}) : c[1] = Cnode
    BY <1>4, IntraBlockInv
  <2> QED
    BY <1>3, <2>1, <2>2
<1>5. CASE LvEndBlock(b)
  <2>1. UNCHANGED <<fn_worklist, lv_node>>
    BY <1>5 DEF LvEndBlock
  <2>2. /\ process_lv \ {b} \subseteq process_lv'
        /\ \A c \in process_lv' \ (process_lv \ {b}) : c[1] = Cnode
    BY <1>1, <1>5, EndBlockInv
  <2> QED
    BY <1>3, <2>1, <2>2
<1>6. CASE LvCallBlock(b)
  <2>1. UNCHANGED <<fn_worklist, lv_node>>
    BY <1>6 DEF LvCallBlock
  <2>2. /\ process_lv \ {b} \subseteq process_lv'
        /\ \A c \in process_lv' \ (process_lv \ {b}) : c[1] = Cnode
    BY <1>6, CallBlockInv
  <2> QED
    BY <1>3, <2>1, <2>2
<1>7. CASE LvStartBlock(b)
  <2>1. /\ b = Start(Cnode)
        /\ \E grown, wl :
              /\ Back(wl, grown, Cnode)
              /\ process_lv' = (process_lv \ {b}) \cup GrownCallBlocks(grown)
              /\ IF LvCalleeNodesProcessed(wl, lv_node)
                 THEN /\ fn_worklist' = LeaveLvNode(wl, lv_node)
                      /\ lv_node' = PrevNodeFromLvWorklist(wl, lv_node)
                 ELSE fn_worklist' = wl /\ UNCHANGED lv_node
    BY <1>1, <1>7, StartBlockInv
  <2>2. PICK grown, wl :
              /\ Back(wl, grown, Cnode)
              /\ process_lv' = (process_lv \ {b}) \cup GrownCallBlocks(grown)
              /\ IF LvCalleeNodesProcessed(wl, lv_node)
                 THEN /\ fn_worklist' = LeaveLvNode(wl, lv_node)
                      /\ lv_node' = PrevNodeFromLvWorklist(wl, lv_node)
                 ELSE fn_worklist' = wl /\ UNCHANGED lv_node
    BY <2>1
  <2> DEFINE fns == CallerFns(grown)
  <2>3. /\ fns \in SUBSET Fn
        /\ wl = Worklists!FlagFirst(fn_worklist, fns)
        /\ Worklists!Listed(fns) /\ Worklists!Flags(b, fns)
    BY <2>2, BackFlags
  <2>4. Cnode \notin fns
    BY <2>2, CallersAreOthers
  <2>5. FlaggedBlocks = {b}
    BY <1>1, <2>1, StartIsLast
  <2> HIDE DEF fns
  <2>6. CASE LvCalleeNodesProcessed(wl, lv_node)
    <3>1. /\ Worklists!LvCalleeNodesProcessed(wl, lv_node)
          /\ fn_worklist' = Worklists!LeaveLvNode(wl, lv_node)
          /\ lv_node' = Worklists!PrevNodeFromLvWorklist(wl, lv_node)
          /\ Worklists!FlaggedBlocks = {b} /\ Worklists!Cnode \notin fns
      BY <2>2, <2>4, <2>5, <2>6, SameOperators
    <3>2. Worklists!ReturnToCallers(b, fns)
      BY <1>2, <2>3, <3>1 DEF Worklists!ReturnToCallers
    <3> QED
      BY <2>3, <3>2 DEF Worklists!Next
  <2>7. CASE ~LvCalleeNodesProcessed(wl, lv_node)
    <3>1. Worklists!FlagCallers(b, fns)
      BY <1>2, <2>2, <2>3, <2>7 DEF Worklists!FlagCallers
    <3> QED
      BY <2>3, <3>1 DEF Worklists!Next
  <2> QED
    BY <2>6, <2>7
<1>8. CASE LvStartCallBlock(b)
  <2>1. PICK grown, wl :
              /\ Back(wl, grown, Cnode)
              /\ process_lv' = (process_lv \ {b}) \cup GrownCallBlocks(grown)
              /\ fn_worklist' = wl /\ UNCHANGED lv_node
    BY <1>1, <1>8, StartCallBlockInv
  <2> DEFINE fns == CallerFns(grown)
  <2>2. /\ fns \in SUBSET Fn
        /\ wl = Worklists!FlagFirst(fn_worklist, fns)
        /\ Worklists!Listed(fns) /\ Worklists!Flags(b, fns)
    BY <2>1, BackFlags
  <2> HIDE DEF fns
  <2>3. Worklists!FlagCallers(b, fns)
    BY <1>2, <2>1, <2>2 DEF Worklists!FlagCallers
  <2> QED
    BY <2>2, <2>3 DEF Worklists!Next
<1>9. CASE LvReturnBlock(b)
  <2>1. process_lv \ {b} \subseteq process_lv' /\ UNCHANGED lv_node
    BY <1>9, ReturnBlockInv
  <2>2. PICK f \in DOMAIN prog, add \in BOOLEAN :
              /\ fn_worklist' = IF add THEN AddToFnWorklist(fn_worklist, lv_node, f)
                                ELSE fn_worklist
              /\ \A c \in process_lv' \ (process_lv \ {b}) :
                    c[1] = Cnode \/ (add /\ c[1] = f)
    BY <1>9, ReturnBlockInv
  <2>3. CASE add
    <3>1. fn_worklist' = Worklists!AddToFnWorklist(fn_worklist, lv_node, f)
      BY <2>2, <2>3, SameOperators
    <3>2. Worklists!Flags(b, {Worklists!Cnode, f})
      BY <1>2, <2>1, <2>2, <2>3 DEF Worklists!Flags
    <3>3. Worklists!EnterCallee(b, f)
      BY <1>2, <2>1, <3>1, <3>2 DEF Worklists!EnterCallee
    <3>4. f \in Fn
      BY ProgramFacts DEF IInv
    <3> QED
      BY <3>3, <3>4 DEF Worklists!Next
  <2>4. CASE ~add
    <3>1. /\ UNCHANGED <<fn_worklist, lv_node>>
          /\ \A c \in process_lv' \ (process_lv \ {b}) : c[1] = Cnode
      BY <2>1, <2>2, <2>4
    <3> QED
      BY <1>3, <2>1, <3>1
  <2> QED
    BY <2>3, <2>4
<1> QED
  BY <1>4, <1>5, <1>6, <1>7, <1>8, <1>9 DEF ProcessBlock

LEMMA ScheduledStep ==
    IInv /\ NoSelfCalls /\ [Next]_vars => [Worklists!Next]_(Worklists!vars)
<1> SUFFICES ASSUME IInv, NoSelfCalls, [Next]_vars
             PROVE  [Worklists!Next]_(Worklists!vars)
  OBVIOUS
<1>1. CASE \E b \in process_lv : ProcessBlock(b)
  BY <1>1, ScheduledBlock
<1>2. CASE NextFunction
  <2>1. ~CalleesProcessed
    BY <1>2 DEF NextFunction, ReadyBlocks
  <2>2. ~Worklists!LvCalleeNodesProcessed(fn_worklist, lv_node)
    BY <2>1, SameOperators DEF CalleesProcessed
  <2>3. /\ lv_node # 0
        /\ lv_node' = Worklists!NextNodeFromLvWorklist(fn_worklist, lv_node)
        /\ UNCHANGED <<fn_worklist, process_lv>>
    BY <1>2, SameOperators DEF NextFunction
  <2>4. Worklists!NextFunction
    BY <2>2, <2>3 DEF Worklists!NextFunction
  <2> QED
    BY <2>4 DEF Worklists!Next
<1>3. CASE PreviousFunction
  <2>1. /\ lv_node # 0 /\ Worklists!FlaggedBlocks = {}
        /\ Worklists!LvCalleeNodesProcessed(fn_worklist, lv_node)
    BY <1>3, SameOperators DEF PreviousFunction, CalleesProcessed
  <2>2. /\ fn_worklist' = Worklists!LeaveLvNode(fn_worklist, lv_node)
        /\ lv_node' = Worklists!PrevNodeFromLvWorklist(fn_worklist, lv_node)
        /\ UNCHANGED process_lv
    BY <1>3, SameOperators DEF PreviousFunction
  <2>3. Worklists!PreviousFunction
    BY <2>1, <2>2 DEF Worklists!PreviousFunction
  <2> QED
    BY <2>3 DEF Worklists!Next
<1>4. CASE UNCHANGED vars
  BY <1>4 DEF vars, Worklists!vars
<1> QED
  BY <1>1, <1>2, <1>3, <1>4 DEF Next

(* The program stays the same.                                              *)
LEMMA NoSelfCallsStays == NoSelfCalls /\ [Next]_vars => NoSelfCalls'
<1> SUFFICES ASSUME NoSelfCalls, [Next]_vars PROVE NoSelfCalls'
  OBVIOUS
<1>1. prog' = prog
  <2>1. ASSUME NEW b, ProcessBlock(b) PROVE prog' = prog
    BY <2>1 DEF ProcessBlock, LvIntraBlock, LvEndBlock, LvStartBlock, LvCallBlock,
                LvStartCallBlock, LvReturnBlock
  <2> QED
    BY <2>1 DEF Next, NextFunction, PreviousFunction, vars
<1>2. Nodes' = Nodes
  BY <1>1 DEF Nodes, BlocksOf, Blocks
<1>3. \A b : (CallBlock(b)' <=> CallBlock(b)) /\ Callee(b)' = Callee(b)
  BY <1>1 DEF CallBlock, Callee
<1> QED
  BY <1>2, <1>3 DEF NoSelfCalls

(* Every behaviour of the pass on a program in which no function calls      *)
(* itself is one of the Scheduler: no handler flags a block of a function   *)
(* that it does not flag, too, and no function is left with a flagged block *)
(* in it.  Functions may call each other in circles.                        *)
THEOREM Implements == Spec /\ NoSelfCalls => Scheduled
<1>1. Init /\ NoSelfCalls => Worklists!Init
  BY ScheduledInit
<1> QED
  BY <1>1, Invariant, ScheduledStep, NoSelfCallsStays, PTL DEF Spec, Scheduled, Worklists!Spec

(* The instance the theorems are about is the one the pass refines. *)
LEMMA OneScheduler == Scheduled => P!Spec
<1>1. Worklists!Init <=> P!Init
  BY DEF Worklists!Init, P!Init, Worklists!NewWorklistNode,
    P!NewWorklistNode
<1>2. \A b : (Worklists!ProcessBlock(b) <=> P!ProcessBlock(b))
  BY DEF Worklists!ProcessBlock, P!ProcessBlock, Worklists!Flags, P!Flags,
    Worklists!FlaggedBlocks, P!FlaggedBlocks, Worklists!Cnode, P!Cnode
<1>3. \A b, fn : (Worklists!EnterCallee(b, fn) <=> P!EnterCallee(b, fn))
  BY DEF Worklists!EnterCallee, P!EnterCallee, Worklists!Flags, P!Flags,
    Worklists!FlaggedBlocks, P!FlaggedBlocks, Worklists!Cnode, P!Cnode,
    Worklists!AddToFnWorklist, P!AddToFnWorklist, Worklists!AddFrom,
    P!AddFrom, Worklists!HasNodeFrom, P!HasNodeFrom, Worklists!FirstOf,
    P!FirstOf, Worklists!InsertAt, P!InsertAt, Worklists!NewWorklistNode,
    P!NewWorklistNode, Worklists!Min, P!Min
<1>4. \A b, fns : (Worklists!FlagCallers(b, fns) <=> P!FlagCallers(b, fns))
  BY DEF Worklists!FlagCallers, P!FlagCallers, Worklists!Flags, P!Flags,
    Worklists!FlaggedBlocks, P!FlaggedBlocks, Worklists!Cnode, P!Cnode,
    Worklists!Listed, P!Listed, Worklists!HasNodeFrom, P!HasNodeFrom,
    Worklists!FlagFirst, P!FlagFirst, Worklists!NewWorklistNode,
    P!NewWorklistNode
<1>5. \A b, fns : (Worklists!ReturnToCallers(b, fns) <=> P!ReturnToCallers(b, fns))
  BY DEF Worklists!ReturnToCallers, P!ReturnToCallers, Worklists!Flags,
    P!Flags, Worklists!FlaggedBlocks, P!FlaggedBlocks, Worklists!Cnode,
    P!Cnode, Worklists!Listed, P!Listed, Worklists!HasNodeFrom,
    P!HasNodeFrom, Worklists!FlagFirst, P!FlagFirst,
    Worklists!NewWorklistNode, P!NewWorklistNode,
    Worklists!LvCalleeNodesProcessed, P!LvCalleeNodesProcessed,
    Worklists!LvFlagged, P!LvFlagged, Worklists!LeaveLvNode, P!LeaveLvNode,
    Worklists!PrevNodeFromLvWorklist, P!PrevNodeFromLvWorklist,
    Worklists!LastOf, P!LastOf, Worklists!Max, P!Max
<1>6. (Worklists!NextFunction <=> P!NextFunction)
  BY DEF Worklists!NextFunction, P!NextFunction,
    Worklists!LvCalleeNodesProcessed, P!LvCalleeNodesProcessed,
    Worklists!LvFlagged, P!LvFlagged, Worklists!NextNodeFromLvWorklist,
    P!NextNodeFromLvWorklist, Worklists!FirstOf, P!FirstOf, Worklists!Min,
    P!Min
<1>7. (Worklists!PreviousFunction <=> P!PreviousFunction)
  BY DEF Worklists!PreviousFunction, P!PreviousFunction,
    Worklists!FlaggedBlocks, P!FlaggedBlocks, Worklists!Cnode, P!Cnode,
    Worklists!LvCalleeNodesProcessed, P!LvCalleeNodesProcessed,
    Worklists!LvFlagged, P!LvFlagged, Worklists!LeaveLvNode, P!LeaveLvNode,
    Worklists!PrevNodeFromLvWorklist, P!PrevNodeFromLvWorklist,
    Worklists!LastOf, P!LastOf, Worklists!Max, P!Max
<1>8. Worklists!Next <=> P!Next
  BY <1>2, <1>3, <1>4, <1>5, <1>6, <1>7 DEF Worklists!Next, P!Next
<1>9. Worklists!vars = P!vars
  BY DEF Worklists!vars, P!vars
<1>10. [Worklists!Next]_(Worklists!vars) => [P!Next]_(P!vars)
  BY <1>8, <1>9 DEF Worklists!vars, P!vars
<1> QED
  BY <1>1, <1>10, PTL DEF Scheduled, Worklists!Spec, P!Spec

(* A flagged block is in a function that is flagged: nothing that the pass  *)
(* has asked for is left behind where the function worklist does not lead.  *)
THEOREM NotStranded == Spec /\ NoSelfCalls => []NoStrandedBlock
<1>1. P!NoStrandedBlock => NoStrandedBlock
  BY DEF P!NoStrandedBlock, NoStrandedBlock, P!LvFlagged, LvFlagged
<1> QED
  BY <1>1, Implements, OneScheduler, P!NothingStranded, PTL

(* When the pass runs out of functions no block of any function is flagged. *)
THEOREM EndsWhenDone == Spec /\ NoSelfCalls => []DoneMeansDone
<1>1. P!DoneMeansDone => DoneMeansDone
  BY DEF P!DoneMeansDone, DoneMeansDone, Done
<1> QED
  BY <1>1, Implements, OneScheduler, P!EndsWithNothingFlagged, PTL
=============================================================================

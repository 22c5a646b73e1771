--------------------------- MODULE FnWorklistProofs ---------------------------
(***************************************************************************)
(* The function worklist as a data structure: what flagging, inserting and *)
(* leaving a node keep, for a list of any length over any set of functions *)
(* and with any number of nodes of one function.                           *)
(***************************************************************************)
EXTENDS FnWorklist, SequenceTheorems, WellFoundedInduction, TLAPS

-----------------------------------------------------------------------------
(* First and last positions. *)

LEMMA MinOfNats ==
    ASSUME NEW S \in SUBSET Nat, S # {}
    PROVE  Min(S) \in S /\ \A y \in S : Min(S) <= y
<1>1. PICK x \in S : \A y \in S : ~ (<<y, x>> \in OpToRel(<, Nat))
  BY WFMin, NatLessThanWellFounded
<1>2. \A y \in S : x <= y
  <2> TAKE y \in S
  <2>1. ~ (y < x)
    BY <1>1 DEF OpToRel
  <2> QED
    BY <2>1
<1> QED
  BY <1>2 DEF Min

LEMMA MaxOfNats ==
    ASSUME NEW n \in Nat, NEW S \in SUBSET (0..n), S # {}
    PROVE  Max(S) \in S /\ \A y \in S : Max(S) >= y
<1> DEFINE T == {n - y : y \in S}
<1>1. T \in SUBSET Nat
  <2>1. \A y \in S : n - y \in Nat
    OBVIOUS
  <2> QED
    BY <2>1
<1>0. T # {}
  OBVIOUS
<1>2. Min(T) \in T /\ \A t \in T : Min(T) <= t
  BY <1>0, <1>1, MinOfNats
<1>3. PICK x \in S : Min(T) = n - x
  BY <1>2
<1>4. \A y \in S : n - x <= n - y
  BY <1>2, <1>3
<1>5. \A y \in S : x >= y
  BY <1>4
<1> QED
  BY <1>5 DEF Max

LEMMA FirstOfIsFirst ==
    ASSUME NEW S \in SUBSET (Nat \ {0})
    PROVE  /\ S = {} <=> FirstOf(S) = 0
           /\ S # {} => FirstOf(S) \in S /\ \A y \in S : FirstOf(S) <= y
<1>1. CASE S = {}
  BY <1>1 DEF FirstOf
<1>2. CASE S # {}
  <2>1. Min(S) \in S /\ \A y \in S : Min(S) <= y
    BY <1>2, MinOfNats
  <2> QED
    BY <1>2, <2>1 DEF FirstOf
<1> QED
  BY <1>1, <1>2

LEMMA LastOfIsLast ==
    ASSUME NEW n \in Nat, NEW S \in SUBSET (1..n)
    PROVE  /\ S = {} <=> LastOf(S) = 0
           /\ S # {} => LastOf(S) \in S
<1>1. CASE S = {}
  BY <1>1 DEF LastOf
<1>2. CASE S # {}
  <2>1. Max(S) \in S
    <3>1. S \in SUBSET (0..n)
      OBVIOUS
    <3> QED
      BY <1>2, <3>1, MaxOfNats
  <2>2. LastOf(S) = Max(S)
    BY <1>2 DEF LastOf
  <2>3. Max(S) # 0
    BY <2>1
  <2> QED
    BY <1>2, <2>1, <2>2, <2>3
<1> QED
  BY <1>1, <1>2

-----------------------------------------------------------------------------
(* Operations on the list. *)

WorklistNodes(F) == [called_fn : F, process_lv : BOOLEAN, process_pta : BOOLEAN]

LEMMA WorklistType ==
    ASSUME NEW F, NEW wl
    PROVE  /\ IsWorklist(wl, F) <=> wl \in Seq(WorklistNodes(F))
           /\ IsWorklist(wl, F) =>
                 /\ DOMAIN wl = 1..Len(wl)
                 /\ \A i \in DOMAIN wl : wl[i] \in WorklistNodes(F) /\ wl[i].called_fn \in F
<1>1. IsWorklist(wl, F) <=> wl \in Seq(WorklistNodes(F))
  BY DEF IsWorklist, WorklistNodes
<1>2. ASSUME wl \in Seq(WorklistNodes(F))
      PROVE  DOMAIN wl = 1..Len(wl) /\ \A i \in DOMAIN wl : wl[i] \in WorklistNodes(F)
  BY <1>2
<1>3. \A node \in WorklistNodes(F) : node.called_fn \in F
  BY DEF WorklistNodes
<1> QED
  BY <1>1, <1>2, <1>3

(* What a change of the list has to keep: every function stays on it,      *)
(* every flagged one flagged, and node k is still what it was.             *)
Keeps(F, wl, new, k) ==
    /\ IsWorklist(new, F)
    /\ k \in DOMAIN new
    /\ new[k].called_fn = wl[k].called_fn
    /\ wl[k].process_lv => new[k].process_lv
    /\ \A i \in DOMAIN wl : \E j \in DOMAIN new : new[j].called_fn = wl[i].called_fn
    /\ \A i \in LvFlagged(wl) :
          \E j \in LvFlagged(new) : new[j].called_fn = wl[i].called_fn

LEMMA NodeType ==
    ASSUME NEW F, NEW fn \in F
    PROVE  /\ NewWorklistNode(fn) \in WorklistNodes(F)
           /\ NewWorklistNode(fn).called_fn = fn
           /\ NewWorklistNode(fn).process_lv = TRUE
BY DEF NewWorklistNode, WorklistNodes

(* What InsertAt does to the positions of a list. *)
Inserted(s, k, e, t) ==
    /\ Len(t) = Len(s) + 1
    /\ t[k + 1] = e
    /\ \A i \in 1..k : t[i] = s[i]
    /\ \A i \in (k + 1)..Len(s) : t[i + 1] = s[i]

LEMMA InsertAtPositions ==
    ASSUME NEW T, NEW s \in Seq(T), NEW k \in 1..Len(s), NEW e \in T
    PROVE  /\ InsertAt(s, k + 1, e) \in Seq(T)
           /\ Inserted(s, k, e, InsertAt(s, k + 1, e))
<1> DEFINE a == SubSeq(s, 1, k)
           c == SubSeq(s, k + 1, Len(s))
           t == InsertAt(s, k + 1, e)
<1>1. a \in Seq(T) /\ Len(a) = k /\ \A i \in 1..k : a[i] = s[i]
  OBVIOUS
<1>2. /\ c \in Seq(T)
      /\ Len(c) = Len(s) - k
      /\ \A i \in 1..(Len(s) - k) : c[i] = s[k + i]
  OBVIOUS
<1>3. t = a \o <<e>> \o c
  <2>1. (k + 1) - 1 = k
    OBVIOUS
  <2> QED
    BY <2>1 DEF InsertAt
<1> HIDE DEF a, c, t
<1> DEFINE u == a \o <<e>>
<1>4. u \in Seq(T) /\ Len(u) = k + 1 /\ u[k + 1] = e /\ \A i \in 1..k : u[i] = s[i]
  BY <1>1
<1> HIDE DEF u
<1>5. t = u \o c
  BY <1>3 DEF u
<1>6. t \in Seq(T) /\ Len(t) = Len(s) + 1
  <2>1. Len(u) + Len(c) = Len(s) + 1
    BY <1>2, <1>4
  <2>2. u \in Seq(T) /\ c \in Seq(T)
    BY <1>2, <1>4
  <2>3. u \o c \in Seq(T) /\ Len(u \o c) = Len(u) + Len(c)
    BY <2>2
  <2> QED
    BY <1>5, <2>1, <2>3
<1>7. \A i \in 1..(Len(s) + 1) : t[i] = IF i <= k + 1 THEN u[i] ELSE c[i - (k + 1)]
  <2>1. Len(u) + Len(c) = Len(s) + 1 /\ Len(u) = k + 1
    BY <1>2, <1>4
  <2>2. \A i \in 1..(Len(u) + Len(c)) :
           (u \o c)[i] = IF i <= Len(u) THEN u[i] ELSE c[i - Len(u)]
    BY <1>2, <1>4, ConcatProperties
  <2> QED
    BY <1>5, <2>1, <2>2
<1>8. ASSUME NEW i \in (k + 1)..Len(s) PROVE t[i + 1] = s[i]
  <2>1. t[i + 1] = c[(i + 1) - (k + 1)]
    BY <1>7
  <2>2. (i + 1) - (k + 1) = i - k /\ i - k \in 1..(Len(s) - k) /\ k + (i - k) = i
    OBVIOUS
  <2> QED
    BY <2>1, <2>2, <1>2
<1>9. \A i \in 1..(k + 1) : t[i] = u[i]
  BY <1>7
<1>10. Inserted(s, k, e, t)
  BY <1>4, <1>6, <1>8, <1>9 DEF Inserted
<1> QED
  BY <1>6, <1>10 DEF t
-----------------------------------------------------------------------------
(* A function is flagged and added. *)

(* AddFrom with a node to flag. *)
FlagNode(wl, i) == [wl EXCEPT ![i] = NewWorklistNode(wl[i].called_fn)]

LEMMA FlagKeeps ==
    ASSUME NEW F, NEW wl, IsWorklist(wl, F), NEW k \in DOMAIN wl, NEW i \in DOMAIN wl,
           NEW new, new = FlagNode(wl, i)
    PROVE  /\ Keeps(F, wl, new, k)
           /\ \E j \in LvFlagged(new) : new[j].called_fn = wl[i].called_fn
<1> DEFINE fn == wl[i].called_fn
<1>1. wl \in Seq(WorklistNodes(F)) /\ fn \in F
  BY WorklistType
<1>2. /\ NewWorklistNode(fn) \in WorklistNodes(F)
      /\ NewWorklistNode(fn).called_fn = fn
      /\ NewWorklistNode(fn).process_lv = TRUE
  BY <1>1, NodeType
<1>3. new \in Seq(WorklistNodes(F)) /\ DOMAIN new = DOMAIN wl
  BY <1>1, <1>2 DEF FlagNode
<1>4. \A j \in DOMAIN wl : /\ new[j].called_fn = wl[j].called_fn
                           /\ wl[j].process_lv => new[j].process_lv
  BY <1>1, <1>2 DEF FlagNode
<1>5. i \in LvFlagged(new) /\ new[i].called_fn = fn
  BY <1>1, <1>2, <1>3 DEF LvFlagged, FlagNode
<1>6. IsWorklist(new, F)
  BY <1>3, WorklistType
<1> QED
  BY <1>3, <1>4, <1>5, <1>6 DEF Keeps, LvFlagged

(* AddFrom without one. *)
LEMMA InsertKeeps ==
    ASSUME NEW F, NEW wl, IsWorklist(wl, F), NEW k \in DOMAIN wl, NEW fn \in F,
           NEW new, new = InsertAt(wl, k + 1, NewWorklistNode(fn))
    PROVE  /\ Keeps(F, wl, new, k)
           /\ \E j \in LvFlagged(new) : new[j].called_fn = fn
<1> DEFINE e == NewWorklistNode(fn)
<1>1. wl \in Seq(WorklistNodes(F)) /\ k \in 1..Len(wl) /\ DOMAIN wl = 1..Len(wl)
  BY WorklistType
<1>2. e \in WorklistNodes(F) /\ e.called_fn = fn /\ e.process_lv = TRUE
  BY NodeType
<1> HIDE DEF e
<1>a. new \in Seq(WorklistNodes(F)) /\ Inserted(wl, k, e, new)
  <2>1. new = InsertAt(wl, k + 1, e)
    BY DEF e
  <2>2. InsertAt(wl, k + 1, e) \in Seq(WorklistNodes(F)) /\ Inserted(wl, k, e, InsertAt(wl, k + 1, e))
    BY <1>1, <1>2, InsertAtPositions
  <2> QED
    BY <2>1, <2>2
<1>3. /\ new \in Seq(WorklistNodes(F))
      /\ Len(new) = Len(wl) + 1
      /\ new[k + 1] = e
      /\ \A j \in 1..k : new[j] = wl[j]
      /\ \A j \in (k + 1)..Len(wl) : new[j + 1] = wl[j]
  BY <1>a DEF Inserted
<1>4. DOMAIN new = 1..(Len(wl) + 1)
  BY <1>3
<1>5. k \in DOMAIN new /\ new[k] = wl[k] /\ k + 1 \in DOMAIN new
  BY <1>1, <1>3, <1>4
<1>6. k + 1 \in LvFlagged(new) /\ new[k + 1].called_fn = fn
  BY <1>2, <1>3, <1>5 DEF LvFlagged
<1>7. ASSUME NEW j \in LvFlagged(wl)
      PROVE  \E l \in LvFlagged(new) : new[l].called_fn = wl[j].called_fn
  <2>1. j \in 1..Len(wl) /\ wl[j].process_lv
    BY <1>1 DEF LvFlagged
  <2>2. CASE j <= k
    <3>1. j \in DOMAIN new /\ new[j] = wl[j]
      BY <1>1, <1>3, <1>4, <2>1, <2>2
    <3> QED
      BY <2>1, <3>1 DEF LvFlagged
  <2>3. CASE j > k
    <3>1. j + 1 \in DOMAIN new /\ new[j + 1] = wl[j]
      BY <1>1, <1>3, <1>4, <2>1, <2>3
    <3> QED
      BY <2>1, <3>1 DEF LvFlagged
  <2> QED
    BY <1>1, <2>1, <2>2, <2>3
<1>8. IsWorklist(new, F)
  BY <1>3, WorklistType
<1>9. ASSUME NEW j \in DOMAIN wl
      PROVE  \E l \in DOMAIN new : new[l].called_fn = wl[j].called_fn
  <2>1. CASE j <= k
    BY <1>1, <1>3, <1>4, <2>1
  <2>2. CASE j > k
    <3>1. j + 1 \in DOMAIN new /\ new[j + 1] = wl[j]
      BY <1>1, <1>3, <1>4, <2>2
    <3> QED
      BY <3>1
  <2> QED
    BY <1>1, <2>1, <2>2
<1> QED
  BY <1>5, <1>6, <1>7, <1>8, <1>9 DEF Keeps

LEMMA AddToFnWorklistKeeps ==
    ASSUME NEW F, NEW wl, IsWorklist(wl, F), NEW k \in DOMAIN wl, NEW fn \in F,
           NEW new, new = AddToFnWorklist(wl, k, fn)
    PROVE  /\ Keeps(F, wl, new, k)
           /\ \E j \in LvFlagged(new) : new[j].called_fn = fn
<1> DEFINE P == {j \in DOMAIN wl : j >= k /\ wl[j].called_fn = fn}
<1>1. P \in SUBSET (Nat \ {0})
  BY DEF IsWorklist
<1>2. CASE HasNodeFrom(wl, k, fn)
  <2>1. P # {}
    BY <1>2 DEF HasNodeFrom
  <2>2. FirstOf(P) \in P
    BY <1>1, <2>1, FirstOfIsFirst
  <2>3. PICK i \in DOMAIN wl : i = FirstOf(P) /\ wl[i].called_fn = fn
    BY <2>2
  <2>4. new = FlagNode(wl, i)
    BY <1>2, <2>3 DEF FlagNode, AddToFnWorklist, AddFrom
  <2>5. Keeps(F, wl, new, k) /\ \E j \in LvFlagged(new) : new[j].called_fn = wl[i].called_fn
    BY <2>4, FlagKeeps
  <2> QED
    BY <2>3, <2>5
<1>3. CASE ~HasNodeFrom(wl, k, fn)
  <2>1. new = InsertAt(wl, k + 1, NewWorklistNode(fn))
    BY <1>3 DEF AddToFnWorklist, AddFrom
  <2> QED
    BY <2>1, InsertKeeps
<1> QED
  BY <1>2, <1>3

(* Flagging the callers keeps every flag and the order of the list. *)
LEMMA FlagFirstKeeps ==
    ASSUME NEW F, NEW wl, IsWorklist(wl, F), NEW fns \in SUBSET F,
           NEW new, new = FlagFirst(wl, fns)
    PROVE  /\ IsWorklist(new, F)
           /\ DOMAIN new = DOMAIN wl
           /\ \A i \in DOMAIN wl : new[i].called_fn = wl[i].called_fn
           /\ LvFlagged(wl) \subseteq LvFlagged(new)
           /\ \A fn \in fns : HasNodeFrom(wl, 1, fn) =>
                 \E j \in LvFlagged(new) : new[j].called_fn = fn
<1>1. /\ wl \in Seq(WorklistNodes(F))
      /\ DOMAIN wl = 1..Len(wl)
      /\ \A i \in DOMAIN wl : wl[i] \in WorklistNodes(F) /\ wl[i].called_fn \in F
  BY WorklistType
<1>2. \A fn \in F : /\ NewWorklistNode(fn) \in WorklistNodes(F)
                     /\ NewWorklistNode(fn).called_fn = fn
                     /\ NewWorklistNode(fn).process_lv = TRUE
  BY NodeType
<1>3. DOMAIN new = DOMAIN wl /\ new \in Seq(WorklistNodes(F))
  <2>1. \A i \in 1..Len(wl) : new[i] \in WorklistNodes(F)
    BY <1>1, <1>2 DEF FlagFirst
  <2>2. new = [i \in 1..Len(wl) |-> new[i]]
    BY <1>1 DEF FlagFirst
  <2> QED
    BY <1>1, <2>1, <2>2
<1>4. \A i \in DOMAIN wl : new[i].called_fn = wl[i].called_fn
  BY <1>1, <1>2 DEF FlagFirst
<1>5. \A i \in DOMAIN wl : wl[i].process_lv => new[i].process_lv
  BY <1>1, <1>2 DEF FlagFirst
<1>6. ASSUME NEW fn \in fns, HasNodeFrom(wl, 1, fn)
      PROVE  \E j \in LvFlagged(new) : new[j].called_fn = fn
  <2> DEFINE P == {j \in DOMAIN wl : wl[j].called_fn = fn}
  <2>1. P # {} /\ P \in SUBSET (Nat \ {0})
    BY <1>1, <1>6 DEF HasNodeFrom
  <2>2. FirstOf(P) \in P /\ \A y \in P : FirstOf(P) <= y
    BY <2>1, FirstOfIsFirst
  <2>3. PICK j \in DOMAIN wl : wl[j].called_fn = fn /\ \A y \in P : j <= y
    BY <2>2
  <2>4. \A y \in 1..(j - 1) : wl[y].called_fn # fn
    BY <1>1, <2>3
  <2>5. new[j] = NewWorklistNode(fn)
    BY <2>3, <2>4 DEF FlagFirst
  <2> QED
    BY <1>2, <1>3, <2>3, <2>5 DEF LvFlagged
<1>7. IsWorklist(new, F)
  BY <1>3, WorklistType
<1> QED
  BY <1>3, <1>4, <1>5, <1>6, <1>7 DEF LvFlagged

(* Flagging one more caller that is on the list. *)
LEMMA FlagOneMore ==
    ASSUME NEW F, NEW wl, IsWorklist(wl, F), NEW k, NEW fns \in SUBSET F,
           NEW fn \in F, HasNodeFrom(wl, 1, fn)
    PROVE  AddToFnWorklist1(FlagFirst(wl, fns), k, fn) = FlagFirst(wl, fns \cup {fn})
<1> DEFINE x == FlagFirst(wl, fns)
           y == FlagFirst(wl, fns \cup {fn})
           P == {j \in DOMAIN x : j >= 1 /\ x[j].called_fn = fn}
           i == FirstOf(P)
<1>1. DOMAIN wl = 1..Len(wl) /\ Len(wl) \in Nat
  <2>1. wl \in Seq(WorklistNodes(F))
    BY WorklistType
  <2> QED
    BY <2>1
<1>2. DOMAIN x = DOMAIN wl /\ \A j \in DOMAIN wl : x[j].called_fn = wl[j].called_fn
  BY FlagFirstKeeps
<1>3. P \in SUBSET (Nat \ {0}) /\ P # {}
  BY <1>1, <1>2 DEF HasNodeFrom
<1>4. i \in P /\ \A j \in P : i <= j
  BY <1>3, FirstOfIsFirst
<1>5. AddToFnWorklist1(x, k, fn) = [x EXCEPT ![i] = NewWorklistNode(fn)]
  <2>1. HasNodeFrom(x, 1, fn)
    BY <1>3 DEF HasNodeFrom
  <2> HIDE DEF x
  <2> QED
    BY <2>1 DEF AddToFnWorklist1, AddFrom
<1> HIDE DEF i
<1>6. ASSUME NEW j \in DOMAIN wl
      PROVE  [x EXCEPT ![i] = NewWorklistNode(fn)][j] = y[j]
  <2>1. CASE j = i
    <3>1. wl[j].called_fn = fn /\ \A m \in 1..(j - 1) : wl[m].called_fn # fn
      BY <1>1, <1>2, <1>4, <2>1
    <3> QED
      BY <1>2, <2>1, <3>1 DEF FlagFirst
  <2>2. CASE j # i /\ wl[j].called_fn = fn
    <3>1. i \in 1..(j - 1) /\ wl[i].called_fn = wl[j].called_fn
      BY <1>1, <1>2, <1>4, <2>2
    <3>2. x[j] = wl[j] /\ y[j] = wl[j]
      BY <3>1 DEF FlagFirst
    <3> QED
      BY <1>2, <2>2, <3>2
  <2>3. CASE j # i /\ wl[j].called_fn # fn
    BY <1>2, <2>3 DEF FlagFirst
  <2> QED
    BY <2>1, <2>2, <2>3
<1>7. [x EXCEPT ![i] = NewWorklistNode(fn)] = y
  BY <1>2, <1>6 DEF FlagFirst
<1> QED
  BY <1>5, <1>7

LEMMA FlagNone ==
    ASSUME NEW F, NEW wl, IsWorklist(wl, F)
    PROVE  FlagFirst(wl, {}) = wl
<1>1. wl \in Seq(WorklistNodes(F))
  BY WorklistType
<1>2. wl = [i \in DOMAIN wl |-> wl[i]]
  BY <1>1
<1> QED
  BY <1>2 DEF FlagFirst

(* Leaving a node, flagged or not. *)
LEMMA LeavingType ==
    ASSUME NEW F, NEW wl, IsWorklist(wl, F), NEW k \in DOMAIN wl
    PROVE  /\ IsWorklist(LeaveLvNode(wl, k), F)
           /\ DOMAIN LeaveLvNode(wl, k) = DOMAIN wl
           /\ Len(LeaveLvNode(wl, k)) = Len(wl)
           /\ \A i \in DOMAIN wl : LeaveLvNode(wl, k)[i].called_fn = wl[i].called_fn
           /\ PrevNodeFromLvWorklist(wl, k) \in 0..Len(wl)
<1> DEFINE new == LeaveLvNode(wl, k)
           P   == {i \in LvFlagged(wl) : i < k}
<1>1. /\ wl \in Seq(WorklistNodes(F))
      /\ DOMAIN wl = 1..Len(wl)
      /\ \A i \in DOMAIN wl : wl[i] \in WorklistNodes(F)
  BY WorklistType
<1>2. /\ DOMAIN new = DOMAIN wl
      /\ \A i \in DOMAIN wl :
            new[i] \in WorklistNodes(F) /\ new[i].called_fn = wl[i].called_fn
  BY <1>1 DEF LeaveLvNode, WorklistNodes
<1>3. new \in Seq(WorklistNodes(F)) /\ Len(new) = Len(wl)
  <2>1. new = [i \in 1..Len(wl) |-> new[i]]
    BY <1>1 DEF LeaveLvNode
  <2>2. \A i \in 1..Len(wl) : new[i] \in WorklistNodes(F)
    BY <1>1, <1>2
  <2>3. Len(wl) \in Nat
    BY <1>1
  <2> QED
    BY <2>1, <2>2, <2>3
<1>4. IsWorklist(new, F)
  BY <1>3, WorklistType
<1>5. P \in SUBSET (1..Len(wl)) /\ Len(wl) \in Nat
  BY <1>1 DEF LvFlagged
<1>6. LastOf(P) \in 0..Len(wl)
  <2>1. (P = {} <=> LastOf(P) = 0) /\ (P # {} => LastOf(P) \in P)
    BY <1>5, LastOfIsLast
  <2> QED
    BY <1>5, <2>1
<1> QED
  BY <1>2, <1>3, <1>4, <1>6 DEF PrevNodeFromLvWorklist

(* Leaving the last flagged node clears its flag only, and comes to a      *)
(* flagged node unless there is none.                                      *)
LEMMA LeavingKeeps ==
    ASSUME NEW F, NEW wl, IsWorklist(wl, F), NEW k \in LvFlagged(wl),
           LvCalleeNodesProcessed(wl, k),
           NEW new, new = LeaveLvNode(wl, k),
           NEW l, l = PrevNodeFromLvWorklist(wl, k)
    PROVE  /\ IsWorklist(new, F)
           /\ LvFlagged(new) = LvFlagged(wl) \ {k}
           /\ \A i \in DOMAIN wl : new[i].called_fn = wl[i].called_fn
           /\ l \in 0..Len(new)
           /\ l # 0 => l \in LvFlagged(new)
           /\ l = 0 => LvFlagged(new) = {}
<1>1. /\ wl \in Seq(WorklistNodes(F))
      /\ DOMAIN wl = 1..Len(wl)
      /\ \A i \in DOMAIN wl : wl[i] \in WorklistNodes(F)
      /\ k \in DOMAIN wl
  BY WorklistType DEF LvFlagged
<1>2. /\ DOMAIN new = DOMAIN wl
      /\ \A i \in DOMAIN wl :
            /\ new[i] \in WorklistNodes(F)
            /\ new[i].called_fn = wl[i].called_fn
            /\ new[i].process_lv = IF i = k THEN FALSE ELSE wl[i].process_lv
  BY <1>1 DEF LeaveLvNode, WorklistNodes
<1>3. new \in Seq(WorklistNodes(F)) /\ Len(new) = Len(wl)
  <2>1. new = [i \in 1..Len(wl) |-> new[i]]
    BY <1>1 DEF LeaveLvNode
  <2>2. \A i \in 1..Len(wl) : new[i] \in WorklistNodes(F)
    BY <1>1, <1>2
  <2>3. Len(wl) \in Nat
    BY <1>1
  <2> QED
    BY <2>1, <2>2, <2>3
<1>4. LvFlagged(new) = LvFlagged(wl) \ {k}
  BY <1>1, <1>2 DEF LvFlagged
<1> DEFINE P == {i \in LvFlagged(wl) : i < k}
<1>5. P \in SUBSET (1..Len(wl)) /\ P = LvFlagged(new)
  <2>1. \A i \in LvFlagged(wl) : i \in 1..Len(wl) /\ i <= k
    BY <1>1 DEF LvFlagged, LvCalleeNodesProcessed
  <2> QED
    BY <1>1, <1>4, <2>1
<1>6. l = LastOf(P) /\ Len(wl) \in Nat
  BY <1>1 DEF PrevNodeFromLvWorklist
<1>7. (P = {} <=> l = 0) /\ (P # {} => l \in P)
  BY <1>5, <1>6, LastOfIsLast
<1> HIDE DEF P
<1>8. l \in 0..Len(new)
  <2>1. l = 0 \/ l \in 1..Len(wl)
    BY <1>5, <1>7
  <2> QED
    BY <1>3, <1>6, <2>1
<1>9. IsWorklist(new, F)
  BY <1>3, WorklistType
<1> QED
  BY <1>2, <1>4, <1>5, <1>7, <1>8, <1>9
=============================================================================

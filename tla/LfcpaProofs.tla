---------------------------- MODULE LfcpaProofs -----------------------------
(***************************************************************************)
(* The analysis of one procedure, for every set of programs: its types,    *)
(* what liveness and points-to information agree on when it returns, what  *)
(* crosses the edges of the control flow graph, that OUT is the transfer   *)
(* of IN, that the blocks preprocess_cfg makes see at IN what they         *)
(* dereference, and, for the programs of Supported, that the result is     *)
(* sound for the uses of pointers.                                         *)
(***************************************************************************)
EXTENDS Lfcpa, Preprocess, TransferProofs, FiniteSetTheorems, SequenceTheorems

-----------------------------------------------------------------------------
(* The control flow graph. *)

LEMMA Cfg ==
    ASSUME prog \in Programs
    PROVE  /\ Len(prog.code) \in Nat \ {0}
           /\ Blocks = 1..Len(prog.code)
           /\ Start \in Blocks /\ End \in Blocks
           /\ \A b \in Blocks : prog.code[b] \in Seq(Item)
           /\ prog.succ \in [Blocks -> SUBSET Blocks]
           /\ PredsFn \in [Blocks -> SUBSET Blocks]
           /\ \A b \in Blocks : Preds(b) \subseteq Blocks /\ Succs(b) \subseteq Blocks
<1>1. IsProgram(prog)
  BY ProgramsAssumption
<1>2. prog.code \in Seq(Seq(Item)) /\ prog.code # <<>>
  BY <1>1 DEF IsProgram
<1>3. Len(prog.code) \in Nat \ {0} /\ Blocks = 1..Len(prog.code)
  BY <1>2 DEF Blocks
<1>4. \A b \in Blocks : prog.code[b] \in Seq(Item)
  BY <1>2 DEF Blocks
<1>5. prog.succ \in [Blocks -> SUBSET Blocks]
  BY <1>1 DEF IsProgram, Blocks
<1>6. Start \in Blocks /\ End \in Blocks
  BY <1>3 DEF Start, End
<1>7. \A b \in Blocks : Preds(b) \subseteq Blocks /\ Succs(b) \subseteq Blocks
  BY <1>5 DEF Preds, Succs
<1>8. PredsFn \in [Blocks -> SUBSET Blocks]
  BY <1>7 DEF PredsFn
<1> QED
  BY <1>3, <1>4, <1>5, <1>6, <1>7, <1>8

(* The program does not change, and with it nothing that is about it only. *)
LEMMA SameProgram ==
    ASSUME prog' = prog
    PROVE  /\ Blocks' = Blocks /\ End' = End /\ Lists' = Lists
           /\ \A b : HasConstraints(b)' = HasConstraints(b)
           /\ \A b : SharedList(b)' = SharedList(b)
           /\ \A b : OutOf(b)' = OutOf(b)
           /\ \A b : LvBypass(b)' = LvBypass(b)
           /\ \A b : PtaBypass(b)' = PtaBypass(b)
           /\ \A b : LvPreds(b)' = LvPreds(b)
           /\ \A b : PtaSuccs(b)' = PtaSuccs(b)
<1>1. Blocks' = Blocks /\ End' = End /\ Lists' = Lists
  BY DEF Blocks, End, Lists
<1>2. \A b : Succs(b)' = Succs(b) /\ Preds(b)' = Preds(b)
  BY DEF Succs, Preds, Blocks
<1>3. \A b : HasConstraints(b)' = HasConstraints(b)
  BY DEF HasConstraints
<1>4. \A b : SharedList(b)' = SharedList(b) /\ OutOf(b)' = OutOf(b)
  BY <1>1, <1>3 DEF SharedList, OutOf, InOf
<1>5. \A b : LvBypass(b)' = LvBypass(b) /\ PtaBypass(b)' = PtaBypass(b)
  BY <1>1, <1>2, <1>3 DEF LvBypass, PtaBypass
<1>6. PredsFn' = PredsFn
  BY <1>1, <1>2 DEF PredsFn
<1>7. \A b : LvPreds(b)' = LvPreds(b) /\ PtaSuccs(b)' = PtaSuccs(b)
  BY <1>1, <1>2, <1>5, <1>6 DEF LvPreds, PtaSuccs
<1> QED
  BY <1>1, <1>3, <1>4, <1>5, <1>7
-----------------------------------------------------------------------------
(* What the passes look through. *)

(* f is the sets of blocks reached in so many rounds, and the last is what *)
(* Through is about.                                                       *)
IsReach(f, n, S, next, bypass) ==
    /\ f[0] = S
    /\ \A i \in 1..n : f[i] = Expand(f[i - 1], next, bypass)
    /\ \A i \in 0..n : f[i] \in SUBSET Blocks
    /\ Through(S, next, bypass) = f[n] \ bypass

Rounds == Cardinality(Blocks)

LEMMA RoundsType ==
    ASSUME prog \in Programs
    PROVE  Rounds \in Nat
<1>1. Blocks = 1..Len(prog.code) /\ Len(prog.code) \in Nat
  BY Cfg
<1>2. IsFiniteSet(Blocks)
  BY <1>1, FS_Interval
<1> QED
  BY <1>2, FS_CardinalityType DEF Rounds

LEMMA ReachRun ==
    ASSUME prog \in Programs, NEW S \in SUBSET Blocks,
           NEW next \in [Blocks -> SUBSET Blocks], NEW bypass
    PROVE  \E f : IsReach(f, Rounds, S, next, bypass)
<1>1. Cardinality(Blocks) \in Nat
  BY RoundsType DEF Rounds
<1>2. HasReach(Blocks, S, next, bypass)
  BY <1>1, ThroughRun
<1>3. PICK f : Reaches(f, Blocks, S, next, bypass)
  BY <1>2 DEF HasReach
<1>4. IsReach(f, Rounds, S, next, bypass)
  BY <1>3 DEF Reaches, IsReach, Rounds
<1> QED
  BY <1>4

LvPass  == {c \in Blocks : LvBypass(c)}
PtaPass == {c \in Blocks : PtaBypass(c)}

LEMMA Neighbours ==
    ASSUME prog \in Programs, NEW b \in Blocks
    PROVE  /\ LvPreds(b) \subseteq Blocks \ LvPass
           /\ PtaSuccs(b) \subseteq Blocks \ PtaPass
<1>1. PICK f : IsReach(f, Rounds, Preds(b), PredsFn, LvPass)
  BY Cfg, ReachRun
<1>2. PICK g : IsReach(g, Rounds, Succs(b), prog.succ, PtaPass)
  BY Cfg, ReachRun
<1>3. Rounds \in 0..Rounds
  BY RoundsType
<1> QED
  BY <1>1, <1>2, <1>3 DEF IsReach, LvPreds, PtaSuccs, LvPass, PtaPass

(* What liveness reaches from a block that it looks through, it reaches    *)
(* from the successors of the block, one round later.                      *)
LEMMA ReachShift ==
    ASSUME prog \in Programs, NEW d \in Blocks, NEW e \in Preds(d) \cap LvPass,
           NEW f, IsReach(f, Rounds, Preds(d), PredsFn, LvPass),
           NEW g, IsReach(g, Rounds, Preds(e), PredsFn, LvPass)
    PROVE  \A i \in 1..Rounds : g[i - 1] \subseteq f[i]
<1> DEFINE T == {i \in 0..Rounds : i > 0 => g[i - 1] \subseteq f[i]}
<1>1. Rounds \in Nat
  BY RoundsType
<1>2. e \in Blocks /\ PredsFn[e] = Preds(e)
  BY DEF LvPass, PredsFn
<1>3. 0 \in T
  BY <1>1
<1>4. ASSUME NEW i \in 1..Rounds, i - 1 \in T
      PROVE  i \in T
  <2>1. CASE i = 1
    <3>1. f[1] = Expand(f[0], PredsFn, LvPass) /\ f[0] = Preds(d) /\ g[0] = Preds(e)
      BY <2>1 DEF IsReach
    <3>2. Preds(e) \subseteq f[1]
      BY <1>2, <3>1 DEF Expand
    <3> QED
      BY <1>1, <2>1, <3>1, <3>2
  <2>2. CASE i > 1
    <3>1. i - 1 \in 1..Rounds /\ i - 1 > 0
      BY <1>1, <2>2
    <3>2. g[(i - 1) - 1] \subseteq f[i - 1]
      BY <1>4, <3>1
    <3>3. f[i] = Expand(f[i - 1], PredsFn, LvPass)
          /\ g[i - 1] = Expand(g[(i - 1) - 1], PredsFn, LvPass)
      BY <3>1 DEF IsReach
    <3>4. g[i - 1] \subseteq f[i]
      BY <3>2, <3>3 DEF Expand
    <3> QED
      BY <3>4
  <2> QED
    BY <2>1, <2>2
<1> HIDE DEF T
<1>5. 0..Rounds \subseteq T
  BY <1>1, <1>3, <1>4, UpTo
<1>6. \A i \in 1..Rounds : i \in T /\ i > 0
  BY <1>1, <1>5
<1> QED
  BY <1>6 DEF T

(* Where points-to information goes, liveness comes from.                  *)
LEMMA BothWays ==
    ASSUME prog \in Programs, NoEntryLoop, BypassAgree,
           NEW b \in Blocks, ~LvBypass(b), NEW c \in PtaSuccs(b)
    PROVE  b \in LvPreds(c)
<1> DEFINE G == [d \in Blocks |-> CHOOSE g : IsReach(g, Rounds, Preds(d), PredsFn, LvPass)]
<1>1. \A d \in Blocks : IsReach(G[d], Rounds, Preds(d), PredsFn, LvPass)
  <2> TAKE d \in Blocks
  <2>1. \E g : IsReach(g, Rounds, Preds(d), PredsFn, LvPass)
    BY Cfg, ReachRun
  <2> QED
    BY <2>1
<1> HIDE DEF G
<1>2. PICK f : IsReach(f, Rounds, Succs(b), prog.succ, PtaPass)
  BY Cfg, ReachRun
<1>3. Rounds \in Nat
  BY RoundsType
<1>4. \A i \in 0..Rounds : f[i] \in SUBSET Blocks
  BY <1>2 DEF IsReach
<1> DEFINE T == {i \in 0..Rounds : \A d \in f[i] : Start # d /\ b \in G[d][i]}
<1>5. 0 \in T
  <2>1. f[0] = Succs(b)
    BY <1>2 DEF IsReach
  <2>2. ASSUME NEW d \in Succs(b)
        PROVE  Start # d /\ b \in G[d][0]
    <3>1. d \in Blocks /\ b \in Preds(d)
      BY <1>3, <1>4, <2>1 DEF Preds
    <3>2. G[d][0] = Preds(d)
      BY <1>1, <3>1 DEF IsReach
    <3> QED
      BY <3>1, <3>2 DEF NoEntryLoop
  <2> QED
    BY <1>3, <2>1, <2>2
<1>6. ASSUME NEW i \in 1..Rounds, i - 1 \in T
      PROVE  i \in T
  <2> SUFFICES ASSUME NEW d \in f[i] PROVE Start # d /\ b \in G[d][i]
    OBVIOUS
  <2>0. i - 1 \in 0..Rounds /\ i \in 0..Rounds
    BY <1>3
  <2>1. f[i] = Expand(f[i - 1], prog.succ, PtaPass)
    BY <1>2 DEF IsReach
  <2>2. d \in Blocks
    BY <1>4, <2>0
  <2>3. G[d][i] = Expand(G[d][i - 1], PredsFn, LvPass)
    BY <1>1, <2>2 DEF IsReach
  <2>4. CASE d \in f[i - 1]
    BY <1>6, <2>3, <2>4 DEF Expand
  <2>5. CASE d \notin f[i - 1]
    <3>1. PICK e \in f[i - 1] \cap PtaPass : d \in prog.succ[e]
      BY <2>1, <2>5 DEF Expand
    <3>2. e \in Blocks /\ e # Start /\ b \in G[e][i - 1]
      BY <1>4, <1>6, <2>0, <3>1
    <3>3. e \in LvPass
      BY <3>1, <3>2 DEF BypassAgree, PtaPass, LvPass, PtaBypass
    <3>4. e \in Preds(d)
      BY <3>1, <3>2 DEF Preds, Succs
    <3>5. G[e][i - 1] \subseteq G[d][i]
      BY <1>1, <2>2, <3>2, <3>3, <3>4, ReachShift
    <3> QED
      BY <3>2, <3>4, <3>5 DEF NoEntryLoop
  <2> QED
    BY <2>4, <2>5
<1> HIDE DEF T
<1>7. Rounds \in T
  <2>1. 0..Rounds \subseteq T
    BY <1>3, <1>5, <1>6, UpTo
  <2> QED
    BY <1>3, <2>1
<1>8. c \in f[Rounds] /\ c \in Blocks
  BY <1>2, <1>3, <1>4 DEF IsReach, PtaSuccs, PtaPass
<1>9. b \in G[c][Rounds]
  BY <1>7, <1>8 DEF T
<1>10. LvPreds(c) = G[c][Rounds] \ LvPass
  BY <1>1, <1>8 DEF IsReach, LvPreds, LvPass
<1> QED
  BY <1>9, <1>10 DEF LvPass

(* Nothing is propagated to the start block, or from it backwards.         *)
LEMMA StartIsAlone ==
    ASSUME prog \in Programs, NoEntryLoop
    PROVE  /\ LvPreds(Start) = {}
           /\ \A b \in Blocks : Start \notin PtaSuccs(b)
<1>1. Start \in Blocks
  BY Cfg
<1>2. Rounds \in Nat
  BY RoundsType
<1>3. LvPreds(Start) = {}
  <2>1. PICK f : IsReach(f, Rounds, Preds(Start), PredsFn, LvPass)
    BY <1>1, Cfg, ReachRun
  <2> DEFINE T == {i \in 0..Rounds : f[i] = {}}
  <2>2. 0 \in T
    BY <1>2, <2>1 DEF IsReach, NoEntryLoop
  <2>3. \A i \in 1..Rounds : i - 1 \in T => i \in T
    BY <1>2, <2>1 DEF IsReach, Expand
  <2> HIDE DEF T
  <2>4. 0..Rounds \subseteq T
    BY <1>2, <2>2, <2>3, UpTo
  <2>5. f[Rounds] = {}
    BY <1>2, <2>4 DEF T
  <2> QED
    BY <2>1, <2>5 DEF IsReach, LvPreds, LvPass
<1>4. ASSUME NEW b \in Blocks
      PROVE  Start \notin PtaSuccs(b)
  <2>1. PICK f : IsReach(f, Rounds, Succs(b), prog.succ, PtaPass)
    BY Cfg, ReachRun
  <2>2. \A e \in Blocks : Start \notin prog.succ[e]
    BY DEF NoEntryLoop, Preds, Succs
  <2> DEFINE T == {i \in 0..Rounds : f[i] \in SUBSET (Blocks \ {Start})}
  <2>3. 0 \in T
    BY <1>2, <2>1, <2>2 DEF IsReach, Succs
  <2>4. \A i \in 1..Rounds : i - 1 \in T => i \in T
    <3> SUFFICES ASSUME NEW i \in 1..Rounds, i - 1 \in T PROVE i \in T
      OBVIOUS
    <3>1. i \in 0..Rounds /\ f[i] \in SUBSET Blocks
      BY <1>2, <2>1 DEF IsReach
    <3>2. f[i] = Expand(f[i - 1], prog.succ, PtaPass)
      BY <2>1 DEF IsReach
    <3>3. f[i - 1] \in SUBSET (Blocks \ {Start})
      OBVIOUS
    <3>4. Start \notin f[i]
      BY <2>2, <3>2, <3>3 DEF Expand
    <3> QED
      BY <3>1, <3>4
  <2> HIDE DEF T
  <2>5. 0..Rounds \subseteq T
    BY <1>2, <2>3, <2>4, UpTo
  <2>6. Start \notin f[Rounds]
    BY <1>2, <2>5 DEF T
  <2> QED
    BY <2>1, <2>6 DEF IsReach, PtaSuccs, PtaPass
<1> QED
  BY <1>3, <1>4
-----------------------------------------------------------------------------
(* Lists and contexts. *)

Contexts ==
    [on : BOOLEAN, linfo : SUBSET Var, pinfo : NormalValues, seen : BOOLEAN,
     new_lvdf : BOOLEAN, new_ptadf : BOOLEAN]

Flow(d) ==
    /\ d \in [Lists -> Contexts]
    /\ \A l \in Lists : ~d[l].on => d[l] = NoContext

LEMMA ListNames ==
    /\ \A b \in Blocks : InOf(b) \in Lists /\ OutOf(b) \in Lists
    /\ \A b, c : InOf(b) = InOf(c) => b = c
    /\ \A b, c : OutOf(b) = OutOf(c) => b = c
    /\ \A b, c : InOf(b) = OutOf(c) <=> b = c /\ SharedList(c)
    /\ \A b : SharedList(b) => ~HasConstraints(b) /\ b \notin {Start, End}
BY DEF InOf, OutOf, Lists, SharedList

LEMMA NoContextType == NoContext \in Contexts /\ ~NoContext.on
BY EmptyIsValue, ValueSets DEF Contexts, NoContext

(* All but new_ptadf. *)
SameInfo(c, e) ==
    /\ c.on = e.on
    /\ c.linfo = e.linfo
    /\ c.pinfo = e.pinfo
    /\ c.seen = e.seen
    /\ c.new_lvdf = e.new_lvdf

LEMMA CopyInToOutFacts ==
    ASSUME NEW d, Flow(d), NEW b \in Blocks, ~SharedList(b)
    PROVE  LET e == CopyInToOut(d, b) IN
           /\ Flow(e)
           /\ \A l \in Lists : l \notin {InOf(b), OutOf(b)} => e[l] = d[l]
           /\ SameInfo(d[InOf(b)], e[InOf(b)])
           /\ \/ e[OutOf(b)] = d[OutOf(b)]
              \/ /\ d[InOf(b)].on /\ e[OutOf(b)].on /\ e[OutOf(b)].new_ptadf
                 /\ ~d[OutOf(b)].on => e[OutOf(b)] = d[InOf(b)]
                 /\ d[OutOf(b)].on => /\ e[OutOf(b)].linfo = d[OutOf(b)].linfo
                                      /\ e[OutOf(b)].new_lvdf = d[OutOf(b)].new_lvdf
<1> DEFINE in == d[InOf(b)]
           out == d[OutOf(b)]
           e == CopyInToOut(d, b)
<1>1. InOf(b) \in Lists /\ OutOf(b) \in Lists /\ InOf(b) # OutOf(b)
  BY ListNames
<1>2. in \in Contexts /\ out \in Contexts
  BY <1>1 DEF Flow
<1>3. CASE ~(in.on /\ in.new_ptadf)
  BY <1>3 DEF CopyInToOut, SameInfo
<1>4. CASE in.on /\ in.new_ptadf
  <2> DEFINE new == IF out.on
                    THEN [out EXCEPT !.pinfo = in.pinfo, !.seen = in.seen, !.new_ptadf = TRUE]
                    ELSE in
  <2>1. new \in Contexts /\ new.on /\ new.new_ptadf
    BY <1>2, <1>4 DEF Contexts
  <2>2. (~out.on => new = in) /\ (out.on => new.linfo = out.linfo /\ new.new_lvdf = out.new_lvdf)
    BY <1>2 DEF Contexts
  <2>3. e = [d EXCEPT ![OutOf(b)] = new, ![InOf(b)].new_ptadf = FALSE]
    BY <1>4 DEF CopyInToOut
  <2> HIDE DEF new
  <2>4. /\ e[OutOf(b)] = new
        /\ e[InOf(b)] = [in EXCEPT !.new_ptadf = FALSE]
        /\ \A l \in Lists : l \notin {InOf(b), OutOf(b)} => e[l] = d[l]
        /\ e = [l \in Lists |-> e[l]]
    BY <1>1, <2>3 DEF Flow
  <2>5. e[InOf(b)] \in Contexts /\ SameInfo(in, e[InOf(b)])
    BY <1>2, <2>4 DEF Contexts, SameInfo
  <2> HIDE DEF e
  <2>6. Flow(e)
    <3>1. \A l \in Lists : e[l] \in Contexts
      BY <2>1, <2>4, <2>5 DEF Flow
    <3>2. e \in [Lists -> Contexts]
      BY <2>4, <3>1
    <3>3. \A l \in Lists : ~e[l].on => e[l] = NoContext
      BY <1>4, <2>1, <2>4, <2>5 DEF Flow, SameInfo
    <3> QED
      BY <3>2, <3>3 DEF Flow
  <2> QED
    BY <1>4, <2>1, <2>2, <2>4, <2>5, <2>6 DEF e
<1> QED
  BY <1>3, <1>4

(* What a block makes of OUT before it propagates it. *)
Moved(b) == FindPointsToPair(IF SharedList(b) THEN df ELSE CopyInToOut(df, b), b)

LEMMA MovedFacts ==
    ASSUME prog \in Programs, Flow(df), NEW b \in Blocks
    PROVE  /\ Flow(Moved(b))
           /\ \A l \in Lists : l \notin {InOf(b), OutOf(b)} => Moved(b)[l] = df[l]
           /\ SharedList(b) => Moved(b) = df
           /\ ~SharedList(b) => SameInfo(df[InOf(b)], Moved(b)[InOf(b)])
           /\ \/ Moved(b)[OutOf(b)] = df[OutOf(b)]
              \/ /\ Moved(b)[OutOf(b)].on /\ Moved(b)[OutOf(b)].new_ptadf
                 /\ df[OutOf(b)].on \/ df[InOf(b)].on
                 /\ df[OutOf(b)].on =>
                       /\ Moved(b)[OutOf(b)].linfo = df[OutOf(b)].linfo
                       /\ Moved(b)[OutOf(b)].new_lvdf = df[OutOf(b)].new_lvdf
<1> DEFINE d == IF SharedList(b) THEN df ELSE CopyInToOut(df, b)
           out == d[OutOf(b)]
<1>1. InOf(b) \in Lists /\ OutOf(b) \in Lists
      /\ (SharedList(b) => ~HasConstraints(b)) /\ (~SharedList(b) => InOf(b) # OutOf(b))
  BY ListNames
<1>2. CASE ~(HasConstraints(b) /\ out.on /\ out.new_ptadf)
  <2>1. Moved(b) = d
    BY <1>2 DEF Moved, FindPointsToPair
  <2>2. CASE SharedList(b)
    BY <2>1, <2>2
  <2>3. CASE ~SharedList(b)
    BY <2>1, <2>3, CopyInToOutFacts
  <2> QED
    BY <2>2, <2>3
<1>3. CASE HasConstraints(b) /\ out.on /\ out.new_ptadf
  <2>1. ~SharedList(b)
    BY <1>1, <1>3
  <2>2. /\ Flow(d)
        /\ \A l \in Lists : l \notin {InOf(b), OutOf(b)} => d[l] = df[l]
        /\ SameInfo(df[InOf(b)], d[InOf(b)])
        /\ \/ out = df[OutOf(b)]
           \/ /\ df[InOf(b)].on
              /\ ~df[OutOf(b)].on => out = df[InOf(b)]
              /\ df[OutOf(b)].on => /\ out.linfo = df[OutOf(b)].linfo
                                    /\ out.new_lvdf = df[OutOf(b)].new_lvdf
    BY <2>1, CopyInToOutFacts
  <2> HIDE DEF d
  <2>3. out \in Contexts
    BY <1>1, <2>2 DEF Flow
  <2> DEFINE new == [out EXCEPT !.pinfo = BlockOut(out.pinfo, prog.code[b]), !.seen = TRUE]
  <2>4. BlockOut(out.pinfo, prog.code[b]) \in NormalValues
    BY <2>3, Cfg, BlockOutValue DEF Contexts
  <2>5. /\ new \in Contexts /\ new.on /\ new.new_ptadf
        /\ new.linfo = out.linfo /\ new.new_lvdf = out.new_lvdf
    BY <1>3, <2>3, <2>4 DEF Contexts
  <2>6. Moved(b) = [d EXCEPT ![OutOf(b)] = new]
    BY <1>3, <2>2, <2>3 DEF Moved, FindPointsToPair, Flow, d
  <2> HIDE DEF new
  <2>7. /\ Moved(b)[OutOf(b)] = new
        /\ \A l \in Lists : l # OutOf(b) => Moved(b)[l] = d[l]
        /\ Moved(b) \in [Lists -> Contexts]
    BY <1>1, <2>2, <2>5, <2>6 DEF Flow
  <2>8. Flow(Moved(b))
    BY <2>2, <2>5, <2>7 DEF Flow
  <2>9. SameInfo(df[InOf(b)], Moved(b)[InOf(b)])
    BY <1>1, <2>1, <2>2, <2>7
  <2>10. df[OutOf(b)].on \/ df[InOf(b)].on
    BY <1>3, <2>2
  <2> QED
    BY <1>1, <2>1, <2>2, <2>5, <2>7, <2>8, <2>9, <2>10
<1> QED
  BY <1>2, <1>3
(* What arrives at IN of a successor. *)
LEMMA ArriveFacts ==
    ASSUME NEW out \in Contexts, out.on, NEW in \in Contexts
    PROVE  LET a == Arrive(out, in) IN
           /\ a \in Contexts /\ a.on /\ a.seen
           /\ in.on => /\ a.linfo = in.linfo
                       /\ a.new_lvdf = in.new_lvdf
                       /\ AtLeast(in.pinfo, a.pinfo)
                       /\ DOMAIN in.pinfo \subseteq in.linfo => DOMAIN a.pinfo \subseteq a.linfo
           /\ ~in.on => /\ a.linfo = out.linfo
                        /\ a.new_lvdf = out.new_lvdf
                        /\ DOMAIN a.pinfo \subseteq a.linfo
           /\ AtLeast(CalculateActualOut(out, a), a.pinfo)
           /\ out.new_ptadf /\ a # in => a.new_ptadf
<1> DEFINE new  == CalculateActualOut(out, in)
           conf == MergePointsTo(in.pinfo, new)
           a    == Arrive(out, in)
           both == IF in.on THEN out.linfo \cap in.linfo ELSE out.linfo
<1>1. new \in NormalValues /\ DOMAIN new \subseteq both
  BY RestrictValue DEF CalculateActualOut, Contexts
<1>2. conf \in NormalValues /\ DOMAIN conf = DOMAIN in.pinfo \cup DOMAIN new
      /\ AtLeast(in.pinfo, conf) /\ AtLeast(new, conf)
  BY <1>1, MergeValue DEF Contexts
<1>3. new = RestrictTo(out.pinfo, both)
  BY DEF CalculateActualOut
<1>4. AtLeast(new, new) /\ AtLeast(in.pinfo, in.pinfo)
  BY AtLeastOrder
<1>5. CASE ~in.on
  <2>1. a = [out EXCEPT !.pinfo = new, !.seen = TRUE]
    BY <1>5 DEF Arrive
  <2> HIDE DEF a, new, conf
  <2>2. /\ a \in Contexts /\ a.on /\ a.seen /\ a.linfo = out.linfo /\ a.pinfo = new
        /\ a.new_lvdf = out.new_lvdf /\ a.new_ptadf = out.new_ptadf
    BY <1>1, <2>1 DEF Contexts
  <2>3. CalculateActualOut(out, a) = new
    <3>1. out.linfo \cap a.linfo = both
      BY <1>5, <2>2
    <3> QED
      BY <1>3, <2>2, <3>1 DEF CalculateActualOut
  <2> QED
    BY <1>1, <1>4, <1>5, <2>2, <2>3 DEF a
<1>6. CASE in.on /\ in.seen /\ conf = in.pinfo
  <2>1. a = in
    BY <1>6 DEF Arrive
  <2>2. CalculateActualOut(out, a) = new
    BY <2>1
  <2> HIDE DEF a, new, conf
  <2> QED
    BY <1>2, <1>4, <1>6, <2>1, <2>2 DEF a
<1>7. CASE in.on /\ ~(in.seen /\ conf = in.pinfo)
  <2>1. a = [in EXCEPT !.pinfo = conf, !.seen = TRUE, !.new_ptadf = TRUE]
    BY <1>7 DEF Arrive
  <2> HIDE DEF a, new, conf
  <2>2. /\ a \in Contexts /\ a.on /\ a.seen /\ a.linfo = in.linfo /\ a.pinfo = conf
        /\ a.new_lvdf = in.new_lvdf /\ a.new_ptadf = TRUE
    BY <1>2, <1>7, <2>1 DEF Contexts
  <2>3. CalculateActualOut(out, a) = new
    BY <1>3, <1>7, <2>2 DEF CalculateActualOut
  <2> QED
    BY <1>1, <1>2, <1>7, <2>2, <2>3 DEF a
<1> QED
  BY <1>5, <1>6, <1>7

Changed(b) == ChangedSuccs(Moved(b), b)

(* The step of the points-to pass at a block, list by list. *)
LEMMA PtaIntraStep ==
    ASSUME prog \in Programs, Flow(df), NEW b \in Blocks, PtaIntraBlock(b)
    PROVE  /\ Flow(df')
           /\ Changed(b) \subseteq PtaSuccs(b)
           /\ Changed(b) # {} => Moved(b)[OutOf(b)].on /\ Moved(b)[OutOf(b)].new_ptadf
           /\ \A c \in Blocks :
                 /\ c \notin Changed(b) => SameInfo(df'[InOf(c)], Moved(b)[InOf(c)])
                 /\ c \in Changed(b) =>
                       /\ SameInfo(df'[InOf(c)], Arrive(Moved(b)[OutOf(b)], Moved(b)[InOf(c)]))
                       /\ Arrive(Moved(b)[OutOf(b)], Moved(b)[InOf(c)]) # Moved(b)[InOf(c)]
                 /\ ~SharedList(c) =>
                       SameInfo(df'[OutOf(c)], Moved(b)[OutOf(c)])
                 /\ ~SharedList(c) /\ c # b =>
                       df'[OutOf(c)] = df[OutOf(c)]
                 /\ ~SharedList(c) =>
                       df'[InOf(c)] = IF c \in Changed(b)
                                      THEN Arrive(Moved(b)[OutOf(b)], Moved(b)[InOf(c)])
                                      ELSE Moved(b)[InOf(c)]
           /\ ~df'[OutOf(b)].new_ptadf
           /\ \A c \in Blocks : c # b /\ SharedList(c) =>
                 df'[OutOf(c)] = IF c \in Changed(b)
                                 THEN Arrive(Moved(b)[OutOf(b)], df[OutOf(c)])
                                 ELSE df[OutOf(c)]
           /\ process_pta' = (process_pta \ {b}) \cup Changed(b)
           /\ process_lv' = process_lv \cup {c \in Changed(b) : HasDeref(c)}
           /\ \/ phase' = "lv" /\ recompute' = TRUE
              \/ /\ UNCHANGED <<phase, recompute>>
                 /\ \A c \in Changed(b) : ~HasDeref(c)
<1> DEFINE d == Moved(b)
           out == d[OutOf(b)]
           C == Changed(b)
           v(l) == IF \E c \in C : l = InOf(c) THEN Arrive(out, d[l]) ELSE d[l]
           e(l) == IF l = OutOf(b) THEN [v(l) EXCEPT !.new_ptadf = FALSE] ELSE v(l)
<1>1. /\ Flow(d)
      /\ \A l \in Lists : l \notin {InOf(b), OutOf(b)} => d[l] = df[l]
  BY MovedFacts
<1>2. /\ df' = [PropagatePointsTo(d, b, C) EXCEPT ![OutOf(b)].new_ptadf = FALSE]
      /\ process_pta' = (process_pta \ {b}) \cup C
      /\ process_lv' = process_lv \cup {c \in C : HasDeref(c)}
      /\ IF \E c \in C : HasDeref(c)
         THEN phase' = "lv" /\ recompute' = TRUE
         ELSE UNCHANGED <<phase, recompute>>
  BY DEF PtaIntraBlock, Moved, Changed
<1>3. /\ C \subseteq PtaSuccs(b)
      /\ C # {} => out.on /\ out.new_ptadf
      /\ \A c \in C : Arrive(out, d[InOf(c)]) # d[InOf(c)]
  BY DEF Changed, ChangedSuccs
<1>4. C \subseteq Blocks
  BY <1>3, Neighbours
<1>5. OutOf(b) \in Lists /\ \A c \in Blocks : InOf(c) \in Lists /\ OutOf(c) \in Lists
  BY ListNames
<1> HIDE DEF C
<1>6. \A l \in Lists : df'[l] = e(l)
  <2>1. PropagatePointsTo(d, b, C) = [l \in Lists |-> v(l)]
    BY DEF PropagatePointsTo
  <2> HIDE DEF v
  <2> QED
    BY <1>2, <1>5, <2>1
<1>7. DOMAIN df' = Lists /\ df' = [l \in Lists |-> df'[l]]
  <2>1. PropagatePointsTo(d, b, C) = [l \in Lists |-> v(l)]
    BY DEF PropagatePointsTo
  <2> HIDE DEF v
  <2> QED
    BY <1>2, <2>1
<1>8. \A l \in Lists : v(l) \in Contexts /\ (~v(l).on => v(l) = NoContext)
  <2> TAKE l \in Lists
  <2>1. CASE \E c \in C : l = InOf(c)
    <3>1. out \in Contexts /\ out.on /\ d[l] \in Contexts
      BY <1>1, <1>3, <1>5, <2>1 DEF Flow
    <3>2. Arrive(out, d[l]) \in Contexts /\ Arrive(out, d[l]).on
      BY <3>1, ArriveFacts
    <3> QED
      BY <2>1, <3>2
  <2>2. CASE ~\E c \in C : l = InOf(c)
    BY <1>1, <2>2 DEF Flow
  <2> QED
    BY <2>1, <2>2
<1> HIDE DEF d, v
<1>9. \A l \in Lists : /\ e(l) \in Contexts
                       /\ SameInfo(e(l), v(l))
                       /\ ~e(l).on => e(l) = NoContext
  <2> TAKE l \in Lists
  <2>1. v(l) \in Contexts /\ (~v(l).on => v(l) = NoContext)
    BY <1>8
  <2>2. \A u \in Contexts : LET w == [u EXCEPT !.new_ptadf = FALSE] IN
           /\ w \in Contexts /\ SameInfo(w, u)
           /\ u = NoContext => w = NoContext
    BY NoContextType DEF Contexts, SameInfo, NoContext
  <2>3. SameInfo(v(l), v(l))
    BY DEF SameInfo
  <2>4. e(l) = v(l) \/ e(l) = [v(l) EXCEPT !.new_ptadf = FALSE]
    BY DEF e
  <2> HIDE DEF NoContext
  <2> QED
    BY <2>1, <2>2, <2>3, <2>4 DEF SameInfo
<1> HIDE DEF e
<1>10. Flow(df')
  <2>1. df' \in [Lists -> Contexts]
    BY <1>6, <1>7, <1>9
  <2> QED
    BY <1>6, <1>9, <2>1 DEF Flow
<1>11. \A c \in Blocks : v(InOf(c)) = IF c \in C THEN Arrive(out, d[InOf(c)]) ELSE d[InOf(c)]
  BY ListNames DEF v
<1>12. \A c \in Blocks : ~SharedList(c) => v(OutOf(c)) = d[OutOf(c)]
  BY ListNames DEF v
<1>13. \A c \in Blocks : /\ c # b => e(OutOf(c)) = v(OutOf(c))
                         /\ c # b => OutOf(c) \notin {InOf(b), OutOf(b)}
                         /\ SharedList(c) => OutOf(c) = InOf(c)
  BY ListNames DEF e, OutOf
<1>14. ~e(OutOf(b)).new_ptadf
  <2>1. v(OutOf(b)) \in Contexts
    BY <1>5, <1>8
  <2> QED
    BY <2>1 DEF e, Contexts
<1>15. \A c \in Blocks :
          /\ c \notin C => SameInfo(df'[InOf(c)], d[InOf(c)])
          /\ c \in C => SameInfo(df'[InOf(c)], Arrive(out, d[InOf(c)]))
  BY <1>5, <1>6, <1>9, <1>11
<1>16. \A c \in Blocks :
          /\ ~SharedList(c) => SameInfo(df'[OutOf(c)], d[OutOf(c)])
          /\ ~SharedList(c) /\ c # b => df'[OutOf(c)] = df[OutOf(c)]
  BY <1>1, <1>5, <1>6, <1>9, <1>12, <1>13
<1>17. \A c \in Blocks : c # b /\ SharedList(c) =>
          df'[OutOf(c)] = IF c \in C THEN Arrive(out, df[OutOf(c)]) ELSE df[OutOf(c)]
  BY <1>1, <1>5, <1>6, <1>11, <1>13
<1>18. ~df'[OutOf(b)].new_ptadf
  BY <1>5, <1>6, <1>14
<1>19. \A c \in Blocks : ~SharedList(c) =>
          df'[InOf(c)] = IF c \in C THEN Arrive(out, d[InOf(c)]) ELSE d[InOf(c)]
  <2>1. \A c \in Blocks : ~SharedList(c) => InOf(c) # OutOf(b)
    BY ListNames
  <2>2. \A c \in Blocks : ~SharedList(c) => e(InOf(c)) = v(InOf(c))
    BY <2>1 DEF e
  <2> QED
    BY <1>5, <1>6, <1>11, <2>2
<1> QED
  BY <1>2, <1>3, <1>10, <1>15, <1>16, <1>17, <1>18, <1>19 DEF C, d
-----------------------------------------------------------------------------
(* Liveness at a block. *)

(* All but new_lvdf. *)
SameButLv(c, e) ==
    /\ c.on = e.on
    /\ c.linfo = e.linfo
    /\ c.pinfo = e.pinfo
    /\ c.seen = e.seen
    /\ c.new_ptadf = e.new_ptadf

(* All but liveness. *)
SameValue(c, e) ==
    /\ c.on = e.on
    /\ c.pinfo = e.pinfo
    /\ c.seen = e.seen
    /\ c.new_ptadf = e.new_ptadf

LEMMA CopyOutToInFacts ==
    ASSUME NEW d, Flow(d), NEW b \in Blocks, ~SharedList(b), NEW all \in BOOLEAN
    PROVE  LET e == CopyOutToIn(d, b, all)
               copies == d[OutOf(b)].on /\ (all \/ d[OutOf(b)].new_lvdf)
           IN  /\ Flow(e)
               /\ \A l \in Lists : l \notin {InOf(b), OutOf(b)} => e[l] = d[l]
               /\ SameButLv(d[OutOf(b)], e[OutOf(b)])
               /\ ~copies => e = d
               /\ d[InOf(b)].on => SameValue(d[InOf(b)], e[InOf(b)])
               /\ copies => /\ e[InOf(b)].linfo = d[OutOf(b)].linfo
                            /\ d[InOf(b)].on => e[InOf(b)].new_lvdf
                            /\ ~d[InOf(b)].on => e[InOf(b)] = d[OutOf(b)]
<1> DEFINE in == d[InOf(b)]
           out == d[OutOf(b)]
           e == CopyOutToIn(d, b, all)
           copies == out.on /\ (all \/ out.new_lvdf)
<1>1. InOf(b) \in Lists /\ OutOf(b) \in Lists /\ InOf(b) # OutOf(b)
  BY ListNames
<1>2. in \in Contexts /\ out \in Contexts
  BY <1>1 DEF Flow
<1>3. CASE ~copies
  <2>1. e = d
    BY <1>3 DEF CopyOutToIn
  <2> QED
    BY <1>3, <2>1 DEF SameButLv, SameValue
<1>4. CASE copies
  <2> DEFINE new == IF in.on THEN [in EXCEPT !.linfo = out.linfo, !.new_lvdf = TRUE]
                    ELSE out
  <2>1. /\ new \in Contexts /\ new.on /\ new.linfo = out.linfo
        /\ in.on => SameValue(in, new) /\ new.new_lvdf
        /\ ~in.on => new = out
    BY <1>2, <1>4 DEF Contexts, SameValue
  <2>2. e = [d EXCEPT ![InOf(b)] = new, ![OutOf(b)].new_lvdf = FALSE]
    BY <1>4 DEF CopyOutToIn
  <2> HIDE DEF new
  <2>3. /\ e[InOf(b)] = new
        /\ e[OutOf(b)] = [out EXCEPT !.new_lvdf = FALSE]
        /\ \A l \in Lists : l \notin {InOf(b), OutOf(b)} => e[l] = d[l]
        /\ e = [l \in Lists |-> e[l]]
    BY <1>1, <2>2 DEF Flow
  <2>4. e[OutOf(b)] \in Contexts /\ SameButLv(out, e[OutOf(b)])
    BY <1>2, <2>3 DEF Contexts, SameButLv
  <2> HIDE DEF e
  <2>5. Flow(e)
    <3>1. \A l \in Lists : e[l] \in Contexts
      BY <2>1, <2>3, <2>4 DEF Flow
    <3>2. e \in [Lists -> Contexts]
      BY <2>3, <3>1
    <3>3. \A l \in Lists : ~e[l].on => e[l] = NoContext
      BY <1>4, <2>1, <2>3, <2>4 DEF Flow, SameButLv
    <3> QED
      BY <3>2, <3>3 DEF Flow
  <2> QED
    BY <1>4, <2>1, <2>3, <2>4, <2>5 DEF e
<1> QED
  BY <1>3, <1>4

(* copy_out_to_in and then find_live_vars. *)
Computed(b) == FindLiveVars(CopyOutToIn(df, b, FALSE), b)

LEMMA ComputedFacts ==
    ASSUME prog \in Programs, Flow(df), recompute \in BOOLEAN,
           NEW b \in Blocks, ~SharedList(b)
    PROVE  LET e == Computed(b)
               in == df[InOf(b)]
               out == df[OutOf(b)]
           IN  /\ Flow(e)
               /\ \A l \in Lists : l \notin {InOf(b), OutOf(b)} => e[l] = df[l]
               /\ SameButLv(out, e[OutOf(b)])
               /\ in.on => SameValue(in, e[InOf(b)])
               /\ ~in.on /\ ~out.on => e[InOf(b)] = in
               /\ ~in.on /\ out.on /\ out.new_lvdf => SameValue(out, e[InOf(b)])
               /\ out.on /\ ((in.on /\ recompute) \/ (out.new_lvdf /\ ~recompute)) =>
                     /\ e[InOf(b)].on /\ e[InOf(b)].new_lvdf
                     /\ e[InOf(b)].linfo = LiveIn(out.linfo, e[InOf(b)].pinfo, prog.code[b])
<1> DEFINE in == df[InOf(b)]
           out == df[OutOf(b)]
           first == CopyOutToIn(df, b, FALSE)
           copied == IF recompute THEN CopyOutToIn(first, b, TRUE) ELSE first
           e == Computed(b)
           code == prog.code[b]
           mid == copied[InOf(b)]
<1>1. InOf(b) \in Lists /\ OutOf(b) \in Lists /\ InOf(b) # OutOf(b)
  BY ListNames
<1>2. code \in Seq(Item)
  BY Cfg
<1>3. /\ Flow(first)
      /\ \A l \in Lists : l \notin {InOf(b), OutOf(b)} => first[l] = df[l]
      /\ SameButLv(out, first[OutOf(b)])
      /\ ~(out.on /\ out.new_lvdf) => first = df
      /\ in.on => SameValue(in, first[InOf(b)])
      /\ out.on /\ out.new_lvdf =>
            /\ first[InOf(b)].linfo = out.linfo
            /\ in.on => first[InOf(b)].new_lvdf
            /\ ~in.on => first[InOf(b)] = out
  BY CopyOutToInFacts
<1> HIDE DEF first
<1>4. /\ Flow(copied)
      /\ \A l \in Lists : l \notin {InOf(b), OutOf(b)} => copied[l] = df[l]
      /\ SameButLv(out, copied[OutOf(b)])
      /\ in.on => SameValue(in, mid)
      /\ ~in.on /\ out.on /\ out.new_lvdf => SameValue(out, mid)
      /\ ~in.on /\ ~out.on => mid = in
      /\ out.on /\ ((in.on /\ recompute) \/ (out.new_lvdf /\ ~recompute)) =>
            mid.on /\ mid.new_lvdf /\ mid.linfo = out.linfo
  <2>1. CASE ~recompute
    <3>1. copied = first
      BY <2>1
    <3> QED
      BY <1>3, <2>1, <3>1 DEF SameValue
  <2>2. CASE recompute
    <3> DEFINE next == CopyOutToIn(first, b, TRUE)
    <3>1. /\ Flow(next)
          /\ \A l \in Lists : l \notin {InOf(b), OutOf(b)} => next[l] = first[l]
          /\ SameButLv(first[OutOf(b)], next[OutOf(b)])
          /\ ~first[OutOf(b)].on => next = first
          /\ first[InOf(b)].on => SameValue(first[InOf(b)], next[InOf(b)])
          /\ first[OutOf(b)].on =>
                /\ next[InOf(b)].linfo = first[OutOf(b)].linfo
                /\ first[InOf(b)].on => next[InOf(b)].new_lvdf
                /\ ~first[InOf(b)].on => next[InOf(b)] = first[OutOf(b)]
      BY <1>3, CopyOutToInFacts
    <3>2. copied = next
      BY <2>2
    <3> HIDE DEF next, copied
    <3> QED
      BY <1>3, <2>2, <3>1, <3>2 DEF SameButLv, SameValue
  <2> QED
    BY <2>1, <2>2
<1>5. mid \in Contexts
  BY <1>1, <1>4 DEF Flow
<1>6. e = IF mid.on /\ (mid.new_lvdf \/ recompute)
          THEN [copied EXCEPT ![InOf(b)].linfo = LiveIn(mid.linfo, mid.pinfo, code)]
          ELSE copied
  BY DEF Computed, FindLiveVars, first
<1> HIDE DEF copied, e
<1>7. CASE ~(mid.on /\ (mid.new_lvdf \/ recompute))
  <2>1. e = copied
    BY <1>6, <1>7
  <2> QED
    BY <1>4, <1>7, <2>1 DEF e
<1>8. CASE mid.on /\ (mid.new_lvdf \/ recompute)
  <2> DEFINE new == [mid EXCEPT !.linfo = LiveIn(mid.linfo, mid.pinfo, code)]
  <2>1. IsPointsToVal(mid.pinfo) /\ mid.linfo \in SUBSET Var
    BY <1>5, ValueSets DEF Contexts
  <2>2. LiveIn(mid.linfo, mid.pinfo, code) \in SUBSET Var
    BY <1>2, <2>1, LiveInType
  <2>3. /\ new \in Contexts /\ SameValue(mid, new) /\ new.new_lvdf = mid.new_lvdf
        /\ new.linfo = LiveIn(mid.linfo, mid.pinfo, code)
    BY <1>5, <2>2 DEF Contexts, SameValue
  <2>4. e = [copied EXCEPT ![InOf(b)] = new]
    BY <1>1, <1>4, <1>6, <1>8 DEF Flow
  <2> HIDE DEF new, mid
  <2>5. /\ e[InOf(b)] = new
        /\ \A l \in Lists : l # InOf(b) => e[l] = copied[l]
        /\ e \in [Lists -> Contexts]
    BY <1>1, <1>4, <2>3, <2>4 DEF Flow
  <2>6. Flow(e)
    BY <1>4, <1>8, <2>3, <2>5 DEF Flow, SameValue
  <2>7. SameButLv(out, e[OutOf(b)])
    BY <1>1, <1>4, <2>5
  <2>8. \A l \in Lists : l \notin {InOf(b), OutOf(b)} => e[l] = df[l]
    BY <1>4, <2>5
  <2>9. in.on => SameValue(in, e[InOf(b)])
    BY <1>4, <2>3, <2>5 DEF SameValue
  <2>10. ~in.on /\ ~out.on => e[InOf(b)] = in
    BY <1>4, <1>8
  <2>11. ~in.on /\ out.on /\ out.new_lvdf => SameValue(out, e[InOf(b)])
    BY <1>4, <2>3, <2>5 DEF SameValue
  <2>12. out.on /\ ((in.on /\ recompute) \/ (out.new_lvdf /\ ~recompute)) =>
            /\ e[InOf(b)].on /\ e[InOf(b)].new_lvdf
            /\ e[InOf(b)].linfo = LiveIn(out.linfo, e[InOf(b)].pinfo, code)
    BY <1>4, <1>8, <2>3, <2>5 DEF SameValue
  <2> QED
    BY <2>6, <2>7, <2>8, <2>9, <2>10, <2>11, <2>12 DEF e
<1> QED
  BY <1>7, <1>8

(* What the handler of an intra block makes of IN before it propagates it. *)
Found(b) ==
    LET copied == IF SharedList(b) THEN df ELSE CopyOutToIn(df, b, FALSE)
    IN  IF HasConstraints(b) THEN FindLiveVars(copied, b) ELSE copied

LEMMA FoundFacts ==
    ASSUME prog \in Programs, Flow(df), recompute \in BOOLEAN, NEW b \in Blocks
    PROVE  LET e == Found(b)
               in == df[InOf(b)]
               out == df[OutOf(b)]
           IN  /\ Flow(e)
               /\ \A l \in Lists : l \notin {InOf(b), OutOf(b)} => e[l] = df[l]
               /\ SharedList(b) => e = df
               /\ SameButLv(out, e[OutOf(b)])
               /\ in.on => SameValue(in, e[InOf(b)])
               /\ ~SharedList(b) =>
                    /\ ~in.on /\ ~out.on => e[InOf(b)] = in
                    /\ ~in.on /\ out.on /\ out.new_lvdf => SameValue(out, e[InOf(b)])
                    /\ out.on /\ ((in.on /\ recompute) \/ (out.new_lvdf /\ ~recompute)) =>
                          \/ /\ e[InOf(b)].on /\ e[InOf(b)].new_lvdf
                             /\ e[InOf(b)].linfo =
                                   LiveIn(out.linfo, e[InOf(b)].pinfo, prog.code[b])
                          \/ ~HasConstraints(b) /\ ~out.new_lvdf /\ e[InOf(b)] = in
<1>1. CASE SharedList(b)
  <2>1. Found(b) = df
    BY <1>1, ListNames DEF Found
  <2> QED
    BY <1>1, <2>1 DEF SameButLv, SameValue
<1>2. CASE ~SharedList(b) /\ HasConstraints(b)
  <2>1. Found(b) = Computed(b)
    BY <1>2 DEF Found, Computed
  <2> QED
    BY <1>2, <2>1, ComputedFacts
<1>3. CASE ~SharedList(b) /\ ~HasConstraints(b)
  <2> DEFINE e == CopyOutToIn(df, b, FALSE)
             in == df[InOf(b)]
             out == df[OutOf(b)]
  <2>1. Found(b) = e
    BY <1>3 DEF Found
  <2>2. /\ Flow(e)
        /\ \A l \in Lists : l \notin {InOf(b), OutOf(b)} => e[l] = df[l]
        /\ SameButLv(out, e[OutOf(b)])
        /\ ~(out.on /\ out.new_lvdf) => e = df
        /\ in.on => SameValue(in, e[InOf(b)])
        /\ out.on /\ out.new_lvdf =>
              /\ e[InOf(b)].linfo = out.linfo
              /\ in.on => e[InOf(b)].new_lvdf
              /\ ~in.on => e[InOf(b)] = out
    BY <1>3, CopyOutToInFacts
  <2> HIDE DEF e
  <2>3. InOf(b) \in Lists /\ OutOf(b) \in Lists
    BY ListNames
  <2>4. out.linfo \in SUBSET Var /\ IsPointsToVal(e[InOf(b)].pinfo)
    BY <2>2, <2>3, ValueSets DEF Flow, Contexts
  <2>5. LiveIn(out.linfo, e[InOf(b)].pinfo, prog.code[b]) = out.linfo
    BY <1>3, <2>4, LiveInEmpty DEF HasConstraints
  <2>6. e[InOf(b)].on \in BOOLEAN /\ in.on \in BOOLEAN /\ out.on \in BOOLEAN
    BY <2>2, <2>3 DEF Flow, Contexts
  <2> QED
    BY <1>3, <2>1, <2>2, <2>5, <2>6 DEF SameValue
<1> QED
  BY <1>1, <1>2, <1>3

(* What arrives at OUT of a predecessor. *)
LEMMA ArriveLiveFacts ==
    ASSUME recompute \in BOOLEAN, NEW in \in Contexts, in.on, NEW out \in Contexts
    PROVE  LET a == ArriveLive(in, out) IN
           /\ a \in Contexts /\ a.on /\ in.linfo \subseteq a.linfo
           /\ ~out.on => a = in
           /\ out.on => /\ a.linfo = out.linfo \cup in.linfo
                        /\ a.pinfo = out.pinfo /\ a.seen = out.seen
                        /\ out.new_lvdf => a.new_lvdf
                        /\ ~(in.linfo \subseteq out.linfo) => a.new_lvdf
                        /\ in.linfo \subseteq out.linfo => a.new_lvdf = out.new_lvdf
                        /\ out.new_ptadf => a.new_ptadf
                        /\ recompute => a.new_ptadf
<1> DEFINE a == ArriveLive(in, out)
<1>1. CASE ~out.on
  <2>1. a = in
    BY <1>1 DEF ArriveLive
  <2> QED
    BY <1>1, <2>1
<1>2. CASE out.on
  <2> DEFINE live == out.linfo \cup in.linfo
             lv == out.new_lvdf \/ ~(in.linfo \subseteq out.linfo)
             pta == out.new_ptadf \/ recompute
             W(z, x, y) == [out EXCEPT !.linfo = z, !.new_lvdf = x, !.new_ptadf = y]
  <2>1. PICK x \in BOOLEAN, y \in BOOLEAN : (x <=> lv) /\ (y <=> pta)
    OBVIOUS
  <2>2. live \in SUBSET Var /\ out.new_lvdf \in BOOLEAN
    BY DEF Contexts
  <2>3. a = W(live, x, y)
    BY <1>2, <2>1 DEF ArriveLive
  <2>4. /\ W(live, x, y) \in Contexts /\ W(live, x, y).on = out.on
        /\ W(live, x, y).linfo = live /\ W(live, x, y).pinfo = out.pinfo
        /\ W(live, x, y).seen = out.seen
        /\ W(live, x, y).new_lvdf = x /\ W(live, x, y).new_ptadf = y
    <3> HIDE DEF live, lv, pta
    <3> QED
      BY <2>2 DEF Contexts
  <2> HIDE DEF a, W
  <2>5. /\ a \in Contexts /\ a.on = out.on /\ a.linfo = live /\ a.pinfo = out.pinfo
        /\ a.seen = out.seen /\ a.new_lvdf = x /\ a.new_ptadf = y
    BY <2>3, <2>4
  <2> QED
    BY <1>2, <2>1, <2>2, <2>5 DEF a
<1> QED
  BY <1>1, <1>2

(* The blocks it is propagated to. *)
Sent(b) ==
    IF Found(b)[InOf(b)].on /\ Found(b)[InOf(b)].new_lvdf THEN LvPreds(b) ELSE {}

(* The step of the liveness pass at a block, list by list. *)
LEMMA LvIntraStep ==
    ASSUME prog \in Programs, Flow(df), recompute \in BOOLEAN, NEW b \in Blocks,
           LvIntraBlock(b)
    PROVE  LET found == Found(b)
               in == found[InOf(b)]
               more == {a \in Sent(b) : \/ ~found[OutOf(a)].on
                                        \/ ~(in.linfo \subseteq found[OutOf(a)].linfo)}
           IN  /\ Flow(df')
               /\ Sent(b) \subseteq LvPreds(b) /\ Sent(b) \subseteq Blocks
               /\ Sent(b) # {} => in.on /\ in.new_lvdf
               /\ \A a \in Blocks :
                     /\ a \notin Sent(b) => SameButLv(df'[OutOf(a)], found[OutOf(a)])
                     /\ a \in Sent(b) =>
                           SameButLv(df'[OutOf(a)], ArriveLive(in, found[OutOf(a)]))
                     /\ ~SharedList(a) => SameButLv(df'[InOf(a)], found[InOf(a)])
                     /\ ~SharedList(a) /\ a # b => df'[InOf(a)] = df[InOf(a)]
                     /\ OutOf(a) # InOf(b) =>
                           df'[OutOf(a)] = IF a \in Sent(b) THEN ArriveLive(in, found[OutOf(a)])
                                           ELSE found[OutOf(a)]
               /\ process_lv' = (process_lv \ {b}) \cup more
               /\ process_pta \subseteq process_pta'
               /\ process_pta' \subseteq process_pta \cup Sent(b)
               /\ recompute => Sent(b) \subseteq process_pta'
               /\ more \subseteq process_pta'
<1> DEFINE d == Found(b)
           in == d[InOf(b)]
           S == Sent(b)
           new == {a \in S : ~d[OutOf(a)].on}
           more == {a \in S : ~(in.linfo \subseteq d[OutOf(a)].linfo)}
           again == IF recompute THEN S \ new ELSE {}
           v(l) == IF \E a \in S : l = OutOf(a) THEN ArriveLive(in, d[l]) ELSE d[l]
           e(l) == IF l = InOf(b) THEN [v(l) EXCEPT !.new_lvdf = FALSE] ELSE v(l)
<1>1. /\ df' = [[l \in Lists |-> v(l)] EXCEPT ![InOf(b)].new_lvdf = FALSE]
      /\ process_lv' = (process_lv \ {b}) \cup new \cup more
      /\ process_pta' = process_pta \cup new \cup more \cup again
  <2> DEFINE copy == IF SharedList(b) THEN df ELSE CopyOutToIn(df, b, FALSE)
             Preceding(found) == IF found[InOf(b)].on /\ found[InOf(b)].new_lvdf
                                 THEN LvPreds(b) ELSE {}
  <2>1. PICK found \in {IF HasConstraints(b) THEN FindLiveVars(copy, b) ELSE copy} :
           PropagateLiveness(found, b, Preceding(found))
    BY DEF LvIntraBlock
  <2>2. found = d
    BY DEF Found
  <2>3. Preceding(found) = S
    BY <2>2 DEF Sent
  <2> HIDE DEF S, d
  <2> QED
    BY <2>1, <2>2, <2>3 DEF PropagateLiveness
<1>2. Flow(d) /\ \A l \in Lists : l \notin {InOf(b), OutOf(b)} => d[l] = df[l]
  BY FoundFacts
<1>3. /\ S \subseteq LvPreds(b) /\ S \subseteq Blocks
      /\ S # {} => in.on /\ in.new_lvdf
  BY Neighbours DEF Sent
<1>4. \A a \in Blocks : InOf(a) \in Lists /\ OutOf(a) \in Lists
  BY ListNames
<1> HIDE DEF S, d
<1>5. DOMAIN df' = Lists /\ (\A l \in Lists : df'[l] = e(l))
      /\ df' = [l \in Lists |-> df'[l]]
  <2> HIDE DEF v
  <2> QED
    BY <1>1, <1>4
<1>6. \A l \in Lists : v(l) \in Contexts /\ (~v(l).on => v(l) = NoContext)
  <2> TAKE l \in Lists
  <2>1. CASE \E a \in S : l = OutOf(a)
    <3>1. in \in Contexts /\ in.on /\ d[l] \in Contexts
      BY <1>2, <1>3, <1>4, <2>1 DEF Flow
    <3>2. ArriveLive(in, d[l]) \in Contexts /\ ArriveLive(in, d[l]).on
      BY <3>1, ArriveLiveFacts
    <3> QED
      BY <2>1, <3>2
  <2>2. CASE ~\E a \in S : l = OutOf(a)
    BY <1>2, <2>2 DEF Flow
  <2> QED
    BY <2>1, <2>2
<1> HIDE DEF v
<1>7. \A l \in Lists : /\ e(l) \in Contexts
                       /\ SameButLv(e(l), v(l))
                       /\ ~e(l).on => e(l) = NoContext
  <2> TAKE l \in Lists
  <2>1. v(l) \in Contexts /\ (~v(l).on => v(l) = NoContext)
    BY <1>6
  <2>2. \A u \in Contexts : LET w == [u EXCEPT !.new_lvdf = FALSE] IN
           /\ w \in Contexts /\ SameButLv(w, u)
           /\ u = NoContext => w = NoContext
    BY NoContextType DEF Contexts, SameButLv, NoContext
  <2>3. SameButLv(v(l), v(l))
    BY DEF SameButLv
  <2>4. e(l) = v(l) \/ e(l) = [v(l) EXCEPT !.new_lvdf = FALSE]
    BY DEF e
  <2> HIDE DEF NoContext
  <2> QED
    BY <2>1, <2>2, <2>3, <2>4 DEF SameButLv
<1>8. \A l \in Lists : l # InOf(b) => e(l) = v(l)
  BY DEF e
<1> HIDE DEF e
<1>9. Flow(df')
  <2>1. df' \in [Lists -> Contexts]
    BY <1>5, <1>7
  <2> QED
    BY <1>5, <1>7, <2>1 DEF Flow
<1>10. \A a \in Blocks : v(OutOf(a)) = IF a \in S THEN ArriveLive(in, d[OutOf(a)])
                                       ELSE d[OutOf(a)]
  BY ListNames DEF v
<1>11. \A a \in Blocks : ~SharedList(a) => v(InOf(a)) = d[InOf(a)]
  BY <1>3, ListNames DEF v
<1>12. \A a \in Blocks :
          /\ a \notin S => SameButLv(df'[OutOf(a)], d[OutOf(a)])
          /\ a \in S => SameButLv(df'[OutOf(a)], ArriveLive(in, d[OutOf(a)]))
          /\ OutOf(a) # InOf(b) =>
                df'[OutOf(a)] = IF a \in S THEN ArriveLive(in, d[OutOf(a)])
                                ELSE d[OutOf(a)]
  BY <1>4, <1>5, <1>7, <1>8, <1>10
<1>13. \A a \in Blocks :
          /\ ~SharedList(a) => SameButLv(df'[InOf(a)], d[InOf(a)])
          /\ ~SharedList(a) /\ a # b => df'[InOf(a)] = df[InOf(a)]
  <2> TAKE a \in Blocks
  <2>1. ~SharedList(a) => SameButLv(df'[InOf(a)], d[InOf(a)])
    BY <1>4, <1>5, <1>7, <1>11
  <2>2. ASSUME ~SharedList(a), a # b
        PROVE  df'[InOf(a)] = df[InOf(a)]
    <3>1. InOf(a) # InOf(b) /\ InOf(a) # OutOf(b)
      BY <2>2, ListNames
    <3> QED
      BY <1>2, <1>4, <1>5, <1>8, <1>11, <2>2, <3>1
  <2> QED
    BY <2>1, <2>2
<1>14. /\ process_lv' = (process_lv \ {b}) \cup
             {a \in S : ~d[OutOf(a)].on \/ ~(in.linfo \subseteq d[OutOf(a)].linfo)}
       /\ process_pta \subseteq process_pta'
       /\ process_pta' \subseteq process_pta \cup S
       /\ recompute => S \subseteq process_pta'
       /\ {a \in S : ~d[OutOf(a)].on \/ ~(in.linfo \subseteq d[OutOf(a)].linfo)}
             \subseteq process_pta'
  BY <1>1
<1> QED
  BY <1>3, <1>9, <1>12, <1>13, <1>14 DEF S, d

LEMMA LvStartStep ==
    ASSUME prog \in Programs, LvStartBlock
    PROVE  df' = Computed(Start) /\ ~SharedList(Start)
BY ListNames DEF LvStartBlock, Computed

LEMMA EndNotShared == ~SharedList(End)
BY ListNames

(* A set of numbered blocks has a first and a last. *)
LEMMA Extremes ==
    ASSUME NEW n \in Nat, NEW S \in SUBSET (1..n), S # {}
    PROVE  /\ \E m \in S : \A e \in S : m >= e
           /\ \E m \in S : \A e \in S : m <= e
<1>1. ASSUME ~\E m \in S : \A e \in S : m >= e
      PROVE  FALSE
  <2> DEFINE T == {i \in 0..n : \A e \in S : e <= n - i}
  <2>1. 0 \in T
    OBVIOUS
  <2>2. \A i \in 1..n : i - 1 \in T => i \in T
    <3> SUFFICES ASSUME NEW i \in 1..n, i - 1 \in T PROVE i \in T
      OBVIOUS
    <3>1. ASSUME NEW e \in S
          PROVE  e <= n - i
      <4>1. PICK d \in S : ~(e >= d)
        BY <1>1
      <4>2. d <= n - (i - 1)
        OBVIOUS
      <4> QED
        BY <4>1, <4>2
    <3> QED
      BY <3>1
  <2> HIDE DEF T
  <2>3. 0..n \subseteq T
    BY <2>1, <2>2, UpTo
  <2>4. n \in T
    BY <2>3
  <2>5. PICK e \in S : e \in 1..n
    OBVIOUS
  <2> QED
    BY <2>4, <2>5 DEF T
<1>2. ASSUME ~\E m \in S : \A e \in S : m <= e
      PROVE  FALSE
  <2> DEFINE T == {i \in 0..n : \A e \in S : e > i}
  <2>1. 0 \in T
    OBVIOUS
  <2>2. \A i \in 1..n : i - 1 \in T => i \in T
    <3> SUFFICES ASSUME NEW i \in 1..n, i - 1 \in T PROVE i \in T
      OBVIOUS
    <3>1. ASSUME NEW e \in S
          PROVE  e > i
      <4>1. PICK d \in S : ~(e <= d)
        BY <1>2
      <4>2. d > i - 1
        OBVIOUS
      <4> QED
        BY <4>1, <4>2
    <3> QED
      BY <3>1
  <2> HIDE DEF T
  <2>3. 0..n \subseteq T
    BY <2>1, <2>2, UpTo
  <2>4. n \in T
    BY <2>3
  <2>5. PICK e \in S : e \in 1..n
    OBVIOUS
  <2> QED
    BY <2>4, <2>5 DEF T
<1> QED
  BY <1>1, <1>2

(* A step of the analysis, with the block it is about. *)
LEMMA WhichStep ==
    ASSUME prog \in Programs, process_lv \subseteq Blocks, process_pta \subseteq Blocks,
           [Next]_vars
    PROVE  /\ prog' = prog
           /\ \/ /\ phase = "lv" /\ phase' = "lv" /\ recompute' = recompute
                 /\ UNCHANGED execution
                 /\ \/ Start \in process_lv /\ LvStartBlock
                    \/ \E b \in process_lv \ {Start} : LvIntraBlock(b)
              \/ LvDone
              \/ /\ phase = "pta" /\ UNCHANGED execution
                 /\ \/ PtaEndBlock
                    \/ \E b \in process_pta \ {End} : PtaIntraBlock(b)
              \/ PtaDone
              \/ UNCHANGED analysis
<1>1. Blocks = 1..Len(prog.code) /\ Len(prog.code) \in Nat
  BY Cfg
<1>2. CASE LvStep
  <2> DEFINE b == CHOOSE c \in process_lv : \A e \in process_lv : c >= e
  <2>1. process_lv # {}
    BY <1>2 DEF LvStep
  <2>2. \E c \in process_lv : \A e \in process_lv : c >= e
    BY <1>1, <2>1, Extremes
  <2>3. b \in process_lv
    BY <2>2
  <2>4. /\ phase = "lv" /\ UNCHANGED <<prog, phase, recompute, execution>>
        /\ IF b = Start THEN LvStartBlock ELSE LvIntraBlock(b)
    BY <1>2 DEF LvStep
  <2> HIDE DEF b
  <2> QED
    BY <2>3, <2>4
<1>3. CASE LvDone
  BY <1>3 DEF LvDone
<1>4. CASE PtaStep
  <2> DEFINE b == CHOOSE c \in process_pta : \A e \in process_pta : c <= e
  <2>1. process_pta # {}
    BY <1>4 DEF PtaStep
  <2>2. \E c \in process_pta : \A e \in process_pta : c <= e
    BY <1>1, <2>1, Extremes
  <2>3. b \in process_pta
    BY <2>2
  <2>4. /\ phase = "pta" /\ UNCHANGED <<prog, execution>>
        /\ IF b = End THEN PtaEndBlock ELSE PtaIntraBlock(b)
    BY <1>4 DEF PtaStep
  <2> HIDE DEF b
  <2> QED
    BY <2>3, <2>4
<1>5. CASE PtaDone
  BY <1>5 DEF PtaDone
<1>6. CASE RunItem
  BY <1>6 DEF RunItem
<1>7. CASE RunEdge
  BY <1>7 DEF RunEdge
<1>8. CASE UNCHANGED vars
  BY <1>8 DEF vars, analysis
<1> QED
  BY <1>2, <1>3, <1>4, <1>5, <1>6, <1>7, <1>8 DEF Next, Analyse

-----------------------------------------------------------------------------
(* Types. *)

AnalysisType ==
    /\ prog \in Programs
    /\ Flow(df)
    /\ process_lv \subseteq Blocks
    /\ process_pta \subseteq Blocks
    /\ phase \in {"lv", "pta", "run"}
    /\ recompute \in BOOLEAN

ExecutionType ==
    /\ pc \in [block : Blocks, left : Seq(Item)]
    /\ store \in [Var -> Id]

TypeInv == AnalysisType /\ ExecutionType

LEMMA InitTypes == Init => TypeInv
<1> SUFFICES ASSUME Init PROVE TypeInv
  OBVIOUS
<1>1. prog \in Programs
  BY DEF Init
<1>2. Start \in Blocks /\ End \in Blocks
  BY <1>1, Cfg
<1>3. InitialContext \in Contexts /\ InitialContext.on
  BY NoContextType DEF InitialContext, Contexts
<1>4. Flow(df)
  <2>1. df = [l \in Lists |-> IF l = OutOf(End) THEN InitialContext ELSE NoContext]
    BY DEF Init
  <2> QED
    BY <1>3, <2>1, NoContextType DEF Flow
<1>5. AnalysisType
  BY <1>1, <1>2, <1>4 DEF Init, AnalysisType
<1>6. store \in [Var -> Id]
  BY DEF Init, Undefined, Id
<1>7. pc \in [block : Blocks, left : Seq(Item)]
  <2>1. <<>> \in Seq(Item)
    OBVIOUS
  <2> QED
    BY <1>2, <2>1 DEF Init
<1> QED
  BY <1>5, <1>6, <1>7 DEF TypeInv, ExecutionType

LEMMA AnalysisTypes == AnalysisType /\ [Next]_vars => AnalysisType'
<1> SUFFICES ASSUME AnalysisType, [Next]_vars PROVE AnalysisType'
  OBVIOUS
<1> USE DEF AnalysisType
<1>1. prog' = prog /\ Blocks' = Blocks /\ Lists' = Lists
  BY WhichStep, SameProgram
<1>2. Start \in Blocks /\ End \in Blocks
  BY Cfg
<1>3. Flow(df)' <=> Flow(df')
  BY <1>1 DEF Flow
<1>4. CASE /\ phase = "lv" /\ phase' = "lv" /\ recompute' = recompute
           /\ LvStartBlock
  <2>1. Flow(df')
    BY <1>2, <1>4, LvStartStep, ComputedFacts
  <2>2. process_lv' \subseteq Blocks /\ process_pta' \subseteq Blocks
    BY <1>4 DEF LvStartBlock
  <2> QED
    BY <1>1, <1>3, <1>4, <2>1, <2>2
<1>5. ASSUME NEW b \in process_lv, LvIntraBlock(b),
             phase = "lv", phase' = "lv", recompute' = recompute
      PROVE  AnalysisType'
  <2>1. Flow(df') /\ Sent(b) \subseteq Blocks
    BY <1>5, LvIntraStep
  <2>2. process_lv' \subseteq process_lv \cup Sent(b)
        /\ process_pta' \subseteq process_pta \cup Sent(b)
    BY <1>5, LvIntraStep
  <2> QED
    BY <1>1, <1>3, <1>5, <2>1, <2>2
<1>6. CASE LvDone
  BY <1>1, <1>3, <1>6 DEF LvDone
<1>7. CASE phase = "pta" /\ PtaEndBlock
  <2>1. Flow(df')
    BY <1>2, <1>7, EndNotShared, CopyInToOutFacts DEF PtaEndBlock
  <2> QED
    BY <1>1, <1>3, <1>7, <2>1 DEF PtaEndBlock
<1>8. ASSUME NEW b \in process_pta, PtaIntraBlock(b), phase = "pta"
      PROVE  AnalysisType'
  <2>1. /\ Flow(df') /\ Changed(b) \subseteq PtaSuccs(b)
        /\ process_pta' = (process_pta \ {b}) \cup Changed(b)
        /\ process_lv' = process_lv \cup {c \in Changed(b) : HasDeref(c)}
        /\ \/ phase' = "lv" /\ recompute' = TRUE
           \/ UNCHANGED <<phase, recompute>>
    BY <1>8, PtaIntraStep
  <2>2. Changed(b) \subseteq Blocks
    BY <1>8, <2>1, Neighbours
  <2>3. process_pta' \subseteq Blocks /\ process_lv' \subseteq Blocks
    BY <2>1, <2>2
  <2> QED
    BY <1>1, <1>3, <2>1, <2>3
<1>9. CASE PtaDone
  BY <1>1, <1>3, <1>9 DEF PtaDone
<1>10. CASE UNCHANGED analysis
  BY <1>1, <1>3, <1>10 DEF analysis
<1> QED
  BY <1>4, <1>5, <1>6, <1>7, <1>8, <1>9, <1>10, WhichStep

(* Executing one constraint keeps the store a store. *)
LEMMA StoreStep ==
    ASSUME NEW s \in [Var -> Id], NEW t \in Constraint, Executable(s, t),
           NEW value \in Values(s, t.rhs)
    PROVE  Execute(s, t, value) \in [Var -> Id]
<1>1. Var \subseteq Id /\ Undefined \in Id
  BY DEF Id, Undefined
<1>2. CASE t.rhs.type = ADDRESSOF
  <2>1. Value(s, t.rhs) \in Id
    BY <1>2 DEF Value, Constraint, ADDRESSOF, SCALAR, DEREF
  <2> QED
    BY <1>1, <2>1 DEF Values, Execute
<1>3. CASE t.rhs.type = SCALAR
  <2>1. Value(s, t.rhs) \in Id
    BY <1>3 DEF Value, Executable, ADDRESSOF, SCALAR, DEREF
  <2> QED
    BY <1>1, <2>1 DEF Values, Execute
<1>4. CASE t.rhs.type = DEREF
  <2>1. Value(s, t.rhs) \in Id
    BY <1>4 DEF Value, Executable, ADDRESSOF, SCALAR, DEREF
  <2> QED
    BY <1>1, <2>1 DEF Values, Execute
<1> QED
  BY <1>2, <1>3, <1>4 DEF Constraint

LEMMA ExecutionTypes == TypeInv /\ [Next]_vars => ExecutionType'
<1> SUFFICES ASSUME TypeInv, [Next]_vars PROVE ExecutionType'
  OBVIOUS
<1> USE DEF TypeInv, ExecutionType
<1>1. prog' = prog /\ Blocks' = Blocks
  BY WhichStep, SameProgram DEF AnalysisType
<1>2. Start \in Blocks /\ \A b \in Blocks : prog.code[b] \in Seq(Item) /\ Succs(b) \subseteq Blocks
  BY Cfg DEF AnalysisType
<1>3. CASE UNCHANGED execution
  BY <1>1, <1>3 DEF execution
<1>4. CASE PtaDone
  BY <1>1, <1>2, <1>4 DEF PtaDone
<1>5. CASE RunItem
  <2> DEFINE item == Head(pc.left)
  <2>1. pc.left \in Seq(Item) /\ pc.left # <<>> /\ pc.block \in Blocks
    BY <1>5 DEF RunItem
  <2>2. item \in Item /\ Tail(pc.left) \in Seq(Item)
    BY <2>1
  <2>3. pc' \in [block : Blocks, left : Seq(Item)]
    BY <1>5, <2>1, <2>2 DEF RunItem
  <2>4. CASE ~IsAlias(item)
    BY <1>1, <1>5, <2>3, <2>4 DEF RunItem
  <2>5. CASE IsAlias(item)
    <3>1. PICK i \in DOMAIN item.chain :
             /\ Executable(store, item.chain[i])
             /\ \E value \in Values(store, item.chain[i].rhs) :
                   store' = Execute(store, item.chain[i], value)
      BY <1>5, <2>5 DEF RunItem
    <3>2. item.chain \in Seq(Constraint)
      BY <2>2, <2>5, ItemParts
    <3> HIDE DEF item
    <3>3. item.chain[i] \in Constraint
      BY <3>2
    <3>4. store' \in [Var -> Id]
      BY <3>1, <3>3, StoreStep
    <3> QED
      BY <1>1, <2>3, <3>4
  <2> QED
    BY <2>4, <2>5
<1>6. CASE RunEdge
  BY <1>1, <1>2, <1>6 DEF RunEdge
<1> QED
  BY <1>3, <1>4, <1>5, <1>6 DEF Next, Analyse, LvStep, LvDone, PtaStep, vars, execution

LEMMA TypesKept == TypeInv /\ [Next]_vars => TypeInv'
BY AnalysisTypes, ExecutionTypes DEF TypeInv

(* Whatever the program, every context holds a points-to value in normal   *)
(* form, for a set of live variables, and the list of a procedure that the *)
(* analysis has not reached holds none.                                    *)
THEOREM Types == Spec => []TypeOK
<1>1. TypeInv => TypeOK
  <2> SUFFICES ASSUME TypeInv PROVE TypeOK
    OBVIOUS
  <2>1. ASSUME NEW l \in Lists
        PROVE  /\ df[l] \in Context(df[l].pinfo)
               /\ IsPointsToVal(df[l].pinfo)
               /\ NormalVal(df[l].pinfo)
               /\ ~df[l].on => df[l] = NoContext
    <3>1. df[l] \in Contexts /\ (~df[l].on => df[l] = NoContext)
      BY DEF TypeInv, AnalysisType, Flow
    <3>2. df[l].pinfo \in NormalValues
      BY <3>1 DEF Contexts
    <3>3. df[l] \in Context(df[l].pinfo)
      BY <3>1 DEF Contexts, Context
    <3> QED
      BY <3>1, <3>2, <3>3, ValueSets
  <2> QED
    BY <2>1 DEF TypeOK, TypeInv, AnalysisType, ExecutionType
<1> QED
  BY <1>1, InitTypes, TypesKept, PTL DEF Spec

-----------------------------------------------------------------------------
(* What a step does to IN and OUT of a block. *)

In(b)  == df[InOf(b)]
Out(b) == df[OutOf(b)]

(* The context but for its flags. *)
SameContent(c, e) ==
    /\ c.on = e.on
    /\ c.linfo = e.linfo
    /\ c.pinfo = e.pinfo
    /\ c.seen = e.seen

LEMMA BlockNames ==
    ASSUME AnalysisType, prog' = prog, NEW a \in Blocks
    PROVE  /\ In(a)' = df'[InOf(a)] /\ Out(a)' = df'[OutOf(a)]
           /\ In(a) \in Contexts /\ Out(a) \in Contexts
           /\ ~Out(a).on => Out(a) = NoContext
           /\ ~In(a).on => In(a) = NoContext
           /\ SharedList(a) => In(a) = Out(a) /\ In(a)' = Out(a)'
           /\ \A b \in Blocks \ {a} :
                 /\ OutOf(a) \notin {InOf(b), OutOf(b)}
                 /\ InOf(a) \notin {InOf(b), OutOf(b)}
<1>1. OutOf(a)' = OutOf(a)
  BY SameProgram
<1>2. In(a)' = df'[InOf(a)] /\ Out(a)' = df'[OutOf(a)]
  BY <1>1 DEF In, Out, InOf
<1>3. SharedList(a) => OutOf(a) = InOf(a)
  BY DEF OutOf
<1>4. InOf(a) \in Lists /\ OutOf(a) \in Lists
  BY ListNames
<1>5. \A b \in Blocks \ {a} : /\ OutOf(a) \notin {InOf(b), OutOf(b)}
                              /\ InOf(a) \notin {InOf(b), OutOf(b)}
  BY ListNames
<1> QED
  BY <1>2, <1>3, <1>4, <1>5 DEF In, Out, AnalysisType, Flow

LEMMA LvIntraAt ==
    ASSUME AnalysisType, prog' = prog, NEW b \in Blocks, LvIntraBlock(b), NEW a \in Blocks
    PROVE  LET in == Found(b)[InOf(b)]
           IN  /\ SharedList(b) => in = In(b)
               /\ Out(a).on => /\ Out(a)'.on
                               /\ Out(a)'.linfo = IF a \in Sent(b) THEN Out(a).linfo \cup in.linfo
                                                  ELSE Out(a).linfo
                               /\ Out(a)'.pinfo = Out(a).pinfo
                               /\ Out(a)'.seen = Out(a).seen
               /\ ~Out(a).on => SameContent(Out(a)', IF a \in Sent(b) THEN in ELSE Out(a))
               /\ Out(a).new_ptadf => Out(a)'.new_ptadf
               /\ recompute /\ Out(a).on /\ a \in Sent(b) => Out(a)'.new_ptadf
               /\ a # b /\ Out(a).new_lvdf => Out(a)'.new_lvdf
               /\ a # b /\ ~SharedList(a) => In(a)' = In(a)
               /\ a = b => SameContent(In(a)', in)
               /\ process_lv \ {b} \subseteq process_lv'
               /\ a \in process_lv' => \/ a \in process_lv \ {b}
                                       \/ a \in Sent(b) /\ Out(a)'.new_lvdf
               /\ a \in Sent(b) /\ (~Out(a).on \/ ~(in.linfo \subseteq Out(a).linfo)) =>
                     a \in process_lv' /\ Out(a)'.new_lvdf
<1> DEFINE in == Found(b)[InOf(b)]
           out == Found(b)[OutOf(a)]
<1>1. /\ Flow(Found(b))
      /\ \A l \in Lists : l \notin {InOf(b), OutOf(b)} => Found(b)[l] = df[l]
      /\ SharedList(b) => Found(b) = df
      /\ SameButLv(Out(b), Found(b)[OutOf(b)])
  BY FoundFacts DEF AnalysisType, Out
<1>2. /\ Sent(b) # {} => in.on /\ in.new_lvdf
      /\ a \notin Sent(b) => SameButLv(df'[OutOf(a)], out)
      /\ a \in Sent(b) => SameButLv(df'[OutOf(a)], ArriveLive(in, out))
      /\ ~SharedList(a) => SameButLv(df'[InOf(a)], Found(b)[InOf(a)])
      /\ ~SharedList(a) /\ a # b => df'[InOf(a)] = df[InOf(a)]
      /\ OutOf(a) # InOf(b) =>
            df'[OutOf(a)] = IF a \in Sent(b) THEN ArriveLive(in, out) ELSE out
      /\ process_lv' = (process_lv \ {b}) \cup
            {c \in Sent(b) : \/ ~Found(b)[OutOf(c)].on
                             \/ ~(in.linfo \subseteq Found(b)[OutOf(c)].linfo)}
  BY LvIntraStep DEF AnalysisType
<1>3. /\ In(a)' = df'[InOf(a)] /\ Out(a)' = df'[OutOf(a)]
      /\ Out(a) \in Contexts /\ (~Out(a).on => Out(a) = NoContext)
      /\ SharedList(a) => In(a) = Out(a) /\ In(a)' = Out(a)'
      /\ a # b => OutOf(a) \notin {InOf(b), OutOf(b)}
  BY BlockNames
<1>4. InOf(b) \in Lists /\ OutOf(a) \in Lists
  BY ListNames
<1>5. in \in Contexts /\ out \in Contexts
  BY <1>1, <1>4 DEF Flow
<1>6. SameButLv(Out(a), out) /\ (a # b => out = Out(a))
  BY <1>1, <1>3, <1>4 DEF Out, SameButLv
<1>7. SharedList(b) => in = In(b)
  BY <1>1 DEF In
<1>8. OutOf(a) = InOf(b) => a = b /\ SharedList(b) /\ out = in
  BY ListNames
<1>9. a \in Sent(b) =>
         LET e == ArriveLive(in, out) IN
         /\ e \in Contexts /\ e.on
         /\ ~out.on => e = in
         /\ out.on => /\ e.linfo = out.linfo \cup in.linfo
                      /\ e.pinfo = out.pinfo /\ e.seen = out.seen
                      /\ out.new_lvdf => e.new_lvdf
                      /\ ~(in.linfo \subseteq out.linfo) => e.new_lvdf
                      /\ out.new_ptadf => e.new_ptadf
                      /\ recompute => e.new_ptadf
  BY <1>2, <1>5, ArriveLiveFacts DEF AnalysisType
<1>10. ~NoContext.on /\ ~NoContext.new_ptadf /\ ~NoContext.new_lvdf
  BY DEF NoContext
<1> HIDE DEF in, out
<1>11. Out(a).on => /\ Out(a)'.on
                    /\ Out(a)'.linfo = IF a \in Sent(b) THEN Out(a).linfo \cup in.linfo
                                       ELSE Out(a).linfo
                    /\ Out(a)'.pinfo = Out(a).pinfo
                    /\ Out(a)'.seen = Out(a).seen
  BY <1>2, <1>3, <1>6, <1>9 DEF SameButLv
<1>12. ~Out(a).on => SameContent(Out(a)', IF a \in Sent(b) THEN in ELSE Out(a))
  BY <1>2, <1>3, <1>6, <1>9 DEF SameButLv, SameContent
<1>13. Out(a).new_ptadf => Out(a)'.new_ptadf
  BY <1>2, <1>3, <1>6, <1>9, <1>10 DEF SameButLv
<1>14. recompute /\ Out(a).on /\ a \in Sent(b) => Out(a)'.new_ptadf
  BY <1>2, <1>3, <1>6, <1>9 DEF SameButLv
<1>15. a # b /\ Out(a).new_lvdf => Out(a)'.new_lvdf
  BY <1>2, <1>3, <1>6, <1>8, <1>9, <1>10
<1>16. a # b /\ ~SharedList(a) => In(a)' = In(a)
  BY <1>2, <1>3 DEF In
<1>17. a = b => SameContent(In(a)', in)
  <2>1. CASE a = b /\ ~SharedList(a)
    BY <1>2, <1>3, <2>1 DEF in, SameButLv, SameContent
  <2>2. CASE a = b /\ SharedList(a)
    <3>1. in = Out(a) /\ In(a)' = Out(a)'
      BY <1>3, <1>7, <2>2
    <3> QED
      BY <1>11, <1>12, <3>1 DEF SameContent
  <2> QED
    BY <2>1, <2>2
<1>18. a \in Sent(b) /\ (~out.on \/ ~(in.linfo \subseteq out.linfo)) => Out(a)'.new_lvdf
  <2>1. OutOf(a) = InOf(b) /\ a \in Sent(b) => out.on /\ in.linfo \subseteq out.linfo
    BY <1>2, <1>8
  <2> QED
    BY <1>2, <1>3, <1>9, <2>1
<1>19. a \in process_lv' <=> \/ a \in process_lv \ {b}
                             \/ a \in Sent(b) /\ (~out.on \/ ~(in.linfo \subseteq out.linfo))
  BY <1>2 DEF out
<1>20. process_lv \ {b} \subseteq process_lv'
  BY <1>2
<1> QED
  BY <1>6, <1>7, <1>11, <1>12, <1>13, <1>14, <1>15, <1>16, <1>17, <1>18, <1>19, <1>20
     DEF in, SameButLv

LEMMA LvStartAt ==
    ASSUME AnalysisType, prog' = prog, LvStartBlock, NEW a \in Blocks
    PROVE  /\ a # Start => In(a)' = In(a) /\ Out(a)' = Out(a)
           /\ SameButLv(Out(a), Out(a)')
           /\ In(a).on => SameValue(In(a), In(a)')
           /\ a = Start =>
                 /\ Out(a).on /\ Out(a).new_lvdf => In(a)'.on
                 /\ ~In(a).on /\ ~Out(a).on => In(a)' = In(a)
                 /\ ~In(a).on /\ Out(a).on /\ Out(a).new_lvdf => SameValue(Out(a), In(a)')
                 /\ Out(a).on /\ ((In(a).on /\ recompute) \/ (Out(a).new_lvdf /\ ~recompute)) =>
                       In(a)'.linfo = LiveIn(Out(a).linfo, In(a)'.pinfo, prog.code[a])
<1>1. Start \in Blocks
  BY Cfg DEF AnalysisType
<1>2. df' = Computed(Start) /\ ~SharedList(Start)
  BY LvStartStep DEF AnalysisType
<1>3. /\ \A l \in Lists : l \notin {InOf(Start), OutOf(Start)} => df'[l] = df[l]
      /\ SameButLv(Out(Start), df'[OutOf(Start)])
      /\ In(Start).on => SameValue(In(Start), df'[InOf(Start)])
      /\ ~In(Start).on /\ ~Out(Start).on => df'[InOf(Start)] = In(Start)
      /\ ~In(Start).on /\ Out(Start).on /\ Out(Start).new_lvdf =>
            SameValue(Out(Start), df'[InOf(Start)])
      /\ Out(Start).on /\ ((In(Start).on /\ recompute) \/ (Out(Start).new_lvdf /\ ~recompute)) =>
            /\ df'[InOf(Start)].on
            /\ df'[InOf(Start)].linfo =
                  LiveIn(Out(Start).linfo, df'[InOf(Start)].pinfo, prog.code[Start])
  BY <1>1, <1>2, ComputedFacts DEF AnalysisType, In, Out
<1>4. /\ In(a)' = df'[InOf(a)] /\ Out(a)' = df'[OutOf(a)]
      /\ a # Start => /\ OutOf(a) \notin {InOf(Start), OutOf(Start)}
                      /\ InOf(a) \notin {InOf(Start), OutOf(Start)}
  BY <1>1, BlockNames
<1>5. InOf(a) \in Lists /\ OutOf(a) \in Lists
  BY ListNames
<1>6. CASE a # Start
  <2>1. In(a)' = In(a) /\ Out(a)' = Out(a)
    BY <1>3, <1>4, <1>5, <1>6 DEF In, Out
  <2> QED
    BY <1>6, <2>1 DEF SameButLv, SameValue
<1>7. CASE a = Start
  <2>1. In(Start).on => df'[InOf(Start)].on
    BY <1>3 DEF SameValue
  <2>2. Out(Start).on /\ Out(Start).new_lvdf => df'[InOf(Start)].on
    BY <1>3, <2>1 DEF SameValue
  <2> QED
    BY <1>3, <1>4, <1>7, <2>2
<1> QED
  BY <1>6, <1>7

LEMMA PtaEndAt ==
    ASSUME AnalysisType, prog' = prog, PtaEndBlock, NEW a \in Blocks
    PROVE  /\ a # End => In(a)' = In(a) /\ Out(a)' = Out(a)
           /\ SameInfo(In(a), In(a)')
           /\ Out(a).on => /\ Out(a)'.on
                           /\ Out(a)'.linfo = Out(a).linfo
                           /\ Out(a)'.new_lvdf = Out(a).new_lvdf
<1>1. End \in Blocks
  BY Cfg DEF AnalysisType
<1>2. /\ \A l \in Lists : l \notin {InOf(End), OutOf(End)} => df'[l] = df[l]
      /\ SameInfo(In(End), df'[InOf(End)])
      /\ \/ df'[OutOf(End)] = Out(End)
         \/ /\ df'[OutOf(End)].on
            /\ Out(End).on => /\ df'[OutOf(End)].linfo = Out(End).linfo
                              /\ df'[OutOf(End)].new_lvdf = Out(End).new_lvdf
  <2>1. df' = CopyInToOut(df, End)
    BY DEF PtaEndBlock
  <2> QED
    BY <1>1, <2>1, EndNotShared, CopyInToOutFacts DEF AnalysisType, In, Out
<1>3. /\ In(a)' = df'[InOf(a)] /\ Out(a)' = df'[OutOf(a)]
      /\ a # End => /\ OutOf(a) \notin {InOf(End), OutOf(End)}
                    /\ InOf(a) \notin {InOf(End), OutOf(End)}
  BY <1>1, BlockNames
<1>4. InOf(a) \in Lists /\ OutOf(a) \in Lists
  BY ListNames
<1>5. CASE a # End
  <2>1. In(a)' = In(a) /\ Out(a)' = Out(a)
    BY <1>2, <1>3, <1>4, <1>5 DEF In, Out
  <2> QED
    BY <1>5, <2>1 DEF SameInfo
<1>6. CASE a = End
  BY <1>2, <1>3, <1>6 DEF SameInfo
<1> QED
  BY <1>5, <1>6

(* At the blocks whose OUT liveness has come to.                           *)
LEMMA PtaIntraAt ==
    ASSUME AnalysisType, prog' = prog, NEW b \in Blocks, PtaIntraBlock(b),
           ~SharedList(b) => Out(b).on, NEW a \in Blocks
    PROVE  LET out == Moved(b)[OutOf(b)]
           IN  /\ a \notin Changed(b) => SameInfo(In(a)', In(a))
               /\ a \in Changed(b) =>
                     /\ In(a).on => /\ In(a)'.linfo = In(a).linfo
                                    /\ In(a)'.new_lvdf = In(a).new_lvdf
                                    /\ AtLeast(In(a).pinfo, In(a)'.pinfo)
                                    /\ DOMAIN In(a).pinfo \subseteq In(a).linfo =>
                                          DOMAIN In(a)'.pinfo \subseteq In(a)'.linfo
                     /\ ~In(a).on => DOMAIN In(a)'.pinfo \subseteq In(a)'.linfo
               /\ out.on /\ out.new_ptadf /\ a \in PtaSuccs(b) =>
                     /\ In(a)'.on /\ In(a)'.seen
                     /\ AtLeast(CalculateActualOut(out, In(a)'), In(a)'.pinfo)
               /\ Changed(b) # {} => out.on /\ out.new_ptadf
               /\ out = Out(b) \/ (out.on /\ out.new_ptadf)
               /\ ~SharedList(b) => SameInfo(Out(b)', out)
               /\ SharedList(b) => out = Out(b)
               /\ Out(b).on => out.linfo = Out(b).linfo
               /\ Out(a).on => /\ Out(a)'.on
                               /\ Out(a)'.linfo = Out(a).linfo
                               /\ Out(a)'.new_lvdf = Out(a).new_lvdf
               /\ a # b /\ (~SharedList(a) \/ a \notin Changed(b)) => Out(a)' = Out(a)
               /\ a # b /\ SharedList(a) /\ a \in Changed(b) => Out(a)'.new_ptadf
<1> DEFINE out == Moved(b)[OutOf(b)]
           in  == Moved(b)[InOf(a)]
           e   == Arrive(out, in)
<1>1. /\ Flow(Moved(b))
      /\ \A l \in Lists : l \notin {InOf(b), OutOf(b)} => Moved(b)[l] = df[l]
      /\ SharedList(b) => Moved(b) = df
      /\ ~SharedList(b) => SameInfo(In(b), Moved(b)[InOf(b)])
      /\ \/ out = Out(b)
         \/ /\ out.on /\ out.new_ptadf
            /\ Out(b).on => out.linfo = Out(b).linfo /\ out.new_lvdf = Out(b).new_lvdf
  BY MovedFacts DEF AnalysisType, In, Out
<1>2. /\ Changed(b) \subseteq PtaSuccs(b)
      /\ Changed(b) # {} => out.on /\ out.new_ptadf
      /\ a \notin Changed(b) => SameInfo(df'[InOf(a)], in)
      /\ a \in Changed(b) => SameInfo(df'[InOf(a)], e) /\ e # in
      /\ ~SharedList(a) => SameInfo(df'[OutOf(a)], Moved(b)[OutOf(a)])
      /\ ~SharedList(a) /\ a # b => df'[OutOf(a)] = df[OutOf(a)]
      /\ ~SharedList(b) => SameInfo(df'[OutOf(b)], out)
      /\ a # b /\ SharedList(a) =>
            df'[OutOf(a)] = IF a \in Changed(b) THEN Arrive(out, df[OutOf(a)]) ELSE df[OutOf(a)]
  BY PtaIntraStep DEF AnalysisType
<1>3. /\ In(a)' = df'[InOf(a)] /\ Out(a)' = df'[OutOf(a)] /\ Out(b)' = df'[OutOf(b)]
      /\ In(a) \in Contexts /\ Out(a) \in Contexts
      /\ SharedList(a) => In(a) = Out(a) /\ In(a)' = Out(a)'
      /\ a # b => /\ OutOf(a) \notin {InOf(b), OutOf(b)}
                  /\ InOf(a) \notin {InOf(b), OutOf(b)}
  BY BlockNames
<1>4. InOf(a) \in Lists /\ OutOf(a) \in Lists /\ OutOf(b) \in Lists
  BY ListNames
<1>5. SameInfo(in, In(a)) /\ (a # b => in = In(a)) /\ in \in Contexts /\ out \in Contexts
  <2>1. in \in Contexts /\ out \in Contexts
    BY <1>1, <1>4 DEF Flow
  <2>2. CASE a # b
    BY <1>1, <1>3, <1>4, <2>1, <2>2 DEF In, SameInfo
  <2>3. CASE a = b /\ SharedList(b)
    BY <1>1, <2>1, <2>3 DEF In, SameInfo
  <2>4. CASE a = b /\ ~SharedList(b)
    BY <1>1, <2>1, <2>4 DEF SameInfo
  <2> QED
    BY <2>2, <2>3, <2>4
<1>6. out.on =>
           /\ e \in Contexts /\ e.on /\ e.seen
           /\ in.on => /\ e.linfo = in.linfo
                       /\ e.new_lvdf = in.new_lvdf
                       /\ AtLeast(in.pinfo, e.pinfo)
                       /\ DOMAIN in.pinfo \subseteq in.linfo => DOMAIN e.pinfo \subseteq e.linfo
           /\ ~in.on => DOMAIN e.pinfo \subseteq e.linfo
           /\ AtLeast(CalculateActualOut(out, e), e.pinfo)
           /\ out.new_ptadf /\ e # in => e.new_ptadf
  BY <1>5, ArriveFacts
<1>7. \A c, d : SameInfo(c, d) => CalculateActualOut(out, c) = CalculateActualOut(out, d)
  BY DEF SameInfo, CalculateActualOut
<1>8. out.on /\ out.new_ptadf /\ a \in PtaSuccs(b) /\ a \notin Changed(b) => e = in
  BY DEF Changed, ChangedSuccs
<1> HIDE DEF out, in, e
<1>9. a \notin Changed(b) => SameInfo(In(a)', In(a))
  BY <1>2, <1>3, <1>5 DEF SameInfo
<1>10. a \in Changed(b) =>
          /\ In(a).on => /\ In(a)'.linfo = In(a).linfo
                         /\ In(a)'.new_lvdf = In(a).new_lvdf
                         /\ AtLeast(In(a).pinfo, In(a)'.pinfo)
                         /\ DOMAIN In(a).pinfo \subseteq In(a).linfo =>
                               DOMAIN In(a)'.pinfo \subseteq In(a)'.linfo
          /\ ~In(a).on => DOMAIN In(a)'.pinfo \subseteq In(a)'.linfo
  BY <1>2, <1>3, <1>5, <1>6 DEF SameInfo
<1>11. out.on /\ out.new_ptadf /\ a \in PtaSuccs(b) =>
          /\ In(a)'.on /\ In(a)'.seen
          /\ AtLeast(CalculateActualOut(out, In(a)'), In(a)'.pinfo)
  <2> SUFFICES ASSUME out.on, out.new_ptadf, a \in PtaSuccs(b)
               PROVE  /\ In(a)'.on /\ In(a)'.seen
                      /\ AtLeast(CalculateActualOut(out, In(a)'), In(a)'.pinfo)
    OBVIOUS
  <2>1. SameInfo(In(a)', e)
    BY <1>2, <1>3, <1>8
  <2>2. CalculateActualOut(out, In(a)') = CalculateActualOut(out, e)
    BY <1>7, <2>1
  <2> QED
    BY <1>6, <2>1, <2>2 DEF SameInfo
<1>12. a # b /\ (~SharedList(a) \/ a \notin Changed(b)) => Out(a)' = Out(a)
  BY <1>2, <1>3 DEF Out
<1>13. a # b /\ SharedList(a) => /\ in = Out(a)
                                 /\ a \in Changed(b) => Out(a)' = e
  BY <1>2, <1>3, <1>5 DEF Out, e
<1>14. a # b /\ SharedList(a) /\ a \in Changed(b) => Out(a)'.new_ptadf
  BY <1>2, <1>6, <1>13
<1>15. Out(a).on => /\ Out(a)'.on
                    /\ Out(a)'.linfo = Out(a).linfo
                    /\ Out(a)'.new_lvdf = Out(a).new_lvdf
  <2>1. CASE a # b
    BY <1>2, <1>6, <1>12, <1>13, <2>1
  <2>2. CASE a = b /\ ~SharedList(b)
    BY <1>1, <1>2, <1>3, <2>2 DEF SameInfo
  <2>3. CASE a = b /\ SharedList(b)
    <3>1. In(a)' = Out(a)' /\ in = Out(a) /\ In(a) = Out(a)
      BY <1>1, <1>3, <2>3 DEF in, In
    <3> QED
      BY <1>2, <1>3, <1>6, <3>1 DEF SameInfo
  <2> QED
    BY <2>1, <2>2, <2>3
<1>16. SharedList(b) => out = Out(b)
  BY <1>1 DEF out, Out
<1>17. ~SharedList(b) => SameInfo(Out(b)', out)
  BY <1>2, <1>3
<1> QED
  BY <1>1, <1>2, <1>9, <1>10, <1>11, <1>12, <1>14, <1>15, <1>16, <1>17 DEF out

-----------------------------------------------------------------------------
(* Where the first liveness pass has come to. *)

First == phase = "lv" /\ ~recompute

(* A pass returns with no block flagged. *)
Idle ==
    /\ phase # "lv" => process_lv = {}
    /\ phase = "run" => process_pta = {}

(* There are no points-to values yet, and liveness at a block has come to  *)
(* its predecessors, unless the block is still to be processed.            *)
FirstPass(b) ==
    /\ In(b).pinfo = EmptyVal /\ ~In(b).seen
    /\ Out(b).pinfo = EmptyVal /\ ~Out(b).seen
    /\ b \in process_lv => Out(b).on /\ Out(b).new_lvdf
    /\ Out(b).on => In(b).on \/ b \in process_lv
    /\ In(b).on /\ b # Start =>
          \/ \A a \in LvPreds(b) : Out(a).on
          \/ SharedList(b) /\ b \in process_lv

AllReached ==
    /\ Out(End).on
    /\ ~First => \A b \in Blocks : b = End \/ ~LvBypass(b) => In(b).on /\ Out(b).on

BaseInv ==
    /\ AnalysisType
    /\ EndReached
    /\ Idle
    /\ First => \A b \in Blocks : FirstPass(b)
    /\ AllReached

LEMMA InitBase == Init /\ EndReached => BaseInv
<1> SUFFICES ASSUME Init, EndReached PROVE BaseInv
  OBVIOUS
<1>1. AnalysisType /\ prog \in Programs
  BY InitTypes DEF TypeInv, AnalysisType
<1>2. Start \in Blocks /\ End \in Blocks
  BY <1>1, Cfg
<1>3. InitialContext.on /\ InitialContext.new_lvdf
      /\ InitialContext.pinfo = EmptyVal /\ ~InitialContext.seen
  BY DEF InitialContext, NoContext
<1>4. ~NoContext.on /\ NoContext.pinfo = EmptyVal /\ ~NoContext.seen
  BY DEF NoContext
<1>5. \A l \in Lists : df[l] = IF l = OutOf(End) THEN InitialContext ELSE NoContext
  BY DEF Init
<1>6. Out(End) = InitialContext
  BY <1>2, <1>5, ListNames DEF Out
<1>7. First
  BY DEF First, Init
<1>8. ASSUME NEW b \in Blocks
      PROVE  FirstPass(b)
  <2>1. In(b) = NoContext
    <3>1. InOf(b) # OutOf(End)
      BY EndNotShared, ListNames
    <3> QED
      BY <1>5, <3>1, ListNames DEF In
  <2>2. CASE b = End
    BY <1>2, <1>3, <1>4, <1>6, <2>1, <2>2 DEF FirstPass, Init
  <2>3. CASE b # End
    <3>1. OutOf(b) # OutOf(End)
      BY <2>3, ListNames
    <3>2. Out(b) = NoContext
      BY <1>5, <3>1, ListNames DEF Out
    <3> QED
      BY <1>4, <2>1, <2>3, <3>2 DEF FirstPass, Init
  <2> QED
    BY <2>2, <2>3
<1> QED
  BY <1>1, <1>3, <1>6, <1>7, <1>8 DEF BaseInv, AllReached, Idle, Init

(* What is said of the program alone stays so. *)
LEMMA HypothesesKept ==
    ASSUME prog' = prog
    PROVE  /\ EndReached => EndReached'
           /\ NoEntryLoop => NoEntryLoop'
           /\ BypassAgree => BypassAgree'
           /\ DerefsMarked => DerefsMarked'
<1>1. /\ Blocks' = Blocks /\ End' = End
      /\ \A b : LvBypass(b)' = LvBypass(b) /\ PtaBypass(b)' = PtaBypass(b)
      /\ \A b : LvPreds(b)' = LvPreds(b)
  BY SameProgram
<1>2. EndReached => EndReached'
  BY <1>1 DEF EndReached
<1>3. NoEntryLoop => NoEntryLoop'
  BY <1>1 DEF NoEntryLoop, Preds, Succs
<1>4. BypassAgree => BypassAgree'
  BY <1>1 DEF BypassAgree
<1>5. DerefsMarked => DerefsMarked'
  BY <1>1 DEF DerefsMarked
<1> QED
  BY <1>2, <1>3, <1>4, <1>5

(* IN and OUT of a block are two lists only where liveness comes to.       *)
LEMMA NotShared ==
    ASSUME BaseInv, ~First, NEW b \in Blocks, ~SharedList(b)
    PROVE  In(b).on /\ Out(b).on
<1>1. b = End \/ ~LvBypass(b)
  BY DEF SharedList, LvBypass
<1> QED
  BY <1>1 DEF BaseInv, AllReached

(* No context goes away. *)
LEMMA OnKept ==
    ASSUME BaseInv, [Next]_vars, NEW a \in Blocks
    PROVE  /\ In(a).on => In(a)'.on
           /\ Out(a).on => Out(a)'.on
<1> USE DEF BaseInv
<1>1. prog' = prog /\ Start \in Blocks
  BY WhichStep, Cfg DEF AnalysisType
<1>2. /\ In(a)' = df'[InOf(a)] /\ Out(a)' = df'[OutOf(a)]
      /\ SharedList(a) => In(a) = Out(a) /\ In(a)' = Out(a)'
  BY <1>1, BlockNames
<1>3. CASE LvStartBlock
  BY <1>1, <1>3, LvStartAt DEF SameButLv, SameValue
<1>4. ASSUME NEW b \in Blocks, LvIntraBlock(b)
      PROVE  /\ In(a).on => In(a)'.on
             /\ Out(a).on => Out(a)'.on
  <2>1. In(b).on => Found(b)[InOf(b)].on
    BY FoundFacts DEF AnalysisType, In, SameValue
  <2>2. /\ Out(a).on => Out(a)'.on
        /\ a # b /\ ~SharedList(a) => In(a)' = In(a)
        /\ a = b => SameContent(In(a)', Found(b)[InOf(b)])
    BY <1>1, <1>4, LvIntraAt
  <2> QED
    BY <1>2, <2>1, <2>2 DEF SameContent
<1>5. CASE df' = df
  BY <1>2, <1>5 DEF In, Out
<1>6. CASE PtaEndBlock
  BY <1>1, <1>6, PtaEndAt DEF SameInfo
<1>7. ASSUME NEW b \in Blocks, PtaIntraBlock(b), phase = "pta"
      PROVE  /\ In(a).on => In(a)'.on
             /\ Out(a).on => Out(a)'.on
  <2>1. ~SharedList(b) => Out(b).on
    BY <1>7, NotShared DEF First
  <2>2. /\ a \notin Changed(b) => SameInfo(In(a)', In(a))
        /\ Changed(b) # {} => Moved(b)[OutOf(b)].on /\ Moved(b)[OutOf(b)].new_ptadf
        /\ Moved(b)[OutOf(b)].on /\ Moved(b)[OutOf(b)].new_ptadf /\ a \in PtaSuccs(b) =>
              In(a)'.on
        /\ Out(a).on => Out(a)'.on
    BY <1>1, <1>7, <2>1, PtaIntraAt
  <2>3. Changed(b) \subseteq PtaSuccs(b)
    BY <1>7, PtaIntraStep DEF AnalysisType
  <2> QED
    BY <2>2, <2>3 DEF SameInfo
<1>8. LvDone \/ PtaDone \/ UNCHANGED analysis => df' = df
  BY DEF LvDone, PtaDone, analysis
<1> QED
  BY <1>3, <1>4, <1>5, <1>6, <1>7, <1>8, WhichStep DEF AnalysisType

LEMMA FoundFirst ==
    ASSUME AnalysisType, First, NEW b \in process_lv, FirstPass(b)
    PROVE  LET in == Found(b)[InOf(b)]
           IN  /\ in.on /\ in.new_lvdf /\ in.pinfo = EmptyVal /\ ~in.seen
               /\ Sent(b) = LvPreds(b)
<1> DEFINE in == Found(b)[InOf(b)]
<1>1. b \in Blocks /\ Out(b).on /\ Out(b).new_lvdf /\ ~recompute
  BY DEF AnalysisType, FirstPass, First
<1>2. /\ SharedList(b) => Found(b) = df
      /\ In(b).on => SameValue(In(b), in)
      /\ ~SharedList(b) =>
            /\ ~In(b).on => SameValue(Out(b), in)
            /\ in.on /\ in.new_lvdf
  BY <1>1, FoundFacts DEF AnalysisType, In, Out
<1>3. SharedList(b) => in = Out(b)
  BY <1>2 DEF Out, OutOf
<1> HIDE DEF in
<1>4. in.on /\ in.new_lvdf /\ in.pinfo = EmptyVal /\ ~in.seen
  BY <1>1, <1>2, <1>3 DEF FirstPass, SameValue
<1> QED
  BY <1>4 DEF in, Sent

LEMMA FirstPassKept ==
    ASSUME BaseInv, First, prog' = prog, NEW b \in process_lv \ {Start}, LvIntraBlock(b),
           NEW a \in Blocks, \A c \in Blocks : Out(c).on => Out(c)'.on
    PROVE  FirstPass(a)'
<1> USE DEF BaseInv
<1> DEFINE in == Found(b)[InOf(b)]
<1>1. b \in Blocks /\ FirstPass(a) /\ FirstPass(b)
  BY DEF AnalysisType
<1>2. /\ in.on /\ in.new_lvdf /\ in.pinfo = EmptyVal /\ ~in.seen
      /\ Sent(b) = LvPreds(b)
  BY <1>1, FoundFirst
<1>3. /\ SharedList(a)' = SharedList(a) /\ LvPreds(a)' = LvPreds(a)
      /\ SharedList(a) => In(a) = Out(a) /\ In(a)' = Out(a)'
      /\ LvPreds(a) \subseteq Blocks
  BY SameProgram, BlockNames, Neighbours DEF AnalysisType
<1>4. /\ SharedList(b) => in = In(b)
      /\ Out(a).on => /\ Out(a)'.on
                      /\ Out(a)'.pinfo = Out(a).pinfo
                      /\ Out(a)'.seen = Out(a).seen
      /\ ~Out(a).on => SameContent(Out(a)', IF a \in Sent(b) THEN in ELSE Out(a))
      /\ a # b /\ Out(a).new_lvdf => Out(a)'.new_lvdf
      /\ a # b /\ ~SharedList(a) => In(a)' = In(a)
      /\ a = b => SameContent(In(a)', in)
      /\ process_lv \ {b} \subseteq process_lv'
      /\ a \in process_lv' => \/ a \in process_lv \ {b}
                              \/ a \in Sent(b) /\ Out(a)'.new_lvdf
      /\ a \in Sent(b) /\ ~Out(a).on => a \in process_lv'
  BY <1>1, LvIntraAt
<1>5. \A c \in Sent(b) : Out(c)'.on
  <2> TAKE c \in Sent(b)
  <2>1. c \in Blocks
    BY <1>1, <1>2, Neighbours DEF AnalysisType
  <2>2. ~Out(c).on => SameContent(Out(c)', in)
    BY <1>1, <2>1, LvIntraAt
  <2> QED
    BY <1>2, <2>1, <2>2 DEF SameContent
<1> HIDE DEF in
<1>6. Out(a)'.pinfo = EmptyVal /\ ~Out(a)'.seen
  BY <1>1, <1>2, <1>4 DEF FirstPass, SameContent
<1>7. In(a)'.pinfo = EmptyVal /\ ~In(a)'.seen
  BY <1>1, <1>2, <1>3, <1>4, <1>6 DEF FirstPass, SameContent
<1>8. a \in process_lv' => Out(a)'.on /\ Out(a)'.new_lvdf
  BY <1>1, <1>4, <1>5 DEF FirstPass
<1>9. Out(a)'.on => In(a)'.on \/ a \in process_lv'
  BY <1>1, <1>2, <1>3, <1>4 DEF FirstPass, SameContent
<1>10. ASSUME In(a)'.on, a # Start
       PROVE  \/ \A c \in LvPreds(a) : Out(c)'.on
              \/ SharedList(a) /\ a \in process_lv'
  <2>1. CASE a = b
    BY <1>2, <1>5, <2>1
  <2>2. CASE a # b /\ In(a).on
    BY <1>1, <1>3, <1>4, <1>10, <2>2 DEF FirstPass
  <2>3. CASE a # b /\ ~In(a).on
    BY <1>3, <1>4, <1>10, <2>3 DEF SameContent
  <2> QED
    BY <2>1, <2>2, <2>3
<1> QED
  BY <1>3, <1>6, <1>7, <1>8, <1>9, <1>10 DEF FirstPass

LEMMA FirstPassStart ==
    ASSUME BaseInv, First, prog' = prog, Start \in process_lv, LvStartBlock,
           NEW a \in Blocks, \A c \in Blocks : Out(c).on => Out(c)'.on
    PROVE  FirstPass(a)'
<1> USE DEF BaseInv
<1>1. FirstPass(a)
  OBVIOUS
<1>2. /\ SharedList(a)' = SharedList(a) /\ LvPreds(a)' = LvPreds(a)
      /\ LvPreds(a) \subseteq Blocks
  BY SameProgram, Neighbours DEF AnalysisType
<1>3. process_lv' = process_lv \ {Start}
  BY DEF LvStartBlock
<1>4. CASE a # Start
  <2>1. In(a)' = In(a) /\ Out(a)' = Out(a)
    BY <1>4, LvStartAt
  <2> QED
    BY <1>1, <1>2, <1>3, <1>4, <2>1 DEF FirstPass
<1>5. CASE a = Start
  <2>1. /\ SameButLv(Out(a), Out(a)')
        /\ In(a).on => SameValue(In(a), In(a)')
        /\ Out(a).on /\ Out(a).new_lvdf => In(a)'.on
        /\ ~In(a).on /\ Out(a).on /\ Out(a).new_lvdf => SameValue(Out(a), In(a)')
    BY <1>5, LvStartAt
  <2>2. Out(a).on /\ Out(a).new_lvdf
    BY <1>1, <1>5 DEF FirstPass
  <2> QED
    BY <1>1, <1>2, <1>3, <1>5, <2>1, <2>2 DEF FirstPass, SameButLv, SameValue
<1> QED
  BY <1>4, <1>5

(* When the first pass is over, it has come everywhere. *)
LEMMA FirstPassOver ==
    ASSUME BaseInv, First, process_lv = {}, NEW b \in Blocks, b = End \/ ~LvBypass(b)
    PROVE  In(b).on /\ Out(b).on
<1> USE DEF BaseInv
<1> DEFINE S == {c \in Blocks : In(c).on /\ Out(c).on}
<1>1. End \in Blocks
  BY Cfg DEF AnalysisType
<1>2. \A c \in Blocks : FirstPass(c)
  OBVIOUS
<1>3. \A c \in Blocks : Out(c).on => c \in S
  BY <1>2 DEF FirstPass
<1>4. End \in S
  BY <1>1, <1>3 DEF AllReached
<1>5. ASSUME NEW c \in S \ {Start}
      PROVE  LvPreds(c) \subseteq S
  <2>1. \A a \in LvPreds(c) : Out(a).on
    BY <1>2 DEF FirstPass
  <2>2. LvPreds(c) \subseteq Blocks
    BY Neighbours DEF AnalysisType
  <2> QED
    BY <1>3, <2>1, <2>2
<1>6. S \in SUBSET Blocks
  OBVIOUS
<1> HIDE DEF S
<1>7. \A c \in Blocks \ S : LvBypass(c)
  BY <1>4, <1>5, <1>6 DEF EndReached
<1>8. b \in S
  BY <1>4, <1>7
<1> QED
  BY <1>8 DEF S

LEMMA BaseKept == BaseInv /\ [Next]_vars => BaseInv'
<1> SUFFICES ASSUME BaseInv, [Next]_vars PROVE BaseInv'
  OBVIOUS
<1> USE DEF BaseInv
<1>1. prog' = prog /\ AnalysisType' /\ EndReached'
  BY WhichStep, AnalysisTypes, HypothesesKept DEF AnalysisType
<1>2. /\ Blocks' = Blocks /\ End' = End
      /\ \A b : LvBypass(b)' = LvBypass(b)
  BY <1>1, SameProgram
<1>3. PICK end \in Blocks : end = End
  BY Cfg DEF AnalysisType
<1>4. \A a \in Blocks : (In(a).on => In(a)'.on) /\ (Out(a).on => Out(a)'.on)
  BY OnKept
<1>5. Out(end)'.on
  BY <1>3, <1>4 DEF AllReached
<1>6. \A b \in Blocks : ~First /\ (b = End \/ ~LvBypass(b)) => In(b)'.on /\ Out(b)'.on
  BY <1>4 DEF AllReached
<1>7. ASSUME First' => First, First' => \A a \in Blocks : FirstPass(a)', Idle',
             First /\ ~First' => df' = df /\ process_lv = {}
      PROVE  BaseInv'
  <2>1. Out(End)'.on
    BY <1>2, <1>3, <1>5
  <2>2. ASSUME ~First', NEW b \in Blocks, b = End \/ ~LvBypass(b)
        PROVE  In(b)'.on /\ Out(b)'.on
    <3>1. CASE ~First
      BY <1>6, <2>2, <3>1
    <3>2. CASE First
      BY <1>4, <1>7, <2>2, <3>2, FirstPassOver
    <3> QED
      BY <3>1, <3>2
  <2>3. AllReached'
    BY <1>2, <2>1, <2>2 DEF AllReached
  <2> QED
    BY <1>1, <1>2, <1>7, <2>3
<1>8. CASE /\ phase = "lv" /\ phase' = "lv" /\ recompute' = recompute
           /\ Start \in process_lv /\ LvStartBlock
  <2>1. First' <=> First
    BY <1>8 DEF First
  <2>2. First => \A a \in Blocks : FirstPass(a)'
    BY <1>1, <1>4, <1>8, FirstPassStart
  <2> QED
    BY <1>7, <1>8, <2>1, <2>2 DEF Idle
<1>9. ASSUME phase = "lv", phase' = "lv", recompute' = recompute,
             NEW b \in process_lv \ {Start}, LvIntraBlock(b)
      PROVE  BaseInv'
  <2>1. First' <=> First
    BY <1>9 DEF First
  <2>2. First => \A a \in Blocks : FirstPass(a)'
    BY <1>1, <1>4, <1>9, FirstPassKept
  <2> QED
    BY <1>7, <1>9, <2>1, <2>2 DEF Idle
<1>10. CASE LvDone
  <2>1. df' = df /\ ~First' /\ process_lv = {} /\ Idle'
    BY <1>10 DEF LvDone, First, Idle
  <2> QED
    BY <1>7, <2>1
<1>11. CASE phase = "pta" /\ PtaEndBlock
  <2>1. ~First /\ ~First' /\ Idle'
    BY <1>11 DEF PtaEndBlock, First, Idle
  <2> QED
    BY <1>7, <2>1
<1>12. ASSUME phase = "pta", NEW b \in process_pta, PtaIntraBlock(b)
       PROVE  BaseInv'
  <2>1. /\ process_lv' = process_lv \cup {c \in Changed(b) : HasDeref(c)}
        /\ \/ phase' = "lv" /\ recompute' = TRUE
           \/ /\ UNCHANGED <<phase, recompute>>
              /\ \A c \in Changed(b) : ~HasDeref(c)
    BY <1>12, PtaIntraStep DEF AnalysisType
  <2>2. ~First /\ ~First' /\ Idle'
    BY <1>12, <2>1 DEF First, Idle
  <2> QED
    BY <1>7, <2>2
<1>13. CASE PtaDone
  <2>1. ~First /\ ~First' /\ Idle'
    BY <1>13 DEF PtaDone, First, Idle
  <2> QED
    BY <1>7, <2>1
<1>14. CASE UNCHANGED analysis
  <2>1. /\ df' = df /\ process_lv' = process_lv /\ process_pta' = process_pta
        /\ phase' = phase /\ recompute' = recompute
    BY <1>14 DEF analysis
  <2>2. \A a \in Blocks : In(a)' = In(a) /\ Out(a)' = Out(a)
    BY <1>1, <2>1, BlockNames DEF In, Out
  <2>3. \A a \in Blocks : SharedList(a)' = SharedList(a) /\ LvPreds(a)' = LvPreds(a)
                          /\ LvPreds(a) \subseteq Blocks
    BY <1>1, SameProgram, Neighbours DEF AnalysisType
  <2>4. ASSUME NEW a \in Blocks, FirstPass(a)
        PROVE  FirstPass(a)'
    BY <2>1, <2>2, <2>3, <2>4 DEF FirstPass
  <2>5. (First' <=> First) /\ Idle'
    BY <2>1 DEF First, Idle
  <2> QED
    BY <1>7, <2>4, <2>5
<1> QED
  BY <1>8, <1>9, <1>10, <1>11, <1>12, <1>13, <1>14, WhichStep DEF AnalysisType

-----------------------------------------------------------------------------
(* Points-to information is kept for live pointers only.                   *)

(* Liveness at IN is not more than find_live_vars would make of OUT.       *)
Grown(in, out, code) == in.linfo \subseteq LiveIn(out.linfo, in.pinfo, code)

LiveInv ==
    /\ BaseInv
    /\ LiveOnly
    /\ \A b \in Blocks : In(b).on => Grown(In(b), Out(b), prog.code[b])

LEMMA GrownMore ==
    ASSUME NEW in \in Contexts, NEW out \in Contexts, NEW next \in Contexts,
           NEW after \in Contexts, NEW code \in Seq(Item), Grown(in, out, code),
           out.linfo \subseteq after.linfo, next.linfo = in.linfo,
           AtLeast(in.pinfo, next.pinfo)
    PROVE  Grown(next, after, code)
<1>1. /\ in.linfo \in SUBSET Var /\ out.linfo \in SUBSET Var /\ after.linfo \in SUBSET Var
      /\ IsPointsToVal(in.pinfo) /\ IsPointsToVal(next.pinfo)
  BY ValueSets DEF Contexts
<1>2. LiveIn(out.linfo, in.pinfo, code) \subseteq LiveIn(after.linfo, next.pinfo, code)
  BY <1>1, LiveInGrows
<1> QED
  BY <1>2 DEF Grown

LEMMA SharedGrown ==
    ASSUME AnalysisType, NEW b \in Blocks, SharedList(b), NEW in \in Contexts
    PROVE  Grown(in, in, prog.code[b])
<1>1. prog.code[b] = <<>>
  BY DEF SharedList, HasConstraints
<1>2. in.linfo \in SUBSET Var /\ IsPointsToVal(in.pinfo)
  BY ValueSets DEF Contexts
<1>3. LiveIn(in.linfo, in.pinfo, <<>>) = in.linfo
  BY <1>2, LiveInEmpty
<1> QED
  BY <1>1, <1>3 DEF Grown

LEMMA ContextsNext ==
    ASSUME AnalysisType, [Next]_vars, NEW a \in Blocks
    PROVE  /\ prog' = prog
           /\ In(a) \in Contexts /\ Out(a) \in Contexts
           /\ In(a)' \in Contexts /\ Out(a)' \in Contexts
           /\ prog.code[a] \in Seq(Item)
           /\ SharedList(a)' = SharedList(a)
           /\ SharedList(a) => In(a) = Out(a) /\ In(a)' = Out(a)'
           /\ ~In(a).on => In(a) = NoContext
           /\ ~Out(a).on => Out(a) = NoContext
<1>1. prog' = prog
  BY WhichStep DEF AnalysisType
<1>2. Flow(df)' /\ Lists' = Lists
  BY <1>1, AnalysisTypes, SameProgram DEF AnalysisType
<1>3. InOf(a) \in Lists /\ OutOf(a) \in Lists
  BY ListNames
<1>4. df'[InOf(a)] \in Contexts /\ df'[OutOf(a)] \in Contexts
  BY <1>2, <1>3 DEF Flow
<1> QED
  BY <1>1, <1>4, BlockNames, SameProgram, Cfg DEF AnalysisType

(* The liveness a block propagates. *)
LEMMA FoundLive ==
    ASSUME LiveInv, phase = "lv", NEW b \in process_lv \ {Start}
    PROVE  LET in == Found(b)[InOf(b)]
           IN  in.on => /\ in \in Contexts
                        /\ DOMAIN in.pinfo \subseteq in.linfo
                        /\ Grown(in, Out(b), prog.code[b])
<1> USE DEF LiveInv, BaseInv
<1> DEFINE in == Found(b)[InOf(b)]
           code == prog.code[b]
<1>1. b \in Blocks /\ prog.code[b] \in Seq(Item) /\ InOf(b) \in Lists /\ OutOf(b) \in Lists
  BY Cfg, ListNames DEF AnalysisType
<1>2. /\ Flow(Found(b))
      /\ SharedList(b) => Found(b) = df
      /\ In(b).on => SameValue(In(b), in)
      /\ ~SharedList(b) =>
           /\ Out(b).on /\ ((In(b).on /\ recompute) \/ (Out(b).new_lvdf /\ ~recompute)) =>
                 \/ in.linfo = LiveIn(Out(b).linfo, in.pinfo, code)
                 \/ ~HasConstraints(b) /\ ~Out(b).new_lvdf /\ in = In(b)
  BY <1>1, FoundFacts DEF AnalysisType, In, Out
<1>3. in \in Contexts /\ In(b) \in Contexts /\ Out(b) \in Contexts
  BY <1>1, <1>2 DEF AnalysisType, Flow, In, Out
<1>4. In(b).on => DOMAIN In(b).pinfo \subseteq In(b).linfo
  BY <1>1 DEF LiveOnly, In
<1>5. In(b).on => Grown(In(b), Out(b), code)
  BY <1>1
<1>6. CASE SharedList(b)
  <2>1. in = In(b)
    BY <1>2, <1>6 DEF In
  <2> QED
    BY <1>3, <1>4, <1>5, <2>1
<1>7. CASE First /\ ~SharedList(b)
  <2>1. in.on /\ in.pinfo = EmptyVal
    BY <1>1, <1>7, FoundFirst
  <2>2. Out(b).on /\ Out(b).new_lvdf /\ ~recompute
    BY <1>1, <1>7 DEF FirstPass, First
  <2>3. in.linfo = LiveIn(Out(b).linfo, in.pinfo, code)
    BY <1>2, <1>7, <2>2
  <2>4. DOMAIN in.pinfo = {}
    BY <2>1 DEF EmptyVal
  <2> QED
    BY <1>3, <2>3, <2>4 DEF Grown
<1>8. CASE ~First /\ ~SharedList(b)
  <2>1. In(b).on /\ Out(b).on /\ recompute
    BY <1>1, <1>8, NotShared DEF First, AnalysisType
  <2> HIDE DEF in, code
  <2>2. in.pinfo = In(b).pinfo
    BY <1>2, <2>1 DEF SameValue
  <2>3. CASE in.linfo = LiveIn(Out(b).linfo, in.pinfo, code)
    BY <1>3, <1>4, <1>5, <2>1, <2>2, <2>3 DEF Grown, in, code
  <2>4. CASE in = In(b)
    BY <1>3, <1>4, <1>5, <2>1, <2>4 DEF in, code
  <2> QED
    BY <1>2, <1>8, <2>1, <2>3, <2>4
<1> QED
  BY <1>6, <1>7, <1>8

LiveAt(a) ==
    In(a).on =>
        /\ a # Start => DOMAIN In(a).pinfo \subseteq In(a).linfo
        /\ Grown(In(a), Out(a), prog.code[a])

LEMMA LiveAtAll == LiveInv <=> BaseInv /\ \A a \in Blocks : LiveAt(a)
BY DEF LiveInv, LiveOnly, LiveAt, In

(* A step that changes neither IN nor, but for more liveness, OUT. *)
LEMMA LiveAtSame ==
    ASSUME LiveInv, [Next]_vars, NEW a \in Blocks, Out(a).linfo \subseteq Out(a)'.linfo,
           SameContent(In(a)', In(a))
    PROVE  LiveAt(a)'
<1>1. /\ prog' = prog /\ prog.code[a] \in Seq(Item)
      /\ In(a) \in Contexts /\ Out(a) \in Contexts
      /\ In(a)' \in Contexts /\ Out(a)' \in Contexts
  BY ContextsNext DEF LiveInv, BaseInv
<1>2. LiveAt(a)
  BY LiveAtAll
<1>3. AtLeast(In(a).pinfo, In(a)'.pinfo)
  BY AtLeastOrder DEF SameContent
<1>4. Grown(In(a), Out(a), prog.code[a]) => Grown(In(a)', Out(a)', prog.code[a])
  BY <1>1, <1>3, GrownMore DEF SameContent
<1> QED
  BY <1>1, <1>2, <1>4 DEF LiveAt, SameContent

LEMMA LiveAtStart ==
    ASSUME LiveInv, [Next]_vars, phase = "lv", Start \in process_lv, LvStartBlock,
           NEW a \in Blocks
    PROVE  LiveAt(a)'
<1> USE DEF LiveInv, BaseInv
<1>1. /\ prog' = prog
      /\ In(a)' \in Contexts /\ Out(a)' \in Contexts
  BY ContextsNext
<1>2. /\ a # Start => In(a)' = In(a) /\ Out(a)' = Out(a)
      /\ SameButLv(Out(a), Out(a)')
      /\ a = Start /\ Out(a).on /\ ((In(a).on /\ recompute) \/ (Out(a).new_lvdf /\ ~recompute))
            => In(a)'.linfo = LiveIn(Out(a).linfo, In(a)'.pinfo, prog.code[a])
  BY <1>1, LvStartAt
<1>3. CASE a # Start
  BY <1>2, <1>3, LiveAtSame DEF SameContent
<1>4. CASE a = Start
  <2>1. ~SharedList(a)
    BY <1>4, ListNames
  <2>2. First => Out(a).on /\ Out(a).new_lvdf /\ ~recompute
    BY <1>4 DEF FirstPass, First
  <2>3. ~First => In(a).on /\ Out(a).on /\ recompute
    BY <2>1, NotShared DEF First, AnalysisType
  <2>4. Grown(In(a)', Out(a)', prog.code[a])
    BY <1>2, <1>4, <2>2, <2>3 DEF Grown, SameButLv
  <2> QED
    BY <1>1, <1>4, <2>4 DEF LiveAt
<1> QED
  BY <1>3, <1>4

LEMMA LiveAtIntra ==
    ASSUME LiveInv, [Next]_vars, phase = "lv", NEW b \in process_lv \ {Start},
           LvIntraBlock(b), NEW a \in Blocks
    PROVE  LiveAt(a)'
<1> USE DEF LiveInv, BaseInv
<1> DEFINE in == Found(b)[InOf(b)]
<1>1. /\ prog' = prog /\ prog.code[a] \in Seq(Item)
      /\ In(a) \in Contexts /\ Out(a) \in Contexts
      /\ In(a)' \in Contexts /\ Out(a)' \in Contexts
      /\ SharedList(a) => In(a) = Out(a) /\ In(a)' = Out(a)'
      /\ ~Out(a).on => Out(a) = NoContext
  BY ContextsNext
<1>2. b \in Blocks
  BY DEF AnalysisType
<1>3. /\ SharedList(b) => in = In(b)
      /\ Out(a).on => /\ Out(a)'.on
                      /\ Out(a)'.linfo = IF a \in Sent(b) THEN Out(a).linfo \cup in.linfo
                                         ELSE Out(a).linfo
                      /\ Out(a)'.pinfo = Out(a).pinfo
                      /\ Out(a)'.seen = Out(a).seen
      /\ ~Out(a).on => SameContent(Out(a)', IF a \in Sent(b) THEN in ELSE Out(a))
      /\ a # b /\ ~SharedList(a) => In(a)' = In(a)
      /\ a = b => SameContent(In(a)', in)
  BY <1>1, <1>2, LvIntraAt
<1>4. Sent(b) # {} => in.on
  BY DEF Sent
<1>5. in.on => /\ in \in Contexts
               /\ DOMAIN in.pinfo \subseteq in.linfo
               /\ Grown(in, Out(b), prog.code[b])
  BY FoundLive
<1>6. LiveAt(a)
  BY LiveAtAll
<1> HIDE DEF in
<1>7. Out(a).linfo \subseteq Out(a)'.linfo
  BY <1>1, <1>3 DEF NoContext
<1>8. CASE SharedList(a)
  <2>1. Grown(In(a)', Out(a)', prog.code[a])
    BY <1>1, <1>8, SharedGrown
  <2>2. In(a)'.on /\ a # Start => DOMAIN In(a)'.pinfo \subseteq In(a)'.linfo
    <3>1. CASE Out(a).on
      BY <1>1, <1>3, <1>6, <1>7, <1>8, <3>1 DEF LiveAt
    <3>2. CASE ~Out(a).on
      BY <1>1, <1>3, <1>4, <1>5, <1>8, <3>2 DEF SameContent
    <3> QED
      BY <3>1, <3>2
  <2> QED
    BY <1>1, <2>1, <2>2 DEF LiveAt
<1>9. CASE ~SharedList(a) /\ a # b
  BY <1>3, <1>7, <1>9, LiveAtSame DEF SameContent
<1>10. CASE ~SharedList(a) /\ a = b
  <2> SUFFICES ASSUME In(a)'.on
               PROVE  /\ DOMAIN In(a)'.pinfo \subseteq In(a)'.linfo
                      /\ Grown(In(a)', Out(a)', prog.code[a])
    BY <1>1 DEF LiveAt
  <2>1. in.on /\ In(a)'.linfo = in.linfo /\ In(a)'.pinfo = in.pinfo
    BY <1>3, <1>10 DEF SameContent
  <2>2. AtLeast(in.pinfo, In(a)'.pinfo)
    BY <2>1, AtLeastOrder
  <2>3. Grown(In(a)', Out(a)', prog.code[a])
    BY <1>1, <1>5, <1>7, <1>10, <2>1, <2>2, GrownMore
  <2> QED
    BY <1>5, <2>1, <2>3
<1> QED
  BY <1>8, <1>9, <1>10

LEMMA LiveAtPta ==
    ASSUME LiveInv, [Next]_vars, phase = "pta", NEW b \in process_pta, PtaIntraBlock(b),
           NEW a \in Blocks
    PROVE  LiveAt(a)'
<1> USE DEF LiveInv, BaseInv
<1>1. /\ prog' = prog /\ prog.code[a] \in Seq(Item)
      /\ In(a) \in Contexts /\ Out(a) \in Contexts
      /\ In(a)' \in Contexts /\ Out(a)' \in Contexts
      /\ SharedList(a) => In(a) = Out(a) /\ In(a)' = Out(a)'
      /\ ~Out(a).on => Out(a) = NoContext
  BY ContextsNext
<1>2. b \in Blocks /\ ~First
  BY DEF AnalysisType, First
<1>3. ~SharedList(b) => Out(b).on
  BY <1>2, NotShared
<1>4. /\ a \notin Changed(b) => SameInfo(In(a)', In(a))
      /\ a \in Changed(b) =>
            /\ In(a).on => /\ In(a)'.linfo = In(a).linfo
                           /\ AtLeast(In(a).pinfo, In(a)'.pinfo)
                           /\ DOMAIN In(a).pinfo \subseteq In(a).linfo =>
                                 DOMAIN In(a)'.pinfo \subseteq In(a)'.linfo
            /\ ~In(a).on => DOMAIN In(a)'.pinfo \subseteq In(a)'.linfo
      /\ Out(a).on => Out(a)'.linfo = Out(a).linfo
  BY <1>1, <1>2, <1>3, PtaIntraAt
<1>5. LiveAt(a)
  BY LiveAtAll
<1>6. Out(a).linfo \subseteq Out(a)'.linfo
  BY <1>1, <1>4 DEF NoContext
<1>7. CASE a \notin Changed(b)
  BY <1>4, <1>6, <1>7, LiveAtSame DEF SameInfo, SameContent
<1>8. CASE a \in Changed(b)
  <2>1. a # Start => DOMAIN In(a)'.pinfo \subseteq In(a)'.linfo
    BY <1>4, <1>5, <1>8 DEF LiveAt
  <2>2. CASE SharedList(a)
    BY <1>1, <2>1, <2>2, SharedGrown DEF LiveAt
  <2>3. CASE ~SharedList(a)
    <3>1. In(a).on
      BY <1>2, <2>3, NotShared
    <3>2. Grown(In(a)', Out(a)', prog.code[a])
      BY <1>1, <1>4, <1>5, <1>6, <1>8, <3>1, GrownMore DEF LiveAt
    <3> QED
      BY <1>1, <2>1, <3>2 DEF LiveAt
  <2> QED
    BY <2>2, <2>3
<1> QED
  BY <1>7, <1>8

LEMMA InitLive == Init /\ EndReached => LiveInv
<1> SUFFICES ASSUME Init, EndReached PROVE LiveInv
  OBVIOUS
<1>1. BaseInv
  BY InitBase
<1>2. ASSUME NEW a \in Blocks
      PROVE  ~In(a).on
  <2>1. InOf(a) \in Lists /\ InOf(a) # OutOf(End)
    BY EndNotShared, ListNames
  <2>2. In(a) = NoContext
    BY <2>1 DEF In, Init
  <2> QED
    BY <2>2, NoContextType
<1> QED
  BY <1>1, <1>2, LiveAtAll DEF LiveAt

LEMMA LiveKept == LiveInv /\ [Next]_vars => LiveInv'
<1> SUFFICES ASSUME LiveInv, [Next]_vars PROVE LiveInv'
  OBVIOUS
<1>1. BaseInv /\ BaseInv'
  BY BaseKept DEF LiveInv
<1>2. prog' = prog /\ Blocks' = Blocks
  BY <1>1, WhichStep, SameProgram DEF BaseInv, AnalysisType
<1>3. ASSUME NEW a \in Blocks
      PROVE  LiveAt(a)'
  <2>1. CASE PtaEndBlock
    <3>1. /\ SameInfo(In(a), In(a)')
          /\ a # End => Out(a)' = Out(a)
          /\ Out(a).on => Out(a)'.linfo = Out(a).linfo
      BY <1>1, <1>2, <2>1, PtaEndAt DEF BaseInv
    <3>2. Out(a).linfo \subseteq Out(a)'.linfo
      BY <1>1, <3>1 DEF BaseInv, AllReached
    <3> QED
      BY <3>1, <3>2, LiveAtSame DEF SameInfo, SameContent
  <2>2. CASE df' = df
    <3>1. In(a)' = In(a) /\ Out(a)' = Out(a)
      BY <1>1, <1>2, <2>2, BlockNames DEF BaseInv, In, Out
    <3> QED
      BY <3>1, LiveAtSame DEF SameContent
  <2>3. LvDone \/ PtaDone \/ UNCHANGED analysis => df' = df
    BY DEF LvDone, PtaDone, analysis
  <2> QED
    BY <1>1, <2>1, <2>2, <2>3, LiveAtStart, LiveAtIntra, LiveAtPta, WhichStep
       DEF BaseInv, AnalysisType
<1>4. BaseInv' /\ (\A a \in Blocks' : LiveAt(a)') => LiveInv'
  BY DEF LiveInv, LiveOnly, LiveAt, In
<1> QED
  BY <1>1, <1>2, <1>3, <1>4

(* What is propagated and kept is restricted to live pointers: liveness at *)
(* IN only ever grows, also when it is computed anew from a larger OUT.    *)
THEOREM KeepsLive == Spec /\ EndReached => []LiveOnly
<1>1. LiveInv => LiveOnly
  BY DEF LiveInv
<1> QED
  BY <1>1, InitLive, LiveKept, PTL DEF Spec

-----------------------------------------------------------------------------
(* The liveness that is left is that of the final points-to values.        *)

(* IN is what find_live_vars makes of OUT, unless it is to run again.      *)
Fresh(b) ==
    HasConstraints(b) /\ In(b).on /\ b \notin process_lv =>
        In(b).linfo = LiveIn(Out(b).linfo, In(b).pinfo, prog.code[b])

(* What is live at IN is live at OUT of the predecessors, unless it came   *)
(* to a list that is IN and OUT at once and is still to be passed on.      *)
Passed(b) ==
    In(b).on /\ ~LvBypass(b) /\ ~(SharedList(b) /\ b \in process_lv /\ In(b).new_lvdf) =>
        \A a \in LvPreds(b) : In(b).linfo \subseteq Out(a).linfo

FreshInv ==
    /\ BaseInv
    /\ NoEntryLoop
    /\ DerefsMarked
    /\ \A b \in Blocks : Fresh(b) /\ Passed(b)

LEMMA OutGrows ==
    ASSUME BaseInv, [Next]_vars, NEW a \in Blocks
    PROVE  Out(a).linfo \subseteq Out(a)'.linfo
<1> USE DEF BaseInv
<1>1. prog' = prog /\ (~Out(a).on => Out(a).linfo = {})
  BY ContextsNext DEF NoContext
<1>2. CASE LvStartBlock
  BY <1>1, <1>2, LvStartAt DEF SameButLv
<1>3. ASSUME NEW b \in Blocks, LvIntraBlock(b)
      PROVE  Out(a).linfo \subseteq Out(a)'.linfo
  BY <1>1, <1>3, LvIntraAt
<1>4. CASE df' = df
  BY <1>1, <1>4, BlockNames DEF Out
<1>5. CASE PtaEndBlock
  BY <1>1, <1>5, PtaEndAt
<1>6. ASSUME NEW b \in Blocks, PtaIntraBlock(b), phase = "pta"
      PROVE  Out(a).linfo \subseteq Out(a)'.linfo
  <2>1. ~SharedList(b) => Out(b).on
    BY <1>6, NotShared DEF First
  <2> QED
    BY <1>1, <1>6, <2>1, PtaIntraAt
<1>7. LvDone \/ PtaDone \/ UNCHANGED analysis => df' = df
  BY DEF LvDone, PtaDone, analysis
<1> QED
  BY <1>2, <1>3, <1>4, <1>5, <1>6, <1>7, WhichStep DEF AnalysisType

(* What a block whose liveness is computed makes of IN. *)
LEMMA FoundFresh ==
    ASSUME BaseInv, phase = "lv", NEW b \in process_lv \ {Start}, ~SharedList(b)
    PROVE  LET in == Found(b)[InOf(b)]
           IN  /\ Out(b).on
               /\ HasConstraints(b) =>
                     in.linfo = LiveIn(Out(b).linfo, in.pinfo, prog.code[b])
               /\ (in.on /\ in.new_lvdf) \/ (In(b).on /\ in = In(b))
<1> USE DEF BaseInv
<1> DEFINE in == Found(b)[InOf(b)]
<1>1. b \in Blocks
  BY DEF AnalysisType
<1>2. Out(b).on /\ ((In(b).on /\ recompute) \/ (Out(b).new_lvdf /\ ~recompute)) =>
         \/ /\ in.on /\ in.new_lvdf
            /\ in.linfo = LiveIn(Out(b).linfo, in.pinfo, prog.code[b])
         \/ ~HasConstraints(b) /\ ~Out(b).new_lvdf /\ in = In(b)
  BY <1>1, FoundFacts DEF AnalysisType, In, Out
<1>3. First => Out(b).on /\ Out(b).new_lvdf /\ ~recompute
  BY <1>1 DEF FirstPass, First
<1>4. ~First => In(b).on /\ Out(b).on /\ recompute
  BY <1>1, NotShared DEF First, AnalysisType
<1> HIDE DEF in
<1>5. /\ Out(b).on
      /\ HasConstraints(b) => in.linfo = LiveIn(Out(b).linfo, in.pinfo, prog.code[b])
      /\ (in.on /\ in.new_lvdf) \/ (In(b).on /\ in = In(b))
  BY <1>2, <1>3, <1>4
<1> QED
  BY <1>5 DEF in

LEMMA FreshIntra ==
    ASSUME FreshInv, [Next]_vars, phase = "lv", NEW b \in process_lv \ {Start},
           LvIntraBlock(b), NEW a \in Blocks
    PROVE  Fresh(a)' /\ Passed(a)'
<1> USE DEF FreshInv, BaseInv
<1> DEFINE in == Found(b)[InOf(b)]
<1>1. /\ prog' = prog
      /\ SharedList(a)' = SharedList(a)
      /\ SharedList(a) => In(a) = Out(a) /\ In(a)' = Out(a)'
      /\ HasConstraints(a) => ~SharedList(a)
  BY ContextsNext, ListNames
<1>2. b \in Blocks
  BY DEF AnalysisType
<1>3. /\ HasConstraints(a)' = HasConstraints(a)
      /\ LvPreds(a)' = LvPreds(a) /\ LvBypass(a)' = LvBypass(a)
      /\ LvPreds(a) \subseteq Blocks
  BY <1>1, SameProgram, Neighbours DEF AnalysisType
<1>4. /\ SharedList(b) => in = In(b)
      /\ Out(a).on => Out(a)'.linfo = IF a \in Sent(b) THEN Out(a).linfo \cup in.linfo
                                      ELSE Out(a).linfo
      /\ ~Out(a).on => SameContent(Out(a)', IF a \in Sent(b) THEN in ELSE Out(a))
      /\ a # b /\ Out(a).new_lvdf => Out(a)'.new_lvdf
      /\ a # b /\ ~SharedList(a) => In(a)' = In(a)
      /\ a = b => SameContent(In(a)', in)
      /\ process_lv \ {b} \subseteq process_lv'
      /\ a \in Sent(b) /\ (~Out(a).on \/ ~(in.linfo \subseteq Out(a).linfo)) =>
            a \in process_lv' /\ Out(a)'.new_lvdf
  BY <1>1, <1>2, LvIntraAt
<1>5. Sent(b) = IF in.on /\ in.new_lvdf THEN LvPreds(b) ELSE {}
  BY DEF Sent
<1>6. ~SharedList(b) =>
         /\ Out(b).on
         /\ HasConstraints(b) => in.linfo = LiveIn(Out(b).linfo, in.pinfo, prog.code[b])
         /\ (in.on /\ in.new_lvdf) \/ (In(b).on /\ in = In(b))
  BY FoundFresh
<1>7. \A p \in Blocks : Out(p).linfo \subseteq Out(p)'.linfo
  BY OutGrows
<1>8. \A p \in Sent(b) : in.linfo \subseteq Out(p)'.linfo
  <2> TAKE p \in Sent(b)
  <2>1. p \in Blocks
    BY <1>2, <1>5, Neighbours DEF AnalysisType
  <2>2. /\ Out(p).on => Out(p)'.linfo = Out(p).linfo \cup in.linfo
        /\ ~Out(p).on => SameContent(Out(p)', in)
    BY <1>1, <1>2, <2>1, LvIntraAt
  <2> QED
    BY <2>2 DEF SameContent
<1>9. Fresh(a) /\ Passed(a)
  OBVIOUS
<1> HIDE DEF in, FreshInv, BaseInv
<1>10. ASSUME HasConstraints(a), In(a)'.on, a \notin process_lv'
       PROVE  In(a)'.linfo = LiveIn(Out(a)'.linfo, In(a)'.pinfo, prog.code[a])
  <2>1. Out(a)'.linfo = Out(a).linfo
    BY <1>4, <1>10 DEF SameContent
  <2>2. CASE a = b
    BY <1>1, <1>4, <1>6, <1>10, <2>1, <2>2 DEF SameContent
  <2>3. CASE a # b
    BY <1>1, <1>4, <1>9, <1>10, <2>1, <2>3 DEF Fresh
  <2> QED
    BY <2>2, <2>3
<1>11. ASSUME In(a)'.on, ~LvBypass(a),
              ~(SharedList(a) /\ a \in process_lv' /\ In(a)'.new_lvdf),
              NEW p \in LvPreds(a)
       PROVE  In(a)'.linfo \subseteq Out(p)'.linfo
  <2>1. Out(p).linfo \subseteq Out(p)'.linfo
    BY <1>3, <1>7
  <2>2. CASE a = b /\ in.on /\ in.new_lvdf
    BY <1>4, <1>5, <1>8, <2>2 DEF SameContent
  <2>3. CASE a = b /\ ~(in.on /\ in.new_lvdf)
    <3>1. in.on /\ ~in.new_lvdf /\ in = In(b) /\ In(a)'.linfo = in.linfo
      BY <1>4, <1>6, <1>11, <2>3 DEF SameContent
    <3>2. In(a).linfo \subseteq Out(p).linfo
      BY <1>9, <1>11, <2>3, <3>1 DEF Passed
    <3> QED
      BY <2>1, <2>3, <3>1, <3>2
  <2>4. CASE a # b /\ ~SharedList(a)
    BY <1>4, <1>9, <1>11, <2>1, <2>4 DEF Passed
  <2>5. CASE a # b /\ SharedList(a)
    <3>1. ~(a \in Sent(b) /\ (~Out(a).on \/ ~(in.linfo \subseteq Out(a).linfo)))
      BY <1>1, <1>4, <1>11, <2>5
    <3>2. In(a).on /\ In(a)'.linfo = In(a).linfo
      BY <1>1, <1>4, <1>11, <2>5, <3>1 DEF SameContent
    <3>3. ~(a \in process_lv /\ In(a).new_lvdf)
      BY <1>1, <1>4, <1>11, <2>5
    <3> QED
      BY <1>9, <1>11, <2>1, <3>2, <3>3 DEF Passed
  <2> QED
    BY <2>2, <2>3, <2>4, <2>5
<1>12. Fresh(a)'
  BY <1>1, <1>3, <1>10 DEF Fresh
<1>13. Passed(a)'
  BY <1>1, <1>3, <1>11 DEF Passed
<1> QED
  BY <1>12, <1>13

(* Steps that leave the liveness at the block and its flag as they are.    *)
LEMMA FreshSame ==
    ASSUME FreshInv, [Next]_vars, NEW a \in Blocks,
           SameContent(In(a)', In(a)), In(a)'.new_lvdf = In(a).new_lvdf,
           Out(a)'.linfo = Out(a).linfo, a \in process_lv => a \in process_lv'
    PROVE  Fresh(a)' /\ Passed(a)'
<1> USE DEF FreshInv, BaseInv
<1>1. prog' = prog /\ SharedList(a)' = SharedList(a)
  BY ContextsNext
<1>2. /\ HasConstraints(a)' = HasConstraints(a)
      /\ LvPreds(a)' = LvPreds(a) /\ LvBypass(a)' = LvBypass(a)
      /\ LvPreds(a) \subseteq Blocks
  BY <1>1, SameProgram, Neighbours DEF AnalysisType
<1>3. \A p \in LvPreds(a) : Out(p).linfo \subseteq Out(p)'.linfo
  BY <1>2, OutGrows
<1>4. Fresh(a) /\ Passed(a)
  OBVIOUS
<1> HIDE DEF FreshInv, BaseInv
<1>5. Fresh(a)'
  BY <1>1, <1>2, <1>4 DEF Fresh, SameContent
<1>6. Passed(a)'
  BY <1>1, <1>2, <1>3, <1>4 DEF Passed, SameContent
<1> QED
  BY <1>5, <1>6

LEMMA FreshStart ==
    ASSUME FreshInv, [Next]_vars, phase = "lv", Start \in process_lv, LvStartBlock,
           NEW a \in Blocks
    PROVE  Fresh(a)' /\ Passed(a)'
<1> USE DEF FreshInv, BaseInv
<1>1. /\ prog' = prog /\ process_lv' = process_lv \ {Start}
      /\ HasConstraints(a)' = HasConstraints(a) /\ LvPreds(a)' = LvPreds(a)
  BY ContextsNext, SameProgram DEF LvStartBlock
<1>2. /\ a # Start => In(a)' = In(a) /\ Out(a)' = Out(a)
      /\ SameButLv(Out(a), Out(a)')
      /\ a = Start /\ Out(a).on /\ ((In(a).on /\ recompute) \/ (Out(a).new_lvdf /\ ~recompute))
            => In(a)'.linfo = LiveIn(Out(a).linfo, In(a)'.pinfo, prog.code[a])
  BY <1>1, LvStartAt
<1>3. CASE a # Start
  BY <1>1, <1>2, <1>3, FreshSame DEF SameContent
<1>4. CASE a = Start
  <2>1. ~SharedList(a)
    BY <1>4, ListNames
  <2>2. First => Out(a).on /\ Out(a).new_lvdf /\ ~recompute
    BY <1>4 DEF FirstPass, First
  <2>3. ~First => In(a).on /\ Out(a).on /\ recompute
    BY <2>1, NotShared DEF First, AnalysisType
  <2>4. Fresh(a)'
    BY <1>1, <1>2, <1>4, <2>2, <2>3 DEF Fresh, SameButLv
  <2>5. LvPreds(a) = {}
    BY <1>4, StartIsAlone DEF AnalysisType
  <2>6. Passed(a)'
    BY <1>1, <2>5 DEF Passed
  <2> QED
    BY <2>4, <2>6
<1> QED
  BY <1>3, <1>4

LEMMA FreshPta ==
    ASSUME FreshInv, [Next]_vars, phase = "pta", NEW b \in process_pta, PtaIntraBlock(b),
           NEW a \in Blocks
    PROVE  Fresh(a)' /\ Passed(a)'
<1> USE DEF FreshInv, BaseInv
<1>1. /\ prog' = prog /\ prog.code[a] \in Seq(Item)
      /\ In(a) \in Contexts /\ Out(a) \in Contexts /\ In(a)' \in Contexts
      /\ SharedList(a)' = SharedList(a)
      /\ SharedList(a) => In(a) = Out(a) /\ In(a)' = Out(a)'
      /\ HasConstraints(a) => ~SharedList(a)
  BY ContextsNext, ListNames
<1>2. b \in Blocks /\ ~First
  BY DEF AnalysisType, First
<1>3. ~SharedList(b) => Out(b).on
  BY <1>2, NotShared
<1>4. /\ a \notin Changed(b) => SameInfo(In(a)', In(a))
      /\ a \in Changed(b) /\ In(a).on =>
            In(a)'.linfo = In(a).linfo /\ In(a)'.new_lvdf = In(a).new_lvdf
      /\ Out(a).on => Out(a)'.linfo = Out(a).linfo
  BY <1>1, <1>2, <1>3, PtaIntraAt
<1>5. process_lv' = process_lv \cup {c \in Changed(b) : HasDeref(c)}
  BY <1>2, PtaIntraStep DEF AnalysisType
<1>6. /\ HasConstraints(a)' = HasConstraints(a)
      /\ LvPreds(a)' = LvPreds(a) /\ LvBypass(a)' = LvBypass(a)
      /\ LvPreds(a) \subseteq Blocks
  BY <1>1, SameProgram, Neighbours DEF AnalysisType
<1>7. \A p \in LvPreds(a) : Out(p).linfo \subseteq Out(p)'.linfo
  BY <1>6, OutGrows
<1>8. Fresh(a) /\ Passed(a)
  OBVIOUS
<1>9. ASSUME HasConstraints(a), In(a)'.on, a \notin process_lv'
      PROVE  In(a)'.linfo = LiveIn(Out(a)'.linfo, In(a)'.pinfo, prog.code[a])
  <2>1. In(a).on /\ Out(a).on
    BY <1>1, <1>2, <1>9, NotShared
  <2>2. a \notin process_lv
    BY <1>5, <1>9
  <2>3. In(a).linfo = LiveIn(Out(a).linfo, In(a).pinfo, prog.code[a])
    BY <1>8, <1>9, <2>1, <2>2 DEF Fresh
  <2>4. CASE a \notin Changed(b)
    BY <1>4, <2>1, <2>3, <2>4 DEF SameInfo
  <2>5. CASE a \in Changed(b)
    <3>1. a \notin prog.deref
      BY <1>5, <1>9, <2>5 DEF HasDeref
    <3>2. NoDeref(prog.code[a])
      BY <3>1 DEF DerefsMarked, NoDeref
    <3>3. /\ Out(a).linfo \in SUBSET Var
          /\ IsPointsToVal(In(a).pinfo) /\ IsPointsToVal(In(a)'.pinfo)
      BY <1>1, ValueSets DEF Contexts
    <3>4. LiveIn(Out(a).linfo, In(a).pinfo, prog.code[a])
             = LiveIn(Out(a).linfo, In(a)'.pinfo, prog.code[a])
      BY <1>1, <3>2, <3>3, LiveInSame
    <3> QED
      BY <1>4, <2>1, <2>3, <2>5, <3>4
  <2> QED
    BY <2>4, <2>5
<1>10. ASSUME In(a)'.on, ~LvBypass(a),
              ~(SharedList(a) /\ a \in process_lv' /\ In(a)'.new_lvdf),
              NEW p \in LvPreds(a)
       PROVE  In(a)'.linfo \subseteq Out(p)'.linfo
  <2>1. In(a).on
    BY <1>2, <1>10 DEF AllReached
  <2>2. In(a)'.linfo = In(a).linfo /\ In(a)'.new_lvdf = In(a).new_lvdf
    BY <1>4, <2>1 DEF SameInfo
  <2>3. In(a).linfo \subseteq Out(p).linfo
    BY <1>5, <1>8, <1>10, <2>1, <2>2 DEF Passed
  <2> QED
    BY <1>7, <2>2, <2>3
<1> HIDE DEF FreshInv, BaseInv
<1>11. Fresh(a)'
  BY <1>1, <1>6, <1>9 DEF Fresh
<1>12. Passed(a)'
  BY <1>1, <1>6, <1>10 DEF Passed
<1> QED
  BY <1>11, <1>12

LEMMA InitFresh == Init /\ EndReached /\ NoEntryLoop /\ DerefsMarked => FreshInv
<1> SUFFICES ASSUME Init, EndReached, NoEntryLoop, DerefsMarked PROVE FreshInv
  OBVIOUS
<1>1. BaseInv
  BY InitBase
<1>2. ASSUME NEW a \in Blocks
      PROVE  ~In(a).on
  <2>1. InOf(a) \in Lists /\ InOf(a) # OutOf(End)
    BY EndNotShared, ListNames
  <2>2. In(a) = NoContext
    BY <2>1 DEF In, Init
  <2> QED
    BY <2>2, NoContextType
<1> QED
  BY <1>1, <1>2 DEF FreshInv, Fresh, Passed

LEMMA FreshKept == FreshInv /\ [Next]_vars => FreshInv'
<1> SUFFICES ASSUME FreshInv, [Next]_vars PROVE FreshInv'
  OBVIOUS
<1>1. BaseInv /\ BaseInv'
  BY BaseKept DEF FreshInv
<1>2. prog' = prog /\ Blocks' = Blocks
  BY <1>1, WhichStep, SameProgram DEF BaseInv, AnalysisType
<1>3. ASSUME NEW a \in Blocks
      PROVE  Fresh(a)' /\ Passed(a)'
  <2>1. CASE PtaEndBlock
    <3>1. /\ SameInfo(In(a), In(a)')
          /\ a # End => Out(a)' = Out(a)
          /\ Out(a).on => Out(a)'.linfo = Out(a).linfo
      BY <1>1, <1>2, <2>1, PtaEndAt DEF BaseInv
    <3>2. Out(a)'.linfo = Out(a).linfo
      BY <1>1, <3>1 DEF BaseInv, AllReached
    <3>3. process_lv' = process_lv
      BY <2>1 DEF PtaEndBlock
    <3> QED
      BY <3>1, <3>2, <3>3, FreshSame DEF SameInfo, SameContent
  <2>2. CASE df' = df /\ process_lv' = process_lv
    <3>1. In(a)' = In(a) /\ Out(a)' = Out(a)
      BY <1>1, <1>2, <2>2, BlockNames DEF BaseInv, In, Out
    <3> QED
      BY <2>2, <3>1, FreshSame DEF SameContent
  <2>3. LvDone \/ PtaDone \/ UNCHANGED analysis => df' = df /\ process_lv' = process_lv
    BY DEF LvDone, PtaDone, analysis
  <2> QED
    BY <1>1, <2>1, <2>2, <2>3, FreshStart, FreshIntra, FreshPta, WhichStep
       DEF BaseInv, AnalysisType
<1>4. NoEntryLoop' /\ DerefsMarked'
  BY <1>2, HypothesesKept DEF FreshInv
<1>5. BaseInv' /\ NoEntryLoop' /\ DerefsMarked' /\ (\A a \in Blocks' : Fresh(a)' /\ Passed(a)')
         => FreshInv'
  BY DEF FreshInv
<1> QED
  BY <1>1, <1>2, <1>3, <1>4, <1>5

(* When no block is flagged for liveness, every IN is what find_live_vars  *)
(* makes of OUT, and every OUT holds what is live at the successors: new   *)
(* points-to values flag the blocks whose liveness depends on them.        *)
THEOREM UpToDate ==
    Spec /\ EndReached /\ NoEntryLoop /\ DerefsMarked => []LivenessUpToDate
<1>1. FreshInv => LivenessUpToDate
  <2> SUFFICES ASSUME FreshInv, phase = "run", NEW b \in Blocks
               PROVE  /\ In(b).on /\ HasConstraints(b) =>
                            In(b).linfo = LiveIn(Out(b).linfo, In(b).pinfo, prog.code[b])
                      /\ In(b).on /\ ~LvBypass(b) =>
                            \A a \in LvPreds(b) : In(b).linfo \subseteq Out(a).linfo
    BY DEF LivenessUpToDate, In, Out
  <2>1. process_lv = {}
    BY DEF FreshInv, BaseInv, Idle
  <2> QED
    BY <2>1 DEF FreshInv, Fresh, Passed
<1> QED
  BY <1>1, InitFresh, FreshKept, PTL DEF Spec

-----------------------------------------------------------------------------
(* The points-to values of a predecessor have arrived.                     *)

Covers(out, in) ==
    in.on /\ in.seen /\ AtLeast(CalculateActualOut(out, in), in.pinfo)

(* ... or are still to be propagated, or will be as soon as liveness that  *)
(* came to a list that is IN and OUT at once has been passed on.           *)
Edge(b, c) ==
    Out(b).on /\ Out(b).seen =>
        \/ Covers(Out(b), In(c))
        \/ Out(b).new_ptadf /\ b \in process_pta
        \/ SharedList(c) /\ c \in process_lv /\ In(c).new_lvdf

(* Nothing comes to the blocks that are looked through. *)
Skipped == \A b \in Blocks \ {End} : LvBypass(b) => ~Out(b).on

EdgeInv ==
    /\ LiveInv
    /\ NoEntryLoop
    /\ BypassAgree
    /\ Skipped
    /\ \A b \in Blocks \ {End} : \A c \in PtaSuccs(b) : Edge(b, c)

LEMMA CoversSame ==
    ASSUME NEW out, NEW in, NEW after, NEW next, Covers(out, in),
           after.linfo = out.linfo, after.pinfo = out.pinfo,
           next.on, next.seen, next.linfo = in.linfo, AtLeast(in.pinfo, next.pinfo)
    PROVE  Covers(after, next)
<1>1. CalculateActualOut(after, next) = CalculateActualOut(out, in)
  BY DEF CalculateActualOut, Covers
<1> QED
  BY <1>1, AtLeastOrder DEF Covers

(* The ends of an edge. *)
LEMMA EdgeEnds ==
    ASSUME EdgeInv, [Next]_vars, NEW b \in Blocks \ {End}, NEW c \in PtaSuccs(b)
    PROVE  /\ prog' = prog /\ PtaSuccs(b)' = PtaSuccs(b)
           /\ c \in Blocks \ {Start}
           /\ Out(b).on => ~LvBypass(b) /\ b \in LvPreds(c)
           /\ ~First => In(c).on
           /\ SharedList(c)' = SharedList(c)
           /\ SharedList(c) => In(c) = Out(c) /\ In(c)' = Out(c)'
<1> USE DEF EdgeInv, LiveInv, BaseInv
<1>1. prog' = prog /\ PtaSuccs(b)' = PtaSuccs(b)
  BY WhichStep, SameProgram DEF AnalysisType
<1>2. c \in Blocks /\ c \notin PtaPass /\ c # Start
  BY Neighbours, StartIsAlone DEF AnalysisType
<1>3. Out(b).on => ~LvBypass(b) /\ b \in LvPreds(c)
  BY BothWays DEF AnalysisType, Skipped
<1>4. c = End \/ ~LvBypass(c)
  BY <1>2 DEF BypassAgree, PtaPass
<1>5. ~First => In(c).on
  BY <1>2, <1>4 DEF AllReached
<1> QED
  BY <1>1, <1>2, <1>3, <1>5, ContextsNext

(* Steps that leave both ends, and what is flagged of them, as they are.   *)
LEMMA EdgeSame ==
    ASSUME EdgeInv, [Next]_vars, NEW b \in Blocks \ {End}, NEW c \in PtaSuccs(b),
           SameContent(Out(b)', Out(b)), SameContent(In(c)', In(c)),
           Out(b).new_ptadf /\ b \in process_pta => Out(b)'.new_ptadf /\ b \in process_pta',
           c \in process_lv /\ In(c).new_lvdf => c \in process_lv' /\ In(c)'.new_lvdf
    PROVE  Edge(b, c)'
<1>1. SharedList(c)' = SharedList(c) /\ Edge(b, c)
  BY EdgeEnds DEF EdgeInv
<1>2. Covers(Out(b), In(c)) => Covers(Out(b)', In(c)')
  BY CoversSame, AtLeastOrder DEF Covers, SameContent
<1>3. Covers(Out(b), In(c))' = Covers(Out(b)', In(c)')
  BY DEF Covers, CalculateActualOut
<1> QED
  BY <1>1, <1>2, <1>3 DEF Edge, SameContent

(* In the first liveness pass there are no values to arrive.               *)
LEMMA EdgeFirst ==
    ASSUME EdgeInv, [Next]_vars, First', NEW b \in Blocks \ {End}, NEW c \in PtaSuccs(b)
    PROVE  Edge(b, c)'
<1>1. BaseInv' /\ Blocks' = Blocks
  BY BaseKept, WhichStep, SameProgram DEF EdgeInv, LiveInv, BaseInv, AnalysisType
<1>2. FirstPass(b)'
  BY <1>1 DEF BaseInv
<1> QED
  BY <1>2 DEF FirstPass, Edge

LEMMA EdgeStart ==
    ASSUME EdgeInv, [Next]_vars, LvStartBlock, NEW b \in Blocks \ {End}, NEW c \in PtaSuccs(b)
    PROVE  Edge(b, c)'
<1>1. prog' = prog /\ c \in Blocks \ {Start}
  BY EdgeEnds
<1>2. /\ In(c)' = In(c) /\ SameButLv(Out(b), Out(b)')
      /\ process_lv' = process_lv \ {Start} /\ process_pta' = process_pta
  BY <1>1, LvStartAt DEF EdgeInv, LiveInv, BaseInv, LvStartBlock
<1> QED
  BY <1>1, <1>2, EdgeSame DEF SameButLv, SameContent

(* A recomputation has the predecessors of the block propagate again.      *)
LEMMA EdgeIntra ==
    ASSUME EdgeInv, [Next]_vars, phase = "lv", recompute, NEW e \in process_lv \ {Start},
           LvIntraBlock(e), NEW b \in Blocks \ {End}, NEW c \in PtaSuccs(b)
    PROVE  Edge(b, c)'
<1> USE DEF EdgeInv, LiveInv, BaseInv
<1> DEFINE in == Found(e)[InOf(e)]
<1>1. e \in Blocks /\ ~First
  BY DEF AnalysisType, First
<1>2. /\ prog' = prog /\ c \in Blocks
      /\ Out(b).on => b \in LvPreds(c)
      /\ In(c).on
      /\ SharedList(c)' = SharedList(c)
      /\ SharedList(c) => In(c) = Out(c) /\ In(c)' = Out(c)'
  BY <1>1, EdgeEnds
<1>3. /\ SharedList(e) => in = In(e)
      /\ c # e /\ ~SharedList(c) => In(c)' = In(c)
      /\ c = e => SameContent(In(c)', in)
      /\ process_lv \ {e} \subseteq process_lv'
      /\ Out(c).on => /\ Out(c)'.on
                      /\ Out(c)'.linfo = IF c \in Sent(e) THEN Out(c).linfo \cup in.linfo
                                         ELSE Out(c).linfo
                      /\ Out(c)'.pinfo = Out(c).pinfo
                      /\ Out(c)'.seen = Out(c).seen
      /\ c # e /\ Out(c).new_lvdf => Out(c)'.new_lvdf
      /\ c \in Sent(e) /\ ~(in.linfo \subseteq Out(c).linfo) =>
            c \in process_lv' /\ Out(c)'.new_lvdf
  BY <1>1, <1>2, LvIntraAt
<1>4. /\ Out(b).on => /\ Out(b)'.on
                      /\ Out(b)'.linfo = IF b \in Sent(e) THEN Out(b).linfo \cup in.linfo
                                         ELSE Out(b).linfo
                      /\ Out(b)'.pinfo = Out(b).pinfo
                      /\ Out(b)'.seen = Out(b).seen
      /\ Out(b).new_ptadf => Out(b)'.new_ptadf
      /\ Out(b).on /\ b \in Sent(e) => Out(b)'.new_ptadf
  BY <1>1, <1>2, LvIntraAt
<1>5. process_pta \subseteq process_pta' /\ Sent(e) \subseteq process_pta'
  BY <1>1, LvIntraStep DEF AnalysisType
<1>6. Sent(e) \subseteq LvPreds(e) /\ (in.on /\ in.new_lvdf => Sent(e) = LvPreds(e))
  BY DEF Sent
<1>7. ~SharedList(e) => (in.on /\ in.new_lvdf) \/ in = In(e)
  BY FoundFresh
<1>8. Edge(b, c)
  OBVIOUS
<1>9. ~Out(b).on => SameContent(Out(b)', Out(b))
  <2>1. ~Out(b).on => SameContent(Out(b)', IF b \in Sent(e) THEN in ELSE Out(b))
    BY <1>1, <1>2, LvIntraAt
  <2>2. ASSUME b \in Sent(e) PROVE Out(b).on
    <3>1. ~LvBypass(b)
      BY <1>1, <1>6, <2>2, Neighbours DEF AnalysisType, LvPass
    <3> QED
      BY <1>1, <3>1 DEF AllReached
  <2> QED
    BY <2>1, <2>2
<1> HIDE DEF in, EdgeInv, LiveInv, BaseInv
<1>10. CASE ~Out(b).on
  <2>1. ~Out(b)'.on
    BY <1>9, <1>10 DEF SameContent
  <2> QED
    BY <2>1 DEF Edge
<1>11. CASE Out(b).on /\ b \in Sent(e)
  BY <1>4, <1>5, <1>11 DEF Edge
<1>12. CASE Out(b).on /\ b \notin Sent(e)
  <2>1. /\ SameContent(Out(b)', Out(b))
        /\ Out(b).new_ptadf /\ b \in process_pta => Out(b)'.new_ptadf /\ b \in process_pta'
    BY <1>4, <1>5, <1>12 DEF SameContent
  <2>2. CASE c = e
    <3>1. ~(in.on /\ in.new_lvdf)
      BY <1>2, <1>6, <1>12, <2>2
    <3>2. in = In(c)
      BY <1>3, <1>7, <2>2, <3>1
    <3> QED
      BY <1>2, <1>3, <2>1, <2>2, <3>1, <3>2, EdgeSame
  <2>3. CASE c # e /\ ~SharedList(c)
    BY <1>3, <2>1, <2>3, EdgeSame DEF SameContent
  <2>4. CASE c # e /\ SharedList(c) /\ c \in Sent(e) /\ ~(in.linfo \subseteq Out(c).linfo)
    BY <1>2, <1>3, <2>4 DEF Edge
  <2>5. CASE c # e /\ SharedList(c) /\ ~(c \in Sent(e) /\ ~(in.linfo \subseteq Out(c).linfo))
    <3>1. SameContent(In(c)', In(c))
      BY <1>2, <1>3, <2>5 DEF SameContent
    <3> QED
      BY <1>2, <1>3, <2>1, <2>5, <3>1, EdgeSame
  <2> QED
    BY <2>2, <2>3, <2>4, <2>5
<1> QED
  BY <1>10, <1>11, <1>12


(* A list that is IN and OUT at once has nothing to gain from itself: what *)
(* it holds is live.                                                       *)
LEMMA SelfLoop ==
    ASSUME LiveInv, [Next]_vars, NEW e \in Blocks, PtaIntraBlock(e), SharedList(e)
    PROVE  /\ Out(e)'.on = Out(e).on
           /\ Out(e)'.linfo = Out(e).linfo
           /\ Out(e)'.pinfo = Out(e).pinfo
           /\ e \notin Changed(e) => Out(e)'.seen = Out(e).seen
<1> USE DEF LiveInv, BaseInv
<1> DEFINE own == Out(e)
<1>1. /\ prog' = prog /\ own \in Contexts /\ In(e) = own /\ In(e)' = Out(e)'
      /\ In(e)' = df'[InOf(e)] /\ e # Start
  BY ContextsNext, BlockNames, ListNames
<1>2. Moved(e)[InOf(e)] = own /\ Moved(e)[OutOf(e)] = own
  BY <1>1, MovedFacts DEF AnalysisType, In, Out
<1>3. /\ e \notin Changed(e) => SameInfo(df'[InOf(e)], own)
      /\ e \in Changed(e) => own.on /\ SameInfo(df'[InOf(e)], Arrive(own, own))
  <2>1. /\ Changed(e) # {} => Moved(e)[OutOf(e)].on
        /\ e \notin Changed(e) => SameInfo(df'[InOf(e)], Moved(e)[InOf(e)])
        /\ e \in Changed(e) =>
              SameInfo(df'[InOf(e)], Arrive(Moved(e)[OutOf(e)], Moved(e)[InOf(e)]))
    BY PtaIntraStep DEF AnalysisType
  <2> HIDE DEF own, LiveInv, BaseInv
  <2> QED
    BY <1>2, <2>1
<1>4. own.on => DOMAIN own.pinfo \subseteq own.linfo
  BY <1>1 DEF LiveOnly, In
<1> HIDE DEF own, LiveInv, BaseInv
<1>5. own.on => CalculateActualOut(own, own) = own.pinfo
  <2>1. own.linfo \cap own.linfo = own.linfo /\ own.pinfo \in NormalValues
    BY <1>1 DEF Contexts
  <2> QED
    BY <1>4, <2>1, RestrictValue DEF CalculateActualOut
<1>6. MergePointsTo(own.pinfo, own.pinfo) = own.pinfo
  BY <1>1, MergeValue DEF Contexts
<1>7. own.on => LET a == Arrive(own, own)
                IN  a.on /\ a.linfo = own.linfo /\ a.pinfo = own.pinfo
  BY <1>1, <1>5, <1>6 DEF Arrive, Contexts
<1>8. CASE e \in Changed(e)
  BY <1>1, <1>3, <1>7, <1>8 DEF SameInfo, own
<1>9. CASE e \notin Changed(e)
  BY <1>1, <1>3, <1>9 DEF SameInfo, own
<1> QED
  BY <1>8, <1>9

(* A block propagates what is new to all its successors, through those     *)
(* that are looked through.                                                *)
LEMMA EdgePta ==
    ASSUME EdgeInv, [Next]_vars, phase = "pta", NEW e \in process_pta \ {End},
           PtaIntraBlock(e), NEW b \in Blocks \ {End}, NEW c \in PtaSuccs(b)
    PROVE  Edge(b, c)'
<1> USE DEF EdgeInv, LiveInv, BaseInv
<1> DEFINE out == Moved(e)[OutOf(e)]
<1>1. e \in Blocks /\ ~First /\ process_lv = {}
  BY DEF AnalysisType, First, Idle
<1>2. /\ prog' = prog /\ c \in Blocks
      /\ In(c).on
  BY <1>1, EdgeEnds
<1>3. ~SharedList(e) => Out(e).on
  BY <1>1, NotShared
<1>4. /\ c \notin Changed(e) => SameInfo(In(c)', In(c))
      /\ c \in Changed(e) =>
            In(c)'.linfo = In(c).linfo /\ AtLeast(In(c).pinfo, In(c)'.pinfo)
      /\ out.on /\ out.new_ptadf /\ c \in PtaSuccs(e) =>
            /\ In(c)'.on /\ In(c)'.seen
            /\ AtLeast(CalculateActualOut(out, In(c)'), In(c)'.pinfo)
      /\ Changed(e) # {} => out.on /\ out.new_ptadf
      /\ out = Out(e) \/ (out.on /\ out.new_ptadf)
      /\ ~SharedList(e) => SameInfo(Out(e)', out)
      /\ SharedList(e) => out = Out(e)
  BY <1>1, <1>2, <1>3, PtaIntraAt
<1>5. /\ b # e /\ (~SharedList(b) \/ b \notin Changed(e)) => Out(b)' = Out(b)
      /\ b # e /\ SharedList(b) /\ b \in Changed(e) => Out(b)'.new_ptadf
  BY <1>1, <1>2, <1>3, PtaIntraAt
<1>6. /\ process_pta' = (process_pta \ {e}) \cup Changed(e)
      /\ Changed(e) \subseteq PtaSuccs(e)
  BY <1>1, PtaIntraStep DEF AnalysisType
<1>7. Out(b).on /\ Out(b).seen =>
         Covers(Out(b), In(c)) \/ (Out(b).new_ptadf /\ b \in process_pta)
  BY <1>1 DEF Edge
<1>8. SharedList(e) => /\ Out(e)'.on = out.on
                       /\ Out(e)'.linfo = out.linfo
                       /\ Out(e)'.pinfo = out.pinfo
                       /\ e \notin Changed(e) => Out(e)'.seen = out.seen
  BY <1>1, <1>4, SelfLoop
<1> HIDE DEF out, EdgeInv, LiveInv, BaseInv
<1>9. c \in Changed(e) => In(c)'.on /\ In(c)'.seen
  BY <1>4, <1>6
<1>10. ASSUME Covers(Out(b), In(c)), Out(b)'.linfo = Out(b).linfo, Out(b)'.pinfo = Out(b).pinfo
       PROVE  Edge(b, c)'
  <2>1. /\ In(c)'.on /\ In(c)'.seen /\ In(c)'.linfo = In(c).linfo
        /\ AtLeast(In(c).pinfo, In(c)'.pinfo)
    BY <1>4, <1>9, <1>10, AtLeastOrder DEF SameInfo, Covers
  <2>2. Covers(Out(b)', In(c)')
    BY <1>10, <2>1, CoversSame
  <2> QED
    BY <2>2 DEF Edge, Covers, CalculateActualOut
<1>11. CASE b = e /\ out.on /\ out.new_ptadf
  <2>1. Out(b)'.linfo = out.linfo /\ Out(b)'.pinfo = out.pinfo
    BY <1>4, <1>8, <1>11 DEF SameInfo
  <2>2. CalculateActualOut(Out(b)', In(c)') = CalculateActualOut(out, In(c)')
    BY <2>1 DEF CalculateActualOut
  <2>3. Covers(Out(b)', In(c)')
    BY <1>4, <1>11, <2>2 DEF Covers
  <2> QED
    BY <2>3 DEF Edge, Covers, CalculateActualOut
<1>12. CASE b = e /\ ~(out.on /\ out.new_ptadf)
  <2>1. SameContent(Out(b)', Out(b))
    BY <1>4, <1>8, <1>12 DEF SameInfo, SameContent
  <2>2. Out(b).on /\ Out(b).seen => Covers(Out(b), In(c))
    BY <1>4, <1>7, <1>12
  <2> QED
    BY <1>10, <2>1, <2>2 DEF Edge, SameContent
<1>13. CASE b # e /\ SharedList(b) /\ b \in Changed(e)
  BY <1>5, <1>6, <1>13 DEF Edge
<1>14. CASE b # e /\ ~(SharedList(b) /\ b \in Changed(e))
  <2>1. Out(b)' = Out(b)
    BY <1>5, <1>14
  <2>2. b \in process_pta => b \in process_pta'
    BY <1>6, <1>14
  <2> QED
    BY <1>7, <1>10, <2>1, <2>2 DEF Edge
<1> QED
  BY <1>11, <1>12, <1>13, <1>14


LEMMA InitEdge == Init /\ EndReached /\ NoEntryLoop /\ BypassAgree => EdgeInv
<1> SUFFICES ASSUME Init, EndReached, NoEntryLoop, BypassAgree PROVE EdgeInv
  OBVIOUS
<1>1. LiveInv
  BY InitLive
<1>2. ASSUME NEW a \in Blocks \ {End}
      PROVE  ~Out(a).on
  <2>1. OutOf(a) \in Lists /\ OutOf(a) # OutOf(End)
    BY ListNames
  <2>2. Out(a) = NoContext
    BY <2>1 DEF Out, Init
  <2> QED
    BY <2>2, NoContextType
<1> QED
  BY <1>1, <1>2 DEF EdgeInv, Edge, Skipped

(* Neither pass has anything arrive at a block that it looks through, and  *)
(* both look through the same ones.                                        *)
LEMMA SkippedKept ==
    ASSUME EdgeInv, [Next]_vars, NEW a \in Blocks \ {End}, LvBypass(a)
    PROVE  ~Out(a)'.on
<1> USE DEF EdgeInv, LiveInv, BaseInv
<1>1. /\ prog' = prog /\ ~Out(a).on /\ a # Start /\ SharedList(a) /\ PtaBypass(a)
      /\ In(a) = Out(a) /\ In(a)' = Out(a)'
  <2>1. prog' = prog /\ ~Out(a).on
    BY ContextsNext DEF Skipped
  <2>2. a # Start /\ SharedList(a)
    BY DEF LvBypass, SharedList
  <2> QED
    BY <2>1, <2>2, ContextsNext DEF BypassAgree
<1>2. CASE LvStartBlock
  BY <1>1, <1>2, LvStartAt
<1>3. ASSUME NEW e \in Blocks, LvIntraBlock(e)
      PROVE  ~Out(a)'.on
  <2>1. SameContent(Out(a)', IF a \in Sent(e) THEN Found(e)[InOf(e)] ELSE Out(a))
    BY <1>1, <1>3, LvIntraAt
  <2>2. a \notin Sent(e)
    BY <1>3, Neighbours DEF AnalysisType, Sent, LvPass
  <2> QED
    BY <1>1, <2>1, <2>2 DEF SameContent
<1>4. CASE df' = df
  BY <1>1, <1>4, BlockNames DEF Out
<1>5. CASE PtaEndBlock
  BY <1>1, <1>5, PtaEndAt
<1>6. ASSUME NEW e \in Blocks, PtaIntraBlock(e), phase = "pta"
      PROVE  ~Out(a)'.on
  <2>1. ~SharedList(e) => Out(e).on
    BY <1>6, NotShared DEF First
  <2>2. a \notin Changed(e)
    BY <1>1, <1>6, PtaIntraStep, Neighbours DEF AnalysisType, PtaPass
  <2>3. SameInfo(In(a)', In(a))
    BY <1>1, <1>6, <2>1, <2>2, PtaIntraAt
  <2> QED
    BY <1>1, <2>3 DEF SameInfo
<1>7. LvDone \/ PtaDone \/ UNCHANGED analysis => df' = df
  BY DEF LvDone, PtaDone, analysis
<1> QED
  BY <1>2, <1>3, <1>4, <1>5, <1>6, <1>7, WhichStep DEF AnalysisType

LEMMA EdgeKept == EdgeInv /\ [Next]_vars => EdgeInv'
<1> SUFFICES ASSUME EdgeInv, [Next]_vars PROVE EdgeInv'
  OBVIOUS
<1>1. LiveInv /\ LiveInv' /\ BaseInv /\ AnalysisType
  BY LiveKept DEF EdgeInv, LiveInv, BaseInv
<1>2. /\ prog' = prog /\ Blocks' = Blocks /\ End' = End
      /\ \A b : LvBypass(b)' = LvBypass(b)
      /\ \A b \in Blocks : PtaSuccs(b)' = PtaSuccs(b)
  BY <1>1, WhichStep, SameProgram DEF AnalysisType
<1>3. ASSUME NEW b \in Blocks \ {End}, NEW c \in PtaSuccs(b)
      PROVE  Edge(b, c)'
  <2>1. CASE PtaEndBlock
    <3>1. c \in Blocks
      BY EdgeEnds
    <3>2. Out(b)' = Out(b) /\ SameInfo(In(c), In(c)')
      BY <1>1, <1>2, <2>1, <3>1, PtaEndAt
    <3>3. process_lv' = process_lv /\ process_pta' = process_pta \ {End}
      BY <2>1 DEF PtaEndBlock
    <3> QED
      BY <3>2, <3>3, EdgeSame DEF SameInfo, SameContent
  <2>2. CASE df' = df /\ process_lv' = process_lv /\ process_pta' = process_pta
    <3>1. c \in Blocks
      BY EdgeEnds
    <3>2. In(c)' = In(c) /\ Out(b)' = Out(b)
      BY <1>1, <1>2, <2>2, <3>1, BlockNames DEF In, Out
    <3> QED
      BY <2>2, <3>2, EdgeSame DEF SameContent
  <2>3. LvDone \/ PtaDone \/ UNCHANGED analysis =>
           df' = df /\ process_lv' = process_lv /\ process_pta' = process_pta
    BY DEF LvDone, PtaDone, analysis
  <2>4. ASSUME phase = "lv", phase' = "lv", recompute' = recompute,
               NEW e \in process_lv \ {Start}, LvIntraBlock(e)
        PROVE  Edge(b, c)'
    <3>1. CASE recompute
      BY <2>4, <3>1, EdgeIntra
    <3>2. CASE ~recompute
      BY <2>4, <3>2, EdgeFirst DEF First
    <3> QED
      BY <3>1, <3>2
  <2> QED
    BY <1>1, <2>1, <2>2, <2>3, <2>4, EdgeStart, EdgePta, WhichStep DEF AnalysisType
<1>4. NoEntryLoop' /\ BypassAgree'
  BY <1>2, HypothesesKept DEF EdgeInv
<1>5. \A b \in Blocks \ {End} : LvBypass(b) => ~Out(b)'.on
  BY SkippedKept
<1>6. Skipped'
  BY <1>2, <1>5 DEF Skipped
<1>7. \A b \in Blocks' \ {End'} : \A c \in PtaSuccs(b)' : Edge(b, c)'
  BY <1>2, <1>3
<1> QED
  BY <1>1, <1>4, <1>6, <1>7 DEF EdgeInv

(* When no block is flagged any more, what OUT knows of the pointers live  *)
(* at both ends of an edge has arrived: liveness that grows after the      *)
(* value was propagated has the predecessors propagate it again.  A block  *)
(* that one pass looks through and the other does not is not told of by    *)
(* the other: BypassAgree is what the bypass finding shows to be missing.  *)
THEOREM Covered ==
    Spec /\ EndReached /\ NoEntryLoop /\ BypassAgree => []EdgesCovered
<1>1. EdgeInv => EdgesCovered
  <2> SUFFICES ASSUME EdgeInv, phase = "run", NEW b \in Blocks \ {End}, NEW c \in PtaSuccs(b),
                      Out(b).on, Out(b).seen
               PROVE  Covers(Out(b), In(c))
    BY DEF EdgesCovered, Covers, In, Out
  <2>1. process_lv = {} /\ process_pta = {}
    BY DEF EdgeInv, LiveInv, BaseInv, Idle
  <2> QED
    BY <2>1 DEF EdgeInv, Edge
<1> QED
  BY <1>1, InitEdge, EdgeKept, PTL DEF Spec

-----------------------------------------------------------------------------
(* The values are of the program's types.                                  *)

(* What exactly a block whose lists are two makes of OUT. *)
LEMMA MovedExact ==
    ASSUME prog \in Programs, Flow(df), NEW b \in Blocks, ~SharedList(b)
    PROVE  LET in     == df[InOf(b)]
               out    == df[OutOf(b)]
               copies == in.on /\ in.new_ptadf
               value  == IF copies THEN in.pinfo ELSE out.pinfo
               moved  == Moved(b)[OutOf(b)]
           IN  /\ copies => moved.on /\ moved.new_ptadf
               /\ ~copies => moved.on = out.on /\ moved.new_ptadf = out.new_ptadf
               /\ ~copies => Moved(b)[InOf(b)] = in
               /\ HasConstraints(b) /\ moved.on /\ moved.new_ptadf =>
                     moved.seen /\ moved.pinfo = BlockOut(value, prog.code[b])
               /\ ~(HasConstraints(b) /\ moved.on /\ moved.new_ptadf) =>
                     /\ moved.pinfo = value
                     /\ moved.seen = IF copies THEN in.seen ELSE out.seen
<1> DEFINE in     == df[InOf(b)]
           out    == df[OutOf(b)]
           copies == in.on /\ in.new_ptadf
           value  == IF copies THEN in.pinfo ELSE out.pinfo
           d      == CopyInToOut(df, b)
           made   == d[OutOf(b)]
           moved  == Moved(b)[OutOf(b)]
<1>1. InOf(b) \in Lists /\ OutOf(b) \in Lists /\ InOf(b) # OutOf(b)
  BY ListNames
<1>2. in \in Contexts /\ out \in Contexts
  BY <1>1 DEF Flow
<1>3. Flow(d)
  BY CopyInToOutFacts
<1>4. /\ copies => made.on /\ made.new_ptadf
      /\ ~copies => d = df
      /\ made.pinfo = value
      /\ made.seen = IF copies THEN in.seen ELSE out.seen
  <2>1. CASE ~copies
    BY <2>1 DEF CopyInToOut
  <2>2. CASE copies
    <3> DEFINE new == IF out.on
                      THEN [out EXCEPT !.pinfo = in.pinfo, !.seen = in.seen, !.new_ptadf = TRUE]
                      ELSE in
    <3>1. new.on /\ new.new_ptadf /\ new.pinfo = in.pinfo /\ new.seen = in.seen
      BY <1>2, <2>2 DEF Contexts
    <3>2. d = [df EXCEPT ![OutOf(b)] = new, ![InOf(b)].new_ptadf = FALSE]
      BY <2>2 DEF CopyInToOut
    <3> HIDE DEF new
    <3>3. made = new
      BY <1>1, <3>2 DEF Flow
    <3> HIDE DEF made, d
    <3> QED
      BY <2>2, <3>1, <3>3
  <2> QED
    BY <2>1, <2>2
<1>5. made \in Contexts
  BY <1>1, <1>3 DEF Flow
<1>6. Moved(b) = FindPointsToPair(d, b)
  BY DEF Moved
<1> HIDE DEF d
<1>7. CASE ~(HasConstraints(b) /\ made.on /\ made.new_ptadf)
  <2>1. Moved(b) = d
    BY <1>6, <1>7 DEF FindPointsToPair
  <2> QED
    BY <1>4, <1>7, <2>1
<1>8. CASE HasConstraints(b) /\ made.on /\ made.new_ptadf
  <2> DEFINE new == [made EXCEPT !.pinfo = BlockOut(made.pinfo, prog.code[b]), !.seen = TRUE]
  <2>1. new.on /\ new.new_ptadf /\ new.seen /\ new.pinfo = BlockOut(made.pinfo, prog.code[b])
    BY <1>5, <1>8 DEF Contexts
  <2>2. Moved(b) = [d EXCEPT ![OutOf(b)] = new]
    BY <1>3, <1>5, <1>6, <1>8 DEF FindPointsToPair, Flow
  <2> HIDE DEF new
  <2>3. moved = new /\ Moved(b)[InOf(b)] = d[InOf(b)]
    BY <1>1, <1>3, <2>2 DEF Flow
  <2>4. ~copies => d = df /\ made = out
    BY <1>4
  <2>5. /\ moved.on /\ moved.new_ptadf /\ moved.seen
        /\ moved.pinfo = BlockOut(value, prog.code[b])
    <3> HIDE DEF moved, made
    <3> QED
      BY <1>4, <2>1, <2>3
  <2>6. ~copies => moved.on = out.on /\ moved.new_ptadf = out.new_ptadf
    <3>1. out.on \in BOOLEAN /\ out.new_ptadf \in BOOLEAN
      BY <1>2 DEF Contexts
    <3>2. ~copies => out.on /\ out.new_ptadf
      BY <1>8, <2>4
    <3> HIDE DEF moved, out, copies
    <3> QED
      BY <2>5, <3>1, <3>2, <1>4, <1>5, <1>8, <2>1, <2>3, <2>4 DEF Contexts
  <2>7. ~copies => Moved(b)[InOf(b)] = in
    BY <2>3, <2>4
  <2> HIDE DEF moved, value, copies
  <2> QED
    BY <1>8, <2>5, <2>6, <2>7 DEF moved, value, copies
<1> QED
  BY <1>7, <1>8

(* A value that has not arrived is empty, and one that has is of the       *)
(* program's types.                                                        *)
ValOk(may, c) == (~c.seen => c.pinfo = EmptyVal) /\ TypedVal(may, c.pinfo)

ValuesAt(may, b) == ValOk(may, In(b)) /\ ValOk(may, Out(b))

ValuesInv(may) ==
    /\ BaseInv
    /\ TypedCode(may)
    /\ \A b \in Blocks : ValuesAt(may, b)

LEMMA EmptyOk == \A may : TypedVal(may, EmptyVal)
BY DEF TypedVal, EmptyVal

LEMMA SameOk ==
    ASSUME NEW may, NEW c, NEW e, ValOk(may, e), c.pinfo = e.pinfo, c.seen = e.seen
    PROVE  ValOk(may, c)
BY DEF ValOk

LEMMA TypedCodeKept ==
    ASSUME NEW may, prog' = prog, TypedCode(may)
    PROVE  TypedCode(may)'
BY DEF TypedCode, Blocks, Aliases, ChainAt

LEMMA CodeTyped ==
    ASSUME NEW may, TypedCode(may), prog \in Programs, NEW b \in Blocks,
           NEW P \in NormalValues, TypedVal(may, P)
    PROVE  TypedVal(may, BlockOut(P, prog.code[b]))
<1>1. TypedItems(may, prog.code[b])
  BY DEF TypedItems, TypedCode, Aliases, ChainAt
<1>2. prog.code[b] \in Seq(Item)
  BY Cfg
<1> QED
  BY <1>1, <1>2, BlockTyped

LEMMA RestrictTyped ==
    ASSUME NEW may, NEW P \in NormalValues, TypedVal(may, P), NEW live
    PROVE  TypedVal(may, RestrictTo(P, live))
BY DEF RestrictTo, TypedVal

LEMMA ArriveTyped ==
    ASSUME NEW may, NEW out \in Contexts, NEW in \in Contexts,
           TypedVal(may, out.pinfo), TypedVal(may, in.pinfo), ValOk(may, in)
    PROVE  ValOk(may, Arrive(out, in))
<1> DEFINE new  == CalculateActualOut(out, in)
           conf == MergePointsTo(in.pinfo, new)
           a    == Arrive(out, in)
<1>1. TypedVal(may, new) /\ new \in NormalValues
  BY RestrictTyped, RestrictValue DEF CalculateActualOut, Contexts
<1>2. TypedVal(may, conf)
  BY <1>1, MergeTyped, ValueSets DEF Contexts
<1>3. a = in \/ (a.seen /\ a.pinfo \in {new, conf})
  <2> HIDE DEF new, conf
  <2> QED
    BY DEF Arrive, Contexts, new, conf
<1> QED
  BY <1>1, <1>2, <1>3 DEF ValOk

LEMMA InitValues == \A may : Init /\ EndReached /\ TypedCode(may) => ValuesInv(may)
<1> SUFFICES ASSUME NEW may, Init, EndReached, TypedCode(may) PROVE ValuesInv(may)
  OBVIOUS
<1>1. BaseInv /\ First
  BY InitBase DEF Init, First
<1>2. \A b \in Blocks : ValuesAt(may, b)
  BY <1>1, EmptyOk DEF BaseInv, FirstPass, ValuesAt, ValOk
<1> QED
  BY <1>1, <1>2 DEF ValuesInv

LEMMA ValuesLv ==
    ASSUME NEW may, ValuesInv(may), [Next]_vars, ~First, NEW b \in process_lv \ {Start},
           LvIntraBlock(b), NEW a \in Blocks
    PROVE  ValuesAt(may, a)'
<1>1. AnalysisType /\ BaseInv /\ prog' = prog /\ b \in Blocks
  BY ContextsNext DEF ValuesInv, BaseInv, AnalysisType
<1>2. ValuesAt(may, a) /\ ValuesAt(may, b)
  BY <1>1 DEF ValuesInv
<1> DEFINE in == Found(b)[InOf(b)]
<1>3. ValOk(may, in)
  <2>1. CASE SharedList(b)
    <3>1. in = In(b)
      BY <1>1, <2>1, LvIntraAt
    <3> QED
      BY <1>2, <3>1 DEF ValuesAt
  <2>2. CASE ~SharedList(b)
    <3>1. In(b).on
      BY <1>1, <2>2, NotShared
    <3>2. SameValue(In(b), in)
      BY <1>1, <3>1, FoundFacts DEF AnalysisType, In
    <3> QED
      BY <1>2, <3>2, SameOk DEF ValuesAt, SameValue
  <2> QED
    BY <2>1, <2>2
<1>4. /\ Out(a).on => Out(a)'.pinfo = Out(a).pinfo /\ Out(a)'.seen = Out(a).seen
      /\ ~Out(a).on => SameContent(Out(a)', IF a \in Sent(b) THEN in ELSE Out(a))
      /\ a # b /\ ~SharedList(a) => In(a)' = In(a)
      /\ a = b => SameContent(In(a)', in)
  BY <1>1, LvIntraAt
<1> HIDE DEF in
<1>5. ValOk(may, Out(a)')
  <2>1. CASE Out(a).on
    BY <1>2, <1>4, <2>1, SameOk DEF ValuesAt
  <2>2. CASE ~Out(a).on
    BY <1>2, <1>3, <1>4, <2>2, SameOk DEF ValuesAt, SameContent
  <2> QED
    BY <2>1, <2>2
<1>6. ValOk(may, In(a)')
  <2>1. CASE a = b
    BY <1>3, <1>4, <2>1, SameOk DEF SameContent
  <2>2. CASE a # b /\ ~SharedList(a)
    BY <1>2, <1>4, <2>2 DEF ValuesAt
  <2>3. CASE SharedList(a)
    BY <1>5, <2>3, ContextsNext, <1>1
  <2> QED
    BY <2>1, <2>2, <2>3
<1> QED
  BY <1>5, <1>6 DEF ValuesAt

LEMMA ValuesLvStart ==
    ASSUME NEW may, ValuesInv(may), [Next]_vars, ~First, LvStartBlock, NEW a \in Blocks
    PROVE  ValuesAt(may, a)'
<1>1. AnalysisType /\ BaseInv /\ prog' = prog
  BY ContextsNext DEF ValuesInv, BaseInv
<1>2. ValuesAt(may, a)
  BY <1>1 DEF ValuesInv
<1>3. SameButLv(Out(a), Out(a)') /\ (a # Start => In(a)' = In(a))
      /\ (In(a).on => SameValue(In(a), In(a)'))
  BY <1>1, LvStartAt
<1>4. a = Start => In(a).on
  BY <1>1, NotShared, ListNames
<1>5. ValOk(may, Out(a)')
  BY <1>2, <1>3, SameOk DEF ValuesAt, SameButLv
<1>6. ValOk(may, In(a)')
  <2>1. CASE a = Start
    BY <1>2, <1>3, <1>4, <2>1, SameOk DEF ValuesAt, SameValue
  <2>2. CASE a # Start
    BY <1>2, <1>3, <2>2 DEF ValuesAt
  <2> QED
    BY <2>1, <2>2
<1> QED
  BY <1>5, <1>6 DEF ValuesAt

(* The value a block has at OUT before it propagates it. *)
LEMMA MovedOk ==
    ASSUME NEW may, ValuesInv(may), NEW b \in Blocks
    PROVE  ValOk(may, Moved(b)[OutOf(b)])
<1>1. prog \in Programs /\ Flow(df)
  BY DEF ValuesInv, BaseInv, AnalysisType
<1>2. ValOk(may, In(b)) /\ ValOk(may, Out(b)) /\ In(b) \in Contexts /\ Out(b) \in Contexts
  BY <1>1, ListNames DEF ValuesInv, ValuesAt, In, Out, Flow
<1>3. CASE SharedList(b)
  BY <1>1, <1>2, <1>3, MovedFacts DEF Out
<1>4. CASE ~SharedList(b)
  <2> DEFINE copies == In(b).on /\ In(b).new_ptadf
             value  == IF copies THEN In(b).pinfo ELSE Out(b).pinfo
             moved  == Moved(b)[OutOf(b)]
  <2>1. /\ HasConstraints(b) /\ moved.on /\ moved.new_ptadf =>
              moved.seen /\ moved.pinfo = BlockOut(value, prog.code[b])
        /\ ~(HasConstraints(b) /\ moved.on /\ moved.new_ptadf) =>
              moved.pinfo = value /\ moved.seen = IF copies THEN In(b).seen ELSE Out(b).seen
    BY <1>1, <1>4, MovedExact DEF In, Out
  <2>2. value \in NormalValues /\ TypedVal(may, value)
    BY <1>2 DEF ValOk, Contexts
  <2> HIDE DEF moved
  <2>3. CASE HasConstraints(b) /\ moved.on /\ moved.new_ptadf
    <3>1. TypedVal(may, BlockOut(value, prog.code[b]))
      <4> HIDE DEF value
      <4> QED
        BY <1>1, <2>2, CodeTyped DEF ValuesInv
    <3> QED
      BY <2>1, <2>3, <3>1 DEF ValOk, moved
  <2>4. CASE ~(HasConstraints(b) /\ moved.on /\ moved.new_ptadf)
    <3>1. CASE copies
      BY <1>2, <2>1, <2>4, <3>1, SameOk DEF moved
    <3>2. CASE ~copies
      BY <1>2, <2>1, <2>4, <3>2, SameOk DEF moved
    <3> QED
      BY <3>1, <3>2
  <2> QED
    BY <2>3, <2>4
<1> QED
  BY <1>3, <1>4

LEMMA ValuesPta ==
    ASSUME NEW may, ValuesInv(may), [Next]_vars, NEW b \in Blocks, PtaIntraBlock(b),
           NEW a \in Blocks
    PROVE  ValuesAt(may, a)'
<1>1. AnalysisType /\ BaseInv /\ prog' = prog /\ prog \in Programs /\ Flow(df)
  BY ContextsNext DEF ValuesInv, BaseInv, AnalysisType
<1>2. ValuesAt(may, a)
  BY <1>1 DEF ValuesInv
<1> DEFINE out == Moved(b)[OutOf(b)]
<1>3. ValOk(may, out)
  BY MovedOk
<1>4. /\ Flow(Moved(b))
      /\ \A l \in Lists : l \notin {InOf(b), OutOf(b)} => Moved(b)[l] = df[l]
      /\ SharedList(b) => Moved(b) = df
      /\ ~SharedList(b) => SameInfo(df[InOf(b)], Moved(b)[InOf(b)])
  BY <1>1, MovedFacts
<1>5. /\ InOf(a) \in Lists /\ OutOf(a) \in Lists /\ OutOf(b) \in Lists
      /\ a # b => InOf(a) \notin {InOf(b), OutOf(b)} /\ OutOf(a) \notin {InOf(b), OutOf(b)}
      /\ In(a)' = df'[InOf(a)] /\ Out(a)' = df'[OutOf(a)]
      /\ SharedList(a) => In(a)' = Out(a)'
  BY <1>1, ListNames, BlockNames
<1>6. ValOk(may, Moved(b)[InOf(a)])
  <2>1. CASE a # b \/ SharedList(b)
    <3>1. Moved(b)[InOf(a)] = In(a)
      BY <1>4, <1>5, <2>1 DEF In
    <3> QED
      BY <1>2, <3>1 DEF ValuesAt
  <2>2. CASE a = b /\ ~SharedList(b)
    BY <1>2, <1>4, <2>2, SameOk DEF ValuesAt, In, SameInfo
  <2> QED
    BY <2>1, <2>2
<1>7. /\ a \notin Changed(b) => SameInfo(df'[InOf(a)], Moved(b)[InOf(a)])
      /\ a \in Changed(b) => SameInfo(df'[InOf(a)], Arrive(out, Moved(b)[InOf(a)]))
      /\ ~SharedList(a) => SameInfo(df'[OutOf(a)], Moved(b)[OutOf(a)])
  BY <1>1, PtaIntraStep
<1>8. ValOk(may, Arrive(out, Moved(b)[InOf(a)]))
  <2>1. out \in Contexts /\ Moved(b)[InOf(a)] \in Contexts
    BY <1>4, <1>5 DEF Flow
  <2> HIDE DEF out
  <2> QED
    BY <1>3, <1>6, <2>1, ArriveTyped DEF ValOk
<1> HIDE DEF out
<1>9. ValOk(may, In(a)')
  <2>1. CASE a \in Changed(b)
    BY <1>5, <1>7, <1>8, <2>1, SameOk DEF SameInfo
  <2>2. CASE a \notin Changed(b)
    BY <1>5, <1>6, <1>7, <2>2, SameOk DEF SameInfo
  <2> QED
    BY <2>1, <2>2
<1>10. ValOk(may, Out(a)')
  <2>1. CASE SharedList(a)
    BY <1>5, <1>9, <2>1
  <2>2. CASE ~SharedList(a)
    <3>1. ValOk(may, Moved(b)[OutOf(a)])
      <4>1. CASE a = b
        BY <1>3, <4>1 DEF out
      <4>2. CASE a # b
        BY <1>2, <1>4, <1>5, <4>2 DEF ValuesAt, Out
      <4> QED
        BY <4>1, <4>2
    <3> QED
      BY <1>5, <1>7, <2>2, <3>1, SameOk DEF SameInfo
  <2> QED
    BY <2>1, <2>2
<1> QED
  BY <1>9, <1>10 DEF ValuesAt

LEMMA ValuesPtaEnd ==
    ASSUME NEW may, ValuesInv(may), [Next]_vars, PtaEndBlock, NEW a \in Blocks
    PROVE  ValuesAt(may, a)'
<1>1. AnalysisType /\ BaseInv /\ prog' = prog /\ prog \in Programs /\ Flow(df)
  BY ContextsNext DEF ValuesInv, BaseInv, AnalysisType
<1>2. ValuesAt(may, a)
  BY <1>1 DEF ValuesInv
<1>3. /\ a # End => In(a)' = In(a) /\ Out(a)' = Out(a)
      /\ SameInfo(In(a), In(a)')
  BY <1>1, PtaEndAt
<1>4. ValOk(may, In(a)')
  BY <1>2, <1>3, SameOk DEF ValuesAt, SameInfo
<1>5. ValOk(may, Out(a)')
  <2>1. CASE a # End
    BY <1>2, <1>3, <2>1 DEF ValuesAt
  <2>2. CASE a = End
    <3>1. ~SharedList(a) /\ Out(a)' = df'[OutOf(a)] /\ df' = CopyInToOut(df, a)
          /\ OutOf(a) \in Lists /\ InOf(a) \in Lists /\ InOf(a) # OutOf(a)
      BY <1>1, <2>2, BlockNames, ListNames, EndNotShared DEF PtaEndBlock
    <3>2. \/ Out(a)'.pinfo = Out(a).pinfo /\ Out(a)'.seen = Out(a).seen
          \/ Out(a)'.pinfo = In(a).pinfo /\ Out(a)'.seen = In(a).seen
      <4> DEFINE in == In(a)
                 out == Out(a)
                 new == IF out.on
                        THEN [out EXCEPT !.pinfo = in.pinfo, !.seen = in.seen, !.new_ptadf = TRUE]
                        ELSE in
      <4>1. in \in Contexts /\ out \in Contexts
        BY <1>1, <3>1 DEF Flow, In, Out
      <4>2. new.pinfo = in.pinfo /\ new.seen = in.seen
        BY <4>1 DEF Contexts
      <4>3. \/ df' = df
            \/ df' = [df EXCEPT ![OutOf(a)] = new, ![InOf(a)].new_ptadf = FALSE]
        BY <3>1 DEF CopyInToOut, In, Out
      <4> HIDE DEF new
      <4>4. df'[OutOf(a)] = df[OutOf(a)] \/ df'[OutOf(a)] = new
        BY <1>1, <3>1, <4>3 DEF Flow
      <4> QED
        BY <3>1, <4>2, <4>4 DEF Out
    <3> QED
      BY <1>2, <3>2, SameOk DEF ValuesAt
  <2> QED
    BY <2>1, <2>2
<1> QED
  BY <1>4, <1>5 DEF ValuesAt

LEMMA ValuesKept == \A may : ValuesInv(may) /\ [Next]_vars => ValuesInv(may)'
<1> SUFFICES ASSUME NEW may, ValuesInv(may), [Next]_vars PROVE ValuesInv(may)'
  OBVIOUS
<1>1. BaseInv /\ AnalysisType /\ BaseInv' /\ TypedCode(may)
  BY BaseKept DEF ValuesInv, BaseInv
<1>2. prog' = prog /\ process_lv \subseteq Blocks /\ process_pta \subseteq Blocks
      /\ prog \in Programs
  BY <1>1, WhichStep DEF AnalysisType
<1>3. TypedCode(may)' /\ Blocks' = Blocks
  BY <1>1, <1>2, TypedCodeKept, SameProgram
<1>4. ASSUME NEW a \in Blocks PROVE ValuesAt(may, a)'
  <2>1. ValuesAt(may, a)
    BY DEF ValuesInv
  <2>2. CASE First'
    <3>1. FirstPass(a)'
      BY <1>1, <1>3, <2>2 DEF BaseInv
    <3> QED
      BY <3>1, EmptyOk DEF FirstPass, ValuesAt, ValOk
  <2>3. CASE ~First' /\ First
    <3>1. df' = df
      <4>1. phase' # "lv" \/ recompute'
        BY <2>3 DEF First
      <4>2. phase = "lv" /\ ~recompute
        BY <2>3 DEF First
      <4>3. phase' # "lv" \/ recompute' # recompute
        BY <4>1, <4>2
      <4>4. LvDone \/ UNCHANGED analysis
        BY <1>2, <4>2, <4>3, WhichStep DEF PtaDone
      <4> QED
        BY <4>4 DEF LvDone, analysis
    <3>2. In(a)' = In(a) /\ Out(a)' = Out(a)
      BY <1>1, <1>2, <3>1, BlockNames DEF In, Out
    <3> QED
      BY <2>1, <3>2 DEF ValuesAt
  <2>4. CASE ~First
    <3>1. ASSUME df' = df PROVE ValuesAt(may, a)'
      <4>1. In(a)' = In(a) /\ Out(a)' = Out(a)
        BY <1>1, <1>2, <3>1, BlockNames DEF In, Out
      <4> QED
        BY <2>1, <4>1 DEF ValuesAt
    <3>2. CASE LvStartBlock
      BY <2>4, <3>2, ValuesLvStart
    <3>3. CASE \E b \in process_lv \ {Start} : LvIntraBlock(b)
      BY <2>4, <3>3, ValuesLv
    <3>4. CASE PtaEndBlock
      BY <3>4, ValuesPtaEnd
    <3>5. CASE \E b \in process_pta \ {End} : PtaIntraBlock(b)
      BY <1>2, <3>5, ValuesPta
    <3>6. CASE LvDone \/ PtaDone \/ UNCHANGED analysis
      BY <3>1, <3>6 DEF LvDone, PtaDone, analysis
    <3> QED
      BY <1>2, <3>2, <3>3, <3>4, <3>5, <3>6, WhichStep
  <2> QED
    BY <2>2, <2>3, <2>4
<1> QED
  BY <1>1, <1>3, <1>4 DEF ValuesInv

-----------------------------------------------------------------------------
(* What preprocess_cfg makes of a source is undisturbed.                   *)

GoodCode == {code \in Seq(Item) : Undisturbed(code)}

(* An item that dereferences may be put after these. *)
MayFollow(code, item) ==
    IsAlias(item) /\ Uses(item) # {} =>
        \A j \in DOMAIN code : LeavesAlone(code[j], Uses(item))

LEMMA SetLast ==
    ASSUME NEW S, NEW seq \in Seq(S), seq # <<>>, NEW e \in S
    PROVE  LET t == [seq EXCEPT ![Len(seq)] = e]
           IN  /\ t \in Seq(S) \ {<<>>} /\ Len(t) = Len(seq) /\ t[Len(t)] = e
               /\ \A j \in 1..(Len(seq) - 1) : t[j] = seq[j]
<1> DEFINE n == Len(seq)
           t == [seq EXCEPT ![n] = e]
<1>1. n \in 1..n /\ n \in Nat
  OBVIOUS
<1>2. /\ t \in Seq(S) /\ Len(t) = n
      /\ \A j \in 1..n : t[j] = IF j = n THEN e ELSE seq[j]
  BY <1>1, ExceptSeq
<1> HIDE DEF t, n
<1>3. t[n] = e /\ \A j \in 1..(n - 1) : t[j] = seq[j]
  BY <1>1, <1>2
<1>4. t # <<>>
  BY <1>1, <1>2
<1> QED
  BY <1>2, <1>3, <1>4 DEF t, n

(* append_to_bb_constraints adds the item, or what it uses to the last.     *)
LEMMA AppendItemIs ==
    ASSUME NEW code \in Seq(Item), NEW item \in Item
    PROVE  LET r == AppendItem(code, item)
           IN  /\ r \in Seq(Item)
               /\ \/ /\ Len(r) = Len(code) + 1 /\ r[Len(r)] = item
                     /\ \A j \in 1..Len(code) : r[j] = code[j]
                  \/ /\ Len(r) = Len(code) /\ ~IsAlias(r[Len(r)]) /\ ~IsAlias(item)
                     /\ \A j \in 1..(Len(code) - 1) : r[j] = code[j]
<1> DEFINE n == Len(code)
           r == AppendItem(code, item)
<1>1. n \in Nat /\ DOMAIN code = 1..n /\ \A j \in 1..n : code[j] \in Item
  OBVIOUS
<1>2. CASE code # <<>> /\ ~IsAlias(item) /\ ~IsAlias(Last(code))
  <2> DEFINE e == [code[n] EXCEPT !.uses = @ \cup item.uses]
  <2>1. r = [code EXCEPT ![n] = e] /\ ~IsAlias(code[n])
    BY <1>2 DEF AppendItem, Last
  <2>2. n \in 1..n /\ code[n] \in Item
    BY <1>1, <1>2
  <2>3. code[n] \in [alias : {FALSE}, uses : SUBSET Var] /\ item \in [alias : {FALSE}, uses : SUBSET Var]
    BY <1>2, <2>1, <2>2 DEF Item, IsAlias
  <2>4. e \in [alias : {FALSE}, uses : SUBSET Var]
    BY <2>3
  <2>5. e \in Item /\ ~IsAlias(e)
    BY <2>4 DEF Item, IsAlias
  <2> HIDE DEF e, r
  <2>6. r \in Seq(Item) /\ Len(r) = n
    BY <1>2, <2>1, <2>5, SetLast
  <2>7. r[n] = e /\ \A j \in 1..(n - 1) : r[j] = code[j]
    BY <1>2, <2>1, <2>5, SetLast
  <2> QED
    BY <1>2, <2>5, <2>6, <2>7 DEF r
<1>3. CASE ~(code # <<>> /\ ~IsAlias(item) /\ ~IsAlias(Last(code)))
  <2>1. r = Append(code, item)
    BY <1>3 DEF AppendItem
  <2> HIDE DEF r
  <2>2. r \in Seq(Item) /\ Len(r) = n + 1 /\ r[Len(r)] = item /\ \A j \in 1..n : r[j] = code[j]
    BY <2>1
  <2> QED
    BY <2>2 DEF r
<1> QED
  BY <1>2, <1>3

(* What the items of code and the appended one leave alone, the new ones do.*)
LEMMA AppendLeaves ==
    ASSUME NEW code \in Seq(Item), NEW item \in Item, NEW V, LeavesAlone(item, V),
           \A j \in DOMAIN code : LeavesAlone(code[j], V)
    PROVE  \A j \in DOMAIN AppendItem(code, item) : LeavesAlone(AppendItem(code, item)[j], V)
<1> DEFINE n == Len(code)
           r == AppendItem(code, item)
           m == Len(r)
<1>1. n \in Nat /\ DOMAIN code = 1..n
  OBVIOUS
<1>2. r \in Seq(Item)
  BY AppendItemIs
<1>3. \/ m = n + 1 /\ r[m] = item /\ \A j \in 1..n : r[j] = code[j]
      \/ m = n /\ ~IsAlias(r[m]) /\ \A j \in 1..(n - 1) : r[j] = code[j]
  BY AppendItemIs
<1> HIDE DEF r, n
<1>4. m \in Nat /\ DOMAIN r = 1..m
  BY <1>2
<1> HIDE DEF m
<1>5. LeavesAlone(r[m], V)
  BY <1>3 DEF LeavesAlone
<1>6. ASSUME NEW j \in 1..m, j # m PROVE LeavesAlone(r[j], V)
  <2>1. j \in 1..n /\ r[j] = code[j]
    BY <1>1, <1>3, <1>4, <1>6
  <2> QED
    BY <1>1, <2>1
<1>7. \A j \in DOMAIN r : LeavesAlone(r[j], V)
  BY <1>4, <1>5, <1>6
<1> QED
  BY <1>7 DEF r

LEMMA AppendGood ==
    ASSUME NEW code \in GoodCode, NEW item \in Item, MayFollow(code, item)
    PROVE  AppendItem(code, item) \in GoodCode
<1> DEFINE n == Len(code)
           r == AppendItem(code, item)
           m == Len(r)
<1>0. code \in Seq(Item) /\ Undisturbed(code)
  BY DEF GoodCode
<1>1. n \in Nat /\ DOMAIN code = 1..n
  BY <1>0
<1>2. r \in Seq(Item)
  BY <1>0, AppendItemIs
<1>3. \/ m = n + 1 /\ r[m] = item /\ \A j \in 1..n : r[j] = code[j]
      \/ m = n /\ ~IsAlias(r[m]) /\ \A j \in 1..(n - 1) : r[j] = code[j]
  BY <1>0, AppendItemIs
<1> HIDE DEF r, n
<1>4. m \in Nat /\ DOMAIN r = 1..m
  BY <1>2
<1> HIDE DEF m
<1>5. SUFFICES ASSUME NEW i \in 1..m, IsAlias(r[i]), Uses(r[i]) # {}, NEW j \in 1..(i - 1)
               PROVE  LeavesAlone(r[j], Uses(r[i]))
  <2>1. Undisturbed(r)
    BY <1>4, <1>5 DEF Undisturbed
  <2> QED
    BY <1>2, <2>1 DEF GoodCode, r
<1>6. CASE i = m
  <2>1. m = n + 1 /\ r[m] = item /\ \A k \in 1..n : r[k] = code[k]
    BY <1>3, <1>5, <1>6
  <2>2. j \in 1..n /\ r[j] = code[j]
    BY <1>1, <1>4, <1>5, <1>6, <2>1
  <2>3. LeavesAlone(code[j], Uses(item))
    BY <1>1, <1>5, <1>6, <2>1, <2>2 DEF MayFollow
  <2> QED
    BY <1>6, <2>1, <2>2, <2>3
<1>7. CASE i # m
  <2>1. i \in 1..n /\ r[i] = code[i] /\ j \in 1..n /\ r[j] = code[j]
    BY <1>1, <1>3, <1>4, <1>5, <1>7
  <2>2. LeavesAlone(code[j], Uses(code[i]))
    BY <1>0, <1>1, <1>5, <2>1 DEF Undisturbed
  <2> QED
    BY <2>1, <2>2
<1> QED
  BY <1>6, <1>7

(* Items may be appended one after the other.                              *)
AppendStep(env, code, item) == AppendItem(code, item)

AppendedGood(env, code) == code \in GoodCode

Appending == INSTANCE FoldingProofs WITH op <- AppendStep, inv <- AppendedGood

LEMMA AppendFold ==
    ASSUME NEW base, NEW items
    PROVE  FoldLeft(AppendItem, base, items) = Appending!Fold({}, base, items)
BY DEF Appending!Fold, Appending!FoldLeft, FoldLeft, Appending!MapThenFoldSet, MapThenFoldSet, Appending!Max, Max, AppendStep

LEMMA AppendAll ==
    ASSUME NEW code \in GoodCode, NEW items \in GoodCode,
           \A i \in DOMAIN items : MayFollow(code, items[i])
    PROVE  FoldLeft(AppendItem, code, items) \in GoodCode
<1> DEFINE n == Len(items)
<1>1. items \in Seq(Item) /\ Undisturbed(items)
  BY DEF GoodCode
<1>2. n \in Nat /\ DOMAIN items = 1..n /\ \A i \in 1..n : items[i] \in Item
  BY <1>1
<1>3. PICK g : Appending!IsRun(g, {}, code, items, n) /\ FoldLeft(AppendItem, code, items) = g[n]
  <2>1. Appending!HasLength(items, n)
    BY <1>2 DEF Appending!HasLength
  <2>2. Appending!HasRun({}, code, items, n)
    <3> HIDE DEF n
    <3> QED
      BY <2>1, Appending!FoldLeftRun
  <2> QED
    BY <2>2, AppendFold DEF Appending!HasRun
<1> DEFINE T == {k \in 0..n : g[k] \in GoodCode /\ \A i \in (k + 1)..n : MayFollow(g[k], items[i])}
<1> HIDE DEF n
<1>4. 0 \in T
  BY <1>2, <1>3 DEF Appending!IsRun
<1>5. ASSUME NEW k \in 1..n, k - 1 \in T PROVE k \in T
  <2>1. g[k] = AppendItem(g[k - 1], items[k])
    BY <1>3 DEF Appending!IsRun, AppendStep
  <2>2. g[k - 1] \in GoodCode /\ \A i \in k..n : MayFollow(g[k - 1], items[i])
    BY <1>2, <1>5
  <2>3. k \in k..n /\ items[k] \in Item
    BY <1>2
  <2>4. g[k] \in GoodCode
    BY <2>1, <2>2, <2>3, AppendGood
  <2>5. ASSUME NEW i \in (k + 1)..n PROVE MayFollow(g[k], items[i])
    <3>1. i \in 1..n /\ i \in k..n /\ k \in 1..(i - 1)
      BY <1>2
    <3>2. SUFFICES ASSUME IsAlias(items[i]), Uses(items[i]) # {}
                   PROVE  \A j \in DOMAIN g[k] : LeavesAlone(g[k][j], Uses(items[i]))
      BY DEF MayFollow
    <3>3. LeavesAlone(items[k], Uses(items[i]))
      BY <1>1, <1>2, <3>1, <3>2 DEF Undisturbed
    <3>4. \A j \in DOMAIN g[k - 1] : LeavesAlone(g[k - 1][j], Uses(items[i]))
      BY <2>2, <3>1, <3>2 DEF MayFollow
    <3> QED
      BY <2>1, <2>2, <2>3, <3>3, <3>4, AppendLeaves DEF GoodCode
  <2> QED
    BY <2>4, <2>5
<1> HIDE DEF T
<1>6. n \in T
  BY <1>2, <1>4, <1>5, UpTo
<1> QED
  BY <1>3, <1>6 DEF T

(* In particular when nothing is before them, or when they dereference     *)
(* nothing.                                                                *)
LEMMA NoCode == <<>> \in GoodCode
BY DEF GoodCode, Undisturbed

LEMMA AppendToNone ==
    ASSUME NEW items \in GoodCode
    PROVE  FoldLeft(AppendItem, <<>>, items) \in GoodCode
BY NoCode, AppendAll DEF MayFollow

LEMMA AppendPlain ==
    ASSUME NEW code \in GoodCode, NEW items \in Seq(Item), ~Dereferences(items)
    PROVE  FoldLeft(AppendItem, code, items) \in GoodCode
<1>1. items \in GoodCode
  BY DEF GoodCode, Undisturbed, Dereferences
<1> QED
  BY <1>1, AppendAll DEF MayFollow, Dereferences

(* PHIs and then the items of a statement.                                 *)
LEMMA AppendBoth ==
    ASSUME NEW phis \in Seq(Item), NEW items \in Seq(Item), Undisturbed(phis \o items)
    PROVE  FoldLeft(AppendItem, FoldLeft(AppendItem, <<>>, phis), items) \in GoodCode
<1>1. phis \o items \in GoodCode
  BY DEF GoodCode
<1>2. FoldLeft(AppendItem, <<>>, phis \o items) \in GoodCode
  BY <1>1, AppendToNone
<1> QED
  BY <1>2, Appending!FoldBoth, AppendFold

(* The blocks and what is carried through the statements of one.           *)
Part(functions) ==
    [code : GoodCode, has_deref : BOOLEAN, callee : SUBSET functions,
     result : SUBSET Var, ret : SUBSET Var]

SplitState(functions) ==
    [blocks : Seq(Part(functions)) \ {<<>>},
     prev : {"none", "label", "assign", "cond", "library", "call", "return"},
     has_phi : BOOLEAN, after_call : BOOLEAN, deref_stmt : BOOLEAN]

LEMMA NewBlockIn ==
    ASSUME NEW functions
    PROVE  NewBlock \in Part(functions) /\ NewBlock.code = <<>>
BY NoCode DEF NewBlock, Part

LEMMA CbbIn ==
    ASSUME NEW functions, NEW s \in SplitState(functions)
    PROVE  Cbb(s) \in Part(functions) /\ Cbb(s).code \in GoodCode
<1>1. s.blocks \in Seq(Part(functions)) /\ s.blocks # <<>>
  BY DEF SplitState
<1>2. Len(s.blocks) \in 1..Len(s.blocks)
  BY <1>1
<1>3. Cbb(s) \in Part(functions)
  BY <1>1, <1>2 DEF Cbb, Last
<1> QED
  BY <1>3 DEF Part

LEMMA SetCbbIn ==
    ASSUME NEW functions, NEW s \in SplitState(functions), NEW b \in Part(functions)
    PROVE  /\ SetCbb(s, b) \in SplitState(functions) /\ Cbb(SetCbb(s, b)) = b
           /\ SetCbb(s, b).prev = s.prev /\ SetCbb(s, b).after_call = s.after_call
<1> DEFINE blocks == s.blocks
           t == [blocks EXCEPT ![Len(blocks)] = b]
<1>1. blocks \in Seq(Part(functions)) /\ blocks # <<>>
  BY DEF SplitState
<1>2. SetCbb(s, b) = [s EXCEPT !.blocks = t]
  BY DEF SetCbb
<1> HIDE DEF blocks
<1>3. t \in Seq(Part(functions)) \ {<<>>} /\ t[Len(t)] = b
  BY <1>1, SetLast
<1> HIDE DEF t
<1>4. /\ SetCbb(s, b).blocks = t
      /\ SetCbb(s, b).prev = s.prev /\ SetCbb(s, b).after_call = s.after_call
  BY <1>2 DEF SplitState
<1>5. SetCbb(s, b) \in SplitState(functions)
  BY <1>2, <1>3 DEF SplitState
<1> QED
  BY <1>3, <1>4, <1>5 DEF Cbb, Last

LEMMA SplitBbIn ==
    ASSUME NEW functions, NEW s \in SplitState(functions)
    PROVE  /\ SplitBb(s) \in SplitState(functions) /\ Cbb(SplitBb(s)).code = <<>>
           /\ SplitBb(s).prev = "none"
<1> DEFINE t == Append(s.blocks, NewBlock)
<1>1. s.blocks \in Seq(Part(functions))
  BY DEF SplitState
<1>2. t \in Seq(Part(functions)) \ {<<>>} /\ t[Len(t)] = NewBlock
  BY <1>1, NewBlockIn, AppendProperties
<1> HIDE DEF t
<1>3. SplitBb(s) = [s EXCEPT !.blocks = t, !.prev = "none"]
  BY DEF SplitBb, t
<1>4. SplitBb(s) \in SplitState(functions) /\ SplitBb(s).blocks = t /\ SplitBb(s).prev = "none"
  BY <1>2, <1>3 DEF SplitState
<1> QED
  BY <1>2, <1>4, NewBlockIn DEF Cbb, Last

LEMMA AppendItemsIn ==
    ASSUME NEW functions, NEW s \in SplitState(functions), NEW items,
           FoldLeft(AppendItem, Cbb(s).code, items) \in GoodCode
    PROVE  /\ AppendItems(s, items) \in SplitState(functions)
           /\ Cbb(AppendItems(s, items)).code = FoldLeft(AppendItem, Cbb(s).code, items)
           /\ AppendItems(s, items).prev = s.prev
           /\ AppendItems(s, items).after_call = s.after_call
<1> DEFINE new == FoldLeft(AppendItem, Cbb(s).code, items)
           b == [Cbb(s) EXCEPT !.code = new]
<1>1. AppendItems(s, items) = SetCbb(s, b)
  BY DEF AppendItems
<1> HIDE DEF new
<1>2. b \in Part(functions) /\ b.code = new
  BY CbbIn DEF Part, new
<1> HIDE DEF b
<1> QED
  BY <1>1, <1>2, SetCbbIn DEF new

(* A statement whose dereferences preprocess_cfg can tell.                 *)
GoodStmt(stmt) ==
    stmt.kind # "label" =>
        /\ Dereferences(stmt.items) => stmt.kind = "assign" /\ stmt.mem
        /\ Undisturbed(stmt.items)

(* No block is split before it if none has been before it.                 *)
ReadyFor(s, stmt) ==
    stmt.kind # "label" /\ s.prev = "none" =>
        FoldLeft(AppendItem, Cbb(s).code, stmt.items) \in GoodCode

(* A statement may come after any other. *)
OpenAfter(s) == s.prev = "none" => Cbb(s).code = <<>>

DoneStmt(s, stmt) ==
    CASE stmt.kind = "label"  -> s
      [] stmt.kind = "assign" -> PrepareAssign(s, stmt)
      [] stmt.kind = "call"   -> PrepareCall(s, stmt)
      [] stmt.kind = "return" -> PrepareReturn(s, stmt)
      [] stmt.kind \in {"cond", "library"} -> AppendItems(s, stmt.items)

LEMMA PrepareStmtIs ==
    ASSUME NEW s, NEW stmt
    PROVE  PrepareStmt(s, stmt)
             = [DoneStmt(AfterCall(s), stmt) EXCEPT !.prev = IF stmt.kind = "call" THEN @ ELSE stmt.kind]
BY DEF PrepareStmt, Once, DoneStmt

LEMMA StatementIs ==
    ASSUME NEW functions, NEW stmt \in Statement(functions)
    PROVE  /\ stmt.kind \in {"label", "assign", "cond", "library", "call", "return"}
           /\ stmt.kind # "label" => stmt.items \in Seq(Item)
           /\ stmt.kind = "assign" => stmt.mem \in BOOLEAN
           /\ stmt.kind = "call" => stmt.callee \in functions /\ stmt.result \in SUBSET Var
           /\ stmt.kind = "return" =>
                  \A i \in DOMAIN stmt.items : stmt.items[i] \in Item /\ ~IsAlias(stmt.items[i])
BY DEF Statement

LEMMA PrepareAssignIn ==
    ASSUME NEW functions, NEW s \in SplitState(functions), NEW stmt \in Statement(functions),
           stmt.kind = "assign", GoodStmt(stmt), ReadyFor(s, stmt)
    PROVE  PrepareAssign(s, stmt) \in SplitState(functions)
<1> DEFINE at == AtDeref(s, stmt)
           deref == DerefStmt(s.deref_stmt, stmt.items)
           appended == AppendItems(at, stmt.items)
           b == [Cbb(appended) EXCEPT !.has_deref = @ \/ deref]
<1>1. stmt.items \in Seq(Item) /\ stmt.items \in GoodCode
  BY StatementIs DEF GoodStmt, GoodCode
<1>2. at \in SplitState(functions)
  BY SplitBbIn DEF AtDeref
<1>3. FoldLeft(AppendItem, Cbb(at).code, stmt.items) \in GoodCode
  <2>1. CASE stmt.mem /\ s.prev # "none"
    <3>1. Cbb(at).code = <<>>
      BY <2>1, SplitBbIn DEF AtDeref
    <3> QED
      BY <1>1, <3>1, AppendToNone
  <2>2. CASE stmt.mem /\ s.prev = "none"
    BY <2>2 DEF AtDeref, ReadyFor
  <2>3. CASE ~stmt.mem
    <3>1. ~Dereferences(stmt.items)
      BY <2>3 DEF GoodStmt
    <3>2. Cbb(at).code \in GoodCode
      BY <1>2, CbbIn
    <3> HIDE DEF at
    <3> QED
      BY <1>1, <3>1, <3>2, AppendPlain
  <2> QED
    BY <2>1, <2>2, <2>3
<1>4. s.deref_stmt \in BOOLEAN
  BY DEF SplitState
<1>5. deref \in BOOLEAN
  BY <1>4 DEF DerefStmt, IsDeref
<1>6. PrepareAssign(s, stmt) = [SetCbb(appended, b) EXCEPT !.deref_stmt = deref]
  BY DEF PrepareAssign
<1> HIDE DEF at, deref
<1>7. appended \in SplitState(functions)
  BY <1>2, <1>3, AppendItemsIn
<1> HIDE DEF appended
<1>8. b \in Part(functions)
  BY <1>5, <1>7, CbbIn DEF Part
<1> HIDE DEF b
<1>9. SetCbb(appended, b) \in SplitState(functions)
  BY <1>7, <1>8, SetCbbIn
<1> QED
  BY <1>5, <1>6, <1>9 DEF SplitState

(* The block of a call or of a return statement. *)
LEMMA AtBoundaryIn ==
    ASSUME NEW functions, NEW s \in SplitState(functions), NEW items \in Seq(Item),
           ~Dereferences(items)
    PROVE  AppendItems(AtBoundary(s), items) \in SplitState(functions)
<1>1. AtBoundary(s) \in SplitState(functions)
  BY SplitBbIn DEF AtBoundary, SplitState
<1>2. Cbb(AtBoundary(s)).code \in GoodCode
  BY <1>1, CbbIn
<1>3. FoldLeft(AppendItem, Cbb(AtBoundary(s)).code, items) \in GoodCode
  BY <1>2, AppendPlain
<1> QED
  BY <1>1, <1>3, AppendItemsIn

LEMMA PrepareCallIn ==
    ASSUME NEW functions, NEW s \in SplitState(functions), NEW stmt \in Statement(functions),
           stmt.kind = "call", GoodStmt(stmt)
    PROVE  PrepareCall(s, stmt) \in SplitState(functions) /\ Cbb(PrepareCall(s, stmt)).code = <<>>
<1> DEFINE called == AppendItems(AtBoundary(s), stmt.items)
           b == [Cbb(called) EXCEPT !.callee = {stmt.callee}, !.result = stmt.result,
                                    !.has_deref = FALSE]
           split == SplitBb(SetCbb(called, b))
<1>1. stmt.items \in Seq(Item) /\ stmt.callee \in functions /\ stmt.result \in SUBSET Var
  BY StatementIs
<1>2. ~Dereferences(stmt.items)
  BY DEF GoodStmt
<1>3. called \in SplitState(functions)
  BY <1>1, <1>2, AtBoundaryIn
<1>4. PrepareCall(s, stmt) = [split EXCEPT !.after_call = TRUE]
  BY DEF PrepareCall
<1> HIDE DEF called
<1>5. b \in Part(functions)
  BY <1>1, <1>3, CbbIn DEF Part
<1> HIDE DEF b
<1>6. split \in SplitState(functions) /\ Cbb(split).code = <<>>
  BY <1>3, <1>5, SetCbbIn, SplitBbIn
<1> HIDE DEF split
<1>7. PrepareCall(s, stmt).blocks = split.blocks
  BY <1>4, <1>6 DEF SplitState
<1> QED
  BY <1>4, <1>6, <1>7 DEF SplitState, Cbb

LEMMA PrepareReturnIn ==
    ASSUME NEW functions, NEW s \in SplitState(functions), NEW stmt \in Statement(functions),
           stmt.kind = "return", GoodStmt(stmt)
    PROVE  PrepareReturn(s, stmt) \in SplitState(functions)
<1> DEFINE returned == AppendItems(AtBoundary(s), stmt.items)
           ret == IF AtBoundary(s).prev = "label" THEN {}
                  ELSE UNION {item.uses : item \in ToSet(stmt.items)}
           b == [Cbb(returned) EXCEPT !.ret = ret]
<1>1. stmt.items \in Seq(Item)
  BY StatementIs
<1>2. ~Dereferences(stmt.items)
  BY DEF GoodStmt
<1>3. returned \in SplitState(functions)
  BY <1>1, <1>2, AtBoundaryIn
<1>4. PrepareReturn(s, stmt) = SetCbb(returned, b)
  BY DEF PrepareReturn
<1>5. ret \in SUBSET Var
  <2>1. \A item \in ToSet(stmt.items) : item \in Item /\ ~IsAlias(item)
    BY StatementIs DEF ToSet
  <2>2. \A item \in ToSet(stmt.items) : item.uses \in SUBSET Var
    BY <2>1 DEF Item, IsAlias
  <2> QED
    BY <2>2
<1> HIDE DEF returned, ret
<1>6. b \in Part(functions)
  BY <1>3, <1>5, CbbIn DEF Part
<1> HIDE DEF b
<1> QED
  BY <1>3, <1>4, <1>6, SetCbbIn

LEMMA PrepareStmtIn ==
    ASSUME NEW functions, NEW s \in SplitState(functions), NEW stmt \in Statement(functions),
           GoodStmt(stmt), ReadyFor(AfterCall(s), stmt)
    PROVE  PrepareStmt(s, stmt) \in SplitState(functions) /\ OpenAfter(PrepareStmt(s, stmt))
<1> DEFINE at == AfterCall(s)
           done == DoneStmt(at, stmt)
<1>1. at \in SplitState(functions)
  BY SplitBbIn DEF AfterCall, SplitState
<1>2. done \in SplitState(functions) /\ (stmt.kind = "call" => Cbb(done).code = <<>>)
  <2> HIDE DEF at
  <2>1. CASE stmt.kind = "label"
    BY <1>1, <2>1 DEF DoneStmt
  <2>2. CASE stmt.kind = "assign"
    BY <1>1, <2>2, PrepareAssignIn DEF DoneStmt, at
  <2>3. CASE stmt.kind = "call"
    BY <1>1, <2>3, PrepareCallIn DEF DoneStmt
  <2>4. CASE stmt.kind = "return"
    BY <1>1, <2>4, PrepareReturnIn DEF DoneStmt
  <2>5. CASE stmt.kind \in {"cond", "library"}
    <3>1. ~Dereferences(stmt.items) /\ stmt.items \in Seq(Item)
      BY <2>5, StatementIs DEF GoodStmt
    <3>2. FoldLeft(AppendItem, Cbb(at).code, stmt.items) \in GoodCode
      BY <1>1, <3>1, CbbIn, AppendPlain
    <3>3. done = AppendItems(at, stmt.items)
      BY <2>5 DEF DoneStmt
    <3> HIDE DEF done
    <3> QED
      BY <1>1, <2>5, <3>2, <3>3, AppendItemsIn
  <2> QED
    BY <2>1, <2>2, <2>3, <2>4, <2>5, StatementIs
<1>3. PrepareStmt(s, stmt) = [done EXCEPT !.prev = IF stmt.kind = "call" THEN @ ELSE stmt.kind]
  BY PrepareStmtIs
<1> HIDE DEF done, at
<1>4. PrepareStmt(s, stmt) \in SplitState(functions)
  BY <1>2, <1>3, StatementIs DEF SplitState
<1>5. PrepareStmt(s, stmt).blocks = done.blocks
  BY <1>2, <1>3 DEF SplitState
<1>6. stmt.kind # "call" => PrepareStmt(s, stmt).prev # "none"
  BY <1>2, <1>3, StatementIs DEF SplitState
<1> QED
  BY <1>2, <1>4, <1>5, <1>6 DEF OpenAfter, Cbb

(* The statements of a block, one after the other. *)
StmtStep(env, s, stmt) == Once(LAMBDA t : PrepareStmt(t, stmt), s)

IsSplit(functions, s) == s \in SplitState(functions) /\ OpenAfter(s)

Splitting == INSTANCE FoldingProofs WITH op <- StmtStep, inv <- IsSplit

LEMMA StmtFold ==
    ASSUME NEW env, NEW base, NEW stmts
    PROVE  FoldLeft(LAMBDA s, stmt : Once(LAMBDA t : PrepareStmt(t, stmt), s), base, stmts)
             = Splitting!Fold(env, base, stmts)
BY DEF Splitting!Fold, Splitting!FoldLeft, FoldLeft, Splitting!MapThenFoldSet, MapThenFoldSet, Splitting!Max, Max, StmtStep

LEMMA StmtStepIs ==
    ASSUME NEW env, NEW s, NEW stmt
    PROVE  StmtStep(env, s, stmt) = PrepareStmt(s, stmt)
BY DEF StmtStep, Once

BlockSource(functions) ==
    [phis : Seq(Item), stmts : Seq(Statement(functions)), succ : SUBSET Nat]

GoodBlock(bb) ==
    /\ Undisturbed(bb.phis)
    /\ \A k \in DOMAIN bb.stmts :
          /\ GoodStmt(bb.stmts[k])
          /\ k = 1 /\ bb.stmts[k].kind # "label" => Undisturbed(bb.phis \o bb.stmts[k].items)

LEMMA BlankIn ==
    ASSUME NEW functions, NEW d \in BOOLEAN
    PROVE  /\ Blank(d) \in SplitState(functions) /\ Cbb(Blank(d)).code = <<>>
           /\ Blank(d).prev = "none" /\ ~Blank(d).after_call
BY NewBlockIn DEF Blank, SplitState, Cbb, Last

LEMMA PhisIn ==
    ASSUME NEW functions, NEW d \in BOOLEAN, NEW phis \in GoodCode
    PROVE  LET s == ProcessPhiPointers(Blank(d), phis)
           IN  /\ s \in SplitState(functions)
               /\ Cbb(s).code = FoldLeft(AppendItem, <<>>, phis)
               /\ s.prev = "none" /\ ~s.after_call
<1> DEFINE at == AppendItems(Blank(d), phis)
<1>1. FoldLeft(AppendItem, Cbb(Blank(d)).code, phis) \in GoodCode
  BY BlankIn, AppendToNone
<1>2. /\ at \in SplitState(functions)
      /\ Cbb(at).code = FoldLeft(AppendItem, <<>>, phis)
      /\ at.prev = "none" /\ ~at.after_call
  BY <1>1, BlankIn, AppendItemsIn
<1>3. ProcessPhiPointers(Blank(d), phis) = [at EXCEPT !.has_phi = phis # <<>>]
  BY DEF ProcessPhiPointers
<1> HIDE DEF at
<1> QED
  BY <1>2, <1>3 DEF SplitState, Cbb

LEMMA SplitBlockIn ==
    ASSUME NEW functions, NEW d \in BOOLEAN, NEW bb \in BlockSource(functions), GoodBlock(bb)
    PROVE  SplitBlock(d, bb) \in SplitState(functions)
<1> DEFINE stmts == bb.stmts
           base == ProcessPhiPointers(Blank(d), bb.phis)
           first == PrepareStmt(base, Head(stmts))
<1>1. bb.phis \in Seq(Item) /\ bb.phis \in GoodCode /\ stmts \in Seq(Statement(functions))
  BY DEF BlockSource, GoodBlock, GoodCode
<1>2. /\ base \in SplitState(functions) /\ base.prev = "none" /\ ~base.after_call
      /\ Cbb(base).code = FoldLeft(AppendItem, <<>>, bb.phis)
  BY <1>1, PhisIn
<1>3. SplitBlock(d, bb) = Splitting!Fold(functions, base, stmts)
  BY StmtFold DEF SplitBlock
<1>4. \A k \in DOMAIN stmts : stmts[k] \in Statement(functions) /\ GoodStmt(stmts[k])
  BY <1>1 DEF GoodBlock
<1>5. stmts # <<>> /\ Head(stmts).kind # "label" => Undisturbed(bb.phis \o Head(stmts).items)
  BY <1>1 DEF GoodBlock
<1> HIDE DEF base, stmts
<1>6. CASE stmts = <<>>
  BY <1>2, <1>3, <1>6, Splitting!FoldNone
<1>7. CASE stmts # <<>>
  <2>1. /\ Head(stmts) \in Statement(functions) /\ GoodStmt(Head(stmts))
        /\ Tail(stmts) \in Seq(Statement(functions))
        /\ \A i \in 1..Len(Tail(stmts)) : Tail(stmts)[i] \in Statement(functions) /\ GoodStmt(Tail(stmts)[i])
    BY <1>1, <1>4, <1>7 DEF stmts
  <2>2. AfterCall(base) = base
    BY <1>2 DEF AfterCall
  <2>3. ReadyFor(AfterCall(base), Head(stmts))
    <3>1. ASSUME Head(stmts).kind # "label"
          PROVE  FoldLeft(AppendItem, Cbb(base).code, Head(stmts).items) \in GoodCode
      BY <1>1, <1>2, <1>5, <1>7, <2>1, <3>1, StatementIs, AppendBoth
    <3> QED
      BY <2>2, <3>1 DEF ReadyFor
  <2>4. IsSplit(functions, first)
    BY <1>2, <2>1, <2>3, PrepareStmtIn DEF IsSplit
  <2>5. Splitting!Fold(functions, base, stmts) = Splitting!Fold(functions, first, Tail(stmts))
    BY <1>1, <1>7, Splitting!FoldHead, StmtStepIs DEF stmts
  <2>6. ASSUME NEW i \in 1..Len(Tail(stmts)), NEW s, IsSplit(functions, s)
        PROVE  IsSplit(functions, StmtStep(functions, s, Tail(stmts)[i]))
    <3>1. Tail(stmts)[i] \in Statement(functions) /\ GoodStmt(Tail(stmts)[i])
      BY <2>1
    <3>2. s \in SplitState(functions) /\ OpenAfter(s)
      BY <2>6 DEF IsSplit
    <3>3. OpenAfter(AfterCall(s)) /\ AfterCall(s) \in SplitState(functions)
      <4>1. CASE s.after_call
        <5> DEFINE t == SplitBb(s)
        <5>1. t \in SplitState(functions) /\ Cbb(t).code = <<>>
          BY <3>2, SplitBbIn
        <5>2. AfterCall(s) = [t EXCEPT !.after_call = FALSE, !.has_phi = FALSE]
          BY <4>1 DEF AfterCall
        <5> HIDE DEF t
        <5> QED
          BY <5>1, <5>2 DEF SplitState, OpenAfter, Cbb
      <4>2. CASE ~s.after_call
        BY <3>2, <4>2 DEF AfterCall
      <4> QED
        BY <4>1, <4>2
    <3>4. ReadyFor(AfterCall(s), Tail(stmts)[i])
      <4>1. ASSUME Tail(stmts)[i].kind # "label"
            PROVE  Tail(stmts)[i].items \in GoodCode
        BY <3>1, <4>1, StatementIs DEF GoodStmt, GoodCode
      <4> QED
        BY <3>3, <4>1, AppendToNone DEF ReadyFor, OpenAfter
    <3> QED
      BY <3>1, <3>2, <3>4, PrepareStmtIn, StmtStepIs DEF IsSplit
  <2> HIDE DEF first
  <2>7. IsSplit(functions, Splitting!Fold(functions, first, Tail(stmts)))
    BY <2>1, <2>4, <2>6, Splitting!FoldKeeps
  <2> QED
    BY <1>3, <2>5, <2>7 DEF IsSplit
<1> QED
  BY <1>6, <1>7

(* The blocks of the function, one after the other. *)
VisitStep(env, w, bb) ==
    Once(LAMBDA v : Once(LAMBDA s : [parts |-> Append(v.parts, s.blocks), deref_stmt |-> s.deref_stmt],
                         SplitBlock(v.deref_stmt, bb)), w)

PartsState(functions) ==
    [parts : Seq(Seq(Part(functions)) \ {<<>>}), deref_stmt : BOOLEAN]

IsParts(functions, w) == w \in PartsState(functions)

Visiting == INSTANCE FoldingProofs WITH op <- VisitStep, inv <- IsParts

LEMMA VisitFold ==
    ASSUME NEW env, NEW fn
    PROVE  SplitBlocks(fn) = Visiting!Fold(env, [parts |-> <<>>, deref_stmt |-> FALSE], fn).parts
BY DEF Visiting!Fold, Visiting!FoldLeft, FoldLeft, Visiting!MapThenFoldSet, MapThenFoldSet, Visiting!Max, Max,
       VisitStep, SplitBlocks

LEMMA VisitStepIs ==
    ASSUME NEW env, NEW w, NEW bb
    PROVE  LET s == SplitBlock(w.deref_stmt, bb)
           IN  VisitStep(env, w, bb)
                 = [parts |-> Append(w.parts, s.blocks), deref_stmt |-> s.deref_stmt]
BY DEF VisitStep, Once

LEMMA SplitBlocksIn ==
    ASSUME NEW functions, NEW fn \in Seq(BlockSource(functions)),
           \A b \in DOMAIN fn : GoodBlock(fn[b])
    PROVE  SplitBlocks(fn) \in Seq(Seq(Part(functions)) \ {<<>>})
<1> DEFINE base == [parts |-> <<>>, deref_stmt |-> FALSE]
           S == Seq(Part(functions)) \ {<<>>}
<1>1. IsParts(functions, base)
  BY DEF IsParts, PartsState
<1>2. ASSUME NEW i \in 1..Len(fn), NEW w, IsParts(functions, w)
      PROVE  IsParts(functions, VisitStep(functions, w, fn[i]))
  <2> DEFINE s == SplitBlock(w.deref_stmt, fn[i])
  <2>1. fn[i] \in BlockSource(functions) /\ GoodBlock(fn[i])
    OBVIOUS
  <2>2. w.parts \in Seq(S) /\ w.deref_stmt \in BOOLEAN
    BY <1>2 DEF IsParts, PartsState
  <2>3. s \in SplitState(functions)
    BY <2>1, <2>2, SplitBlockIn
  <2>4. VisitStep(functions, w, fn[i]) = [parts |-> Append(w.parts, s.blocks), deref_stmt |-> s.deref_stmt]
    BY VisitStepIs
  <2> HIDE DEF s
  <2>5. s.blocks \in S /\ s.deref_stmt \in BOOLEAN
    BY <2>3 DEF SplitState
  <2> HIDE DEF S
  <2>6. Append(w.parts, s.blocks) \in Seq(S)
    BY <2>2, <2>5
  <2> QED
    BY <2>4, <2>5, <2>6 DEF IsParts, PartsState, S
<1> HIDE DEF base
<1>3. IsParts(functions, Visiting!Fold(functions, base, fn))
  BY <1>1, <1>2, Visiting!FoldKeeps
<1>4. SplitBlocks(fn) = Visiting!Fold(functions, base, fn).parts
  BY VisitFold DEF base
<1> QED
  BY <1>3, <1>4 DEF IsParts, PartsState

LEMMA FlattenIn ==
    ASSUME NEW S, NEW seqs \in Seq(Seq(S))
    PROVE  FlattenSeq(seqs) \in Seq(S)
<1> DEFINE n == Len(seqs)
           P(f) == Visiting!IsFlatten(f, seqs, n)
           f == CHOOSE h : P(h)
<1>1. n \in Nat /\ \A i \in 1..n : seqs[i] \in Seq(S)
  OBVIOUS
<1>2. CASE n = 0
  BY <1>2 DEF FlattenSeq
<1>3. CASE n # 0
  <2>1. FlattenSeq(seqs) = f[n]
    BY <1>3 DEF FlattenSeq, Visiting!IsFlatten
  <2> HIDE DEF n
  <2>2. f = [i \in 1..n |-> IF i = 1 THEN seqs[i] ELSE f[i - 1] \o seqs[i]]
    BY <1>1, Visiting!FlattenExists DEF Visiting!IsFlatten
  <2> HIDE DEF f
  <2> DEFINE T == {i \in 0..n : i # 0 => f[i] \in Seq(S)}
  <2>3. 0 \in T
    BY <1>1
  <2>4. ASSUME NEW i \in 1..n, i - 1 \in T PROVE i \in T
    <3>1. CASE i = 1
      BY <1>1, <2>2, <3>1
    <3>2. CASE i # 1
      <4>1. f[i - 1] \in Seq(S)
        BY <1>1, <2>4, <3>2
      <4>2. seqs[i] \in Seq(S)
        BY <1>1
      <4>3. f[i] = f[i - 1] \o seqs[i]
        BY <2>2, <3>2
      <4>4. f[i] \in Seq(S)
        <5> HIDE <2>2
        <5> QED
          BY <4>1, <4>2, <4>3, ConcatProperties
      <4> QED
        BY <1>1, <4>4
    <3> QED
      BY <3>1, <3>2
  <2> HIDE DEF T
  <2>5. 0..n \subseteq T
    BY <1>1, <2>3, <2>4, UpTo
  <2>6. n \in T
    BY <1>1, <2>5
  <2> QED
    BY <1>3, <2>1, <2>6 DEF T
<1> QED
  BY <1>2, <1>3

LEMMA PreprocessCfgIs ==
    ASSUME NEW fn
    PROVE  PreprocessCfg(fn) = NumberBlocks(fn, SplitBlocks(fn), FlattenSeq(SplitBlocks(fn)))
BY DEF PreprocessCfg, Once

LEMMA PreparedUndisturbed ==
    ASSUME NEW functions, NEW fn, IsSource(fn, functions)
    PROVE  \A b \in DOMAIN PreprocessCfg(fn).code : Undisturbed(PreprocessCfg(fn).code[b])
<1> DEFINE parts == SplitBlocks(fn)
           blocks == FlattenSeq(parts)
<1>1. fn \in Seq(BlockSource(functions))
  BY DEF IsSource, BlockSource
<1>2. \A b \in DOMAIN fn : GoodBlock(fn[b])
  BY DEF IsSource, GoodBlock, GoodStmt
<1>3. parts \in Seq(Seq(Part(functions)))
  <2> DEFINE S == Seq(Part(functions))
             T == S \ {<<>>}
  <2>1. parts \in Seq(T) /\ T \subseteq S
    BY <1>1, <1>2, SplitBlocksIn
  <2> HIDE DEF S, T, parts
  <2>2. parts \in Seq(S)
    BY <2>1
  <2> QED
    BY <2>2 DEF S
<1>4. blocks \in Seq(Part(functions))
  BY <1>3, FlattenIn
<1>5. PreprocessCfg(fn).code = [n \in DOMAIN blocks |-> blocks[n].code]
  BY PreprocessCfgIs DEF NumberBlocks
<1> HIDE DEF blocks
<1>6. \A n \in DOMAIN blocks : blocks[n] \in Part(functions)
  BY <1>4
<1>7. \A n \in DOMAIN blocks : blocks[n].code \in GoodCode
  BY <1>6 DEF Part
<1> QED
  BY <1>5, <1>7 DEF GoodCode

-----------------------------------------------------------------------------
(* What a block does to its pointers before it dereferences them.           *)

LEMMA DerefsUndisturbedKept ==
    ASSUME prog' = prog, DerefsUndisturbed PROVE DerefsUndisturbed'
BY DEF DerefsUndisturbed, Blocks

LEMMA DerefsHold == AnalysisType /\ DerefsUndisturbed => DerefsAtIn
<1> SUFFICES ASSUME AnalysisType, DerefsUndisturbed,
                    NEW b \in Blocks, NEW i \in DOMAIN prog.code[b],
                    IsAlias(prog.code[b][i]), NEW v \in Uses(prog.code[b][i])
             PROVE  Pointees(BlockOut(df[InOf(b)].pinfo, SubSeq(prog.code[b], 1, i - 1)), v)
                       = Pointees(df[InOf(b)].pinfo, v)
  BY DEF DerefsAtIn
<1> DEFINE code == prog.code[b]
           n == i - 1
<1>1. df[InOf(b)].pinfo \in NormalValues
  BY ListNames DEF AnalysisType, Flow, Contexts
<1>2. code \in Seq(Item)
  BY Cfg DEF AnalysisType
<1>3. \A j \in 1..n : LeavesAlone(code[j], Uses(code[i]))
  BY DEF DerefsUndisturbed, Undisturbed
<1>4. n \in 0..Len(code)
  BY <1>2
<1> HIDE DEF n, code
<1>5. v \in Uses(code[i])
  BY DEF code
<1>6. Pointees(BlockOut(df[InOf(b)].pinfo, SubSeq(code, 1, n)), v) = Pointees(df[InOf(b)].pinfo, v)
  BY <1>1, <1>2, <1>3, <1>4, <1>5, BlockLeaves
<1> QED
  BY <1>6 DEF code, n

(* preprocess_cfg splits the blocks so that every load and store sees, at   *)
(* its place in its block, the pointees its pointer has at IN: those the    *)
(* liveness computed from IN is about.  That holds of every function whose  *)
(* pointers are dereferenced in assignments with a MEM_REF (IsSource), with *)
(* whatever statements before them, except that a PHI right before one must *)
(* not assign its pointer: preprocess_cfg splits no block between them.     *)
THEOREM SeesIn ==
    ASSUME NEW functions,
           \A p \in Programs : \E fn : IsSource(fn, functions) /\ p = PreprocessCfg(fn)
    PROVE  Spec => []DerefsAtIn
<1>1. Init => AnalysisType /\ DerefsUndisturbed
  <2> SUFFICES ASSUME Init PROVE AnalysisType /\ DerefsUndisturbed
    OBVIOUS
  <2>1. PICK fn : IsSource(fn, functions) /\ prog = PreprocessCfg(fn)
    BY DEF Init
  <2>2. DerefsUndisturbed
    BY <2>1, PreparedUndisturbed DEF DerefsUndisturbed, Blocks
  <2> QED
    BY <2>2, InitTypes DEF TypeInv
<1>2. AnalysisType /\ DerefsUndisturbed /\ [Next]_vars => AnalysisType' /\ DerefsUndisturbed'
  <2> SUFFICES ASSUME AnalysisType, DerefsUndisturbed, [Next]_vars
               PROVE  AnalysisType' /\ DerefsUndisturbed'
    OBVIOUS
  <2>1. prog' = prog
    BY WhichStep DEF AnalysisType
  <2> QED
    BY <2>1, AnalysisTypes, DerefsUndisturbedKept
<1>3. AnalysisType /\ DerefsUndisturbed => DerefsAtIn
  BY DerefsHold
<1> QED
  BY <1>1, <1>2, <1>3, PTL DEF Spec

-----------------------------------------------------------------------------
(* OUT is the transfer of IN.                                              *)

Marked(b) == b \in process_pta /\ In(b).new_ptadf

(* In the first liveness pass all contexts are new to the points-to pass.  *)
NewFirst(b) ==
    /\ Out(b).on => b \in process_pta /\ Out(b).new_ptadf
    /\ In(b).on => Marked(b)

Applied(b) ==
    HasConstraints(b) /\ In(b).on =>
        Marked(b) \/ Out(b).pinfo = BlockOut(In(b).pinfo, prog.code[b])

AppliedInv(may) ==
    /\ ValuesInv(may)
    /\ Repeatable(may)
    /\ First => \A b \in Blocks : NewFirst(b)
    /\ ~First => \A b \in Blocks \ {End} : Applied(b)

LEMMA RepeatableKept ==
    ASSUME NEW may, prog' = prog, Repeatable(may) PROVE Repeatable(may)'
BY DEF Repeatable, Blocks, End

LEMMA InitApplied ==
    \A may : Init /\ EndReached /\ TypedCode(may) /\ Repeatable(may) => AppliedInv(may)
<1> SUFFICES ASSUME NEW may, Init, EndReached, TypedCode(may), Repeatable(may)
             PROVE  AppliedInv(may)
  OBVIOUS
<1>1. ValuesInv(may) /\ First
  BY InitValues DEF Init, First
<1>2. ASSUME NEW b \in Blocks PROVE NewFirst(b)
  <2>1. InOf(b) \in Lists /\ OutOf(b) \in Lists
    BY ListNames
  <2>2. df[OutOf(b)].on => b = End
    BY <2>1, ListNames, NoContextType DEF Init
  <2>3. InitialContext.new_ptadf
    BY DEF InitialContext, NoContext
  <2>4. df[OutOf(b)].on => df[OutOf(b)].new_ptadf
    BY <2>1, <2>2, <2>3 DEF Init
  <2>5. df[InOf(b)].on => InOf(b) = OutOf(End)
    BY <2>1, NoContextType DEF Init
  <2>6. ~df[InOf(b)].on
    BY <2>5, ListNames, EndNotShared
  <2> QED
    BY <2>2, <2>4, <2>6 DEF NewFirst, In, Out, Init
<1> QED
  BY <1>1, <1>2 DEF AppliedInv

(* The first pass copies contexts, flag and all. *)
LEMMA NewFirstLv ==
    ASSUME NEW may, AppliedInv(may), [Next]_vars, First, NEW b \in process_lv \ {Start},
           LvIntraBlock(b), NEW a \in Blocks
    PROVE  NewFirst(a)'
<1>1. /\ AnalysisType /\ BaseInv /\ prog' = prog /\ b \in Blocks /\ prog \in Programs
      /\ Flow(df) /\ recompute \in BOOLEAN /\ ~recompute
      /\ NewFirst(a) /\ NewFirst(b) /\ FirstPass(b)
  BY ContextsNext DEF AppliedInv, ValuesInv, BaseInv, AnalysisType, First
<1> DEFINE in == Found(b)[InOf(b)]
<1>2. b \in process_pta /\ Out(b).on /\ Out(b).new_ptadf /\ Out(b).new_lvdf
  BY <1>1 DEF FirstPass, NewFirst
<1>3. in.on => in.new_ptadf
  <2>1. CASE SharedList(b)
    <3>1. in = In(b) /\ In(b) = Out(b)
      BY <1>1, <2>1, LvIntraAt, ContextsNext
    <3> QED
      BY <1>2, <3>1
  <2>2. CASE ~SharedList(b) /\ In(b).on
    <3>1. SameValue(In(b), in)
      BY <1>1, <2>2, FoundFacts DEF In
    <3>3. In(b).new_ptadf
      BY <1>1, <2>2 DEF NewFirst, Marked
    <3> QED
      BY <3>1, <3>3 DEF SameValue
  <2>3. CASE ~SharedList(b) /\ ~In(b).on
    <3>1. SameValue(Out(b), in)
      BY <1>1, <1>2, <2>3, FoundFacts DEF In, Out
    <3> QED
      BY <1>2, <3>1 DEF SameValue
  <2> QED
    BY <2>1, <2>2, <2>3
<1> HIDE DEF in
<1>4. /\ Out(a).on => Out(a)'.on
      /\ Out(a).new_ptadf => Out(a)'.new_ptadf
      /\ a # b /\ ~SharedList(a) => In(a)' = In(a)
      /\ In(a)' = df'[InOf(a)] /\ Out(a)' = df'[OutOf(a)]
      /\ SharedList(a) => In(a)' = Out(a)'
  BY <1>1, LvIntraAt, BlockNames
<1> DEFINE f == Found(b)[OutOf(a)]
<1>5. /\ a \notin Sent(b) => SameButLv(df'[OutOf(a)], f)
      /\ a \in Sent(b) => SameButLv(df'[OutOf(a)], ArriveLive(in, f)) /\ in.on
      /\ ~SharedList(a) => SameButLv(df'[InOf(a)], Found(b)[InOf(a)])
      /\ a \in Sent(b) /\ ~f.on => a \in process_pta'
      /\ process_pta \subseteq process_pta'
  BY <1>1, LvIntraStep DEF in
<1>6. f.on = Out(a).on
  <2>1. /\ \A l \in Lists : l \notin {InOf(b), OutOf(b)} => Found(b)[l] = df[l]
        /\ SharedList(b) => Found(b) = df
        /\ SameButLv(df[OutOf(b)], Found(b)[OutOf(b)])
    BY <1>1, FoundFacts
  <2>2. OutOf(a) \in Lists /\ (a # b => OutOf(a) \notin {InOf(b), OutOf(b)})
    BY <1>1, ListNames, BlockNames
  <2> QED
    BY <2>1, <2>2 DEF Out, SameButLv
<1>7. Out(a)'.on => a \in process_pta' /\ Out(a)'.new_ptadf
  <2>1. CASE Out(a).on
    BY <1>1, <1>4, <1>5, <2>1 DEF NewFirst
  <2>2. CASE ~Out(a).on /\ a \in Sent(b)
    <3>1. ArriveLive(in, f) = in
      BY <1>6, <2>2 DEF ArriveLive
    <3> QED
      BY <1>3, <1>4, <1>5, <1>6, <2>2, <3>1 DEF SameButLv
  <2>3. CASE ~Out(a).on /\ a \notin Sent(b)
    BY <1>4, <1>5, <1>6, <2>3 DEF SameButLv
  <2> QED
    BY <2>1, <2>2, <2>3
<1>8. In(a)'.on => a \in process_pta' /\ In(a)'.new_ptadf
  <2>1. CASE SharedList(a)
    BY <1>4, <1>7, <2>1
  <2>2. CASE ~SharedList(a) /\ a # b
    BY <1>1, <1>4, <1>5, <2>2 DEF NewFirst, Marked
  <2>3. CASE ~SharedList(a) /\ a = b
    BY <1>2, <1>3, <1>4, <1>5, <2>3 DEF SameButLv, in
  <2> QED
    BY <2>1, <2>2, <2>3
<1>9. Marked(a)' <=> a \in process_pta' /\ In(a)'.new_ptadf
  BY DEF Marked
<1> QED
  BY <1>7, <1>8, <1>9 DEF NewFirst

LEMMA NewFirstStart ==
    ASSUME NEW may, AppliedInv(may), [Next]_vars, First, Start \in process_lv,
           LvStartBlock, NEW a \in Blocks
    PROVE  NewFirst(a)'
<1>1. /\ AnalysisType /\ BaseInv /\ prog' = prog /\ prog \in Programs /\ Start \in Blocks
      /\ NewFirst(a) /\ NewFirst(Start) /\ FirstPass(Start)
  BY ContextsNext, Cfg DEF AppliedInv, ValuesInv, BaseInv, AnalysisType
<1>2. Start \in process_pta /\ Out(Start).on /\ Out(Start).new_ptadf /\ Out(Start).new_lvdf
  BY <1>1 DEF FirstPass, NewFirst
<1>3. /\ a # Start => In(a)' = In(a) /\ Out(a)' = Out(a)
      /\ SameButLv(Out(a), Out(a)')
      /\ In(a).on => SameValue(In(a), In(a)')
      /\ a = Start /\ ~In(a).on => SameValue(Out(a), In(a)')
  BY <1>1, <1>2, LvStartAt
<1>4. process_pta' = process_pta
  BY DEF LvStartBlock
<1>5. Marked(a)' <=> a \in process_pta' /\ In(a)'.new_ptadf
  BY DEF Marked
<1>6. CASE a = Start
  BY <1>1, <1>2, <1>3, <1>4, <1>5, <1>6 DEF NewFirst, Marked, SameButLv, SameValue
<1>7. CASE a # Start
  BY <1>1, <1>3, <1>4, <1>5, <1>7 DEF NewFirst, Marked
<1> QED
  BY <1>6, <1>7

LEMMA NoListAtOnce ==
    ASSUME NEW b, HasConstraints(b) PROVE ~SharedList(b)
BY DEF SharedList

(* A step that leaves both values, and marks of the block, as they are.    *)
LEMMA AppliedSame ==
    ASSUME NEW a, prog' = prog, Applied(a), In(a)'.on = In(a).on,
           In(a)'.pinfo = In(a).pinfo, Out(a)'.pinfo = Out(a).pinfo,
           Marked(a) => Marked(a)'
    PROVE  Applied(a)'
<1>1. HasConstraints(a)' = HasConstraints(a) /\ prog'.code[a] = prog.code[a]
  BY SameProgram
<1> QED
  BY <1>1 DEF Applied

(* Liveness passes keep values and marks. *)
LEMMA AppliedLv ==
    ASSUME NEW may, AppliedInv(may), [Next]_vars, ~First, NEW b \in process_lv \ {Start},
           LvIntraBlock(b), NEW a \in Blocks, Applied(a)
    PROVE  Applied(a)'
<1>1. /\ AnalysisType /\ BaseInv /\ prog' = prog /\ b \in Blocks /\ prog \in Programs
      /\ Flow(df) /\ recompute \in BOOLEAN
  BY ContextsNext DEF AppliedInv, ValuesInv, BaseInv, AnalysisType
<1>2. CASE ~HasConstraints(a)
  BY <1>1, <1>2, SameProgram DEF Applied
<1>3. CASE HasConstraints(a)
  <2>1. ~SharedList(a) /\ In(a).on /\ Out(a).on
    BY <1>1, <1>3, NoListAtOnce, NotShared
  <2>2. In(a)' = df'[InOf(a)] /\ Out(a)'.pinfo = Out(a).pinfo
    BY <1>1, <2>1, LvIntraAt, BlockNames
  <2>3. /\ SameButLv(df'[InOf(a)], Found(b)[InOf(a)])
        /\ a # b => df'[InOf(a)] = df[InOf(a)]
        /\ process_pta \subseteq process_pta'
    BY <1>1, <2>1, LvIntraStep
  <2>4. In(b).on => SameValue(df[InOf(b)], Found(b)[InOf(b)])
    BY <1>1, FoundFacts DEF In
  <2>5. SameValue(In(a), In(a)')
    <3>1. CASE a = b
      BY <2>1, <2>2, <2>3, <2>4, <3>1 DEF SameValue, SameButLv, In
    <3>2. CASE a # b
      BY <2>2, <2>3, <3>2 DEF SameValue, In
    <3> QED
      BY <3>1, <3>2
  <2>6. Marked(a) => Marked(a)'
    <3>1. Marked(a)' <=> a \in process_pta' /\ In(a)'.new_ptadf
      BY DEF Marked
    <3> QED
      BY <2>3, <2>5, <3>1 DEF Marked, SameValue
  <2> QED
    BY <1>1, <2>2, <2>5, <2>6, AppliedSame DEF SameValue
<1> QED
  BY <1>2, <1>3

LEMMA AppliedStart ==
    ASSUME NEW may, AppliedInv(may), [Next]_vars, ~First, LvStartBlock,
           NEW a \in Blocks, Applied(a)
    PROVE  Applied(a)'
<1>1. AnalysisType /\ BaseInv /\ prog' = prog /\ process_pta' = process_pta
  BY ContextsNext DEF AppliedInv, ValuesInv, BaseInv, LvStartBlock
<1>2. CASE ~HasConstraints(a)
  BY <1>1, <1>2, SameProgram DEF Applied
<1>3. CASE HasConstraints(a)
  <2>1. ~SharedList(a) /\ In(a).on /\ Out(a).on
    BY <1>1, <1>3, NoListAtOnce, NotShared
  <2>2. SameButLv(Out(a), Out(a)') /\ SameValue(In(a), In(a)')
    BY <1>1, <2>1, LvStartAt
  <2>3. Marked(a) => Marked(a)'
    <3>1. Marked(a)' <=> a \in process_pta' /\ In(a)'.new_ptadf
      BY DEF Marked
    <3> QED
      BY <1>1, <2>2, <3>1 DEF Marked, SameValue
  <2> QED
    BY <1>1, <2>2, <2>3, AppliedSame DEF SameValue, SameButLv
<1> QED
  BY <1>2, <1>3

(* A block that is new at IN is done from IN, one that is new at OUT only  *)
(* is done a second time.                                                  *)
LEMMA DoneAgain ==
    ASSUME NEW may, AppliedInv(may), ~First, NEW b \in Blocks \ {End}, HasConstraints(b),
           In(b).on
    PROVE  Moved(b)[OutOf(b)].pinfo = BlockOut(In(b).pinfo, prog.code[b])
<1>1. /\ prog \in Programs /\ Flow(df) /\ ~SharedList(b) /\ Applied(b)
      /\ ValOk(may, In(b)) /\ In(b) \in Contexts
  BY NoListAtOnce, ListNames
     DEF AppliedInv, ValuesInv, ValuesAt, BaseInv, AnalysisType, In, Flow
<1> DEFINE copies == In(b).on /\ In(b).new_ptadf
           value  == IF copies THEN In(b).pinfo ELSE Out(b).pinfo
           moved  == Moved(b)[OutOf(b)]
<1>2. /\ copies => moved.on /\ moved.new_ptadf
      /\ HasConstraints(b) /\ moved.on /\ moved.new_ptadf =>
            moved.pinfo = BlockOut(value, prog.code[b])
      /\ ~(HasConstraints(b) /\ moved.on /\ moved.new_ptadf) => moved.pinfo = value
  BY <1>1, MovedExact DEF In, Out
<1> HIDE DEF moved
<1>3. CASE copies
  BY <1>2, <1>3 DEF moved
<1>4. CASE ~copies
  <2>1. Out(b).pinfo = BlockOut(In(b).pinfo, prog.code[b])
    BY <1>1, <1>4 DEF Applied, Marked
  <2>2. BlockOut(BlockOut(In(b).pinfo, prog.code[b]), prog.code[b])
           = BlockOut(In(b).pinfo, prog.code[b])
    <3>1. In(b).pinfo \in NormalValues /\ TypedVal(may, In(b).pinfo)
      BY <1>1 DEF ValOk, Contexts
    <3>2. /\ NormalVal(In(b).pinfo) /\ DOMAIN In(b).pinfo \in SUBSET Var
          /\ In(b).pinfo \in [DOMAIN In(b).pinfo -> SUBSET Id]
      BY <3>1, ValueSets DEF IsPointsToVal
    <3> QED
      BY <3>1, <3>2 DEF AppliedInv, Repeatable
  <2> QED
    BY <1>2, <1>4, <2>1, <2>2 DEF moved
<1> QED
  BY <1>3, <1>4

LEMMA AppliedPta ==
    ASSUME NEW may, AppliedInv(may), [Next]_vars, ~First, NEW b \in Blocks \ {End},
           PtaIntraBlock(b), NEW a \in Blocks \ {End}, Applied(a)
    PROVE  Applied(a)'
<1>1. /\ AnalysisType /\ BaseInv /\ prog' = prog /\ prog \in Programs /\ Flow(df)
  BY ContextsNext DEF AppliedInv, ValuesInv, BaseInv, AnalysisType
<1>2. CASE ~HasConstraints(a)
  BY <1>1, <1>2, SameProgram DEF Applied
<1>3. CASE HasConstraints(a)
  <2> DEFINE out == Moved(b)[OutOf(b)]
             in == Moved(b)[InOf(a)]
  <2>1. ~SharedList(a) /\ In(a).on
    BY <1>1, <1>3, NoListAtOnce, NotShared
  <2>2. /\ In(a)' = IF a \in Changed(b) THEN Arrive(out, in) ELSE in
        /\ a \in Changed(b) => out.on /\ out.new_ptadf /\ Arrive(out, in) # in
        /\ SameInfo(df'[OutOf(a)], Moved(b)[OutOf(a)])
        /\ a # b => df'[OutOf(a)] = df[OutOf(a)]
        /\ process_pta' = (process_pta \ {b}) \cup Changed(b)
    <3>1. In(a)' = df'[InOf(a)]
      BY <1>1, BlockNames
    <3> QED
      BY <1>1, <2>1, <3>1, PtaIntraStep
  <2>3. /\ Flow(Moved(b)) /\ InOf(a) \in Lists /\ OutOf(b) \in Lists
        /\ Out(a)' = df'[OutOf(a)]
        /\ a # b => in = df[InOf(a)]
    BY <1>1, MovedFacts, ListNames, BlockNames
  <2>4. out \in Contexts /\ in \in Contexts
    BY <2>3 DEF Flow
  <2>5. Marked(a)' <=> a \in process_pta' /\ In(a)'.new_ptadf
    BY DEF Marked
  <2>6. CASE a \in Changed(b)
    <3>1. Arrive(out, in).new_ptadf
      <4> HIDE DEF out, in
      <4> QED
        BY <2>2, <2>4, <2>6, ArriveFacts
    <3>2. Marked(a)'
      BY <2>2, <2>5, <2>6, <3>1
    <3> QED
      BY <3>2 DEF Applied
  <2>7. CASE a \notin Changed(b) /\ a # b
    <3>1. In(a)' = In(a) /\ Out(a)' = Out(a) /\ (a \in process_pta => a \in process_pta')
      BY <2>2, <2>3, <2>7 DEF In, Out
    <3>2. Marked(a) => Marked(a)'
      BY <2>5, <3>1 DEF Marked
    <3> QED
      BY <1>1, <3>1, <3>2, AppliedSame
  <2>8. CASE a \notin Changed(b) /\ a = b
    <3>1. SameInfo(df[InOf(b)], Moved(b)[InOf(b)])
      BY <1>1, <2>1, <2>8, MovedFacts
    <3>2. In(a)'.pinfo = In(a).pinfo
      BY <2>2, <2>8, <3>1 DEF SameInfo, In
    <3>3. Out(a)'.pinfo = BlockOut(In(a).pinfo, prog.code[a])
      BY <1>3, <2>1, <2>2, <2>3, <2>8, DoneAgain DEF SameInfo
    <3> QED
      BY <1>1, <3>2, <3>3 DEF Applied
  <2> QED
    BY <2>6, <2>7, <2>8
<1> QED
  BY <1>2, <1>3

LEMMA AppliedPtaEnd ==
    ASSUME NEW may, AppliedInv(may), [Next]_vars, PtaEndBlock, NEW a \in Blocks \ {End},
           Applied(a)
    PROVE  Applied(a)'
<1>1. AnalysisType /\ prog' = prog /\ process_pta' = process_pta \ {End}
  BY ContextsNext DEF AppliedInv, ValuesInv, BaseInv, PtaEndBlock
<1>2. In(a)' = In(a) /\ Out(a)' = Out(a)
  BY <1>1, PtaEndAt
<1>3. Marked(a) => Marked(a)'
  <2>1. Marked(a)' <=> a \in process_pta' /\ In(a)'.new_ptadf
    BY DEF Marked
  <2> QED
    BY <1>1, <1>2, <2>1 DEF Marked
<1> QED
  BY <1>1, <1>2, <1>3, AppliedSame

LEMMA AppliedKept == \A may : AppliedInv(may) /\ [Next]_vars => AppliedInv(may)'
<1> SUFFICES ASSUME NEW may, AppliedInv(may), [Next]_vars PROVE AppliedInv(may)'
  OBVIOUS
<1>1. ValuesInv(may) /\ BaseInv /\ AnalysisType /\ ValuesInv(may)'
  BY ValuesKept DEF AppliedInv, ValuesInv, BaseInv
<1>2. prog' = prog /\ process_lv \subseteq Blocks /\ process_pta \subseteq Blocks
      /\ prog \in Programs
  BY <1>1, WhichStep DEF AnalysisType
<1>3. Repeatable(may)' /\ Blocks' = Blocks /\ End' = End /\ Start' = Start
  BY <1>2, RepeatableKept, SameProgram DEF AppliedInv, Start
<1>4. ASSUME df' = df, process_pta' = process_pta, NEW a \in Blocks
      PROVE  /\ NewFirst(a) => NewFirst(a)'
             /\ Applied(a) => Applied(a)'
  <2>1. In(a)' = In(a) /\ Out(a)' = Out(a)
    BY <1>1, <1>2, <1>4, BlockNames DEF In, Out
  <2>2. Marked(a)' = Marked(a)
    BY <1>4, <2>1 DEF Marked
  <2> QED
    BY <1>2, <1>4, <2>1, <2>2, AppliedSame DEF NewFirst
<1>5. ASSUME First', NEW a \in Blocks PROVE NewFirst(a)'
  <2>1. First
    <3>1. phase' = "lv" /\ ~recompute'
      BY <1>5 DEF First
    <3>2. PtaEndBlock => UNCHANGED <<phase, recompute>>
      BY DEF PtaEndBlock
    <3>3. \A b \in Blocks : PtaIntraBlock(b) => recompute' \/ UNCHANGED <<phase, recompute>>
      BY <1>1, PtaIntraStep DEF AnalysisType
    <3> QED
      BY <1>2, <3>1, <3>2, <3>3, WhichStep DEF First, LvDone, PtaDone, analysis
  <2>2. NewFirst(a)
    BY <2>1 DEF AppliedInv
  <2>3. CASE Start \in process_lv /\ LvStartBlock
    BY <2>1, <2>3, NewFirstStart
  <2>4. CASE \E b \in process_lv \ {Start} : LvIntraBlock(b)
    BY <2>1, <2>4, NewFirstLv
  <2>5. CASE UNCHANGED analysis
    BY <1>4, <2>2, <2>5 DEF analysis
  <2>6. ~LvDone
    BY <1>5 DEF LvDone, First
  <2> QED
    BY <1>2, <2>1, <2>3, <2>4, <2>5, <2>6, WhichStep DEF First, PtaDone
<1>6. ASSUME ~First', NEW a \in Blocks \ {End} PROVE Applied(a)'
  <2>1. CASE First
    <3>1. NewFirst(a)
      BY <2>1 DEF AppliedInv
    <3>2. Applied(a)
      BY <3>1 DEF Applied, NewFirst
    <3>3. phase = "lv" /\ (phase' # "lv" \/ recompute' # recompute)
      BY <1>6, <2>1 DEF First
    <3>4. LvDone \/ UNCHANGED analysis
      BY <1>2, <3>3, WhichStep DEF PtaDone
    <3> QED
      BY <1>4, <3>2, <3>4 DEF LvDone, analysis
  <2>2. CASE ~First
    <3>1. Applied(a)
      BY <2>2 DEF AppliedInv
    <3>2. CASE LvStartBlock
      BY <2>2, <3>1, <3>2, AppliedStart
    <3>3. CASE \E b \in process_lv \ {Start} : LvIntraBlock(b)
      BY <2>2, <3>1, <3>3, AppliedLv
    <3>4. CASE PtaEndBlock
      BY <3>1, <3>4, AppliedPtaEnd
    <3>5. CASE \E b \in process_pta \ {End} : PtaIntraBlock(b)
      BY <1>2, <2>2, <3>1, <3>5, AppliedPta
    <3>6. CASE LvDone \/ PtaDone \/ UNCHANGED analysis
      BY <1>4, <3>1, <3>6 DEF LvDone, PtaDone, analysis
    <3> QED
      BY <1>2, <3>2, <3>3, <3>4, <3>5, <3>6, WhichStep
  <2> QED
    BY <2>1, <2>2
<1> QED
  BY <1>1, <1>3, <1>5, <1>6 DEF AppliedInv

(* When the analysis returns, OUT is the transfer of IN, if doing a block  *)
(* twice is doing it once: a liveness pass that has the points-to pass     *)
(* process a block again has it start from OUT.                            *)
THEOREM TransfersApplied ==
    ASSUME NEW may
    PROVE  Spec /\ EndReached /\ TypedCode(may) /\ Repeatable(may) => []TransferApplied
<1>1. Init /\ EndReached /\ TypedCode(may) /\ Repeatable(may) => AppliedInv(may)
  BY InitApplied
<1>2. AppliedInv(may) /\ [Next]_vars => AppliedInv(may)'
  BY AppliedKept
<1>3. AppliedInv(may) => TransferApplied
  <2> SUFFICES ASSUME AppliedInv(may), phase = "run", NEW b \in Blocks \ {End},
                      HasConstraints(b), df[InOf(b)].on
               PROVE  df[OutOf(b)].pinfo = BlockOut(df[InOf(b)].pinfo, prog.code[b])
    BY DEF TransferApplied
  <2>1. process_pta = {} /\ ~First
    BY DEF AppliedInv, ValuesInv, BaseInv, Idle, First
  <2>2. Applied(b) /\ ~Marked(b)
    BY <2>1 DEF AppliedInv, Marked
  <2> QED
    BY <2>2 DEF Applied, In, Out
<1> QED
  BY <1>1, <1>2, <1>3, PTL DEF Spec

-----------------------------------------------------------------------------
(* The uses.                                                               *)

(* The search through the blocks that are looked through comes to an end:  *)
(* what it has reached then is closed.                                     *)
LEMMA Saturates ==
    ASSUME prog \in Programs, NEW S \in SUBSET Blocks,
           NEW next \in [Blocks -> SUBSET Blocks], NEW bypass,
           NEW f, IsReach(f, Rounds, S, next, bypass)
    PROVE  S \subseteq f[Rounds] /\ \A c \in f[Rounds] \cap bypass : next[c] \subseteq f[Rounds]
<1> DEFINE n == Rounds
           Grow(T) == Expand(T, next, bypass)
           Large(i) == Cardinality(f[i]) >= i \/ Grow(f[i]) = f[i]
           T == {i \in 0..n : S \subseteq f[i] /\ Large(i)}
<1>1. IsFiniteSet(Blocks) /\ n = Cardinality(Blocks) /\ n \in Nat
  <2>1. Blocks = 1..Len(prog.code) /\ Len(prog.code) \in Nat
    BY Cfg
  <2>2. IsFiniteSet(Blocks)
    BY <2>1, FS_Interval
  <2> QED
    BY <2>2, RoundsType DEF Rounds
<1>2. /\ f[0] = S
      /\ \A i \in 1..n : f[i] = Grow(f[i - 1])
      /\ \A i \in 0..n : f[i] \in SUBSET Blocks
  BY DEF IsReach
<1>3. \A U : U \subseteq Grow(U)
  BY DEF Expand
<1>4. \A i \in 0..n : IsFiniteSet(f[i]) /\ Cardinality(f[i]) \in Nat /\ Cardinality(f[i]) <= n
  <2> TAKE i \in 0..n
  <2>1. f[i] \in SUBSET Blocks
    BY <1>2
  <2>2. IsFiniteSet(f[i]) /\ Cardinality(f[i]) <= Cardinality(Blocks)
    BY <1>1, <2>1, FS_Subset
  <2> QED
    BY <1>1, <2>2, FS_CardinalityType
<1> HIDE DEF n, Grow
<1>5. 0 \in T
  BY <1>1, <1>2, <1>4
<1>6. \A i \in 1..n : i - 1 \in T => i \in T
  <2> SUFFICES ASSUME NEW i \in 1..n, i - 1 \in T PROVE i \in T
    OBVIOUS
  <2> DEFINE U == f[i - 1]
  <2>1. i - 1 \in 0..n /\ i \in 0..n /\ i \in Nat
    BY <1>1
  <2>2. f[i] = Grow(U) /\ U \subseteq f[i] /\ S \subseteq U /\ Large(i - 1)
    BY <1>2, <1>3
  <2>3. Large(i)
    <3>1. CASE f[i] = U
      BY <2>2, <3>1
    <3>2. CASE f[i] # U
      <4>1. Cardinality(U) >= i - 1
        BY <2>2, <3>2
      <4>2. Cardinality(U) <= Cardinality(f[i]) /\ Cardinality(f[i]) # Cardinality(U)
        BY <1>4, <2>1, <2>2, <3>2, FS_Subset
      <4>3. Cardinality(U) \in Nat /\ Cardinality(f[i]) \in Nat
        BY <1>4, <2>1
      <4>4. Cardinality(f[i]) >= i
        BY <2>1, <4>1, <4>2, <4>3
      <4> QED
        BY <4>4
    <3> QED
      BY <3>1, <3>2
  <2> QED
    BY <2>1, <2>2, <2>3
<1> HIDE DEF T
<1>7. n \in T
  <2>1. 0..n \subseteq T
    BY <1>1, <1>5, <1>6, UpTo
  <2> QED
    BY <1>1, <2>1
<1>8. S \subseteq f[n] /\ Large(n) /\ f[n] \in SUBSET Blocks
  BY <1>1, <1>2, <1>7 DEF T
<1>9. \A c \in f[n] \cap bypass : next[c] \subseteq f[n]
  <2>1. CASE Grow(f[n]) = f[n]
    BY <2>1 DEF Grow, Expand
  <2>2. CASE Cardinality(f[n]) >= n
    <3>1. Cardinality(f[n]) = Cardinality(Blocks)
      BY <1>1, <1>4, <2>2
    <3>2. f[n] = Blocks
      BY <1>1, <1>8, <3>1, FS_Subset
    <3> QED
      BY <3>2
  <2> QED
    BY <1>8, <2>1, <2>2
<1> QED
  BY <1>8, <1>9 DEF n

(* What lies ahead of a block: the successors, and those of the blocks     *)
(* among them that are looked through; the others are told of by the block.*)
Closed(D) == \A e \in D \cap PtaPass : Succs(e) \subseteq D

LEMMA LiesAhead ==
    ASSUME prog \in Programs, NEW b \in Blocks
    PROVE  \E D \in SUBSET Blocks :
              Succs(b) \subseteq D /\ Closed(D) /\ D \ PtaPass = PtaSuccs(b)
<1>1. prog.succ \in [Blocks -> SUBSET Blocks] /\ Succs(b) \in SUBSET Blocks
  BY Cfg
<1>2. PICK f : IsReach(f, Rounds, Succs(b), prog.succ, PtaPass)
  BY <1>1, ReachRun
<1> DEFINE D == f[Rounds]
<1>3. Succs(b) \subseteq D /\ \A c \in D \cap PtaPass : prog.succ[c] \subseteq D
  BY <1>1, <1>2, Saturates
<1>4. D \in SUBSET Blocks /\ PtaSuccs(b) = D \ PtaPass
  <2>1. Rounds \in 0..Rounds
    BY RoundsType
  <2> QED
    BY <1>2, <2>1 DEF IsReach, PtaSuccs, PtaPass
<1>5. Closed(D)
  BY <1>3 DEF Closed, Succs
<1> QED
  BY <1>3, <1>4, <1>5

(* The analysis has returned.                                              *)
Settled(may) ==
    /\ AppliedInv(may)
    /\ FreshInv
    /\ EdgeInv
    /\ process_lv = {} /\ process_pta = {} /\ ~First

LEMMA SettledFacts ==
    ASSUME NEW may, Settled(may), NEW b \in Blocks
    PROVE  /\ b = End \/ ~LvBypass(b) => In(b).on /\ Out(b).on
           /\ HasConstraints(b) /\ In(b).on =>
                 In(b).linfo = LiveIn(Out(b).linfo, In(b).pinfo, prog.code[b])
           /\ b # End /\ HasConstraints(b) /\ In(b).on =>
                 Out(b).pinfo = BlockOut(In(b).pinfo, prog.code[b])
           /\ In(b).on /\ ~LvBypass(b) =>
                 \A a \in LvPreds(b) : In(b).linfo \subseteq Out(a).linfo
           /\ b # End /\ Out(b).on /\ Out(b).seen =>
                 \A c \in PtaSuccs(b) : Covers(Out(b), In(c))
           /\ ~Out(b).seen => Out(b).pinfo = EmptyVal
           /\ TypedVal(may, In(b).pinfo)
           /\ In(b) \in Contexts /\ Out(b) \in Contexts
           /\ prog \in Programs /\ BypassAgree /\ NoEntryLoop
<1>1. /\ BaseInv /\ prog \in Programs /\ Flow(df) /\ ValuesAt(may, b)
      /\ Fresh(b) /\ Passed(b) /\ BypassAgree /\ NoEntryLoop
  BY DEF Settled, AppliedInv, ValuesInv, BaseInv, AnalysisType, FreshInv, EdgeInv
<1>2. In(b) \in Contexts /\ Out(b) \in Contexts
  BY <1>1, ListNames DEF Flow, In, Out
<1>3. b # End => Applied(b) /\ ~Marked(b)
  BY DEF Settled, AppliedInv, Marked
<1>4. b # End => \A c \in PtaSuccs(b) : Edge(b, c)
  BY DEF Settled, EdgeInv
<1>5. process_lv = {} /\ process_pta = {} /\ ~First
  BY DEF Settled
<1>6. b = End \/ ~LvBypass(b) => In(b).on /\ Out(b).on
  BY <1>1, <1>5 DEF BaseInv, AllReached
<1>7. HasConstraints(b) /\ In(b).on =>
         In(b).linfo = LiveIn(Out(b).linfo, In(b).pinfo, prog.code[b])
  BY <1>1, <1>5 DEF Fresh
<1>8. b # End /\ HasConstraints(b) /\ In(b).on =>
         Out(b).pinfo = BlockOut(In(b).pinfo, prog.code[b])
  BY <1>3 DEF Applied
<1>9. In(b).on /\ ~LvBypass(b) => \A a \in LvPreds(b) : In(b).linfo \subseteq Out(a).linfo
  BY <1>1, <1>5 DEF Passed
<1>10. b # End /\ Out(b).on /\ Out(b).seen => \A c \in PtaSuccs(b) : Covers(Out(b), In(c))
  BY <1>4, <1>5 DEF Edge
<1> QED
  BY <1>1, <1>2, <1>6, <1>7, <1>8, <1>9, <1>10 DEF ValuesAt, ValOk

(* The analysis is right of the store s at IN of the block.                *)
SoundAt(d, s) == SoundFor(In(d).pinfo, s, In(d).linfo)

(* ... at IN of all blocks of D that both passes stop at.                  *)
Ahead(D, s) == Closed(D) /\ \A d \in D \ PtaPass : ~LvBypass(d) => SoundAt(d, s)

(* The execution at p with store s.  Where it is at a block that the       *)
(* passes look through, nothing is known but what lies ahead.              *)
ValueAt(p) ==
    BlockOut(In(p.block).pinfo,
             SubSeq(prog.code[p.block], 1, Len(prog.code[p.block]) - Len(p.left)))

LiveAtPlace(p) == LiveIn(Out(p.block).linfo, In(p.block).pinfo, p.left)

OnItsWay(p) ==
    \E k \in 0..Len(prog.code[p.block]) :
        p.left = SubSeq(prog.code[p.block], k + 1, Len(prog.code[p.block]))

Placed(may, p, s) ==
    /\ TypedStore(may, s)
    /\ OnItsWay(p)
    /\ PtaBypass(p.block) => \E D \in SUBSET Blocks : p.block \in D /\ Ahead(D, s)
    /\ ~PtaBypass(p.block) /\ (p.block = End => HasConstraints(End)) =>
          SoundFor(ValueAt(p), s, LiveAtPlace(p))

(* A suffix of a block, and what is left of it.                            *)
LEMMA Suffix ==
    ASSUME NEW S, NEW code \in Seq(S), NEW k \in 0..Len(code)
    PROVE  LET left == SubSeq(code, k + 1, Len(code))
           IN  /\ left \in Seq(S) /\ Len(left) = Len(code) - k
               /\ Len(code) - Len(left) = k
               /\ left = <<>> <=> k = Len(code)
               /\ k < Len(code) =>
                     /\ Head(left) = code[k + 1] /\ k + 1 \in 1..Len(code)
                     /\ Tail(left) = SubSeq(code, k + 2, Len(code))
<1> DEFINE n == Len(code)
           left == SubSeq(code, k + 1, n)
           rest == SubSeq(code, k + 2, n)
<1>1. n \in Nat /\ k \in 0..n /\ \A i \in 1..n : code[i] \in S
  OBVIOUS
<1>2. /\ left \in Seq(S) /\ Len(left) = n - k
      /\ \A i \in 1..(n - k) : left[i] = code[k + i]
  OBVIOUS
<1>3. left = <<>> <=> n = k
  <2>1. left = <<>> <=> Len(left) = 0
    BY <1>2
  <2> HIDE DEF left, n
  <2> QED
    BY <1>1, <1>2, <2>1
<1>4. n - Len(left) = k
  <2> HIDE DEF left, n
  <2> QED
    BY <1>1, <1>2
<1>5. ASSUME k < n
      PROVE  Head(left) = code[k + 1] /\ k + 1 \in 1..n /\ Tail(left) = rest
  <2>1. k + 1 \in 1..n
    <3> HIDE DEF n
    <3> QED
      BY <1>1, <1>5
  <2>2. left # <<>> /\ Head(left) = left[1] /\ left[1] = code[k + 1]
    <3>1. 1 \in 1..(n - k)
      <4> HIDE DEF n
      <4> QED
        BY <1>1, <1>5
    <3>2. left # <<>>
      BY <1>3, <1>5, <1>1
    <3> QED
      BY <1>2, <3>1, <3>2
  <2>3. /\ rest \in Seq(S) /\ Len(rest) = n - k - 1
        /\ \A i \in 1..(n - k - 1) : rest[i] = code[k + 1 + i]
    <3>1. k + 2 \in Nat /\ n >= k + 1
      BY <1>1, <1>5
    <3> QED
      BY <1>1, <1>5, <3>1
  <2>4. /\ Tail(left) \in Seq(S) /\ Len(Tail(left)) = n - k - 1
        /\ \A i \in 1..(n - k - 1) : Tail(left)[i] = left[i + 1]
    <3> HIDE DEF left, n
    <3> QED
      BY <1>1, <1>2, <1>5, <2>2
  <2>5. \A i \in 1..(n - k - 1) : Tail(left)[i] = rest[i]
    <3> TAKE i \in 1..(n - k - 1)
    <3>1. i + 1 \in 1..(n - k) /\ k + (i + 1) = k + 1 + i
      <4> HIDE DEF n
      <4> QED
        BY <1>1
    <3> HIDE DEF left, rest, n
    <3> QED
      BY <1>2, <2>3, <2>4, <3>1
  <2>6. Tail(left) = rest
    <3> DEFINE t == Tail(left)
               m == n - k - 1
    <3>1. DOMAIN t = 1..m /\ DOMAIN rest = 1..m /\ t = [i \in DOMAIN t |-> t[i]]
          /\ rest = [i \in DOMAIN rest |-> rest[i]]
      <4>1. DOMAIN t = 1..Len(t) /\ t = [i \in DOMAIN t |-> t[i]]
        BY <2>4
      <4>2. DOMAIN rest = 1..Len(rest) /\ rest = [i \in DOMAIN rest |-> rest[i]]
        BY <2>3
      <4> HIDE DEF t, rest, n
      <4> QED
        BY <2>3, <2>4, <4>1, <4>2 DEF t
    <3> HIDE DEF t, rest, m
    <3> QED
      BY <2>5, <3>1 DEF t, m
  <2> QED
    BY <2>1, <2>2, <2>6
<1> QED
  BY <1>2, <1>3, <1>4, <1>5

(* The execution comes to a block of which the analysis is right.          *)
LEMMA Enters ==
    ASSUME NEW may, Settled(may), NEW s, TypedStore(may, s),
           NEW D \in SUBSET Blocks, Ahead(D, s), NEW c \in D
    PROVE  Placed(may, [block |-> c, left |-> prog.code[c]], s)
<1> DEFINE code == prog.code[c]
           p == [block |-> c, left |-> code]
           P == In(c).pinfo
<1>1. /\ prog \in Programs /\ c \in Blocks /\ code \in Seq(Item)
      /\ In(c) \in Contexts /\ Out(c) \in Contexts /\ P \in NormalValues
      /\ BypassAgree /\ NoEntryLoop
  <2>1. prog \in Programs /\ In(c) \in Contexts /\ Out(c) \in Contexts
        /\ BypassAgree /\ NoEntryLoop
    BY SettledFacts
  <2> QED
    BY <2>1, Cfg DEF Contexts
<1>2. OnItsWay(p)
  <2> HIDE DEF code
  <2>1. Len(code) \in Nat /\ 0 \in 0..Len(code) /\ code = SubSeq(code, 0 + 1, Len(code))
    BY <1>1, BlockOutEnds
  <2> QED
    BY <2>1 DEF OnItsWay, code
<1>3. ValueAt(p) = P
  <2> HIDE DEF code, P
  <2>1. Len(code) - Len(code) = 0
    BY <1>1
  <2>2. BlockOut(P, SubSeq(code, 1, 0)) = P
    BY <1>1, BlockOutEnds
  <2> QED
    BY <2>1, <2>2 DEF ValueAt, code, P
<1>4. ASSUME ~PtaBypass(c), c = End => HasConstraints(End)
      PROVE  SoundFor(P, s, LiveIn(Out(c).linfo, P, code))
  <2>1. ~LvBypass(c)
    BY <1>1, <1>4 DEF LvBypass, BypassAgree
  <2>2. SoundAt(c, s)
    BY <1>1, <1>4, <2>1 DEF Ahead, PtaPass
  <2>3. LiveIn(Out(c).linfo, P, code) = In(c).linfo
    <3>1. CASE HasConstraints(c)
      BY <1>1, <2>1, <3>1, SettledFacts
    <3>2. CASE ~HasConstraints(c)
      <4>1. c # Start
        <5>1. Preds(Start) = {} => Cardinality(Preds(Start)) = 0
          BY FS_EmptySet
        <5> QED
          BY <1>1, <1>4, <3>2, <5>1 DEF NoEntryLoop, PtaBypass
      <4>2. SharedList(c)
        BY <1>4, <3>2, <4>1 DEF SharedList
      <4>3. In(c) = Out(c)
        BY <4>2 DEF In, Out, OutOf
      <4>4. code = <<>>
        BY <3>2 DEF HasConstraints
      <4>5. LiveIn(Out(c).linfo, P, <<>>) = Out(c).linfo
        BY <1>1, LiveInEmpty, ValueSets DEF Contexts
      <4> QED
        BY <4>3, <4>4, <4>5
    <3> QED
      BY <3>1, <3>2
  <2> QED
    BY <2>2, <2>3 DEF SoundAt
<1>5. LiveAtPlace(p) = LiveIn(Out(c).linfo, P, code)
  BY DEF LiveAtPlace
<1>6. p.block = c
  OBVIOUS
<1> HIDE DEF p, code, P
<1> QED
  BY <1>2, <1>3, <1>4, <1>5, <1>6 DEF Placed, p, code

(* At the end of a block, what OUT knows of the pointers that are live     *)
(* there is right, and has arrived where they are live.                    *)
LEMMA OutIsRight ==
    ASSUME NEW may, Settled(may), NEW p \in [block : Blocks, left : Seq(Item)], NEW s,
           Placed(may, p, s), p.left = <<>>, ~PtaBypass(p.block), p.block # End
    PROVE  /\ ~LvBypass(p.block) /\ Out(p.block).on
           /\ SoundFor(Out(p.block).pinfo, s, Out(p.block).linfo)
<1> DEFINE b == p.block
           code == prog.code[b]
           P == In(b).pinfo
<1>1. /\ prog \in Programs /\ b \in Blocks /\ code \in Seq(Item)
      /\ In(b) \in Contexts /\ Out(b) \in Contexts /\ P \in NormalValues
      /\ BypassAgree /\ NoEntryLoop
  <2>1. b \in Blocks
    OBVIOUS
  <2>2. prog \in Programs /\ In(b) \in Contexts /\ Out(b) \in Contexts
        /\ BypassAgree /\ NoEntryLoop
    BY <2>1, SettledFacts
  <2> QED
    BY <2>1, <2>2, Cfg DEF Contexts
<1>2. ~LvBypass(b)
  BY <1>1 DEF LvBypass, BypassAgree
<1>3. In(b).on /\ Out(b).on
  BY <1>1, <1>2, SettledFacts
<1>4. SoundFor(ValueAt(p), s, LiveAtPlace(p))
  BY DEF Placed
<1>5. LiveAtPlace(p) = Out(b).linfo
  <2>1. LiveIn(Out(b).linfo, P, <<>>) = Out(b).linfo
    BY <1>1, LiveInEmpty, ValueSets DEF Contexts
  <2> QED
    BY <2>1 DEF LiveAtPlace
<1>6. ValueAt(p) = BlockOut(P, code)
  <2>1. Len(code) - Len(<<>>) = Len(code) /\ SubSeq(code, 1, Len(code)) = code
    <3> HIDE DEF code
    <3> QED
      BY <1>1, BlockOutEnds
  <2> HIDE DEF code, P
  <2> QED
    BY <2>1 DEF ValueAt, code, P
<1>7. BlockOut(P, code) = Out(b).pinfo
  <2>1. CASE HasConstraints(b)
    BY <1>1, <1>3, <2>1, SettledFacts
  <2>2. CASE ~HasConstraints(b)
    <3>1. b # Start
      <4>1. Preds(Start) = {} => Cardinality(Preds(Start)) = 0
        BY FS_EmptySet
      <4> QED
        BY <1>1, <2>2, <4>1 DEF NoEntryLoop, PtaBypass
    <3>2. In(b) = Out(b) /\ code = <<>>
      BY <2>2, <3>1 DEF SharedList, In, Out, OutOf, HasConstraints
    <3>3. BlockOut(P, <<>>) = P
      <4> HIDE DEF P
      <4> QED
        BY <1>1, BlockOutEnds
    <3> QED
      BY <3>2, <3>3
  <2> QED
    BY <2>1, <2>2
<1> QED
  BY <1>2, <1>3, <1>4, <1>5, <1>6, <1>7

LEMMA Arrives ==
    ASSUME NEW out, NEW in, NEW s, Covers(out, in), in.linfo \subseteq out.linfo,
           SoundFor(out.pinfo, s, out.linfo)
    PROVE  SoundFor(in.pinfo, s, in.linfo)
<1> SUFFICES ASSUME NEW v \in in.linfo, s[v] # Undefined
             PROVE  s[v] \in Pointees(in.pinfo, v)
  BY DEF SoundFor
<1>1. s[v] \in Pointees(out.pinfo, v) /\ s[v] # undef_id
  BY DEF SoundFor, Undefined
<1>2. v \in DOMAIN out.pinfo /\ s[v] \in out.pinfo[v]
  BY <1>1 DEF Pointees
<1> DEFINE new == RestrictTo(out.pinfo, out.linfo \cap in.linfo)
<1>3. AtLeast(new, in.pinfo)
  BY DEF Covers, CalculateActualOut
<1>4. v \in DOMAIN new /\ new[v] = out.pinfo[v]
  BY <1>2 DEF RestrictTo
<1> HIDE DEF new
<1> QED
  BY <1>1, <1>2, <1>3, <1>4 DEF AtLeast, Pointees

LEMMA Leaves ==
    ASSUME NEW may, Settled(may), NEW p \in [block : Blocks, left : Seq(Item)], NEW s,
           Placed(may, p, s), p.left = <<>>, NEW c \in Succs(p.block), p.block # End
    PROVE  \E D \in SUBSET Blocks : c \in D /\ Ahead(D, s)
<1>1. p.block \in Blocks /\ prog \in Programs /\ BypassAgree /\ NoEntryLoop
  <2>1. p.block \in Blocks
    OBVIOUS
  <2> QED
    BY <2>1, SettledFacts
<1>2. CASE PtaBypass(p.block)
  <2>1. PICK D \in SUBSET Blocks : p.block \in D /\ Ahead(D, s)
    BY <1>2 DEF Placed
  <2>2. c \in D
    BY <1>1, <1>2, <2>1 DEF Ahead, Closed, PtaPass
  <2> QED
    BY <2>1, <2>2
<1>3. CASE ~PtaBypass(p.block)
  <2> DEFINE b == p.block
  <2>1. ~LvBypass(b) /\ Out(b).on /\ SoundFor(Out(b).pinfo, s, Out(b).linfo)
    BY <1>3, OutIsRight
  <2>2. PICK D \in SUBSET Blocks : Succs(b) \subseteq D /\ Closed(D) /\ D \ PtaPass = PtaSuccs(b)
    BY <1>1, LiesAhead
  <2>3. ASSUME NEW d \in D \ PtaPass, ~LvBypass(d)
        PROVE  SoundAt(d, s)
    <3>1. d \in Blocks /\ d \in PtaSuccs(b) /\ In(d).on
      BY <2>2, <2>3, SettledFacts
    <3>2. b \in LvPreds(d)
      BY <1>1, <2>1, <3>1, BothWays
    <3>3. In(d).linfo \subseteq Out(b).linfo
      BY <2>3, <3>1, <3>2, SettledFacts
    <3>4. CASE Out(b).seen
      <4>1. Covers(Out(b), In(d))
        BY <1>1, <2>1, <3>1, <3>4, SettledFacts
      <4> QED
        BY <2>1, <3>3, <4>1, Arrives DEF SoundAt
    <3>5. CASE ~Out(b).seen
      <4>1. Out(b).pinfo = EmptyVal
        BY <1>1, <3>5, SettledFacts
      <4>2. \A v \in Out(b).linfo : s[v] = Undefined
        BY <2>1, <4>1 DEF SoundFor, Pointees, EmptyVal, Undefined
      <4> QED
        BY <3>3, <4>2 DEF SoundAt, SoundFor
    <3> QED
      BY <3>4, <3>5
  <2>4. Ahead(D, s)
    BY <2>2, <2>3 DEF Ahead
  <2> QED
    BY <2>2, <2>4
<1> QED
  BY <1>2, <1>3

(* The place before an item, and the one after it.                         *)
After(p) == [p EXCEPT !.left = Tail(@)]

LEMMA AtItem ==
    ASSUME NEW may, Settled(may), NEW p \in [block : Blocks, left : Seq(Item)], NEW s,
           Placed(may, p, s), p.left # <<>>
    PROVE  LET b    == p.block
               code == prog.code[b]
               P    == In(b).pinfo
               item == Head(p.left)
               top  == LiveTop(Out(b).linfo, P, Tail(p.left))
           IN  /\ b \in Blocks /\ HasConstraints(b) /\ ~PtaBypass(b)
               /\ P \in NormalValues
               /\ item \in Item /\ top \in LiveState
               /\ ValueAt(p) \in NormalValues /\ TypedVal(may, ValueAt(p))
               /\ SoundFor(ValueAt(p), s, LiveAtPlace(p))
               /\ LiveAtPlace(p) = LiveSet(LiveItem(top, P, item))
               /\ LiveAtPlace(After(p)) = LiveSet(top)
               /\ ValueAt(After(p)) = ItemOut(ValueAt(p), item)
               /\ OnItsWay(After(p))
               /\ After(p).block = b /\ After(p).left = Tail(p.left)
               /\ Tail(p.left) \in Seq(Item)
               /\ \E i \in DOMAIN code :
                     /\ item = code[i] /\ p.left = SubSeq(code, i, Len(code))
                     /\ ValueAt(p) = BlockOut(P, SubSeq(code, 1, i - 1))
<1> DEFINE b    == p.block
           code == prog.code[b]
           P    == In(b).pinfo
           item == Head(p.left)
           rest == Tail(p.left)
           top  == LiveTop(Out(b).linfo, P, rest)
<1>1. /\ b \in Blocks /\ prog \in Programs /\ code \in Seq(Item)
      /\ P \in NormalValues /\ TypedVal(may, P) /\ Out(b).linfo \in SUBSET Var
      /\ TypedCode(may) /\ p.left \in Seq(Item)
  <2>1. b \in Blocks
    OBVIOUS
  <2>2. /\ prog \in Programs /\ In(b) \in Contexts /\ Out(b) \in Contexts
        /\ TypedVal(may, P)
    BY <2>1, SettledFacts
  <2> QED
    BY <2>1, <2>2, Cfg DEF Contexts, Settled, AppliedInv, ValuesInv
<1>2. PICK k \in 0..Len(code) : p.left = SubSeq(code, k + 1, Len(code))
  BY DEF Placed, OnItsWay
<1> DEFINE i == k + 1
<1>3. /\ Len(code) - Len(p.left) = k /\ k < Len(code) /\ k \in Nat /\ Len(code) \in Nat
      /\ item = code[i] /\ i \in 1..Len(code)
      /\ rest = SubSeq(code, k + 2, Len(code))
  <2> HIDE DEF code
  <2>1. /\ Len(code) - Len(p.left) = k
        /\ p.left = <<>> <=> k = Len(code)
        /\ k < Len(code) => /\ item = code[k + 1] /\ k + 1 \in 1..Len(code)
                            /\ rest = SubSeq(code, k + 2, Len(code))
    BY <1>1, <1>2, Suffix
  <2>2. k < Len(code) /\ k \in Nat /\ Len(code) \in Nat
    BY <1>1, <2>1
  <2> QED
    BY <2>1, <2>2
<1>4. i \in 0..Len(code) /\ i + 1 = k + 2 /\ i - 1 = k /\ DOMAIN code = 1..Len(code)
  BY <1>1, <1>3
<1>5. rest \in Seq(Item) /\ Len(code) - Len(rest) = i /\ rest = SubSeq(code, i + 1, Len(code))
  <2> HIDE DEF code, i, rest
  <2>1. SubSeq(code, i + 1, Len(code)) \in Seq(Item)
        /\ Len(code) - Len(SubSeq(code, i + 1, Len(code))) = i
    BY <1>1, <1>4, Suffix
  <2> QED
    BY <1>3, <1>4, <2>1
<1>6. HasConstraints(b) /\ ~PtaBypass(b) /\ (b = End => HasConstraints(End))
  <2>1. HasConstraints(b)
    BY <1>1, <1>3 DEF HasConstraints
  <2> QED
    BY <2>1 DEF PtaBypass
<1>7. SoundFor(ValueAt(p), s, LiveAtPlace(p))
  BY <1>6 DEF Placed
<1>8. /\ item \in Item /\ top \in LiveState
      /\ LiveTop(Out(b).linfo, P, p.left) = LiveItem(top, P, item)
  <2>1. IsPointsToVal(P)
    BY <1>1, ValueSets
  <2> HIDE DEF P, rest, item
  <2> QED
    BY <1>1, <2>1, LiveCons DEF rest, item
<1>9. LiveAtPlace(p) = LiveSet(LiveItem(top, P, item))
  <2> HIDE DEF top, item
  <2> QED
    BY <1>8 DEF LiveAtPlace, LiveIn, LiveSet
<1>10. /\ After(p).block = b /\ After(p).left = rest
  BY DEF After
<1>11. LiveAtPlace(After(p)) = LiveSet(top)
  BY <1>10 DEF LiveAtPlace, LiveIn, LiveSet
<1>12. ValueAt(p) = BlockOut(P, SubSeq(code, 1, i - 1))
  BY <1>3, <1>4 DEF ValueAt
<1>13. ValueAt(After(p)) = BlockOut(P, SubSeq(code, 1, i))
  <2>1. ValueAt(After(p)) = BlockOut(P, SubSeq(code, 1, Len(code) - Len(rest)))
    BY <1>10 DEF ValueAt
  <2> HIDE DEF code, P, rest, i
  <2> QED
    BY <1>5, <2>1
<1>14. ValueAt(After(p)) = ItemOut(ValueAt(p), item)
  <2> HIDE DEF code, P, item, i
  <2> QED
    BY <1>1, <1>3, <1>12, <1>13, BlockOutStep
<1>15. OnItsWay(After(p))
  <2>1. After(p).left = SubSeq(prog.code[After(p).block], i + 1, Len(prog.code[After(p).block]))
        /\ i \in 0..Len(prog.code[After(p).block])
    BY <1>4, <1>5, <1>10
  <2> HIDE DEF i
  <2> QED
    BY <2>1 DEF OnItsWay
<1>16. ValueAt(p) \in NormalValues /\ TypedVal(may, ValueAt(p))
  <2> DEFINE before == SubSeq(code, 1, i - 1)
  <2>1. before \in Seq(Item) /\ \A j \in DOMAIN before : j \in DOMAIN code /\ before[j] = code[j]
    <3>1. i - 1 \in Nat /\ i - 1 <= Len(code)
      <4> HIDE DEF code, i
      <4>1. i - 1 = k /\ k \in Nat /\ k < Len(code) /\ Len(code) \in Nat
        BY <1>3, <1>4
      <4> DEFINE n == Len(code)
      <4> HIDE DEF n
      <4>2. i - 1 <= n
        BY <4>1 DEF n
      <4> QED
        BY <4>1, <4>2 DEF n
    <3> HIDE DEF code, i
    <3> QED
      BY <1>1, <3>1
  <2>2. TypedItems(may, before)
    <3>1. TypedItems(may, code)
      BY <1>1 DEF TypedItems, TypedCode, Aliases, ChainAt
    <3> HIDE DEF before, code
    <3> QED
      BY <2>1, <3>1 DEF TypedItems
  <2> HIDE DEF before, P
  <2>3. TypedVal(may, BlockOut(P, before)) /\ BlockOut(P, before) \in NormalValues
    BY <1>1, <2>1, <2>2, BlockTyped, BlockOutValue
  <2> QED
    BY <1>12, <2>3 DEF before, P
<1>17. /\ i \in DOMAIN code /\ item = code[i] /\ p.left = SubSeq(code, i, Len(code))
       /\ ValueAt(p) = BlockOut(P, SubSeq(code, 1, i - 1))
  BY <1>2, <1>3, <1>4, <1>12
<1>18. \E j \in DOMAIN code :
          /\ item = code[j] /\ p.left = SubSeq(code, j, Len(code))
          /\ ValueAt(p) = BlockOut(P, SubSeq(code, 1, j - 1))
  <2> HIDE DEF i, item, code, P
  <2> QED
    BY <1>17
<1> HIDE DEF item, rest, top, P, code, i
<1> QED
  BY <1>1, <1>5, <1>6, <1>7, <1>8, <1>9, <1>10, <1>11, <1>14, <1>15, <1>16, <1>18
     DEF item, rest, top, P, code

(* The execution of an item. *)
LEMMA Reads ==
    ASSUME NEW may, Settled(may), NEW p \in [block : Blocks, left : Seq(Item)], NEW s,
           Placed(may, p, s), p.left # <<>>, ~IsAlias(Head(p.left))
    PROVE  Placed(may, After(p), s)
<1> DEFINE top == LiveTop(Out(p.block).linfo, In(p.block).pinfo, Tail(p.left))
           item == Head(p.left)
<1>1. /\ HasConstraints(p.block) /\ ~PtaBypass(p.block)
      /\ item \in Item /\ top \in LiveState
      /\ SoundFor(ValueAt(p), s, LiveAtPlace(p))
      /\ LiveAtPlace(p) = LiveSet(LiveItem(top, In(p.block).pinfo, item))
      /\ LiveAtPlace(After(p)) = LiveSet(top)
      /\ ValueAt(After(p)) = ItemOut(ValueAt(p), item)
      /\ OnItsWay(After(p)) /\ After(p).block = p.block
  BY AtItem
<1>2. ItemOut(ValueAt(p), item) = ValueAt(p)
  BY DEF ItemOut
<1> HIDE DEF item, top
<1>3. LiveSet(top) \subseteq LiveAtPlace(p)
  BY <1>1, UseLive DEF item
<1>4. SoundFor(ValueAt(After(p)), s, LiveAtPlace(After(p)))
  BY <1>1, <1>2, <1>3 DEF SoundFor
<1> QED
  BY <1>1, <1>4 DEF Placed

LEMMA Does ==
    ASSUME NEW may, Settled(may), OthersAreAddresses, DerefsAtIn, phase = "run",
           NEW p \in [block : Blocks, left : Seq(Item)], NEW s \in [Var -> Id],
           Placed(may, p, s), p.left # <<>>, IsAlias(Head(p.left)),
           NEW j \in DOMAIN Head(p.left).chain, Executable(s, Head(p.left).chain[j]),
           NEW value \in Values(s, Head(p.left).chain[j].rhs)
    PROVE  Placed(may, After(p), Execute(s, Head(p.left).chain[j], value))
<1> DEFINE b == p.block
           code == prog.code[b]
           P == In(b).pinfo
           Q == ValueAt(p)
           top == LiveTop(Out(b).linfo, P, Tail(p.left))
           item == Head(p.left)
           chain == item.chain
           next == Execute(s, chain[j], value)
<1>1. /\ b \in Blocks /\ HasConstraints(b) /\ ~PtaBypass(b)
      /\ P \in NormalValues
      /\ item \in Item /\ top \in LiveState
      /\ Q \in NormalValues /\ TypedVal(may, Q)
      /\ SoundFor(Q, s, LiveAtPlace(p))
      /\ LiveAtPlace(p) = LiveSet(LiveItem(top, P, item))
      /\ LiveAtPlace(After(p)) = LiveSet(top)
      /\ ValueAt(After(p)) = ItemOut(Q, item)
      /\ OnItsWay(After(p)) /\ After(p).block = b
      /\ \E i \in DOMAIN code :
            /\ item = code[i] /\ p.left = SubSeq(code, i, Len(code))
            /\ Q = BlockOut(P, SubSeq(code, 1, i - 1))
  BY AtItem
<1>2. PICK i \in DOMAIN code : item = code[i] /\ Q = BlockOut(P, SubSeq(code, 1, i - 1))
  <2> HIDE DEF code, Q, P, item
  <2> QED
    BY <1>1
<1>3. i \in Aliases(b) /\ ChainAt(b, i) = chain
  BY <1>2 DEF Aliases, ChainAt
<1>4. Typing(may) /\ TypedChain(may, chain) /\ TypedStore(may, s)
  BY <1>1, <1>3 DEF Settled, AppliedInv, ValuesInv, TypedCode, Placed
<1>5. \A k \in DOMAIN chain : \/ k = 1 /\ chain[k].lhs.type = SCALAR
                              \/ chain[k].rhs.type = ADDRESSOF
  BY <1>1, <1>3 DEF OthersAreAddresses
<1>6. \A v \in Uses(item) : Pointees(Q, v) = Pointees(P, v)
  BY <1>1, <1>2 DEF DerefsAtIn, In
<1>7. 1 \in DOMAIN chain
  <2>1. chain \in Seq(Constraint) \ {<<>>}
    BY <1>1, ItemParts
  <2> HIDE DEF chain
  <2> QED
    BY <2>1, ChainHead
<1>8. /\ chain[1].lhs.type = DEREF => chain[1].lhs.var \in Uses(item)
      /\ chain[1].rhs.type = DEREF => chain[1].rhs.var \in Uses(item)
  <2> DEFINE t == chain[1]
             all == {chain[k] : k \in DOMAIN chain}
             used(c) == (IF c.lhs.type = DEREF THEN {c.lhs.var} ELSE {})
                           \cup (IF c.rhs.type = DEREF THEN {c.rhs.var} ELSE {})
  <2>1. t \in all
    BY <1>7
  <2>2. Uses(item) = UNION {used(c) : c \in all}
    <3>1. IsAlias(item)
      OBVIOUS
    <3> HIDE DEF item
    <3> QED
      BY <3>1 DEF Uses
  <2> HIDE DEF all, used, t
  <2>3. used(t) \subseteq Uses(item)
    BY <2>1, <2>2
  <2> HIDE DEF item
  <2> QED
    BY <2>3 DEF used, t
<1> HIDE DEF item, Q, P, top
<1>9. /\ next \in [Var -> Id] /\ TypedStore(may, next)
      /\ SoundFor(ChainOut(Q, chain), next, LiveSet(top))
  <2>1. /\ chain[1].lhs.type = DEREF => Pointees(Q, chain[1].lhs.var) = Pointees(P, chain[1].lhs.var)
        /\ chain[1].rhs.type = DEREF => Pointees(Q, chain[1].rhs.var) = Pointees(P, chain[1].rhs.var)
    BY <1>6, <1>8
  <2>2. IsAlias(item) /\ j \in DOMAIN item.chain /\ Executable(s, item.chain[j])
        /\ value \in Values(s, item.chain[j].rhs)
    BY DEF item
  <2>3. SoundFor(Q, s, LiveSet(LiveItem(top, P, item)))
    BY <1>1
  <2>4. \A k \in DOMAIN item.chain : \/ k = 1 /\ item.chain[k].lhs.type = SCALAR
                                     \/ item.chain[k].rhs.type = ADDRESSOF
    BY <1>5
  <2>5. /\ P \in NormalValues /\ Q \in NormalValues /\ TypedVal(may, Q)
        /\ item \in Item /\ top \in LiveState
    BY <1>1
  <2> HIDE DEF b, code
  <2> QED
    BY <1>4, <2>1, <2>2, <2>3, <2>4, <2>5, ItemSound
<1>10. ItemOut(Q, item) = ChainOut(Q, chain)
  BY DEF ItemOut, item
<1>11. SoundFor(ValueAt(After(p)), next, LiveAtPlace(After(p)))
  BY <1>1, <1>9, <1>10
<1>12. Placed(may, After(p), next)
  BY <1>1, <1>9, <1>11 DEF Placed
<1> QED
  BY <1>12 DEF item

(* What the item before which the execution is uses, is live there.        *)
LEMMA UsesLive ==
    ASSUME NEW may, Settled(may), OthersAreAddresses, LoadsLive, phase = "run",
           NEW p \in [block : Blocks, left : Seq(Item)], NEW s,
           Placed(may, p, s), p.left # <<>>, NEW v \in Uses(Head(p.left)),
           s[v] # Undefined
    PROVE  s[v] \in Pointees(ValueAt(p), v)
<1> DEFINE b == p.block
           code == prog.code[b]
           P == In(b).pinfo
           top == LiveTop(Out(b).linfo, P, Tail(p.left))
           item == Head(p.left)
           chain == item.chain
<1>1. /\ b \in Blocks /\ P \in NormalValues /\ item \in Item /\ top \in LiveState
      /\ SoundFor(ValueAt(p), s, LiveAtPlace(p))
      /\ LiveAtPlace(p) = LiveSet(LiveItem(top, P, item))
      /\ \E i \in DOMAIN code :
            /\ item = code[i] /\ p.left = SubSeq(code, i, Len(code))
            /\ ValueAt(p) = BlockOut(P, SubSeq(code, 1, i - 1))
  BY AtItem
<1>2. PICK i \in DOMAIN code : item = code[i] /\ p.left = SubSeq(code, i, Len(code))
  <2> HIDE DEF code, item
  <2> QED
    BY <1>1
<1> HIDE DEF top
<1>3. v \in LiveAtPlace(p)
  <2>1. CASE ~IsAlias(item)
    <3>1. v \in item.uses
      BY <2>1 DEF Uses
    <3> HIDE DEF item, P
    <3> QED
      BY <1>1, <2>1, <3>1, UseLive
  <2>2. CASE IsAlias(item)
    <3>1. i \in Aliases(b) /\ ChainAt(b, i) = chain /\ chain \in Seq(Constraint) \ {<<>>}
      BY <1>1, <1>2, <2>2, ItemParts DEF Aliases, ChainAt
    <3>2. PICK j \in DOMAIN chain : \/ chain[j].lhs.type = DEREF /\ v = chain[j].lhs.var
                                    \/ chain[j].rhs.type = DEREF /\ v = chain[j].rhs.var
      BY <2>2 DEF Uses
    <3>3. \/ j = 1 /\ chain[j].lhs.type = SCALAR
          \/ chain[j].rhs.type = ADDRESSOF
      BY <1>1, <3>1 DEF OthersAreAddresses
    <3>4. CASE chain[j].rhs.type = DEREF /\ v = chain[j].rhs.var
      <4>1. j = 1
        <5> HIDE DEF chain
        <5> QED
          BY <3>3, <3>4 DEF DEREF, ADDRESSOF
      <4>2. v \in LiveIn(df[OutOf(b)].linfo, df[InOf(b)].pinfo, SubSeq(code, i, Len(code)))
        BY <1>1, <3>1, <3>4, <4>1 DEF LoadsLive
      <4> QED
        BY <1>2, <4>2 DEF LiveAtPlace, In, Out
    <3>5. CASE chain[j].lhs.type = DEREF /\ v = chain[j].lhs.var
      <4>1. OneResult(chain)
        BY <1>1, <3>1 DEF Settled, AppliedInv, ValuesInv, TypedCode, TypedChain
      <4>2. Len(chain) = 1
        <5> HIDE DEF chain
        <5>1. Len(chain) # 1 => Len(chain) > 1
          BY <3>1, LongChain
        <5> QED
          BY <3>5, <4>1, <5>1 DEF OneResult, SCALAR, DEREF
      <4>3. j = 1
        <5> HIDE DEF chain
        <5> QED
          BY <3>1, <4>2
      <4>4. chain[1].lhs.type = DEREF => chain[1].lhs.var \in LiveSet(LiveItem(top, P, item))
        <5> HIDE DEF P, item
        <5> QED
          BY <1>1, <2>2, ChainLive
      <4> QED
        BY <1>1, <3>5, <4>3, <4>4
    <3> QED
      BY <3>2, <3>4, <3>5
  <2> QED
    BY <2>1, <2>2
<1> QED
  BY <1>1, <1>3 DEF SoundFor

(* The analysis is right of the execution, wherever that has come.         *)
RunInv(may) ==
    /\ TypeInv
    /\ AppliedInv(may)
    /\ FreshInv
    /\ EdgeInv
    /\ OthersAreAddresses
    /\ DerefsUndisturbed
    /\ phase # "run" => store = [v \in Var |-> Undefined]
    /\ phase = "run" => \A p, s : p = pc /\ s = store => Placed(may, p, s)

LEMMA WhenRun ==
    ASSUME NEW may, RunInv(may), phase = "run" \/ (phase = "pta" /\ process_pta = {})
    PROVE  Settled(may)
<1>1. process_lv = {} /\ process_pta = {} /\ ~First
  BY DEF RunInv, AppliedInv, ValuesInv, BaseInv, Idle, First
<1> QED
  BY <1>1 DEF Settled, RunInv

(* Before the first assignment nothing is wrong. *)
LEMMA Begins ==
    ASSUME NEW may, NEW s, s = [v \in Var |-> Undefined], AnalysisType
    PROVE  TypedStore(may, s) /\ Ahead(Blocks, s)
<1>1. TypedStore(may, s)
  BY VarAssumption DEF TypedStore, Undefined, undef_id, integer_id, IsProperVar
<1>2. Closed(Blocks)
  BY Cfg DEF Closed, AnalysisType
<1>3. ASSUME NEW d \in Blocks PROVE SoundAt(d, s)
  <2>1. In(d).linfo \subseteq Var
    BY ListNames DEF AnalysisType, Flow, Contexts, In
  <2> QED
    BY <2>1 DEF SoundAt, SoundFor
<1> QED
  BY <1>1, <1>2, <1>3 DEF Ahead

(* The place is judged by the program and the result of the analysis.      *)
LEMMA PlacedSame ==
    ASSUME NEW may, NEW p, NEW s, UNCHANGED <<prog, df>>, Placed(may, p, s)
    PROVE  Placed(may, p, s)'
<1>1. /\ prog' = prog /\ df' = df
      /\ Blocks' = Blocks /\ End' = End
      /\ \A b : HasConstraints(b)' = HasConstraints(b)
      /\ \A b : OutOf(b)' = OutOf(b)
      /\ \A b : LvBypass(b)' = LvBypass(b)
      /\ \A b : PtaBypass(b)' = PtaBypass(b)
  BY SameProgram
<1>2. \A b : In(b)' = In(b) /\ Out(b)' = Out(b)
  BY <1>1 DEF In, Out, InOf
<1>3. ValueAt(p)' = ValueAt(p) /\ LiveAtPlace(p)' = LiveAtPlace(p)
      /\ OnItsWay(p)' = OnItsWay(p)
  BY <1>1, <1>2 DEF ValueAt, LiveAtPlace, OnItsWay
<1>4. PtaPass' = PtaPass
  BY <1>1 DEF PtaPass
<1>5. \A D : Ahead(D, s)' = Ahead(D, s)
  BY <1>1, <1>2, <1>4 DEF Ahead, Closed, SoundAt, Succs
<1> QED
  BY <1>1, <1>3, <1>5 DEF Placed

LEMMA RunStep ==
    ASSUME NEW may, RunInv(may), phase = "run", RunItem \/ RunEdge,
           NEW q, NEW t, q = pc, t = store, NEW p, NEW s, p = pc', s = store'
    PROVE  Placed(may, p, s)
<1>1. /\ Settled(may) /\ Placed(may, q, t) /\ prog \in Programs
      /\ q \in [block : Blocks, left : Seq(Item)] /\ t \in [Var -> Id]
  BY WhenRun DEF RunInv, TypeInv, ExecutionType, AnalysisType
<1>2. CASE RunItem
  <2> DEFINE item == Head(q.left)
  <2>1. /\ q.left # <<>>
        /\ p = [q EXCEPT !.left = Tail(@)]
        /\ IF IsAlias(item)
           THEN \E j \in DOMAIN item.chain :
                   /\ Executable(t, item.chain[j])
                   /\ \E value \in Values(t, item.chain[j].rhs) :
                         s = Execute(t, item.chain[j], value)
           ELSE s = t
    BY <1>2 DEF RunItem
  <2>2. p = After(q)
    BY <2>1 DEF After
  <2>3. CASE ~IsAlias(item)
    BY <1>1, <2>1, <2>2, <2>3, Reads
  <2>4. CASE IsAlias(item)
    <3>1. PICK j \in DOMAIN item.chain : \E value \in Values(t, item.chain[j].rhs) :
             /\ Executable(t, item.chain[j])
             /\ s = Execute(t, item.chain[j], value)
      BY <2>1, <2>4
    <3>2. PICK value \in Values(t, item.chain[j].rhs) :
             /\ Executable(t, item.chain[j])
             /\ s = Execute(t, item.chain[j], value)
      BY <3>1
    <3>3. OthersAreAddresses /\ DerefsAtIn
      BY DerefsHold DEF RunInv, TypeInv
    <3>4. Placed(may, After(q), Execute(t, Head(q.left).chain[j], value))
      BY <1>1, <2>1, <2>4, <3>2, <3>3, Does
    <3> QED
      BY <2>2, <3>2, <3>4
  <2> QED
    BY <2>3, <2>4
<1>3. CASE RunEdge
  <2>1. PICK c \in Succs(q.block) : p = [block |-> c, left |-> prog.code[c]]
    BY <1>3 DEF RunEdge
  <2>2. q.left = <<>> /\ s = t
    BY <1>3 DEF RunEdge
  <2>3. q.block # End
    <3>1. Succs(End) = {}
      BY <1>1, ProgramsAssumption DEF IsProgram, Succs, End
    <3> QED
      BY <2>1, <3>1
  <2>4. PICK D \in SUBSET Blocks : c \in D /\ Ahead(D, t)
    BY <1>1, <2>1, <2>2, <2>3, Leaves
  <2>5. TypedStore(may, t)
    BY <1>1 DEF Placed
  <2> QED
    BY <1>1, <2>1, <2>2, <2>4, <2>5, Enters
<1> QED
  BY <1>2, <1>3

LEMMA RunBegins ==
    ASSUME NEW may, RunInv(may), PtaDone, NEW p, NEW s, p = pc', s = store'
    PROVE  Placed(may, p, s)
<1>1. /\ phase = "pta" /\ process_pta = {}
      /\ p = [block |-> Start, left |-> prog.code[Start]] /\ s = store
  BY DEF PtaDone
<1>2. Settled(may) /\ AnalysisType /\ s = [v \in Var |-> Undefined] /\ Start \in Blocks
  BY <1>1, WhenRun, Cfg DEF RunInv, TypeInv, AnalysisType
<1>3. TypedStore(may, s) /\ Ahead(Blocks, s)
  BY <1>2, Begins
<1> QED
  BY <1>1, <1>2, <1>3, Enters

LEMMA OthersKept ==
    ASSUME prog' = prog, OthersAreAddresses PROVE OthersAreAddresses'
BY DEF OthersAreAddresses, Blocks, Aliases, ChainAt

LEMMA RunKept == \A may : RunInv(may) /\ [Next]_vars => RunInv(may)'
<1> SUFFICES ASSUME NEW may, RunInv(may), [Next]_vars PROVE RunInv(may)'
  OBVIOUS
<1>1. /\ TypeInv /\ AppliedInv(may) /\ FreshInv /\ EdgeInv /\ OthersAreAddresses /\ DerefsUndisturbed
      /\ AnalysisType
  BY DEF RunInv, TypeInv
<1>2. prog' = prog /\ process_lv \subseteq Blocks /\ process_pta \subseteq Blocks
      /\ prog \in Programs /\ phase \in {"lv", "pta", "run"}
  BY <1>1, WhichStep DEF AnalysisType
<1>3. /\ TypeInv' /\ AppliedInv(may)' /\ FreshInv' /\ EdgeInv'
      /\ OthersAreAddresses' /\ DerefsUndisturbed'
  BY <1>1, <1>2, TypesKept, AppliedKept, FreshKept, EdgeKept, OthersKept, DerefsUndisturbedKept
<1>4. phase = "run" => RunItem \/ RunEdge \/ UNCHANGED vars
  BY DEF Next, Analyse, LvStep, LvDone, PtaStep, PtaDone
<1>5. phase # "run" => store' = store /\ (phase' = "run" => PtaDone)
  <2> SUFFICES ASSUME phase # "run" PROVE store' = store /\ (phase' = "run" => PtaDone)
    OBVIOUS
  <2>1. store' = store
    BY DEF Next, Analyse, LvStep, LvDone, PtaStep, PtaDone, RunItem, RunEdge, vars, execution
  <2>2. \A b \in Blocks : PtaIntraBlock(b) => phase' = "lv" \/ phase' = phase
    BY <1>1, PtaIntraStep DEF AnalysisType
  <2>3. phase' = "run" => PtaDone
    BY <1>2, <2>2, WhichStep DEF LvDone, PtaEndBlock, analysis
  <2> QED
    BY <2>1, <2>3
<1>6. phase' # "run" => store' = [v \in Var |-> Undefined]
  <2>1. phase = "run" => phase' = "run"
    BY <1>4 DEF RunItem, RunEdge, vars, analysis
  <2> QED
    BY <1>5, <2>1 DEF RunInv
<1>7. ASSUME phase' = "run", NEW p, NEW s, p = pc', s = store'
      PROVE  Placed(may, p, s)'
  <2>1. UNCHANGED <<prog, df>>
    BY <1>2, <1>4, <1>5, <1>7 DEF RunItem, RunEdge, PtaDone, vars, analysis
  <2>2. CASE phase = "run" /\ (RunItem \/ RunEdge)
    <3>1. Placed(may, p, s)
      BY <1>7, <2>2, RunStep
    <3> QED
      BY <2>1, <3>1, PlacedSame
  <2>3. CASE phase = "run" /\ UNCHANGED vars
    <3>1. p = pc /\ s = store
      BY <1>7, <2>3 DEF vars, execution
    <3>2. Placed(may, p, s)
      BY <2>3, <3>1 DEF RunInv
    <3> QED
      BY <2>1, <3>2, PlacedSame
  <2>4. CASE phase # "run"
    <3>1. Placed(may, p, s)
      BY <1>5, <1>7, <2>4, RunBegins
    <3> QED
      BY <2>1, <3>1, PlacedSame
  <2> QED
    BY <1>4, <2>2, <2>3, <2>4
<1> QED
  BY <1>3, <1>6, <1>7 DEF RunInv

(* The programs for which the result is sound for the uses.  The code takes *)
(* others as well and is wrong about some of them: a block only one pass    *)
(* looks through (BypassAgree) leaves liveness behind, a recomputation does *)
(* a block twice (Repeatable), the second argument of a PHI and what is     *)
(* stored are not made live (OthersAreAddresses), has_deref tells of the    *)
(* last constraint of an assignment only (DerefsMarked), and no liveness    *)
(* comes to an infinite loop (EndReached) nor, from the start block, to a   *)
(* loop it is the header of (NoEntryLoop: its handler does not propagate).  *)
Supported(may) ==
    /\ EndReached /\ NoEntryLoop /\ BypassAgree
    /\ DerefsMarked /\ DerefsUndisturbed
    /\ TypedCode(may) /\ OthersAreAddresses /\ Repeatable(may)

(* For a supported program, not for every one the code takes: wherever its  *)
(* execution reads or dereferences a pointer, the analysis knows where it   *)
(* points, if the pointer of every load is live.  Transfers are sound where *)
(* the store is (ItemSound), what crosses an edge is sound for what is live *)
(* behind it (EdgesCovered, with liveness that is up to date, across the    *)
(* restarts of both passes), and what is used is live.                      *)
THEOREM UsesAreSound ==
    ASSUME NEW may
    PROVE  Spec /\ Supported(may) => [](LoadsLive => UsesSound)
<1>1. Init /\ Supported(may) => RunInv(may)
  BY InitTypes, InitApplied, InitFresh, InitEdge DEF RunInv, Init, Supported
<1>2. RunInv(may) /\ [Next]_vars => RunInv(may)'
  BY RunKept
<1>3. RunInv(may) /\ LoadsLive => UsesSound
  <2> SUFFICES ASSUME RunInv(may), LoadsLive, phase = "run", pc.left # <<>>,
                      NEW v \in Uses(Head(pc.left)), store[v] # Undefined
               PROVE  store[v] \in Pointees(ValueAtPc, v)
    BY DEF UsesSound
  <2>1. /\ Settled(may) /\ OthersAreAddresses /\ Placed(may, pc, store)
        /\ pc \in [block : Blocks, left : Seq(Item)]
    BY WhenRun DEF RunInv, TypeInv, ExecutionType
  <2>2. store[v] \in Pointees(ValueAt(pc), v)
    BY <2>1, UsesLive
  <2>3. ValueAt(pc) = ValueAtPc
    BY DEF ValueAt, ValueAtPc, In
  <2> QED
    BY <2>2, <2>3
<1> QED
  BY <1>1, <1>2, <1>3, PTL DEF Spec
=============================================================================

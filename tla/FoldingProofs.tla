---------------------------- MODULE FoldingProofs ----------------------------
(***************************************************************************)
(* What FoldLeft computes, whatever the operator it folds: the provers do  *)
(* not instantiate the operator of a theorem, so that the theorems about a *)
(* fold are those of an instance of this module for its operator.  What    *)
(* the operator depends on besides its arguments is env.                   *)
(***************************************************************************)
EXTENDS SequencesExt, SequenceTheorems, WellFoundedInduction, TLAPS

CONSTANTS op(_, _, _),
          inv(_, _)     \* of env and a state

Fold(env, base, seq) == FoldLeft(LAMBDA s, e : op(env, s, e), base, seq)

(* Induction, over a set. *)
LEMMA InductionOnSet ==
    ASSUME NEW S, 0 \in S, \A k \in Nat : k \in S => k + 1 \in S
    PROVE  \A k \in Nat : k \in S
<1> SUFFICES ASSUME NEW k \in Nat, k \notin S PROVE FALSE
  OBVIOUS
<1> DEFINE T == Nat \ S
<1>1. PICK m \in T : \A y \in T : ~ (<<y, m>> \in OpToRel(<, Nat))
  <2>1. T # {} /\ T \subseteq Nat
    OBVIOUS
  <2> QED
    BY <2>1, WFMin, NatLessThanWellFounded
<1>2. m \in Nat /\ m # 0
  OBVIOUS
<1>3. m - 1 \in Nat /\ m - 1 < m /\ (m - 1) + 1 = m
  BY <1>2
<1>4. m - 1 \in S
  BY <1>1, <1>3 DEF OpToRel
<1> QED
  BY <1>3, <1>4

LEMMA MaxOfSegment ==
    ASSUME NEW k \in Nat, NEW s \in SUBSET (1..(k + 1)), k + 1 \in s
    PROVE  Max(s) = k + 1
<1>1. \A y \in s : k + 1 >= y
  OBVIOUS
<1>2. \A x \in s : (\A y \in s : x >= y) => x = k + 1
  OBVIOUS
<1> QED
  BY <1>1, <1>2 DEF Max

(* The fold over the last element of a set of positions.                    *)
IsFold(f, env, base, seq, k) ==
    f = [s \in SUBSET (1..k) |->
            IF s = {} THEN base ELSE op(env, f[s \ {Max(s)}], seq[Max(s)])]

LEMMA FoldExists ==
    ASSUME NEW env, NEW base, NEW seq
    PROVE  \A k \in Nat : \E f : IsFold(f, env, base, seq, k)
<1> DEFINE S == {k \in Nat : \E f : IsFold(f, env, base, seq, k)}
<1>1. 0 \in S
  <2> DEFINE f == [s \in {{}} |-> base]
  <2>1. SUBSET (1..0) = {{}}
    OBVIOUS
  <2>2. IsFold(f, env, base, seq, 0)
    BY <2>1 DEF IsFold
  <2> QED
    BY <2>2
<1>2. ASSUME NEW k \in Nat, k \in S PROVE k + 1 \in S
  <2>1. PICK f : IsFold(f, env, base, seq, k)
    BY <1>2
  <2> DEFINE g == [s \in SUBSET (1..(k + 1)) |->
                      IF k + 1 \in s THEN op(env, f[s \ {k + 1}], seq[k + 1]) ELSE f[s]]
  <2>2. ASSUME NEW s \in SUBSET (1..(k + 1))
        PROVE  g[s] = IF s = {} THEN base ELSE op(env, g[s \ {Max(s)}], seq[Max(s)])
    <3>1. CASE k + 1 \in s
      <4>1. Max(s) = k + 1
        BY <3>1, MaxOfSegment
      <4>2. s \ {k + 1} \in SUBSET (1..(k + 1)) /\ k + 1 \notin s \ {k + 1}
        OBVIOUS
      <4>3. g[s \ {k + 1}] = f[s \ {k + 1}]
        BY <4>2
      <4> QED
        BY <3>1, <4>1, <4>3
    <3>2. CASE k + 1 \notin s
      <4>1. s \in SUBSET (1..k)
        BY <3>2
      <4>2. f[s] = IF s = {} THEN base ELSE op(env, f[s \ {Max(s)}], seq[Max(s)])
        BY <2>1, <4>1 DEF IsFold
      <4>3. s \ {Max(s)} \in SUBSET (1..(k + 1)) /\ k + 1 \notin s \ {Max(s)}
        BY <3>2
      <4>4. g[s] = f[s] /\ g[s \ {Max(s)}] = f[s \ {Max(s)}]
        BY <3>2, <4>3
      <4> QED
        BY <4>2, <4>4
    <3> QED
      BY <3>1, <3>2
  <2>3. IsFold(g, env, base, seq, k + 1)
    <3> HIDE DEF g
    <3>1. g = [s \in SUBSET (1..(k + 1)) |-> g[s]]
      BY DEF g
    <3> QED
      BY <2>2, <3>1 DEF IsFold
  <2>4. k + 1 \in Nat
    OBVIOUS
  <2> QED
    BY <2>3, <2>4
<1> HIDE DEF S
<1>3. \A k \in Nat : k \in S
  BY <1>1, <1>2, InductionOnSet
<1> QED
  BY <1>3 DEF S

(* The results for the beginnings of a sequence.                            *)
IsRun(g, env, base, seq, n) ==
    /\ g = [k \in 0..n |-> g[k]]
    /\ g[0] = base
    /\ \A k \in 1..n : g[k] = op(env, g[k - 1], seq[k])

HasRun(env, base, seq, n) ==
    \E g : IsRun(g, env, base, seq, n) /\ Fold(env, base, seq) = g[n]

HasLength(seq, n) == n \in Nat /\ DOMAIN seq = 1..n

(* FoldLeft takes the elements of a sequence in their order.                *)
LEMMA FoldLeftRun ==
    ASSUME NEW env, NEW base, NEW seq, NEW n, HasLength(seq, n)
    PROVE  HasRun(env, base, seq, n)
<1>0. n \in Nat /\ DOMAIN seq = 1..n
  BY DEF HasLength
<1> DEFINE P(f) == IsFold(f, env, base, seq, n)
           f == CHOOSE h : P(h)
           g == [k \in 0..n |-> f[1..k]]
<1>1. IsFold(f, env, base, seq, n)
  BY <1>0, FoldExists
<1>2. Fold(env, base, seq) = f[1..n]
  BY <1>0 DEF Fold, FoldLeft, MapThenFoldSet, IsFold
<1> HIDE DEF f
<1>3. ASSUME NEW k \in 1..n PROVE g[k] = op(env, g[k - 1], seq[k])
  <2>1. k - 1 \in Nat /\ (k - 1) + 1 = k /\ k - 1 \in 0..n /\ k \in 0..n
    BY <1>0
  <2>2. 1..k \in SUBSET (1..((k - 1) + 1)) /\ (k - 1) + 1 \in 1..k
    BY <2>1
  <2>3. Max(1..k) = k
    BY <2>1, <2>2, MaxOfSegment
  <2>4. (1..k) \ {k} = 1..(k - 1) /\ 1..k # {} /\ 1..k \in SUBSET (1..n)
    BY <1>0
  <2>5. f[1..k] = op(env, f[(1..k) \ {Max(1..k)}], seq[Max(1..k)])
    BY <1>1, <2>4 DEF IsFold
  <2> QED
    BY <2>1, <2>3, <2>4, <2>5
<1>4. g[0] = base
  <2>1. 1..0 = {} /\ {} \in SUBSET (1..n) /\ 0 \in 0..n
    BY <1>0
  <2>2. f[{}] = base
    BY <1>1, <2>1 DEF IsFold
  <2> QED
    BY <2>1, <2>2
<1>5. g[n] = f[1..n]
  BY <1>0
<1>6. g = [k \in 0..n |-> g[k]]
  OBVIOUS
<1> HIDE DEF g
<1>7. IsRun(g, env, base, seq, n)
  BY <1>3, <1>4, <1>6 DEF IsRun
<1> QED
  BY <1>2, <1>5, <1>7 DEF HasRun

(* An invariant of the operator is one of the fold.                         *)
LEMMA FoldKeeps ==
    ASSUME NEW env, NEW base, inv(env, base), NEW E, NEW seq \in Seq(E),
           \A i \in 1..Len(seq) : \A s : inv(env, s) => inv(env, op(env, s, seq[i]))
    PROVE  inv(env, Fold(env, base, seq))
<1>1. Len(seq) \in Nat /\ DOMAIN seq = 1..Len(seq)
  OBVIOUS
<1>2. PICK g : IsRun(g, env, base, seq, Len(seq)) /\ Fold(env, base, seq) = g[Len(seq)]
  <2>1. HasLength(seq, Len(seq))
    BY <1>1 DEF HasLength
  <2>2. HasRun(env, base, seq, Len(seq))
    BY <2>1, FoldLeftRun
  <2> QED
    BY <2>2 DEF HasRun
<1> DEFINE I == {k \in Nat : k <= Len(seq) => inv(env, g[k])}
<1>3. 0 \in I
  BY <1>2 DEF IsRun
<1>4. ASSUME NEW k \in Nat, k \in I PROVE k + 1 \in I
  <2>1. ASSUME k + 1 <= Len(seq) PROVE inv(env, g[k + 1])
    <3>1. k + 1 \in 1..Len(seq) /\ (k + 1) - 1 = k /\ inv(env, g[k])
      BY <1>1, <1>4, <2>1
    <3>2. g[k + 1] = op(env, g[k], seq[k + 1])
      BY <1>2, <3>1 DEF IsRun
    <3> QED
      BY <3>1, <3>2
  <2> QED
    BY <2>1
<1> HIDE DEF I
<1>5. \A k \in Nat : k \in I
  BY <1>3, <1>4, InductionOnSet
<1> QED
  BY <1>1, <1>2, <1>5 DEF I

(* So is a relation between two folds over sequences of the same length.    *)
LEMMA FoldsRelated ==
    ASSUME NEW env, NEW env2, NEW a, NEW b, NEW R, <<a, b>> \in R,
           NEW E, NEW s \in Seq(E), NEW t \in Seq(E), Len(t) = Len(s),
           \A i \in 1..Len(s) : \A x, y :
               <<x, y>> \in R => <<op(env, x, s[i]), op(env2, y, t[i])>> \in R
    PROVE  <<Fold(env, a, s), Fold(env2, b, t)>> \in R
<1>1. Len(s) \in Nat /\ DOMAIN s = 1..Len(s) /\ DOMAIN t = 1..Len(s)
  OBVIOUS
<1>2. PICK g : IsRun(g, env, a, s, Len(s)) /\ Fold(env, a, s) = g[Len(s)]
  <2>1. HasLength(s, Len(s))
    BY <1>1 DEF HasLength
  <2>2. HasRun(env, a, s, Len(s))
    BY <2>1, FoldLeftRun
  <2> QED
    BY <2>2 DEF HasRun
<1>3. PICK h : IsRun(h, env2, b, t, Len(s)) /\ Fold(env2, b, t) = h[Len(s)]
  <2>1. HasLength(t, Len(s))
    BY <1>1 DEF HasLength
  <2>2. HasRun(env2, b, t, Len(s))
    BY <2>1, FoldLeftRun
  <2> QED
    BY <2>2 DEF HasRun
<1> DEFINE I == {k \in Nat : k <= Len(s) => <<g[k], h[k]>> \in R}
<1>4. 0 \in I
  BY <1>2, <1>3 DEF IsRun
<1>5. ASSUME NEW k \in Nat, k \in I PROVE k + 1 \in I
  <2>1. ASSUME k + 1 <= Len(s) PROVE <<g[k + 1], h[k + 1]>> \in R
    <3>1. k + 1 \in 1..Len(s) /\ (k + 1) - 1 = k /\ <<g[k], h[k]>> \in R
      BY <1>1, <1>5, <2>1
    <3>2. /\ g[k + 1] = op(env, g[k], s[k + 1])
          /\ h[k + 1] = op(env2, h[k], t[k + 1])
      BY <1>2, <1>3, <3>1 DEF IsRun
    <3> QED
      BY <3>1, <3>2
  <2> QED
    BY <2>1
<1> HIDE DEF I
<1>6. \A k \in Nat : k \in I
  BY <1>4, <1>5, InductionOnSet
<1> QED
  BY <1>1, <1>2, <1>3, <1>6 DEF I

IsPartOf(t, seq, m, n) == \A k \in 1..n : t[k] = seq[m + k]

GoesOn(g, env, seq, m, n) ==
    \A k \in (m + 1)..(m + n) : g[k] = op(env, g[k - 1], seq[k])

(* h takes the elements of t as g takes those of seq after m.               *)
Continues(h, g, env, seq, t, m, n) ==
    IsPartOf(t, seq, m, n) /\ IsRun(h, env, g[m], t, n) /\ GoesOn(g, env, seq, m, n)

(* Two runs over the same elements are the same.                            *)
LEMMA RunsAgree ==
    ASSUME NEW env, NEW seq, NEW t, NEW n, NEW m, n \in Nat, m \in Nat,
           NEW g, NEW h, Continues(h, g, env, seq, t, m, n)
    PROVE  h[n] = g[m + n]
<1> DEFINE I == {k \in Nat : k <= n => h[k] = g[m + k]}
<1>1. 0 \in I
  BY DEF IsRun, Continues
<1>2. ASSUME NEW k \in Nat, k \in I PROVE k + 1 \in I
  <2>1. ASSUME k + 1 <= n PROVE h[k + 1] = g[m + (k + 1)]
    <3>1. /\ k + 1 \in 1..n /\ (k + 1) - 1 = k /\ h[k] = g[m + k]
          /\ m + (k + 1) \in (m + 1)..(m + n) /\ (m + (k + 1)) - 1 = m + k
      BY <1>2, <2>1
    <3>2. h[k + 1] = op(env, h[k], t[k + 1])
      BY <3>1 DEF IsRun, Continues
    <3>3. g[m + (k + 1)] = op(env, g[m + k], seq[m + (k + 1)])
      BY <3>1 DEF GoesOn, Continues
    <3>4. t[k + 1] = seq[m + (k + 1)]
      BY <3>1 DEF IsPartOf, Continues
    <3> QED
      BY <3>1, <3>2, <3>3, <3>4
  <2> QED
    BY <2>1
<1> HIDE DEF I
<1>3. n \in I
  BY <1>1, <1>2, InductionOnSet
<1> QED
  BY <1>3 DEF I

LEMMA FoldNone ==
    ASSUME NEW env, NEW base
    PROVE  Fold(env, base, << >>) = base
<1>1. DOMAIN << >> = 1..0 /\ 0 \in Nat
  OBVIOUS
<1>2. PICK g : IsRun(g, env, base, << >>, 0) /\ Fold(env, base, << >>) = g[0]
  <2>1. HasLength(<< >>, 0)
    BY <1>1 DEF HasLength
  <2>2. HasRun(env, base, << >>, 0)
    BY <2>1, FoldLeftRun
  <2> QED
    BY <2>2 DEF HasRun
<1> QED
  BY <1>2 DEF IsRun

LEMMA FoldOne ==
    ASSUME NEW env, NEW base, NEW e
    PROVE  Fold(env, base, <<e>>) = op(env, base, e)
<1>1. DOMAIN <<e>> = 1..1 /\ 1 \in Nat
  OBVIOUS
<1>2. PICK g : IsRun(g, env, base, <<e>>, 1) /\ Fold(env, base, <<e>>) = g[1]
  <2>1. HasLength(<<e>>, 1)
    BY <1>1 DEF HasLength
  <2>2. HasRun(env, base, <<e>>, 1)
    BY <2>1, FoldLeftRun
  <2> QED
    BY <2>2 DEF HasRun
<1>3. 1 \in 1..1 /\ 1 - 1 = 0
  OBVIOUS
<1> QED
  BY <1>2, <1>3 DEF IsRun

(* A fold over two sequences is one over the second after one over the      *)
(* first.                                                                   *)
LEMMA FoldBoth ==
    ASSUME NEW env, NEW base, NEW E, NEW s \in Seq(E), NEW t \in Seq(E)
    PROVE  Fold(env, base, s \o t) = Fold(env, Fold(env, base, s), t)
<1> DEFINE m == Len(s)
           n == Len(t)
           st == s \o t
<1>1. /\ m \in Nat /\ n \in Nat /\ m + n \in Nat
      /\ DOMAIN s = 1..m /\ DOMAIN t = 1..n /\ DOMAIN st = 1..(m + n)
      /\ \A k \in 1..m : st[k] = s[k]
      /\ \A k \in 1..n : st[m + k] = t[k]
  OBVIOUS
<1> HIDE DEF m, n, st
<1>2. PICK g : IsRun(g, env, base, st, m + n) /\ Fold(env, base, st) = g[m + n]
  <2>1. HasLength(st, m + n)
    BY <1>1 DEF HasLength
  <2>2. HasRun(env, base, st, m + n)
    BY <2>1, FoldLeftRun
  <2> QED
    BY <2>2 DEF HasRun
<1>3. PICK f : IsRun(f, env, base, s, m) /\ Fold(env, base, s) = f[m]
  <2>1. HasLength(s, m)
    BY <1>1 DEF HasLength
  <2>2. HasRun(env, base, s, m)
    BY <2>1, FoldLeftRun
  <2> QED
    BY <2>2 DEF HasRun
<1>4. PICK h : IsRun(h, env, f[m], t, n) /\ Fold(env, f[m], t) = h[n]
  <2>1. HasLength(t, n)
    BY <1>1 DEF HasLength
  <2>2. HasRun(env, f[m], t, n)
    BY <2>1, FoldLeftRun
  <2> QED
    BY <2>2 DEF HasRun
<1>5. f[m] = g[m]
  <2>1. IsPartOf(s, st, 0, m)
    BY <1>1 DEF IsPartOf
  <2>2. IsRun(f, env, g[0], s, m)
    BY <1>2, <1>3 DEF IsRun
  <2>3. ASSUME NEW k \in (0 + 1)..(0 + m) PROVE g[k] = op(env, g[k - 1], st[k])
    <3>1. k \in 1..(m + n)
      BY <1>1
    <3> QED
      BY <1>2, <3>1 DEF IsRun
  <2>4. GoesOn(g, env, st, 0, m)
    BY <2>3 DEF GoesOn
  <2>5. 0 \in Nat /\ 0 + m = m
    BY <1>1
  <2>6. Continues(f, g, env, st, s, 0, m)
    BY <2>1, <2>2, <2>4 DEF Continues
  <2>7. f[m] = g[0 + m]
    BY <1>1, <2>5, <2>6, RunsAgree
  <2> QED
    BY <2>5, <2>7
<1>6. h[n] = g[m + n]
  <2>1. IsPartOf(t, st, m, n)
    BY <1>1 DEF IsPartOf
  <2>2. IsRun(h, env, g[m], t, n)
    BY <1>4, <1>5
  <2>3. ASSUME NEW k \in (m + 1)..(m + n) PROVE g[k] = op(env, g[k - 1], st[k])
    <3>1. k \in 1..(m + n)
      BY <1>1
    <3> QED
      BY <1>2, <3>1 DEF IsRun
  <2>4. GoesOn(g, env, st, m, n)
    BY <2>3 DEF GoesOn
  <2>5. Continues(h, g, env, st, t, m, n)
    BY <2>1, <2>2, <2>4 DEF Continues
  <2> QED
    BY <1>1, <2>5, RunsAgree
<1> QED
  BY <1>2, <1>3, <1>4, <1>5, <1>6 DEF st

LEMMA FoldHead ==
    ASSUME NEW env, NEW base, NEW E, NEW seq \in Seq(E), seq # << >>
    PROVE  Fold(env, base, seq) = Fold(env, op(env, base, Head(seq)), Tail(seq))
<1> DEFINE h == <<Head(seq)>>
           t == Tail(seq)
<1>1. h \in Seq(E) /\ t \in Seq(E) /\ seq = h \o t
  <2>1. h \in Seq(E) /\ t \in Seq(E) /\ Len(h) = 1 /\ h[1] = seq[1]
    OBVIOUS
  <2>2. Len(seq) \in Nat /\ Len(t) = Len(seq) - 1 /\ \A i \in 1..Len(t) : t[i] = seq[i + 1]
    OBVIOUS
  <2> HIDE DEF h, t
  <2>3. h \o t \in Seq(E) /\ Len(h \o t) = Len(h) + Len(t)
    BY <2>1, ConcatProperties
  <2>4. ASSUME NEW i \in 1..Len(seq) PROVE (h \o t)[i] = seq[i]
    <3>1. i \in 1..(Len(h) + Len(t))
      BY <2>1, <2>2
    <3>2. (h \o t)[i] = IF i <= Len(h) THEN h[i] ELSE t[i - Len(h)]
      BY <2>1, <3>1, ConcatProperties
    <3>3. CASE i <= Len(h)
      BY <2>1, <3>1, <3>2, <3>3
    <3>4. CASE ~(i <= Len(h))
      <4>1. i - 1 \in 1..Len(t) /\ (i - 1) + 1 = i
        BY <2>1, <2>2, <3>4
      <4> QED
        BY <2>1, <2>2, <3>2, <3>4, <4>1
    <3> QED
      BY <3>3, <3>4
  <2>5. Len(h \o t) = Len(seq)
    BY <2>1, <2>2, <2>3
  <2> QED
    BY <2>1, <2>3, <2>4, <2>5, SeqEqual
<1>2. Fold(env, base, h) = op(env, base, Head(seq))
  BY FoldOne
<1> HIDE DEF h, t
<1>3. Fold(env, base, h \o t) = Fold(env, Fold(env, base, h), t)
  BY <1>1, FoldBoth
<1> QED
  BY <1>1, <1>2, <1>3 DEF t

(* FlattenSeq puts the sequences one after the other: the results for the   *)
(* beginnings.                                                              *)
IsFlatten(f, seqs, n) ==
    f = [i \in 1..n |-> IF i = 1 THEN seqs[i] ELSE f[i - 1] \o seqs[i]]

LEMMA FlattenExists ==
    ASSUME NEW seqs
    PROVE  \A n \in Nat : \E f : IsFlatten(f, seqs, n)
<1> DEFINE S == {n \in Nat : \E f : IsFlatten(f, seqs, n)}
<1>1. 0 \in S
  <2> DEFINE f == [i \in 1..0 |-> seqs[i]]
  <2>1. IsFlatten(f, seqs, 0)
    BY DEF IsFlatten
  <2> QED
    BY <2>1
<1>2. ASSUME NEW n \in Nat, n \in S PROVE n + 1 \in S
  <2>1. PICK f : IsFlatten(f, seqs, n)
    BY <1>2
  <2> DEFINE g == [i \in 1..(n + 1) |->
                      IF i # n + 1 THEN f[i] ELSE IF i = 1 THEN seqs[i] ELSE f[i - 1] \o seqs[i]]
  <2>2. ASSUME NEW i \in 1..(n + 1)
        PROVE  g[i] = IF i = 1 THEN seqs[i] ELSE g[i - 1] \o seqs[i]
    <3>1. CASE i = 1 /\ i = n + 1
      BY <3>1
    <3>2. CASE i = 1 /\ i # n + 1
      <4>1. i \in 1..n
        BY <3>2
      <4>2. f[i] = seqs[i]
        BY <2>1, <3>2, <4>1 DEF IsFlatten
      <4> QED
        BY <3>2, <4>2
    <3>3. CASE i # 1
      <4>1. i - 1 \in 1..n /\ i - 1 \in 1..(n + 1) /\ i - 1 # n + 1
        BY <3>3
      <4>2. g[i - 1] = f[i - 1]
        BY <4>1
      <4>3. CASE i = n + 1
        BY <3>3, <4>2, <4>3
      <4>4. CASE i # n + 1
        <5>1. i \in 1..n
          BY <4>4
        <5>2. f[i] = f[i - 1] \o seqs[i]
          BY <2>1, <3>3, <5>1 DEF IsFlatten
        <5> QED
          BY <3>3, <4>2, <4>4, <5>2
      <4> QED
        BY <4>3, <4>4
    <3> QED
      BY <3>1, <3>2, <3>3
  <2>3. IsFlatten(g, seqs, n + 1)
    <3>1. g = [i \in 1..(n + 1) |-> g[i]]
      OBVIOUS
    <3> HIDE DEF g
    <3> QED
      BY <2>2, <3>1 DEF IsFlatten
  <2>4. n + 1 \in Nat
    OBVIOUS
  <2> HIDE DEF g
  <2> QED
    BY <2>3, <2>4
<1> HIDE DEF S
<1>3. \A n \in Nat : n \in S
  BY <1>1, <1>2, InductionOnSet
<1> QED
  BY <1>3 DEF S
=============================================================================

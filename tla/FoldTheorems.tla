---------------------------- MODULE FoldTheorems ----------------------------
(***************************************************************************)
(* What the recursive operators of the community modules compute, one step *)
(* at a time: FoldLeft for any operator Op, FlattenSeq, and Min and Max.   *)
(* A module that folds with an operator of its own instantiates this one   *)
(* with that operator for Op, and cites the lemmas under the instance's  *)
(* name. Induction is the principle of the least element, which            *)
(* WellFoundedInduction states for sets.                                   *)
(***************************************************************************)
EXTENDS Integers, Sequences, SequencesExt, FiniteSetsExt, SequenceTheorems,
        WellFoundedInduction, TLAPS

CONSTANT Op(_, _)

\* A set of naturals with 0 in it that is closed under successors has all of
\* them.
LEMMA Induction ==
  ASSUME NEW S, 0 \in S, \A n \in Nat : n \in S => n + 1 \in S
  PROVE  \A n \in Nat : n \in S
<1> DEFINE R == OpToRel(<, Nat)
           T == Nat \ S
<1> SUFFICES ASSUME T # {} PROVE FALSE
  OBVIOUS
<1>1. IsWellFoundedOn(R, Nat)
  BY NatLessThanWellFounded
<1>2. PICK m \in T : \A y \in T : ~(<<y, m>> \in R)
  <2> HIDE DEF R, T
  <2>1. T \subseteq Nat
    BY DEF T
  <2> QED BY <1>1, <2>1, WFMin
<1>3. m \in Nat /\ m # 0 /\ m - 1 \in Nat /\ m - 1 < m
  OBVIOUS
<1>4. m - 1 \in T
  BY <1>3
<1> QED BY <1>2, <1>3, <1>4 DEF OpToRel

-----------------------------------------------------------------------------
(* Least and greatest elements.                                            *)

\* Min of naturals is one of them, and below all of them.
LEMMA MinOfNaturals ==
  ASSUME NEW S \in SUBSET Nat, S # {}
  PROVE  Min(S) \in S /\ \A y \in S : Min(S) <= y
<1>1. PICK m \in S : \A y \in S : ~(<<y, m>> \in OpToRel(<, Nat))
  BY NatLessThanWellFounded, WFMin
<1>2. ASSUME NEW y \in S PROVE m <= y
  <2>1. y \in Nat /\ m \in Nat
    OBVIOUS
  <2>2. y < m => <<y, m>> \in OpToRel(<, Nat)
    BY <2>1 DEF OpToRel
  <2>3. ~(y < m)
    BY <1>1, <2>2
  <2> QED BY <2>1, <2>3
<1> QED BY <1>2 DEF Min

\* Max of naturals with a bound is one of them, and above all of them.
LEMMA MaxOfNaturals ==
  ASSUME NEW S \in SUBSET Nat, S # {}, NEW n \in Nat, \A y \in S : y <= n
  PROVE  Max(S) \in S /\ \A y \in S : y <= Max(S)
<1> DEFINE T == {b \in Nat : \A y \in S : y <= b}
<1>1. PICK m \in T : \A b \in T : ~(<<b, m>> \in OpToRel(<, Nat))
  <2>1. T \subseteq Nat /\ n \in T
    OBVIOUS
  <2> QED BY <2>1, NatLessThanWellFounded, WFMin
<1>2. ASSUME NEW b \in T PROVE m <= b
  <2>1. b \in Nat /\ m \in Nat
    OBVIOUS
  <2>2. b < m => <<b, m>> \in OpToRel(<, Nat)
    BY <2>1 DEF OpToRel
  <2>3. ~(b < m)
    BY <1>1, <2>2
  <2> QED BY <2>1, <2>3
<1>3. m \in S
  <2> SUFFICES ASSUME m \notin S PROVE FALSE
    OBVIOUS
  <2>1. ASSUME NEW y \in S PROVE y < m
    <3>1. y \in Nat /\ m \in Nat /\ y <= m /\ y # m
      OBVIOUS
    <3> QED BY <3>1
  <2>2. m \in Nat /\ m # 0
    <3>1. PICK y \in S : TRUE
      OBVIOUS
    <3>2. y \in Nat /\ y < m
      BY <2>1
    <3> QED BY <3>2
  <2>3. m - 1 \in T /\ m - 1 < m
    <3>1. ASSUME NEW y \in S PROVE y <= m - 1
      <4>1. y \in Nat /\ y < m
        BY <2>1
      <4> QED BY <2>2, <4>1
    <3> QED BY <2>2, <3>1
  <2>4. m <= m - 1
    BY <1>2, <2>3
  <2> QED BY <2>2, <2>4
<1> QED BY <1>3 DEF Max

-----------------------------------------------------------------------------
(* FoldLeft.                                                               *)

Fold(base, s) == FoldLeft(Op, base, s)

\* f folds s: it has the result for the elements at the positions in P.
Folds(f, base, s, D) ==
  f = [P \in SUBSET D |->
         IF P = {} THEN base ELSE LET x == Max(P) IN Op(f[P \ {x}], s[x])]

\* Fold is what such a function has for all positions.
LEMMA FoldOf ==
  ASSUME NEW base, NEW s
  PROVE  Fold(base, s) = (CHOOSE f : Folds(f, base, s, DOMAIN s))[DOMAIN s]
BY DEF Fold, FoldLeft, MapThenFoldSet, Folds

\* There is such a function, for each number of elements.
LEMMA FoldExists ==
  ASSUME NEW base, NEW s
  PROVE  \A n \in Nat : \E f : Folds(f, base, s, 1 .. n)
<1> DEFINE S == {n \in Nat : \E f : Folds(f, base, s, 1 .. n)}
<1>1. 0 \in S
  <2>1. Folds([P \in SUBSET (1 .. 0) |-> base], base, s, 1 .. 0)
    BY DEF Folds
  <2> QED BY <2>1
<1>2. ASSUME NEW n \in Nat, n \in S PROVE n + 1 \in S
  <2>1. PICK f : Folds(f, base, s, 1 .. n)
    BY <1>2
  <2> DEFINE g == [P \in SUBSET (1 .. n + 1) |->
                     IF n + 1 \in P THEN Op(f[P \ {n + 1}], s[n + 1]) ELSE f[P]]
  <2>2. ASSUME NEW P \in SUBSET (1 .. n + 1)
        PROVE  g[P] = IF P = {} THEN base ELSE LET x == Max(P) IN Op(g[P \ {x}], s[x])
    <3>1. CASE n + 1 \in P
      <4>1. Max(P) \in P /\ \A y \in P : y <= Max(P)
        <5>1. P \in SUBSET Nat /\ P # {} /\ n + 1 \in Nat /\ \A y \in P : y <= n + 1
          BY <3>1
        <5> QED BY <5>1, MaxOfNaturals
      <4>2. Max(P) = n + 1
        <5>1. Max(P) \in 1 .. n + 1 /\ n + 1 <= Max(P)
          BY <3>1, <4>1
        <5> QED BY <5>1
      <4>3. P \ {n + 1} \in SUBSET (1 .. n + 1) /\ n + 1 \notin P \ {n + 1}
        OBVIOUS
      <4>4. g[P \ {n + 1}] = f[P \ {n + 1}]
        BY <4>3
      <4> QED BY <3>1, <4>2, <4>4
    <3>2. CASE n + 1 \notin P /\ P # {}
      <4>1. P \in SUBSET (1 .. n)
        BY <3>2
      <4>2. Max(P) \in P
        <5>1. P \in SUBSET Nat /\ P # {} /\ n + 1 \in Nat /\ \A y \in P : y <= n + 1
          BY <3>2
        <5> QED BY <5>1, MaxOfNaturals
      <4>3. P \ {Max(P)} \in SUBSET (1 .. n + 1) /\ n + 1 \notin P \ {Max(P)}
        BY <3>2
      <4>4. g[P \ {Max(P)}] = f[P \ {Max(P)}]
        BY <4>3
      <4>5. f[P] = Op(f[P \ {Max(P)}], s[Max(P)])
        BY <2>1, <3>2, <4>1 DEF Folds
      <4> QED BY <3>2, <4>4, <4>5
    <3>3. CASE P = {}
      BY <2>1, <3>3 DEF Folds
    <3> QED BY <3>1, <3>2, <3>3
  <2>3. Folds(g, base, s, 1 .. n + 1)
    <3> HIDE DEF g
    <3>1. g = [P \in SUBSET (1 .. n + 1) |-> g[P]]
      BY DEF g
    <3> QED BY <2>2, <3>1 DEF Folds
  <2> QED BY <2>3
<1>3. \A n \in Nat : n \in S
  <2> HIDE DEF S
  <2> QED BY <1>1, <1>2, Induction
<1> QED BY <1>3

\* Such a function takes one element after the other.
LEMMA FoldSteps ==
  ASSUME NEW base, NEW s, NEW n \in Nat, NEW f, Folds(f, base, s, 1 .. n)
  PROVE  /\ f[1 .. 0] = base
         /\ \A k \in 0 .. n - 1 : f[1 .. k + 1] = Op(f[1 .. k], s[k + 1])
<1>1. f[1 .. 0] = base
  BY DEF Folds
<1>2. ASSUME NEW k \in 0 .. n - 1
      PROVE  f[1 .. k + 1] = Op(f[1 .. k], s[k + 1])
  <2> DEFINE P == 1 .. k + 1
  <2>1. P \in SUBSET (1 .. n) /\ P \in SUBSET Nat /\ k + 1 \in P
    OBVIOUS
  <2>2. Max(P) \in P /\ \A y \in P : y <= Max(P)
    <3>1. k + 1 \in Nat /\ \A y \in P : y <= k + 1
      OBVIOUS
    <3>2. P # {}
      BY <2>1
    <3> QED BY <2>1, <3>1, <3>2, MaxOfNaturals
  <2>3. Max(P) = k + 1
    BY <2>1, <2>2
  <2>4. P \ {k + 1} = 1 .. k
    OBVIOUS
  <2> QED BY <2>1, <2>3, <2>4 DEF Folds
<1> QED BY <1>1, <1>2

\* Nothing folded is what there was before.
LEMMA FoldEmpty ==
  ASSUME NEW base
  PROVE  Fold(base, <<>>) = base
<1> DEFINE f == CHOOSE f : Folds(f, base, <<>>, DOMAIN <<>>)
<1>1. DOMAIN <<>> = 1 .. 0
  OBVIOUS
<1>2. Folds(f, base, <<>>, 1 .. 0)
  BY <1>1, FoldExists
<1>3. f[1 .. 0] = base
  BY <1>2, FoldSteps
<1> QED BY <1>1, <1>3, FoldOf

\* An element added at the end is folded last.
LEMMA FoldAppend ==
  ASSUME NEW base, NEW T, NEW s \in Seq(T), NEW e \in T
  PROVE  Fold(base, Append(s, e)) = Op(Fold(base, s), e)
<1> DEFINE t == Append(s, e)
           n == Len(s)
           f == CHOOSE f : Folds(f, base, s, DOMAIN s)
           g == CHOOSE g : Folds(g, base, t, DOMAIN t)
<1>1. /\ n \in Nat /\ DOMAIN s = 1 .. n /\ DOMAIN t = 1 .. n + 1
      /\ t[n + 1] = e /\ \A k \in 1 .. n : t[k] = s[k]
  OBVIOUS
<1>2. Folds(f, base, s, 1 .. n) /\ Folds(g, base, t, 1 .. n + 1)
  <2>1. n + 1 \in Nat
    BY <1>1
  <2>2. (\E h : Folds(h, base, s, 1 .. n)) /\ (\E h : Folds(h, base, t, 1 .. n + 1))
    BY <1>1, <2>1, FoldExists
  <2> QED BY <1>1, <2>2
<1> HIDE DEF f, g, t, n
<1>3. /\ f[1 .. 0] = base
      /\ \A k \in 0 .. n - 1 : f[1 .. k + 1] = Op(f[1 .. k], s[k + 1])
  BY <1>1, <1>2, FoldSteps
<1>4. /\ g[1 .. 0] = base
      /\ \A k \in 0 .. n : g[1 .. k + 1] = Op(g[1 .. k], t[k + 1])
  <2> DEFINE m == n + 1
  <2>1. m \in Nat /\ m - 1 = n /\ Folds(g, base, t, 1 .. m)
    BY <1>1, <1>2
  <2> HIDE DEF m
  <2>2. /\ g[1 .. 0] = base
        /\ \A k \in 0 .. m - 1 : g[1 .. k + 1] = Op(g[1 .. k], t[k + 1])
    BY SMTT(30), <2>1, FoldSteps
  <2> QED BY <2>1, <2>2
<1>5. f[1 .. n] = g[1 .. n]
  <2> DEFINE S == {k \in Nat : k <= n => f[1 .. k] = g[1 .. k]}
  <2>1. 0 \in S
    BY <1>3, <1>4
  <2>2. ASSUME NEW k \in Nat, k \in S PROVE k + 1 \in S
    <3> SUFFICES ASSUME k + 1 <= n PROVE f[1 .. k + 1] = g[1 .. k + 1]
      OBVIOUS
    <3>1. k \in 0 .. n - 1 /\ k \in 0 .. n /\ k + 1 \in 1 .. n /\ k <= n
      BY <1>1
    <3>2. f[1 .. k] = g[1 .. k] /\ t[k + 1] = s[k + 1]
      BY <2>2, <3>1, <1>1
    <3> QED BY <1>3, <1>4, <3>1, <3>2
  <2>3. \A k \in Nat : k \in S
    <3> HIDE DEF S
    <3> QED BY <2>1, <2>2, Induction
  <2> QED BY <2>3, <1>1
<1>6. g[1 .. n + 1] = Op(g[1 .. n], e)
  BY <1>1, <1>4
<1>7. Fold(base, t) = g[1 .. n + 1]
  BY FoldOf, <1>1 DEF g
<1>8. Fold(base, s) = f[1 .. n]
  BY FoldOf, <1>1 DEF f
<1> QED BY <1>5, <1>6, <1>7, <1>8 DEF t

-----------------------------------------------------------------------------
(* Induction over sequences, and what a fold preserves.                    *)

\* What holds for the empty sequence, and for a sequence with one more element
\* if it does for the sequence, holds for all of them.
LEMMA SequenceInduction ==
  ASSUME NEW T, NEW S, <<>> \in S,
         \A s \in Seq(T), e \in T : s \in S => Append(s, e) \in S
  PROVE  \A s \in Seq(T) : s \in S
<1> SUFFICES ASSUME NEW s \in Seq(T) PROVE s \in S
  OBVIOUS
<1> DEFINE K == {k \in Nat : k <= Len(s) => SubSeq(s, 1, k) \in S}
<1>1. 0 \in K
  <2>1. SubSeq(s, 1, 0) = <<>>
    OBVIOUS
  <2> QED BY <2>1
<1>2. ASSUME NEW k \in Nat, k \in K PROVE k + 1 \in K
  <2> SUFFICES ASSUME k + 1 <= Len(s) PROVE SubSeq(s, 1, k + 1) \in S
    OBVIOUS
  <2>1. k <= Len(s) /\ SubSeq(s, 1, k) \in S
    BY <1>2
  <2>2. SubSeq(s, 1, k) \in Seq(T) /\ s[k + 1] \in T
    BY <2>1
  <2>3. SubSeq(s, 1, k + 1) = Append(SubSeq(s, 1, k), s[k + 1])
    BY <2>1
  <2> QED BY <2>1, <2>2, <2>3
<1>3. \A k \in Nat : k \in K
  <2> HIDE DEF K
  <2> QED BY <1>1, <1>2, Induction
<1>4. SubSeq(s, 1, Len(s)) = s /\ Len(s) \in Nat /\ Len(s) <= Len(s)
  OBVIOUS
<1> QED BY <1>3, <1>4

\* A fold stays in a set that its base is in and Op does not leave.
LEMMA FoldKeeps ==
  ASSUME NEW S, NEW base \in S, NEW T, NEW s \in Seq(T),
         \A x \in S, e \in T : Op(x, e) \in S
  PROVE  Fold(base, s) \in S
<1> DEFINE K == {r \in Seq(T) : Fold(base, r) \in S}
<1>1. <<>> \in K
  BY FoldEmpty
<1>2. ASSUME NEW r \in Seq(T), NEW e \in T, r \in K PROVE Append(r, e) \in K
  <2>1. Fold(base, Append(r, e)) = Op(Fold(base, r), e)
    BY ONLY r \in Seq(T), e \in T, FoldAppend
  <2>2. Append(r, e) \in Seq(T)
    OBVIOUS
  <2>3. Fold(base, r) \in S
    BY <1>2
  <2> QED BY <2>1, <2>2, <2>3
<1>3. \A r \in Seq(T) : r \in K
  <2> HIDE DEF K
  <2> QED BY <1>1, <1>2, SequenceInduction
<1> QED BY <1>3

\* Two sequences are folded one after the other.
LEMMA FoldConcat ==
  ASSUME NEW base, NEW T, NEW s \in Seq(T), NEW t \in Seq(T)
  PROVE  Fold(base, s \o t) = Fold(Fold(base, s), t)
<1> DEFINE K == {r \in Seq(T) : Fold(base, s \o r) = Fold(Fold(base, s), r)}
<1>1. <<>> \in K
  <2>1. s \o <<>> = s /\ <<>> \in Seq(T)
    OBVIOUS
  <2> QED BY <2>1, FoldEmpty
<1>2. ASSUME NEW r \in Seq(T), NEW e \in T, r \in K PROVE Append(r, e) \in K
  <2>1. s \o r \in Seq(T) /\ Append(r, e) \in Seq(T)
    OBVIOUS
  <2>2. s \o Append(r, e) = Append(s \o r, e)
    OBVIOUS
  <2>3. Fold(base, Append(s \o r, e)) = Op(Fold(base, s \o r), e)
    BY ONLY <2>1, e \in T, FoldAppend
  <2>4. Fold(Fold(base, s), Append(r, e)) = Op(Fold(Fold(base, s), r), e)
    BY ONLY r \in Seq(T), e \in T, FoldAppend
  <2>5. Fold(base, s \o r) = Fold(Fold(base, s), r)
    BY <1>2
  <2> QED BY <2>1, <2>2, <2>3, <2>4, <2>5
<1>3. \A r \in Seq(T) : r \in K
  <2> HIDE DEF K
  <2> QED BY <1>1, <1>2, SequenceInduction
<1> QED BY <1>3

\* One element is folded once.
LEMMA FoldOne ==
  ASSUME NEW base, NEW e
  PROVE  Fold(base, <<e>>) = Op(base, e)
<1>1. <<>> \in Seq({e}) /\ e \in {e} /\ Append(<<>>, e) = <<e>>
  OBVIOUS
<1>2. Fold(base, Append(<<>>, e)) = Op(Fold(base, <<>>), e)
  BY ONLY <1>1, FoldAppend
<1> QED BY <1>1, <1>2, FoldEmpty

\* A fold that adds a natural for each element adds up to one: what it starts
\* from is added to the sum.
LEMMA FoldAdds ==
  ASSUME NEW T, \A x \in Nat, e \in T : Op(0, e) \in Nat /\ Op(x, e) = x + Op(0, e),
         NEW base \in Nat, NEW s \in Seq(T)
  PROVE  Fold(0, s) \in Nat /\ Fold(base, s) = base + Fold(0, s)
<1> DEFINE K == {r \in Seq(T) : Fold(0, r) \in Nat /\ Fold(base, r) = base + Fold(0, r)}
<1>1. <<>> \in K
  <2>1. <<>> \in Seq(T) /\ Fold(0, <<>>) = 0 /\ Fold(base, <<>>) = base
    BY FoldEmpty
  <2> QED BY <2>1
<1>2. ASSUME NEW r \in Seq(T), NEW e \in T, r \in K PROVE Append(r, e) \in K
  <2> DEFINE a == Fold(0, r)
             b == Fold(base, r)
             w == Op(0, e)
  <2>1. Fold(0, Append(r, e)) = Op(a, e) /\ Fold(base, Append(r, e)) = Op(b, e)
    BY ONLY r \in Seq(T), e \in T, FoldAppend
  <2>2. a \in Nat /\ b = base + a /\ Append(r, e) \in Seq(T)
    BY <1>2
  <2> HIDE DEF a, b
  <2>3. b \in Nat
    BY <2>2
  <2>4. w \in Nat /\ Op(a, e) = a + w /\ Op(b, e) = b + w
    BY <2>2, <2>3
  <2> HIDE DEF w
  <2>5. a + w \in Nat /\ b + w = base + (a + w)
    BY <2>2, <2>4
  <2> QED BY <2>1, <2>2, <2>4, <2>5
<1>3. \A r \in Seq(T) : r \in K
  <2> HIDE DEF K
  <2> QED BY <1>1, <1>2, SequenceInduction
<1> QED BY <1>3

-----------------------------------------------------------------------------
(* FlattenSeq.                                                             *)

\* f has the sequences up to each position, put together.
Flattens(f, ss, n) ==
  f = [i \in 1 .. n |-> IF i = 1 THEN ss[i] ELSE f[i - 1] \o ss[i]]

\* FlattenSeq is what such a function has at the last position.
LEMMA FlattenOf ==
  ASSUME NEW ss, Len(ss) # 0
  PROVE  FlattenSeq(ss) = (CHOOSE f : Flattens(f, ss, Len(ss)))[Len(ss)]
BY DEF FlattenSeq, Flattens

\* There is such a function, for each number of sequences.
LEMMA FlattenExists ==
  ASSUME NEW ss
  PROVE  \A n \in Nat : \E f : Flattens(f, ss, n)
<1> DEFINE S == {n \in Nat : \E f : Flattens(f, ss, n)}
<1>1. 0 \in S
  <2>1. Flattens([i \in 1 .. 0 |-> ss[i]], ss, 0)
    BY DEF Flattens
  <2> QED BY <2>1
<1>2. ASSUME NEW n \in Nat, n \in S PROVE n + 1 \in S
  <2>1. PICK f : Flattens(f, ss, n)
    BY <1>2
  <2> DEFINE g == [i \in 1 .. n + 1 |->
                     IF i = 1 THEN ss[i] ELSE IF i = n + 1 THEN f[n] \o ss[i] ELSE f[i]]
  <2>2. ASSUME NEW i \in 1 .. n + 1
        PROVE  g[i] = IF i = 1 THEN ss[i] ELSE g[i - 1] \o ss[i]
    <3>1. CASE i = 1
      BY <3>1
    <3>2. CASE i # 1
      <4>1. i - 1 \in 1 .. n /\ i - 1 \in 1 .. n + 1 /\ i - 1 # n + 1
        BY <3>2
      <4>2. g[i - 1] = f[i - 1]
        <5>1. i - 1 = 1 => f[1] = ss[1]
          BY <2>1, <4>1 DEF Flattens
        <5> QED BY <4>1, <5>1
      <4>3. i # n + 1 => f[i] = f[i - 1] \o ss[i]
        <5>1. i # n + 1 => i \in 1 .. n
          OBVIOUS
        <5> HIDE DEF g
        <5> QED BY <2>1, <3>2, <5>1 DEF Flattens
      <4>4. g[i] = f[i - 1] \o ss[i]
        <5>1. CASE i = n + 1
          <6>1. i - 1 = n
            BY <5>1
          <6> QED BY <3>2, <5>1, <6>1
        <5>2. CASE i # n + 1
          BY <3>2, <4>3, <5>2
        <5> QED BY <5>1, <5>2
      <4> HIDE DEF g
      <4> QED BY <3>2, <4>2, <4>4
    <3> QED BY <3>1, <3>2
  <2>3. Flattens(g, ss, n + 1)
    <3>1. g = [i \in 1 .. n + 1 |-> g[i]]
      OBVIOUS
    <3> HIDE DEF g
    <3> QED BY <2>2, <3>1 DEF Flattens
  <2> QED BY <2>3
<1>3. \A n \in Nat : n \in S
  <2> HIDE DEF S
  <2> QED BY <1>1, <1>2, Induction
<1> QED BY <1>3

\* Nothing put together is nothing.
LEMMA FlattenEmpty == FlattenSeq(<<>>) = <<>>
BY DEF FlattenSeq

\* A sequence added at the end comes at the end of what is put together.
LEMMA FlattenAppend ==
  ASSUME NEW T, NEW ss \in Seq(Seq(T)), NEW t \in Seq(T)
  PROVE  FlattenSeq(Append(ss, t)) = FlattenSeq(ss) \o t
<1> DEFINE tt == Append(ss, t)
           n == Len(ss)
           f == CHOOSE f : Flattens(f, ss, n)
           g == CHOOSE g : Flattens(g, tt, n + 1)
<1>1. /\ n \in Nat /\ n + 1 \in Nat /\ Len(tt) = n + 1 /\ n + 1 # 0
      /\ tt[n + 1] = t /\ \A k \in 1 .. n : tt[k] = ss[k]
  OBVIOUS
<1>2. Flattens(f, ss, n) /\ Flattens(g, tt, n + 1)
  <2>1. (\E h : Flattens(h, ss, n)) /\ (\E h : Flattens(h, tt, n + 1))
    BY <1>1, FlattenExists
  <2> QED BY <2>1
<1>3. FlattenSeq(tt) = g[n + 1]
  BY <1>1, FlattenOf
<1>4. n # 0 => FlattenSeq(ss) = f[n]
  BY FlattenOf
<1>5. n = 0 => FlattenSeq(ss) = <<>> /\ ss = <<>>
  BY FlattenEmpty
<1> HIDE DEF f, g, tt, n
<1>6. \A k \in 1 .. n : f[k] = g[k]
  <2> DEFINE S == {k \in Nat : k + 1 \in 1 .. n => f[k + 1] = g[k + 1]}
  <2>1. 0 \in S
    <3>1. 1 \in 1 .. n => f[1] = ss[1] /\ g[1] = tt[1]
      BY <1>1, <1>2 DEF Flattens
    <3> QED BY <3>1, <1>1
  <2>2. ASSUME NEW k \in Nat, k \in S PROVE k + 1 \in S
    <3> SUFFICES ASSUME (k + 1) + 1 \in 1 .. n PROVE f[(k + 1) + 1] = g[(k + 1) + 1]
      OBVIOUS
    <3> DEFINE j == k + 1
    <3>1. j \in 1 .. n /\ j + 1 \in 1 .. n /\ j + 1 \in 1 .. n + 1 /\ j + 1 # 1 /\ (j + 1) - 1 = j
      BY <1>1
    <3>2. f[j] = g[j]
      BY <2>2, <3>1
    <3> HIDE DEF j
    <3>3. f[j + 1] = f[j] \o ss[j + 1] /\ g[j + 1] = g[j] \o tt[j + 1]
      BY <1>2, <3>1 DEF Flattens
    <3>4. f[j + 1] = g[j + 1]
      BY <1>1, <3>1, <3>2, <3>3
    <3> QED BY <3>4 DEF j
  <2>3. \A k \in Nat : k \in S
    <3> HIDE DEF S
    <3> QED BY <2>1, <2>2, Induction
  <2>4. ASSUME NEW k \in 1 .. n PROVE f[k] = g[k]
    <3>1. k - 1 \in Nat /\ (k - 1) + 1 = k
      BY <1>1
    <3> QED BY <2>3, <3>1
  <2> QED BY <2>4
<1>7. CASE n = 0
  <2>1. g[n + 1] = t
    BY <1>1, <1>2, <1>7 DEF Flattens
  <2>2. <<>> \o t = t
    OBVIOUS
  <2> QED BY <1>3, <1>5, <1>7, <2>1, <2>2 DEF tt
<1>8. CASE n # 0
  <2>1. n \in 1 .. n /\ n + 1 \in 1 .. n + 1 /\ n + 1 # 1 /\ (n + 1) - 1 = n
    BY <1>1, <1>8
  <2>2. g[n + 1] = g[n] \o tt[n + 1]
    BY <1>2, <2>1 DEF Flattens
  <2> QED BY <1>1, <1>3, <1>4, <1>6, <1>8, <2>1, <2>2 DEF tt
<1> QED BY <1>7, <1>8

\* What is put together has the elements' type.
LEMMA FlattenType ==
  ASSUME NEW T, NEW ss \in Seq(Seq(T))
  PROVE  FlattenSeq(ss) \in Seq(T)
<1> DEFINE K == {r \in Seq(Seq(T)) : FlattenSeq(r) \in Seq(T)}
<1>1. <<>> \in K
  <2>1. <<>> \in Seq(T) /\ <<>> \in Seq(Seq(T))
    OBVIOUS
  <2> QED BY <2>1, FlattenEmpty
<1>2. ASSUME NEW r \in Seq(Seq(T)), NEW t \in Seq(T), r \in K PROVE Append(r, t) \in K
  <2>1. FlattenSeq(Append(r, t)) = FlattenSeq(r) \o t
    BY FlattenAppend
  <2>2. Append(r, t) \in Seq(Seq(T)) /\ FlattenSeq(r) \in Seq(T)
    BY <1>2
  <2>3. FlattenSeq(r) \o t \in Seq(T)
    BY <2>2
  <2>4. FlattenSeq(Append(r, t)) \in Seq(T)
    BY <2>1, <2>3
  <2> QED BY <2>2, <2>4
<1>3. \A r \in Seq(Seq(T)) : r \in K
  <2> HIDE DEF K
  <2> QED BY <1>1, <1>2, SequenceInduction
<1> QED BY <1>3

\* One sequence is put together as it is.
LEMMA FlattenOne ==
  ASSUME NEW T, NEW t \in Seq(T)
  PROVE  FlattenSeq(<<t>>) = t
<1>1. <<>> \in Seq(Seq(T)) /\ Append(<<>>, t) = <<t>> /\ <<>> \o t = t
  OBVIOUS
<1>2. FlattenSeq(Append(<<>>, t)) = FlattenSeq(<<>>) \o t
  BY ONLY <1>1, t \in Seq(T), FlattenAppend
<1> QED BY <1>1, <1>2, FlattenEmpty

\* What two lists of sequences make is put together in the same order.
LEMMA FlattenConcat ==
  ASSUME NEW T, NEW ss \in Seq(Seq(T)), NEW tt \in Seq(Seq(T))
  PROVE  FlattenSeq(ss \o tt) = FlattenSeq(ss) \o FlattenSeq(tt)
<1> DEFINE K == {r \in Seq(Seq(T)) : FlattenSeq(ss \o r) = FlattenSeq(ss) \o FlattenSeq(r)}
<1>1. <<>> \in K
  <2>1. ss \o <<>> = ss /\ <<>> \in Seq(Seq(T))
    OBVIOUS
  <2>2. FlattenSeq(ss) \o <<>> = FlattenSeq(ss)
    BY FlattenType
  <2> QED BY <2>1, <2>2, FlattenEmpty
<1>2. ASSUME NEW r \in Seq(Seq(T)), NEW t \in Seq(T), r \in K PROVE Append(r, t) \in K
  <2> DEFINE a == FlattenSeq(ss)
             b == FlattenSeq(r)
  <2>1. ss \o r \in Seq(Seq(T)) /\ Append(r, t) \in Seq(Seq(T))
    OBVIOUS
  <2>2. ss \o Append(r, t) = Append(ss \o r, t)
    OBVIOUS
  <2>3. FlattenSeq(Append(ss \o r, t)) = FlattenSeq(ss \o r) \o t
    BY ONLY <2>1, t \in Seq(T), FlattenAppend
  <2>4. FlattenSeq(Append(r, t)) = b \o t
    BY ONLY r \in Seq(Seq(T)), t \in Seq(T), FlattenAppend
  <2>5. FlattenSeq(ss \o r) = a \o b
    BY <1>2
  <2>6. a \in Seq(T) /\ b \in Seq(T)
    BY FlattenType
  <2> HIDE DEF a, b
  <2>7. (a \o b) \o t = a \o (b \o t)
    BY <2>6, ConcatAssociative
  <2> QED BY <2>1, <2>2, <2>3, <2>4, <2>5, <2>7 DEF a
<1>3. \A r \in Seq(Seq(T)) : r \in K
  <2> HIDE DEF K
  <2> QED BY <1>1, <1>2, SequenceInduction
<1> QED BY <1>3
=============================================================================
